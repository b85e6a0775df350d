-------------------------- MODULE OnlineRoom_proofs --------------------------
(***************************************************************************)
(* Proofs about OnlineRoom: for any identifiers, names, seat counts and    *)
(* times, the types are kept, human seats stay bound to the participants   *)
(* who sit in them, and an open or playing room has a host who is there.   *)
(* The argument is by room: every edit the service makes to a room keeps   *)
(* RoomInv (the Edit lemmas), and every action edits one room of a swept   *)
(* table.                                                                  *)
(***************************************************************************)
EXTENDS OnlineRoom, TLAPS


-----------------------------------------------------------------------------
(* Seats *)

(* Changing seats of a room in place keeps the type of its seats. *)
LEMMA SeatsEdit ==
  ASSUME NEW seats \in SeatsType, NEW changed \in [DOMAIN seats -> SeatType]
  PROVE  changed \in SeatsType
<1>1. PICK n \in SeatCounts \cup {0, BrawlSeats} : seats \in [0..(n - 1) -> SeatType]
  BY DEF SeatsType
<1>2. DOMAIN seats = 0..(n - 1)
  BY <1>1
<1> QED
  BY <1>1, <1>2 DEF SeatsType

(* Seat indices are natural numbers, and the seats are seats. *)
LEMMA SeatsShape ==
  ASSUME NEW seats \in SeatsType
  PROVE  DOMAIN seats \subseteq Nat /\ seats \in [DOMAIN seats -> SeatType]
<1>1. PICK n \in SeatCounts \cup {0, BrawlSeats} : seats \in [0..(n - 1) -> SeatType]
  BY DEF SeatsType
<1>2. n \in Nat
  BY SeatsAssumption
<1> QED
  BY <1>1, <1>2

(* The three kinds of seat are seats. *)
LEMMA SeatKinds ==
  ASSUME NEW p \in Participants, NEW k \in CpuNames
  PROVE  OpenSeat \in SeatType /\ HumanSeat(p) \in SeatType /\ CpuSeat(k) \in SeatType
BY DEF OpenSeat, HumanSeat, CpuSeat, SeatType

-----------------------------------------------------------------------------
(* Edits of a room *)

(* An absent room satisfies the invariant. *)
LEMMA AbsentInv == RoomInv(AbsentRoom)
<1>1. AbsentRoom.seats \in SeatsType
  BY DEF AbsentRoom, SeatsType
<1>2. AbsentRoom.people \in [Participants -> PersonType]
  BY DEF AbsentRoom, Nobody, PersonType
<1>3. AbsentRoom \in RoomType
  BY <1>1, <1>2 DEF AbsentRoom, RoomType, NoTimer
<1>4. SeatsBound(AbsentRoom)
  BY DEF AbsentRoom, SeatsBound, SeatIndices
<1> QED
  BY <1>3, <1>4 DEF RoomInv, HostPresent, Known, AbsentRoom, Nobody

(* Expiring a room keeps the invariant. *)
LEMMA ExpireInv ==
  ASSUME NEW rm, RoomInv(rm), rm.status = "OPEN"
  PROVE  RoomInv(Expire(rm))
<1>1. Expire(rm) \in RoomType
  BY TimesAssumption DEF Expire, RoomInv, RoomType
<1>2. SeatsBound(Expire(rm))
  BY DEF Expire, RoomInv, RoomType, SeatsBound, SeatIndices, HumanSeats, Active
<1> QED
  BY <1>1, <1>2 DEF Expire, RoomInv, RoomType, HostPresent, Known

(* Handing a room to one of its participants keeps the invariant. *)
LEMMA SuccessionInv ==
  ASSUME NEW rm, RoomInv(rm), rm.status = "OPEN",
         NEW heirs \in SUBSET Active(rm), NEW next \in Succession(rm, heirs)
  PROVE  RoomInv(next) /\ next.status \in {"OPEN", "EXPIRED"}
<1>1. CASE heirs = {}
  <2>1. next = Expire(rm)
    BY <1>1 DEF Succession
  <2>2. next.status = "EXPIRED"
    BY <2>1 DEF Expire, RoomInv, RoomType
  <2> QED
    BY <2>1, <2>2, ExpireInv
<1>2. CASE heirs # {}
  <2>1. PICK p \in heirs : next = [rm EXCEPT !.host = p, !.hostGone = NoTimer]
    BY <1>2 DEF Succession
  <2>2. next \in RoomType
    BY <2>1 DEF RoomInv, RoomType, NoTimer, Active
  <2>3. SeatsBound(next)
    BY <2>1 DEF RoomInv, RoomType, SeatsBound, SeatIndices, HumanSeats, Active
  <2> QED
    BY <2>1, <2>2, <2>3 DEF RoomInv, RoomType, HostPresent, Known, Active
<1> QED
  BY <1>1, <1>2

(* A sweep keeps the invariant of every room. *)
LEMMA SweepInv ==
  ASSUME NEW rm, RoomInv(rm), NEW next \in SweepRoom(rm)
  PROVE  RoomInv(next)
<1>1. CASE next = rm \/ next = AbsentRoom
  BY <1>1, AbsentInv
<1>2. CASE rm.status = "OPEN" /\ next = Expire(rm)
  BY <1>2, ExpireInv
<1>3. CASE rm.status = "OPEN" /\ next \in Succession(rm, Heirs(rm, TRUE))
  <2>1. Heirs(rm, TRUE) \in SUBSET Active(rm)
    BY DEF Heirs
  <2> QED
    BY <1>3, <2>1, SuccessionInv
<1> QED
  BY <1>1, <1>2, <1>3 DEF SweepRoom

(* Rewriting one seat: a human seat must be its participant's, the others    *)
(* must be plain.                                                            *)
LEMMA SeatEditInv ==
  ASSUME NEW rm, RoomInv(rm), NEW i \in SeatIndices(rm), NEW x \in SeatType,
         IF x.controller = "HUMAN"
         THEN x.pid \in Active(rm) /\ rm.people[x.pid].seat = i
         ELSE x \in {OpenSeat} \cup {CpuSeat(k) : k \in CpuNames}
  PROVE  RoomInv([rm EXCEPT !.seats[i] = x])
<1> DEFINE next == [rm EXCEPT !.seats[i] = x]
<1>1. next.seats \in SeatsType /\ DOMAIN next.seats = DOMAIN rm.seats
  <2>1. rm.seats \in [DOMAIN rm.seats -> SeatType]
    BY SeatsShape DEF RoomInv, RoomType
  <2>2. next.seats = [rm.seats EXCEPT ![i] = x]
    BY DEF RoomInv, RoomType
  <2>3. next.seats \in [DOMAIN rm.seats -> SeatType]
    BY <2>1, <2>2 DEF SeatIndices
  <2> QED
    BY <2>2, <2>3, SeatsEdit DEF RoomInv, RoomType
<1>2. next \in RoomType
  BY <1>1 DEF RoomInv, RoomType
<1>3. SeatsBound(next)
  <2> SUFFICES ASSUME NEW j \in SeatIndices(next)
               PROVE  IF j \in HumanSeats(next)
                      THEN /\ next.seats[j].pid \in Active(next)
                           /\ next.people[next.seats[j].pid].seat = j
                      ELSE next.seats[j] \in {OpenSeat} \cup {CpuSeat(k) : k \in CpuNames}
    BY DEF SeatsBound
  <2>1. j \in SeatIndices(rm) /\ next.people = rm.people /\ Active(next) = Active(rm)
    BY <1>1 DEF SeatIndices, Active, RoomInv, RoomType
  <2>2. CASE j = i
    <3>1. next.seats[j] = x
      BY <2>2, <2>1 DEF RoomInv, RoomType, SeatIndices
    <3> QED
      BY <2>2, <2>1, <3>1 DEF HumanSeats
  <2>3. CASE j # i
    <3>1. next.seats[j] = rm.seats[j]
      BY <2>3, <2>1 DEF RoomInv, RoomType, SeatIndices
    <3> QED
      BY <2>1, <3>1 DEF HumanSeats, RoomInv, SeatsBound
  <2> QED
    BY <2>2, <2>3
<1> QED
  BY <1>2, <1>3 DEF RoomInv, RoomType, HostPresent, Known, Active

(* Rewriting one participant: one who sits keeps the seat and stays; the host *)
(* stays; and whoever is known has a name.                                    *)
LEMMA PersonEditInv ==
  ASSUME NEW rm, RoomInv(rm), NEW p \in Participants, NEW x \in PersonType,
         x.state # "NONE" => x.name # None,
         \/ x.state = "ACTIVE" /\ x.seat = rm.people[p].seat
         \/ SeatsOf(rm, p) = {},
         x.state = "ACTIVE" \/ rm.host # p \/ rm.status \notin {"OPEN", "STARTED"}
  PROVE  RoomInv([rm EXCEPT !.people[p] = x])
<1> DEFINE next == [rm EXCEPT !.people[p] = x]
<1>1. next \in RoomType
  BY DEF RoomInv, RoomType
<1>2. \A q \in Participants : next.people[q] = IF q = p THEN x ELSE rm.people[q]
  BY DEF RoomInv, RoomType
<1>3. SeatsBound(next)
  <2> SUFFICES ASSUME NEW j \in SeatIndices(next)
               PROVE  IF j \in HumanSeats(next)
                      THEN /\ next.seats[j].pid \in Active(next)
                           /\ next.people[next.seats[j].pid].seat = j
                      ELSE next.seats[j] \in {OpenSeat} \cup {CpuSeat(k) : k \in CpuNames}
    BY DEF SeatsBound
  <2>1. next.seats = rm.seats
    BY DEF RoomInv, RoomType
  <2>2. j \in SeatIndices(rm) /\ HumanSeats(next) = HumanSeats(rm)
    BY <2>1 DEF SeatIndices, HumanSeats
  <2>3. CASE j \in HumanSeats(rm)
    <3>1. rm.seats[j].pid \in Active(rm) /\ rm.people[rm.seats[j].pid].seat = j
      BY <2>2, <2>3 DEF RoomInv, SeatsBound
    <3>2. CASE rm.seats[j].pid = p
      <4>1. j \in SeatsOf(rm, p)
        BY <2>2, <3>2 DEF SeatsOf
      <4> QED
        BY <1>2, <2>1, <2>2, <2>3, <3>1, <3>2, <4>1 DEF Active
    <3>3. CASE rm.seats[j].pid # p
      BY <1>2, <2>1, <2>2, <2>3, <3>1, <3>3 DEF Active
    <3> QED
      BY <3>2, <3>3
  <2>4. CASE j \notin HumanSeats(rm)
    BY <2>1, <2>2, <2>4 DEF RoomInv, SeatsBound
  <2> QED
    BY <2>3, <2>4
<1>4. HostPresent(next)
  BY <1>2 DEF RoomInv, RoomType, HostPresent, Active
<1>5. \A q \in Known(next) : next.people[q].name # None
  BY <1>2 DEF RoomInv, RoomType, Known
<1> QED
  BY <1>1, <1>3, <1>4, <1>5 DEF RoomInv, RoomType

(* Changing what neither seats nor people nor the host are about. *)
LEMMA OtherEditInv ==
  ASSUME NEW rm, RoomInv(rm), NEW next \in RoomType,
         next.seats = rm.seats, next.people = rm.people, next.host = rm.host,
         next.status = rm.status, next.match = rm.match
  PROVE  RoomInv(next)
<1>1. SeatsBound(next)
  BY DEF RoomInv, SeatsBound, SeatIndices, HumanSeats, Active
<1> QED
  BY <1>1 DEF RoomInv, HostPresent, Known, Active

(* Someone without a seat who sits down in an open one. *)
LEMMA SeatedInv ==
  ASSUME NEW rm, RoomInv(rm), NEW p \in Participants, NEW i \in SeatIndices(rm),
         NEW x \in PersonType, x.state = "ACTIVE", x.name # None, SeatsOf(rm, p) = {}
  PROVE  RoomInv(Seated([rm EXCEPT !.people[p] = x], p, i))
<1> DEFINE y == [x EXCEPT !.seat = i]
           mid == [rm EXCEPT !.people[p] = y]
<1>1. i \in Nat
  BY SeatsShape DEF RoomInv, RoomType, SeatIndices
<1>2. y \in PersonType /\ y.state = "ACTIVE" /\ y.name # None /\ y.seat = i
  BY <1>1 DEF PersonType
<1>3. RoomInv(mid)
  BY <1>2, PersonEditInv
<1>4. mid.people[p] = y /\ mid.seats = rm.seats
  BY DEF RoomInv, RoomType
<1>5. HumanSeat(p) \in SeatType /\ HumanSeat(p).controller = "HUMAN" /\ HumanSeat(p).pid = p
  BY DEF HumanSeat, OpenSeat, SeatType
<1>6. RoomInv([mid EXCEPT !.seats[i] = HumanSeat(p)])
  <2>1. i \in SeatIndices(mid) /\ p \in Active(mid) /\ mid.people[p].seat = i
    BY <1>2, <1>4 DEF SeatIndices, Active
  <2> QED
    BY <1>3, <1>5, <2>1, SeatEditInv
<1>7. Seated([rm EXCEPT !.people[p] = x], p, i) = [mid EXCEPT !.seats[i] = HumanSeat(p)]
  BY DEF Seated, RoomInv, RoomType, PersonType
<1> QED
  BY <1>6, <1>7

(* A room newly made: its host in the first seat. *)
LEMMA NewRoomInv ==
  ASSUME NEW host \in Participants, NEW name \in HumanNames,
         NEW pass \in Passphrases \cup {None}, NEW n \in SeatCounts \cup {BrawlSeats},
         NEW cpus \in 0..(n - 1), 1..cpus \subseteq CpuNames, NEW spectators \in BOOLEAN,
         NEW threshold \in Thresholds \cup {BrawlThreshold, None}
  PROVE  RoomInv(NewRoom(host, name, pass, n, cpus, spectators, threshold))
<1> DEFINE rm == NewRoom(host, name, pass, n, cpus, spectators, threshold)
<1>1. n \in Nat \ {0, 1} /\ name # None
  BY SeatsAssumption, NoneAssumption
<1>2. rm.seats = [i \in 0..(n - 1) |-> IF i = 0 THEN HumanSeat(host)
                                      ELSE IF i <= cpus THEN CpuSeat(i) ELSE OpenSeat]
  BY DEF NewRoom
<1>3. \A i \in 0..(n - 1) : i # 0 /\ i <= cpus => i \in CpuNames
  BY <1>1
<1>4. rm.seats \in [0..(n - 1) -> SeatType]
  <2> SUFFICES ASSUME NEW i \in 0..(n - 1)
               PROVE  (IF i = 0 THEN HumanSeat(host)
                       ELSE IF i <= cpus THEN CpuSeat(i) ELSE OpenSeat) \in SeatType
    BY <1>2
  <2> QED
    BY <1>3 DEF HumanSeat, OpenSeat, CpuSeat, SeatType
<1>5. rm.seats \in SeatsType
  BY <1>4 DEF SeatsType
<1>6. Newcomer(name, 0) \in PersonType /\ Nobody \in PersonType
  BY DEF Newcomer, Nobody, PersonType
<1>7. rm.people = [p \in Participants |-> IF p = host THEN Newcomer(name, 0) ELSE Nobody]
  BY DEF NewRoom
<1>8. rm \in RoomType
  <2>1. rm.people \in [Participants -> PersonType]
    BY <1>6, <1>7
  <2>2. RoomTTL \in Nat /\ Retention \in Nat /\ RoomTTL + Retention \in Nat
    BY TimesAssumption
  <2> QED
    BY <1>5, <2>1, <2>2 DEF NewRoom, RoomType, NoTimer
<1>9. host \in Active(rm) /\ rm.people[host].seat = 0
  BY <1>7 DEF Active, Newcomer
<1>10. SeatsBound(rm)
  <2> SUFFICES ASSUME NEW i \in 0..(n - 1)
               PROVE  IF rm.seats[i].controller = "HUMAN"
                      THEN rm.seats[i].pid \in Active(rm) /\ rm.people[rm.seats[i].pid].seat = i
                      ELSE rm.seats[i] \in {OpenSeat} \cup {CpuSeat(k) : k \in CpuNames}
    BY <1>2 DEF SeatsBound, SeatIndices, HumanSeats
  <2>1. CASE i = 0
    <3>1. rm.seats[i] = HumanSeat(host)
      BY <1>2, <2>1
    <3>2. HumanSeat(host).controller = "HUMAN" /\ HumanSeat(host).pid = host
      BY DEF HumanSeat, OpenSeat
    <3> QED
      BY <1>9, <2>1, <3>1, <3>2
  <2>2. CASE i # 0 /\ i <= cpus
    BY <1>2, <1>3, <2>2 DEF CpuSeat, OpenSeat
  <2>3. CASE i # 0 /\ ~(i <= cpus)
    BY <1>2, <2>3 DEF OpenSeat
  <2> QED
    BY <2>1, <2>2, <2>3
<1>11. \A p \in Known(rm) : rm.people[p].name # None
  BY <1>1, <1>7 DEF Known, Newcomer, Nobody
<1> QED
  BY <1>8, <1>9, <1>10, <1>11 DEF RoomInv, HostPresent, NewRoom

(* The roster is made of names people typed. *)
LEMMA RosterNames ==
  ASSUME NEW rm, RoomInv(rm)
  PROVE  HumanRoster(rm) \subseteq HumanNames
<1> SUFFICES ASSUME NEW i \in HumanSeats(rm) PROVE SeatName(rm, i) \in HumanNames
  BY DEF HumanRoster
<1>1. i \in SeatIndices(rm) /\ rm.seats[i].controller = "HUMAN"
  BY DEF HumanSeats
<1>2. rm.seats[i].pid \in Known(rm)
  BY <1>1 DEF RoomInv, SeatsBound, Active, Known
<1>3. rm.people[rm.seats[i].pid] \in PersonType /\ rm.people[rm.seats[i].pid].name # None
  BY <1>2 DEF RoomInv, RoomType, Known
<1> QED
  BY <1>1, <1>3 DEF SeatName, PersonType

(* Starting a match. *)
LEMMA StartedInv ==
  ASSUME NEW rm, RoomInv(rm), rm.status = "OPEN", NEW m \in MatchIds
  PROVE  RoomInv(Started(rm, m))
<1> DEFINE next == Started(rm, m)
<1>1. \A p \in Participants :
        /\ next.people[p] \in PersonType
        /\ next.people[p].state = rm.people[p].state
        /\ p \in Known(rm) => /\ next.people[p].seat = rm.people[p].seat
                              /\ next.people[p].name = rm.people[p].name
  <2> SUFFICES ASSUME NEW p \in Participants
               PROVE  /\ next.people[p] \in PersonType
                      /\ next.people[p].state = rm.people[p].state
                      /\ p \in Known(rm) => /\ next.people[p].seat = rm.people[p].seat
                                            /\ next.people[p].name = rm.people[p].name
    OBVIOUS
  <2>1. rm.people[p] \in PersonType
    BY DEF RoomInv, RoomType
  <2>2. CASE p \in Known(rm)
    <3>1. next.people[p] = [rm.people[p] EXCEPT !.player =
             IF rm.people[p].name \in HumanRoster(rm) THEN rm.people[p].name ELSE None]
      BY <2>2 DEF Started, RoomInv, RoomType
    <3> QED
      BY <2>1, <3>1, RosterNames DEF PersonType
  <2>3. CASE p \notin Known(rm)
    <3>1. next.people[p] = Nobody /\ rm.people[p].state = "NONE"
      BY <2>3 DEF Started, RoomInv, RoomType, Known
    <3> QED
      BY <2>3, <3>1 DEF Nobody, PersonType
  <2> QED
    BY <2>2, <2>3
<1>2. next.seats = rm.seats /\ next.host = rm.host
      /\ next.status = "STARTED" /\ next.match = m
  BY DEF Started, RoomInv, RoomType
<1>3. next \in RoomType
  <2>1. next.people \in [Participants -> PersonType]
    <3>1. DOMAIN next.people = Participants
      BY DEF Started, RoomInv, RoomType
    <3>2. next.people = [p \in Participants |-> next.people[p]]
      BY DEF Started, RoomInv, RoomType
    <3> QED
      BY <1>1, <3>1, <3>2
  <2>2. next = [rm EXCEPT !.status = "STARTED", !.match = m, !.expires = Retention,
                          !.delete = Retention, !.people = next.people]
    BY DEF Started, RoomInv, RoomType
  <2>3. Retention \in Nat
    BY TimesAssumption
  <2> QED
    BY <2>1, <2>2, <2>3 DEF RoomInv, RoomType
<1>4. Active(next) = Active(rm) /\ Known(next) = Known(rm)
  BY <1>1 DEF Active, Known
<1>5. SeatsBound(next)
  BY <1>1, <1>2, <1>4 DEF RoomInv, SeatsBound, SeatIndices, HumanSeats, Active, Known
<1>6. HostPresent(next)
  BY <1>2, <1>4 DEF RoomInv, HostPresent
<1>7. \A p \in Known(next) : next.people[p].name # None
  BY <1>1, <1>4 DEF RoomInv, Known
<1>8. m # None
  BY NoneAssumption
<1> QED
  BY <1>2, <1>3, <1>5, <1>6, <1>7, <1>8 DEF RoomInv

(* Rewriting the seats without changing who sits where. *)
LEMMA SeatsRewriteInv ==
  ASSUME NEW rm, RoomInv(rm), NEW seats \in [SeatIndices(rm) -> SeatType],
         \A i \in SeatIndices(rm) :
           IF i \in HumanSeats(rm)
           THEN seats[i].controller = "HUMAN" /\ seats[i].pid = rm.seats[i].pid
           ELSE seats[i] = rm.seats[i]
  PROVE  RoomInv([rm EXCEPT !.seats = seats])
<1> DEFINE next == [rm EXCEPT !.seats = seats]
<1>1. seats \in SeatsType
  BY SeatsEdit DEF RoomInv, RoomType, SeatIndices
<1>2. next \in RoomType /\ next.seats = seats /\ next.people = rm.people
      /\ next.host = rm.host /\ next.status = rm.status /\ next.match = rm.match
  BY <1>1 DEF RoomInv, RoomType
<1>3. SeatIndices(next) = SeatIndices(rm) /\ HumanSeats(next) = HumanSeats(rm)
      /\ Active(next) = Active(rm) /\ Known(next) = Known(rm)
  BY <1>2 DEF SeatIndices, HumanSeats, Active, Known
<1>4. SeatsBound(next)
  BY <1>2, <1>3 DEF RoomInv, SeatsBound
<1> QED
  BY <1>2, <1>3, <1>4 DEF RoomInv, HostPresent

(* Going back to the lobby. *)
LEMMA BackInLobbyInv ==
  ASSUME NEW rm, RoomInv(rm), rm.status = "STARTED"
  PROVE  RoomInv(BackInLobby(rm))
<1> DEFINE people == [p \in Participants |-> [rm.people[p] EXCEPT !.player = None]]
           mid == [rm EXCEPT !.status = "OPEN", !.match = None, !.people = people]
           seats == [i \in SeatIndices(rm) |->
                       IF i \in HumanSeats(rm) THEN [rm.seats[i] EXCEPT !.ready = FALSE]
                       ELSE rm.seats[i]]
<1>1. people \in [Participants -> PersonType]
  BY DEF RoomInv, RoomType, PersonType
<1>2. \A p \in Participants : /\ people[p].state = rm.people[p].state
                              /\ people[p].seat = rm.people[p].seat
                              /\ people[p].name = rm.people[p].name
  BY DEF RoomInv, RoomType, PersonType
<1>3. mid \in RoomType /\ mid.people = people /\ mid.seats = rm.seats /\ mid.host = rm.host
      /\ mid.status = "OPEN" /\ mid.match = None
  BY <1>1 DEF RoomInv, RoomType
<1>4. Active(mid) = Active(rm) /\ Known(mid) = Known(rm)
  BY <1>2, <1>3 DEF Active, Known
<1>5. RoomInv(mid)
  <2>1. SeatsBound(mid)
    BY <1>2, <1>3, <1>4 DEF RoomInv, SeatsBound, SeatIndices, HumanSeats, Active
  <2>2. HostPresent(mid)
    BY <1>3, <1>4 DEF RoomInv, HostPresent
  <2>3. \A p \in Known(mid) : mid.people[p].name # None
    BY <1>2, <1>3, <1>4 DEF RoomInv, Known
  <2> QED
    BY <1>3, <2>1, <2>2, <2>3 DEF RoomInv
<1>6. SeatIndices(mid) = SeatIndices(rm) /\ HumanSeats(mid) = HumanSeats(rm)
  BY <1>3 DEF SeatIndices, HumanSeats
<1>7. rm.seats \in [SeatIndices(rm) -> SeatType]
  BY SeatsShape DEF RoomInv, RoomType, SeatIndices
<1>8. /\ seats \in [SeatIndices(mid) -> SeatType]
      /\ \A i \in SeatIndices(mid) :
           IF i \in HumanSeats(mid)
           THEN seats[i].controller = "HUMAN" /\ seats[i].pid = mid.seats[i].pid
           ELSE seats[i] = mid.seats[i]
  <2> SUFFICES ASSUME NEW i \in SeatIndices(rm)
               PROVE  /\ seats[i] \in SeatType
                      /\ IF i \in HumanSeats(rm)
                         THEN seats[i].controller = "HUMAN" /\ seats[i].pid = rm.seats[i].pid
                         ELSE seats[i] = rm.seats[i]
    BY <1>3, <1>6, Zenon
  <2>1. rm.seats[i] \in SeatType
    BY <1>7
  <2> QED
    BY <2>1 DEF SeatType, HumanSeats
<1>9. RoomInv([mid EXCEPT !.seats = seats])
  BY <1>5, <1>8, SeatsRewriteInv
<1>10. BackInLobby(rm) = [mid EXCEPT !.seats = seats]
  BY DEF BackInLobby, RoomInv, RoomType
<1> QED
  BY <1>9, <1>10

(* A participant's seat is a human seat, and theirs. *)
LEMMA Sitting ==
  ASSUME NEW rm, RoomInv(rm), NEW p \in Participants, NEW i \in SeatsOf(rm, p)
  PROVE  /\ i \in HumanSeats(rm) /\ i \in SeatIndices(rm)
         /\ p \in Active(rm) /\ rm.people[p].seat = i
<1>1. i \in SeatIndices(rm) /\ rm.seats[i].pid = p /\ p # None
  BY NoneAssumption DEF SeatsOf
<1>2. CASE i \in HumanSeats(rm)
  BY <1>1, <1>2 DEF RoomInv, SeatsBound
<1>3. CASE i \notin HumanSeats(rm)
  <2>1. rm.seats[i] \in {OpenSeat} \cup {CpuSeat(k) : k \in CpuNames}
    BY <1>1, <1>3 DEF RoomInv, SeatsBound
  <2>2. OpenSeat.pid = None /\ \A k \in CpuNames : CpuSeat(k).pid = None
    BY DEF OpenSeat, CpuSeat
  <2> QED
    BY <1>1, <2>1, <2>2
<1> QED
  BY <1>2, <1>3

(* Marking the readiness or the team of a participant's own seat. *)
LEMMA SeatMarkInv ==
  ASSUME NEW rm, RoomInv(rm), NEW p \in Participants,
         rm.seats[rm.people[p].seat].pid = p,
         NEW ready \in BOOLEAN, NEW team \in Teams \cup {None}
  PROVE  /\ RoomInv([rm EXCEPT !.seats[rm.people[p].seat].ready = ready])
         /\ RoomInv([rm EXCEPT !.seats[rm.people[p].seat].team = team])
<1> DEFINE i == rm.people[p].seat
<1>1. CASE i \in SeatIndices(rm)
  <2>1. i \in SeatsOf(rm, p)
    BY <1>1 DEF SeatsOf
  <2>2. i \in HumanSeats(rm) /\ p \in Active(rm)
    BY <2>1, Sitting
  <2>3. rm.seats[i] \in SeatType /\ rm.seats[i].controller = "HUMAN"
    BY <1>1, <2>2, SeatsShape DEF RoomInv, RoomType, SeatIndices, HumanSeats
  <2>4. ASSUME NEW x \in SeatType, x.controller = "HUMAN", x.pid = p
        PROVE  RoomInv([rm EXCEPT !.seats[i] = x])
    BY <1>1, <2>2, <2>4, SeatEditInv
  <2> DEFINE readied == [rm.seats[i] EXCEPT !.ready = ready]
             teamed == [rm.seats[i] EXCEPT !.team = team]
  <2>5. /\ readied \in SeatType /\ readied.controller = "HUMAN" /\ readied.pid = p
        /\ teamed \in SeatType /\ teamed.controller = "HUMAN" /\ teamed.pid = p
    BY <2>3 DEF SeatType
  <2>6. /\ [rm EXCEPT !.seats[i].ready = ready] = [rm EXCEPT !.seats[i] = readied]
        /\ [rm EXCEPT !.seats[i].team = team] = [rm EXCEPT !.seats[i] = teamed]
    BY DEF RoomInv, RoomType
  <2> QED
    BY <2>4, <2>5, <2>6
<1>2. CASE i \notin SeatIndices(rm)
  <2>1. rm.seats = [j \in DOMAIN rm.seats |-> rm.seats[j]]
    BY SeatsShape DEF RoomInv, RoomType
  <2>2. /\ [rm.seats EXCEPT ![i].ready = ready] = rm.seats
        /\ [rm.seats EXCEPT ![i].team = team] = rm.seats
    BY <1>2, <2>1 DEF SeatIndices
  <2>3. /\ [rm EXCEPT !.seats[i].ready = ready] = rm
        /\ [rm EXCEPT !.seats[i].team = team] = rm
    BY <2>2 DEF RoomInv, RoomType
  <2> QED
    BY <2>3
<1> QED
  BY <1>1, <1>2

(* Recording that a participant is connected, or is not. *)
LEMMA ConnectedInv ==
  ASSUME NEW rm, RoomInv(rm), NEW p \in Known(rm), NEW connected \in BOOLEAN
  PROVE  /\ RoomInv([rm EXCEPT !.people[p].connected = connected])
         /\ [rm EXCEPT !.people[p].connected = connected].status = rm.status
<1> DEFINE x == [rm.people[p] EXCEPT !.connected = connected]
<1>1. p \in Participants /\ rm.people[p] \in PersonType /\ rm.people[p].state # "NONE"
  BY DEF Known, RoomInv, RoomType
<1>2. /\ x \in PersonType /\ x.state = rm.people[p].state /\ x.seat = rm.people[p].seat
      /\ x.name = rm.people[p].name
  BY <1>1 DEF PersonType
<1>3. x.state # "NONE" => x.name # None
  BY <1>2 DEF RoomInv
<1>4. x.state = "ACTIVE" \/ SeatsOf(rm, p) = {}
  BY <1>1, <1>2, Sitting DEF Active
<1>5. x.state = "ACTIVE" \/ rm.host # p \/ rm.status \notin {"OPEN", "STARTED"}
  BY <1>1, <1>2 DEF RoomInv, HostPresent, Active
<1>6. RoomInv([rm EXCEPT !.people[p] = x])
  BY <1>1, <1>2, <1>3, <1>4, <1>5, PersonEditInv
<1>7. [rm EXCEPT !.people[p].connected = connected] = [rm EXCEPT !.people[p] = x]
  BY DEF RoomInv, RoomType
<1> QED
  BY <1>6, <1>7 DEF RoomInv, RoomType

(* Setting the date the host is given up. *)
LEMMA HostGoneInv ==
  ASSUME NEW rm, RoomInv(rm), NEW gone \in Nat \cup {NoTimer}
  PROVE  RoomInv([rm EXCEPT !.hostGone = gone])
<1>1. [rm EXCEPT !.hostGone = gone] \in RoomType
  BY DEF RoomInv, RoomType
<1> QED
  BY <1>1, OtherEditInv DEF RoomInv, RoomType

(* A socket that opens or closes. *)
LEMMA ConnectionInv ==
  ASSUME NEW rm, RoomInv(rm), NEW p \in Participants \cup {None}, NEW connected \in BOOLEAN
  PROVE  RoomInv(RoomConnection(rm, p, connected))
<1>1. CASE p \notin Active(rm)
  BY <1>1 DEF RoomConnection
<1>2. CASE p \in Active(rm)
  <2> DEFINE mid == [rm EXCEPT !.people[p].connected = connected]
             gone == IF rm.host # p THEN rm.hostGone ELSE IF connected THEN NoTimer ELSE Grace
  <2>1. p \in Known(rm)
    BY <1>2 DEF Active, Known
  <2>2. RoomInv(mid)
    BY <2>1, ConnectedInv
  <2>3. gone \in Nat \cup {NoTimer}
    BY TimesAssumption DEF RoomInv, RoomType
  <2> HIDE DEF mid, gone
  <2>5. RoomInv([mid EXCEPT !.hostGone = gone])
    BY <2>2, <2>3, HostGoneInv
  <2> USE DEF mid, gone
  <2>6. RoomConnection(rm, p, connected) = [mid EXCEPT !.hostGone = gone]
    BY <1>2 DEF RoomConnection, RoomInv, RoomType
  <2> QED
    BY <2>5, <2>6
<1> QED
  BY <1>1, <1>2

(* Standing up: the participant's seat, if any, is vacated. *)
LEMMA VacatedInv ==
  ASSUME NEW rm, RoomInv(rm), NEW p \in Known(rm)
  PROVE  LET i == rm.people[p].seat
             stood == [rm EXCEPT !.seats[i] = IF @.pid = p THEN OpenSeat ELSE @]
         IN /\ RoomInv(stood) /\ SeatsOf(stood, p) = {}
            /\ stood.status = rm.status /\ stood.host = rm.host /\ stood.people = rm.people
<1> DEFINE i == rm.people[p].seat
           stood == [rm EXCEPT !.seats[i] = IF @.pid = p THEN OpenSeat ELSE @]
<1>1. p \in Participants /\ rm.people[p] \in PersonType /\ p # None
  BY NoneAssumption DEF Known, RoomInv, RoomType
<1>2. CASE i \in SeatIndices(rm) /\ rm.seats[i].pid = p
  <2>1. stood = [rm EXCEPT !.seats[i] = OpenSeat]
    BY <1>2 DEF RoomInv, RoomType
  <2>2. OpenSeat \in SeatType /\ OpenSeat.controller # "HUMAN" /\ OpenSeat.pid = None
    BY DEF OpenSeat, SeatType
  <2>3. RoomInv(stood)
    BY <1>2, <2>1, <2>2, SeatEditInv
  <2>4. stood.people = rm.people /\ SeatIndices(stood) = SeatIndices(rm) /\ stood.seats[i] = OpenSeat
    BY <1>2, <2>1 DEF RoomInv, RoomType, SeatIndices
  <2>5. SeatsOf(stood, p) = {}
    <3> SUFFICES ASSUME NEW j \in SeatsOf(stood, p) PROVE FALSE
      OBVIOUS
    <3> HIDE DEF stood
    <3>1. stood.people[p].seat = j
      BY <1>1, <2>3, Sitting
    <3>2. j = i
      BY <2>4, <3>1
    <3> QED
      BY <1>1, <2>2, <2>4, <3>2 DEF SeatsOf
  <2> QED
    BY <2>1, <2>3, <2>4, <2>5 DEF RoomInv, RoomType
<1>3. CASE ~(i \in SeatIndices(rm) /\ rm.seats[i].pid = p)
  <2>1. stood = rm
    <3>1. rm.seats = [j \in DOMAIN rm.seats |-> rm.seats[j]]
      BY SeatsShape DEF RoomInv, RoomType
    <3>2. [rm.seats EXCEPT ![i] = IF @.pid = p THEN OpenSeat ELSE @] = rm.seats
      BY <1>3, <3>1 DEF SeatIndices
    <3> QED
      BY <3>2 DEF RoomInv, RoomType
  <2>2. SeatsOf(rm, p) = {}
    BY <1>1, <1>3, Sitting DEF SeatsOf
  <2> QED
    BY <2>1, <2>2
<1> QED
  BY <1>2, <1>3

(* Leaving, with the succession it may bring. *)
LEMMA LeaveInv ==
  ASSUME NEW rm, RoomInv(rm), NEW p \in Known(rm), NEW next \in LeaveOutcomes(rm, p)
  PROVE  RoomInv(next)
<1> DEFINE i == rm.people[p].seat
           offline == [rm EXCEPT !.people[p].connected = FALSE]
           stood == [rm EXCEPT !.seats[i] = IF @.pid = p THEN OpenSeat ELSE @]
           y == [rm.people[p] EXCEPT !.connected = FALSE, !.state = "LEFT"]
           left == [offline EXCEPT !.people[p].state = "LEFT",
                                   !.seats[i] = IF @.pid = p THEN OpenSeat ELSE @]
<1>1. p \in Participants /\ rm.people[p] \in PersonType /\ rm.people[p].name # None
  BY DEF Known, RoomInv, RoomType
<1>2. CASE rm.status # "OPEN"
  BY <1>2, ConnectedInv DEF LeaveOutcomes
<1>3. CASE rm.status = "OPEN"
  <2>1. RoomInv(stood) /\ SeatsOf(stood, p) = {} /\ stood.status = "OPEN"
        /\ stood.host = rm.host /\ stood.people = rm.people
    BY <1>3, VacatedInv
  <2>2. y \in PersonType /\ y.state = "LEFT" /\ y.name # None
    BY <1>1 DEF PersonType
  <2>3. left = [stood EXCEPT !.people[p] = y]
    BY <1>1 DEF RoomInv, RoomType, PersonType
  <2> HIDE DEF stood, y, left
  <2>4. CASE rm.host # p
    <3>1. next = left
      BY <1>3, <2>4 DEF LeaveOutcomes, left
    <3> QED
      BY <1>1, <2>1, <2>2, <2>3, <2>4, <3>1, PersonEditInv
  <2>5. CASE rm.host = p
    <3>1. next \in Succession(left, Heirs(left, FALSE))
      BY <1>3, <2>5 DEF LeaveOutcomes, left
    <3>2. Heirs(left, FALSE) \subseteq Active(stood) \ {p}
      BY <1>1, <2>1, <2>2, <2>3, <2>5 DEF Heirs, Active, RoomInv, RoomType
    <3>3. CASE next = Expire(left)
      <4>1. RoomInv(Expire(stood)) /\ Expire(stood).status = "EXPIRED"
            /\ SeatsOf(Expire(stood), p) = {}
        <5>1. RoomInv(Expire(stood))
          BY <2>1, ExpireInv
        <5>2. Expire(stood).status = "EXPIRED" /\ Expire(stood).seats = stood.seats
          BY <2>1 DEF Expire, RoomInv, RoomType
        <5> QED
          BY <2>1, <5>1, <5>2 DEF SeatsOf, SeatIndices
      <4>2. RoomInv([Expire(stood) EXCEPT !.people[p] = y])
        BY <1>1, <2>2, <4>1, PersonEditInv
      <4>3. Expire(left) = [Expire(stood) EXCEPT !.people[p] = y]
        BY <2>1, <2>3 DEF Expire, RoomInv, RoomType
      <4> QED
        BY <3>3, <4>2, <4>3
    <3>4. CASE next # Expire(left)
      <4>1. PICK q \in Heirs(left, FALSE) : next = [left EXCEPT !.host = q, !.hostGone = NoTimer]
        BY <3>1, <3>4 DEF Succession
      <4> DEFINE handed == [stood EXCEPT !.host = q, !.hostGone = NoTimer]
      <4>2. q \in Active(stood) /\ q # p
        BY <3>2
      <4>3. handed \in Succession(stood, {q})
        BY DEF Succession
      <4>4. RoomInv(handed)
        BY <2>1, <4>2, <4>3, SuccessionInv
      <4>5. handed.host = q /\ SeatsOf(handed, p) = {}
        BY <2>1 DEF RoomInv, RoomType, SeatsOf, SeatIndices
      <4>6. RoomInv([handed EXCEPT !.people[p] = y])
        <5> HIDE DEF handed
        <5> QED
          BY <1>1, <2>2, <4>2, <4>4, <4>5, PersonEditInv
      <4>7. next = [handed EXCEPT !.people[p] = y]
        BY <2>1, <2>3, <4>1 DEF RoomInv, RoomType
      <4> QED
        BY <4>6, <4>7
    <3> QED
      BY <3>3, <3>4
  <2> QED
    BY <2>4, <2>5
<1> QED
  BY <1>2, <1>3

-----------------------------------------------------------------------------
(* Tables *)

(* What the invariant says of a table of rooms, and of one of sessions. *)
RoomsOK(w) == w \in [RoomIds -> RoomType] /\ \A r \in RoomIds : RoomInv(w[r])
SessionsOK(ss) ==
  ss \in [SessionIds -> SessionType] /\ \A s \in SessionIds : ss[s].ttl > 0 => ss[s].room # None

(* Editing one entry of a table. *)
LEMMA RoomsEdit ==
  ASSUME NEW w, RoomsOK(w), NEW r \in RoomIds, NEW rm, RoomInv(rm)
  PROVE  RoomsOK([w EXCEPT ![r] = rm])
BY DEF RoomsOK, RoomInv

LEMMA SessionsEdit ==
  ASSUME NEW ss, SessionsOK(ss), NEW s \in SessionIds, NEW x \in SessionType,
         x.ttl > 0 => x.room # None
  PROVE  SessionsOK([ss EXCEPT ![s] = x])
BY DEF SessionsOK

(* The sessions that are issued, and the one that stands for none. *)
LEMMA SessionKinds ==
  /\ NoSession \in SessionType /\ ~(NoSession.ttl > 0)
  /\ \A r \in RoomIds, p \in Participants \cup {None} :
       Issued(r, p) \in SessionType /\ Issued(r, p).room # None
BY TimesAssumption, NoneAssumption DEF NoSession, Issued, SessionType

(* Revoking participants. *)
LEMMA RevokedOK ==
  ASSUME NEW ss, SessionsOK(ss), NEW r, NEW ps
  PROVE  SessionsOK(Revoked(ss, r, ps))
<1>1. \A s \in SessionIds : Revoked(ss, r, ps)[s] = NoSession \/ Revoked(ss, r, ps)[s] = ss[s]
  BY DEF Revoked
<1>2. Revoked(ss, r, ps) = [s \in SessionIds |-> Revoked(ss, r, ps)[s]]
  BY DEF Revoked
<1> QED
  BY <1>1, <1>2, SessionKinds DEF SessionsOK

(* What a sweep leaves. *)
LEMMA SweptOK ==
  ASSUME IInv, NEW w \in SweepOutcomes
  PROVE  RoomsOK(w) /\ SessionsOK(SweptSessions(w))
<1>1. ASSUME NEW r \in RoomIds PROVE RoomInv(w[r])
  <2>1. w[r] \in SweepRoom(rooms[r])
    BY DEF SweepOutcomes
  <2>2. RoomInv(rooms[r])
    BY DEF IInv
  <2> QED
    BY <2>1, <2>2, SweepInv
<1>2. w \in [RoomIds -> RoomType]
  <2>1. w = [r \in RoomIds |-> w[r]]
    BY DEF SweepOutcomes
  <2>2. \A r \in RoomIds : w[r] \in RoomType
    BY <1>1 DEF RoomInv
  <2> QED
    BY <2>1, <2>2
<1>3. \A s \in SessionIds : SweptSessions(w)[s] = NoSession \/ SweptSessions(w)[s] = sessions[s]
  BY DEF SweptSessions
<1>4. SweptSessions(w) = [s \in SessionIds |-> SweptSessions(w)[s]]
  BY DEF SweptSessions
<1>5. SessionsOK(SweptSessions(w))
  BY <1>3, <1>4, SessionKinds DEF SessionsOK, IInv, IsActive, RoomOf
<1> QED
  BY <1>1, <1>2, <1>5 DEF RoomsOK

(* A step is put together from its tables. *)
LEMMA Assemble ==
  ASSUME RoomsOK(rooms'), SessionsOK(sessions'), matches' \in [MatchIds -> MatchType],
         sockets' \in SUBSET SocketType
  PROVE  IInv'
BY DEF RoomsOK, SessionsOK, IInv, IsActive, RoomOf

(* The caller of a member's operation. *)
LEMMA MemberFacts ==
  ASSUME IInv, NEW s \in SessionIds, NEW w \in SweepOutcomes, Member(w, s)
  PROVE  /\ RoomOf(s) \in RoomIds /\ RoomInv(w[RoomOf(s)])
         /\ PidOf(s) \in Active(w[RoomOf(s)]) /\ PidOf(s) \in Participants
         /\ PidOf(s) \in Known(w[RoomOf(s)])
<1>1. sessions[s] \in SessionType /\ RoomOf(s) # None
  BY DEF IInv, Member, SessionRoom
<1>2. RoomOf(s) \in RoomIds
  BY <1>1 DEF SessionType, RoomOf
<1> QED
  BY <1>2, SweptOK DEF RoomsOK, Member, Active, Known

(* Saving an edit of the caller's room. *)
LEMMA SaveInv ==
  ASSUME IInv, NEW s \in SessionIds, NEW w \in SweepOutcomes, RoomOf(s) \in RoomIds,
         NEW rm, RoomInv(rm), Save(w, s, rm)
  PROVE  IInv'
<1>1. RoomsOK(rooms') /\ SessionsOK(sessions')
  BY SweptOK, RoomsEdit DEF Save
<1> QED
  BY <1>1, Assemble DEF Save, IInv

-----------------------------------------------------------------------------
(* The actions, one by one *)

LEMMA CreateRoomStep ==
  ASSUME IInv, NEW name \in HumanNames, NEW pass \in Passphrases \cup {None},
         NEW n \in SeatCounts \cup {BrawlSeats}, NEW cpus \in 0..(n - 1),
         1..cpus \subseteq CpuNames, NEW spectators \in BOOLEAN,
         NEW threshold \in Thresholds \cup {BrawlThreshold, None},
         CreateRoom(name, pass, n, cpus, spectators, threshold)
  PROVE  IInv'
<1>1. PICK w \in IF pass = None THEN {rooms} ELSE SweepOutcomes,
           r \in RoomIds, p \in Participants, s \in SessionIds :
        /\ pass # None => \A q \in RoomIds : ~(w[q].status = "OPEN" /\ w[q].pass = pass)
        /\ FreshRoom(w, r) /\ FreshParticipant(w, p) /\ FreshSession(s)
        /\ rooms' = [w EXCEPT ![r] = NewRoom(p, name, pass, n, cpus, spectators, threshold)]
        /\ sessions' = [(IF pass = None THEN sessions ELSE SweptSessions(w))
                          EXCEPT ![s] = Issued(r, p)]
        /\ UNCHANGED <<matches, sockets>>
  BY Zenon DEF CreateRoom
<1> DEFINE ss == IF pass = None THEN sessions ELSE SweptSessions(w)
<1>2. RoomsOK(w) /\ SessionsOK(ss)
  <2>1. CASE pass = None
    BY <2>1 DEF IInv, RoomsOK, SessionsOK, IsActive, RoomOf
  <2>2. CASE pass # None
    BY <2>2, SweptOK
  <2> QED
    BY <2>1, <2>2
<1>3. RoomInv(NewRoom(p, name, pass, n, cpus, spectators, threshold))
  BY NewRoomInv
<1>4. RoomsOK(rooms')
  BY <1>1, <1>2, <1>3, RoomsEdit
<1>5. SessionsOK(sessions')
  <2> HIDE DEF ss
  <2>1. sessions' = [ss EXCEPT ![s] = Issued(r, p)]
    BY <1>1 DEF ss
  <2> QED
    BY <1>2, <2>1, SessionKinds, SessionsEdit
<1> QED
  BY <1>1, <1>4, <1>5, Assemble DEF IInv

LEMMA CreateStep == ASSUME IInv, Create PROVE IInv'
<1>1. PICK name \in HumanNames, pass \in Passphrases \cup {None}, n \in SeatCounts,
           spectators \in SpectatorChoices, threshold \in Thresholds \cup {None} :
        \E cpus \in 0..(n - 1) : CreateRoom(name, pass, n, cpus, spectators, threshold)
  BY DEF Create
<1> PICK cpus \in 0..(n - 1) : CreateRoom(name, pass, n, cpus, spectators, threshold)
  BY <1>1
<1>2. spectators \in BOOLEAN /\ 1..cpus \subseteq CpuNames
  <2>1. n \in Nat /\ 1..(n - 1) \subseteq CpuNames /\ 1..cpus \subseteq 1..(n - 1)
    BY SeatsAssumption
  <2> QED
    BY <2>1, SeatsAssumption
<1> QED
  BY <1>2, CreateRoomStep

LEMMA AdmitStep ==
  ASSUME IInv, NEW w \in SweepOutcomes, NEW r \in RoomIds, NEW name \in HumanNames,
         w[r].status = "OPEN", Admit(w, r, name)
  PROVE  IInv'
<1>1. PICK p \in Participants, s \in SessionIds, i \in SeatIndices(w[r]) :
        /\ FreshParticipant(w, p)
        /\ rooms' = [w EXCEPT ![r] = Seated([@ EXCEPT !.people[p] = Newcomer(name, i)], p, i)]
        /\ sessions' = [SweptSessions(w) EXCEPT ![s] = Issued(r, p)]
        /\ UNCHANGED <<matches, sockets>>
  BY DEF Admit
<1>2. RoomsOK(w) /\ SessionsOK(SweptSessions(w)) /\ RoomInv(w[r])
  BY SweptOK DEF RoomsOK
<1>3. SeatsOf(w[r], p) = {}
  <2>1. p \notin Active(w[r])
    BY <1>1 DEF FreshParticipant, Known, Active
  <2> QED
    BY <1>2, <2>1, Sitting
<1>4. Newcomer(name, i) \in PersonType /\ Newcomer(name, i).state = "ACTIVE"
      /\ Newcomer(name, i).name # None
  <2>1. i \in Nat
    BY <1>2, SeatsShape DEF RoomInv, RoomType, SeatIndices
  <2> QED
    BY <2>1, NoneAssumption DEF Newcomer, PersonType
<1>5. RoomInv(Seated([w[r] EXCEPT !.people[p] = Newcomer(name, i)], p, i))
  BY <1>2, <1>3, <1>4, SeatedInv
<1>6. rooms' = [w EXCEPT ![r] = Seated([w[r] EXCEPT !.people[p] = Newcomer(name, i)], p, i)]
  BY <1>1, <1>2 DEF RoomsOK
<1>7. RoomsOK(rooms')
  BY <1>2, <1>5, <1>6, RoomsEdit
<1>8. SessionsOK(sessions')
  BY <1>1, <1>2, SessionKinds, SessionsEdit
<1> QED
  BY <1>1, <1>7, <1>8, Assemble DEF IInv

LEMMA JoinStep == ASSUME IInv, Join PROVE IInv'
BY AdmitStep DEF Join

LEMMA JoinByPassphraseStep == ASSUME IInv, JoinByPassphrase PROVE IInv'
<1>1. PICK pass \in Passphrases, name \in HumanNames :
        \/ \E w \in SweepOutcomes, r \in RoomIds :
             w[r].status = "OPEN" /\ w[r].pass = pass /\ Admit(w, r, name)
        \/ CreateRoom(name, pass, BrawlSeats, 0, FALSE, BrawlThreshold)
  BY DEF JoinByPassphrase
<1>2. CASE CreateRoom(name, pass, BrawlSeats, 0, FALSE, BrawlThreshold)
  <2>1. 0 \in 0..(BrawlSeats - 1) /\ 1..0 \subseteq CpuNames
    BY SeatsAssumption
  <2> QED
    BY <1>2, <2>1, CreateRoomStep
<1> QED
  BY <1>1, <1>2, AdmitStep

LEMMA RejoinStep == ASSUME IInv, Rejoin PROVE IInv'
<1>1. PICK w \in SweepOutcomes, r \in RoomIds, s \in SessionIds :
    \E p \in Known(w[r]) :
      /\ w[r].status \in {"OPEN", "STARTED"}
      /\ FreshSession(s)
      /\ \/ /\ w[r].people[p].state = "ACTIVE" \/ w[r].status = "STARTED"
            /\ rooms' = [w EXCEPT ![r] = Rejoined(@, p)]
         \/ /\ w[r].people[p].state = "LEFT" /\ w[r].status = "OPEN"
            /\ \E i \in SeatIndices(w[r]) :
                 /\ IsFirstOpen(w[r], i)
                 /\ rooms' = [w EXCEPT ![r] =
                      Rejoined(Seated([@ EXCEPT !.people[p].state = "ACTIVE"], p, i), p)]
      /\ sessions' = [Revoked(SweptSessions(w), r, {p}) EXCEPT ![s] = Issued(r, p)]
      /\ UNCHANGED <<matches, sockets>>
  BY Zenon DEF Rejoin
<1> PICK p \in Known(w[r]) :
        /\ \/ rooms' = [w EXCEPT ![r] = Rejoined(@, p)]
           \/ /\ w[r].people[p].state = "LEFT" /\ w[r].status = "OPEN"
              /\ \E i \in SeatIndices(w[r]) :
                   rooms' = [w EXCEPT ![r] =
                      Rejoined(Seated([@ EXCEPT !.people[p].state = "ACTIVE"], p, i), p)]
        /\ sessions' = [Revoked(SweptSessions(w), r, {p}) EXCEPT ![s] = Issued(r, p)]
        /\ UNCHANGED <<matches, sockets>>
  BY <1>1, Zenon
<1>2. RoomsOK(w) /\ SessionsOK(SweptSessions(w)) /\ RoomInv(w[r]) /\ p \in Participants
  BY SweptOK DEF RoomsOK, Known
<1>3. RoomsOK(rooms')
  <2>1. CASE rooms' = [w EXCEPT ![r] = Rejoined(@, p)]
    <3>1. RoomInv(Rejoined(w[r], p))
      BY <1>2, ConnectedInv DEF Rejoined
    <3>2. rooms' = [w EXCEPT ![r] = Rejoined(w[r], p)]
      BY <1>2, <2>1 DEF RoomsOK
    <3> QED
      BY <1>2, <3>1, <3>2, RoomsEdit
  <2>2. ASSUME NEW i \in SeatIndices(w[r]), w[r].people[p].state = "LEFT",
               rooms' = [w EXCEPT ![r] =
                 Rejoined(Seated([@ EXCEPT !.people[p].state = "ACTIVE"], p, i), p)]
        PROVE  RoomsOK(rooms')
    <3> DEFINE x == [w[r].people[p] EXCEPT !.state = "ACTIVE"]
               back == Seated([w[r] EXCEPT !.people[p] = x], p, i)
    <3>1. x \in PersonType /\ x.state = "ACTIVE" /\ x.name # None
      BY <1>2 DEF RoomInv, RoomType, PersonType
    <3>2. SeatsOf(w[r], p) = {}
      BY <1>2, <2>2, Sitting DEF Active
    <3>3. RoomInv(back)
      BY <1>2, <3>1, <3>2, SeatedInv
    <3>4. p \in Known(back)
      <4>1. [w[r] EXCEPT !.people[p] = x].people[p] = x
        BY <1>2 DEF RoomInv, RoomType
      <4>2. back.people[p].state = x.state
        BY <1>2, <3>1, <4>1 DEF Seated, RoomInv, RoomType, PersonType
      <4> QED
        BY <1>2, <3>1, <4>2 DEF Known
    <3>5. RoomInv(Rejoined(back, p))
      BY <3>3, <3>4, ConnectedInv DEF Rejoined
    <3>6. rooms' = [w EXCEPT ![r] = Rejoined(back, p)]
      <4>1. [w[r] EXCEPT !.people[p].state = "ACTIVE"] = [w[r] EXCEPT !.people[p] = x]
        BY <1>2 DEF RoomInv, RoomType
      <4> QED
        BY <1>2, <2>2, <4>1 DEF RoomsOK
    <3> QED
      BY <1>2, <3>5, <3>6, RoomsEdit
  <2> QED
    BY <1>1, <2>1, <2>2
<1>4. SessionsOK(sessions')
  <2>1. SessionsOK(Revoked(SweptSessions(w), r, {p}))
    BY <1>2, RevokedOK
  <2> QED
    BY <1>1, <1>2, <2>1, SessionKinds, SessionsEdit
<1> QED
  BY <1>1, <1>3, <1>4, Assemble DEF IInv

LEMMA SpectateStep == ASSUME IInv, Spectate PROVE IInv'
<1>1. PICK w \in SweepOutcomes, r \in RoomIds, s \in SessionIds :
        /\ rooms' = w
        /\ sessions' = [SweptSessions(w) EXCEPT ![s] = Issued(r, None)]
        /\ UNCHANGED <<matches, sockets>>
  BY DEF Spectate
<1>2. SessionsOK(sessions')
  BY <1>1, SweptOK, SessionKinds, SessionsEdit
<1> QED
  BY <1>1, <1>2, SweptOK, Assemble DEF IInv

LEMMA RotateSessionStep == ASSUME IInv, RotateSession PROVE IInv'
<1>1. PICK s \in SessionIds, t \in SessionIds :
        /\ IsActive(s)
        /\ sessions' = [sessions EXCEPT ![s] = NoSession, ![t] = Issued(RoomOf(s), PidOf(s))]
        /\ UNCHANGED <<rooms, matches, sockets>>
  BY DEF RotateSession
<1>2. RoomsOK(rooms) /\ SessionsOK(sessions)
  BY DEF IInv, RoomsOK, SessionsOK, IsActive, RoomOf
<1>3. RoomOf(s) \in RoomIds /\ PidOf(s) \in Participants \cup {None}
  BY <1>1 DEF IInv, SessionType, RoomOf, PidOf
<1>4. SessionsOK([sessions EXCEPT ![s] = NoSession])
  BY <1>2, SessionKinds, SessionsEdit
<1>5. SessionsOK(sessions')
  BY <1>1, <1>3, <1>4, SessionKinds, SessionsEdit
<1> QED
  BY <1>1, <1>2, <1>5, Assemble DEF IInv

LEMMA SetReadyStep == ASSUME IInv, SetReady PROVE IInv'
<1>1. PICK s \in SessionIds, w \in SweepOutcomes, ready \in BOOLEAN :
        /\ Member(w, s)
        /\ LET rm == w[RoomOf(s)]
               i == rm.people[PidOf(s)].seat
           IN /\ rm.status = "OPEN" /\ rm.seats[i].pid = PidOf(s)
              /\ Save(w, s, [rm EXCEPT !.seats[i].ready = ready])
  BY Zenon DEF SetReady
<1> DEFINE rm == w[RoomOf(s)]
           i == rm.people[PidOf(s)].seat
<1>2. RoomOf(s) \in RoomIds /\ RoomInv(rm) /\ PidOf(s) \in Participants
  BY <1>1, MemberFacts
<1>3. RoomInv([rm EXCEPT !.seats[i].ready = ready])
  <2> HIDE DEF rm, i
  <2> QED
    BY <1>1, <1>2, SeatMarkInv DEF rm, i
<1> QED
  BY <1>1, <1>2, <1>3, SaveInv

LEMMA SetTeamStep == ASSUME IInv, SetTeam PROVE IInv'
<1>1. PICK s \in SessionIds, w \in SweepOutcomes, team \in Teams \cup {None} :
        /\ Member(w, s)
        /\ LET rm == w[RoomOf(s)]
               i == rm.people[PidOf(s)].seat
           IN /\ rm.status = "OPEN" /\ rm.pass # None /\ rm.seats[i].pid = PidOf(s)
              /\ Save(w, s, [rm EXCEPT !.seats[i].team = team])
  BY Zenon DEF SetTeam
<1> DEFINE rm == w[RoomOf(s)]
           i == rm.people[PidOf(s)].seat
<1>2. RoomOf(s) \in RoomIds /\ RoomInv(rm) /\ PidOf(s) \in Participants
  BY <1>1, MemberFacts
<1>3. RoomInv([rm EXCEPT !.seats[i].team = team])
  BY <1>1, <1>2, SeatMarkInv
<1> QED
  BY <1>1, <1>2, <1>3, SaveInv

LEMMA SetEntryStep == ASSUME IInv, SetEntry PROVE IInv'
<1>1. PICK s \in SessionIds, w \in SweepOutcomes :
        /\ Member(w, s)
        /\ LET rm == w[RoomOf(s)]
               p == PidOf(s)
           IN /\ rm.status = "OPEN" /\ rm.pass # None
              /\ \/ /\ SeatsOf(rm, p) = {}
                    /\ \E i \in SeatIndices(rm) :
                         IsFirstOpen(rm, i) /\ Save(w, s, Seated(rm, p, i))
                 \/ \E i \in SeatsOf(rm, p) : Save(w, s, [rm EXCEPT !.seats[i] = OpenSeat])
  BY Zenon DEF SetEntry
<1> DEFINE rm == w[RoomOf(s)]
           p == PidOf(s)
<1>2. RoomOf(s) \in RoomIds /\ RoomInv(rm) /\ p \in Participants /\ p \in Active(rm)
  BY <1>1, MemberFacts
<1>3. ASSUME NEW i \in SeatIndices(rm), SeatsOf(rm, p) = {}
      PROVE  RoomInv(Seated(rm, p, i))
  <2>1. rm.people[p] \in PersonType /\ rm.people[p].state = "ACTIVE" /\ rm.people[p].name # None
    BY <1>2 DEF RoomInv, RoomType, Active, Known
  <2>2. RoomInv(Seated([rm EXCEPT !.people[p] = rm.people[p]], p, i))
    BY <1>2, <1>3, <2>1, SeatedInv
  <2>3. [rm EXCEPT !.people[p] = rm.people[p]] = rm
    BY <1>2 DEF RoomInv, RoomType
  <2> QED
    BY <2>2, <2>3
<1>4. ASSUME NEW i \in SeatsOf(rm, p)
      PROVE  RoomInv([rm EXCEPT !.seats[i] = OpenSeat])
  <2>1. OpenSeat \in SeatType /\ OpenSeat.controller # "HUMAN"
    BY DEF OpenSeat, SeatType
  <2> QED
    BY <1>2, <1>4, <2>1, Sitting, SeatEditInv
<1> QED
  BY <1>1, <1>2, <1>3, <1>4, SaveInv

LEMMA ShuffleTeamsStep == ASSUME IInv, ShuffleTeams PROVE IInv'
<1>1. PICK s \in SessionIds, w \in SweepOutcomes :
        /\ Host(w, s)
        /\ LET rm == w[RoomOf(s)]
               dealt == HumanSeats(rm)
           IN /\ rm.status = "OPEN" /\ rm.pass # None
              /\ \E order \in Injection(dealt, 0..(Cardinality(dealt) - 1)) :
                   Save(w, s, [rm EXCEPT !.seats = [i \in SeatIndices(rm) |->
                     IF i \in dealt THEN [@[i] EXCEPT !.team = 1 + (order[i] % TeamCount)]
                     ELSE @[i]]])
  BY Zenon DEF ShuffleTeams
<1> DEFINE rm == w[RoomOf(s)]
           dealt == HumanSeats(rm)
<1>2. RoomOf(s) \in RoomIds /\ RoomInv(rm)
  BY <1>1, MemberFacts DEF Host
<1>3. PICK order \in Injection(dealt, 0..(Cardinality(dealt) - 1)) :
        Save(w, s, [rm EXCEPT !.seats = [i \in SeatIndices(rm) |->
          IF i \in dealt THEN [@[i] EXCEPT !.team = 1 + (order[i] % TeamCount)] ELSE @[i]]])
  BY <1>1, Zenon
<1> DEFINE seats == [i \in SeatIndices(rm) |->
                      IF i \in dealt
                      THEN [rm.seats[i] EXCEPT !.team = 1 + (order[i] % TeamCount)]
                      ELSE rm.seats[i]]
<1>4. /\ seats \in [SeatIndices(rm) -> SeatType]
      /\ \A i \in SeatIndices(rm) :
           IF i \in dealt
           THEN seats[i].controller = "HUMAN" /\ seats[i].pid = rm.seats[i].pid
           ELSE seats[i] = rm.seats[i]
  <2> SUFFICES ASSUME NEW i \in SeatIndices(rm)
               PROVE  /\ seats[i] \in SeatType
                      /\ IF i \in dealt
                         THEN seats[i].controller = "HUMAN" /\ seats[i].pid = rm.seats[i].pid
                         ELSE seats[i] = rm.seats[i]
    BY Zenon
  <2>1. rm.seats[i] \in SeatType
    BY <1>2, SeatsShape DEF RoomInv, RoomType, SeatIndices
  <2>2. CASE i \in dealt
    <3>1. order \in [dealt -> 0..(Cardinality(dealt) - 1)]
      BY <1>3 DEF Injection, IsInjective
    <3>2. order[i] \in Int
      BY <2>2, <3>1
    <3>3. 1 + (order[i] % TeamCount) \in Teams
      BY <3>2, SeatsAssumption DEF Teams
    <3> QED
      BY <2>1, <2>2, <3>3 DEF SeatType, HumanSeats
  <2>3. CASE i \notin dealt
    BY <2>1, <2>3
  <2> QED
    BY <2>2, <2>3
<1>5. RoomInv([rm EXCEPT !.seats = seats])
  <2> HIDE DEF seats
  <2> QED
    BY <1>2, <1>4, SeatsRewriteInv
<1> QED
  BY <1>2, <1>3, <1>5, SaveInv

LEMMA SetEndTimeThresholdStep == ASSUME IInv, SetEndTimeThreshold PROVE IInv'
<1>1. PICK s \in SessionIds, w \in SweepOutcomes, threshold \in Thresholds :
        Host(w, s) /\ Save(w, s, [w[RoomOf(s)] EXCEPT !.threshold = threshold])
  BY Zenon DEF SetEndTimeThreshold
<1>2. RoomOf(s) \in RoomIds /\ RoomInv(w[RoomOf(s)])
  BY <1>1, MemberFacts DEF Host
<1>3. [w[RoomOf(s)] EXCEPT !.threshold = threshold] \in RoomType
  BY <1>2 DEF RoomInv, RoomType
<1>4. RoomInv([w[RoomOf(s)] EXCEPT !.threshold = threshold])
  BY <1>2, <1>3, OtherEditInv DEF RoomInv, RoomType
<1> QED
  BY <1>1, <1>2, <1>4, SaveInv

LEMMA SetSeatControllerStep == ASSUME IInv, SetSeatController PROVE IInv'
<1>1. PICK s \in SessionIds, w \in SweepOutcomes :
        /\ Host(w, s) /\ w[RoomOf(s)].status = "OPEN"
        /\ LET rm == w[RoomOf(s)]
           IN \E i \in SeatIndices(rm) \ HumanSeats(rm) :
                \/ \E k \in CpuNames : /\ IsUniqueCpuName(rm, i, k)
                                       /\ Save(w, s, [rm EXCEPT !.seats[i] = CpuSeat(k)])
                \/ Save(w, s, [rm EXCEPT !.seats[i] = OpenSeat])
  BY Zenon DEF SetSeatController
<1> DEFINE rm == w[RoomOf(s)]
<1>2. RoomOf(s) \in RoomIds /\ RoomInv(rm)
  BY <1>1, MemberFacts DEF Host
<1>3. ASSUME NEW i \in SeatIndices(rm),
             NEW x \in {OpenSeat} \cup {CpuSeat(k) : k \in CpuNames}
      PROVE  RoomInv([rm EXCEPT !.seats[i] = x])
  <2>1. x \in SeatType /\ x.controller # "HUMAN"
    <3>1. OpenSeat \in SeatType /\ OpenSeat.controller # "HUMAN"
      BY DEF OpenSeat, SeatType
    <3>2. \A k \in CpuNames : CpuSeat(k) \in SeatType /\ CpuSeat(k).controller # "HUMAN"
      BY DEF CpuSeat, OpenSeat, SeatType
    <3> QED
      BY <3>1, <3>2
  <2> QED
    BY <1>2, <2>1, SeatEditInv
<1> QED
  BY <1>1, <1>2, <1>3, SaveInv

LEMMA InvitationStep ==
  ASSUME IInv, RotateInvitation \/ RevokeInvitation
  PROVE  IInv'
<1>1. PICK s \in SessionIds, w \in SweepOutcomes, invite \in BOOLEAN :
        Host(w, s) /\ Save(w, s, [w[RoomOf(s)] EXCEPT !.invite = invite])
  BY Zenon DEF RotateInvitation, RevokeInvitation
<1>2. RoomOf(s) \in RoomIds /\ RoomInv(w[RoomOf(s)])
  BY <1>1, MemberFacts DEF Host
<1>3. [w[RoomOf(s)] EXCEPT !.invite = invite] \in RoomType
  BY <1>2 DEF RoomInv, RoomType
<1>4. RoomInv([w[RoomOf(s)] EXCEPT !.invite = invite])
  BY <1>2, <1>3, OtherEditInv DEF RoomInv, RoomType
<1> QED
  BY <1>1, <1>2, <1>4, SaveInv

LEMMA StartStep == ASSUME IInv, Start PROVE IInv'
<1>1. PICK s \in SessionIds, w \in SweepOutcomes, m \in MatchIds :
        /\ Host(w, s) /\ FreshMatch(m)
        /\ LET rm == w[RoomOf(s)]
           IN /\ rm.status = "OPEN" /\ SeatsReady(rm) /\ RosterValid(rm)
              /\ rooms' = [w EXCEPT ![RoomOf(s)] = Started(rm, m)]
              /\ matches' = [matches EXCEPT ![m] = NewMatch(HumanRoster(rm))]
        /\ sessions' = SweptSessions(w)
        /\ UNCHANGED sockets
  BY Zenon DEF Start
<1> DEFINE rm == w[RoomOf(s)]
<1>2. RoomOf(s) \in RoomIds /\ RoomInv(rm)
  BY <1>1, MemberFacts DEF Host
<1>3. RoomsOK(rooms')
  <2>1. RoomInv(Started(rm, m))
    BY <1>1, <1>2, StartedInv
  <2>2. RoomsOK(w)
    BY SweptOK
  <2> QED
    BY <1>1, <1>2, <2>1, <2>2, RoomsEdit
<1>4. matches' \in [MatchIds -> MatchType]
  <2>1. NewMatch(HumanRoster(rm)) \in MatchType
    BY <1>2, RosterNames DEF NewMatch, NoMatch, MatchType
  <2> QED
    BY <1>1, <2>1 DEF IInv
<1> QED
  BY <1>1, <1>3, <1>4, SweptOK, Assemble DEF IInv

LEMMA ReturnToLobbyStep == ASSUME IInv, ReturnToLobby PROVE IInv'
<1>1. PICK s \in SessionIds, w \in SweepOutcomes :
        /\ Member(w, s)
        /\ LET rm == w[RoomOf(s)]
           IN /\ rm.status = "STARTED" /\ matches[rm.match].status = "ENDED"
              /\ Save(w, s, BackInLobby(rm))
  BY Zenon DEF ReturnToLobby
<1>2. RoomOf(s) \in RoomIds /\ RoomInv(w[RoomOf(s)])
  BY <1>1, MemberFacts
<1>3. RoomInv(BackInLobby(w[RoomOf(s)]))
  BY <1>1, <1>2, BackInLobbyInv
<1> QED
  BY <1>1, <1>2, <1>3, SaveInv

LEMMA LeaveStep == ASSUME IInv, Leave PROVE IInv'
<1>1. PICK s \in SessionIds, w \in SweepOutcomes :
        /\ SessionRoom(w, s)
        /\ \/ /\ rooms' = w
              /\ sessions' = [SweptSessions(w) EXCEPT ![s] = NoSession]
           \/ /\ PidOf(s) \in Known(w[RoomOf(s)])
              /\ \E rm \in LeaveOutcomes(w[RoomOf(s)], PidOf(s)) :
                   /\ rooms' = [w EXCEPT ![RoomOf(s)] = rm]
                   /\ sessions' = Revoked(SweptSessions(w), RoomOf(s),
                                     IF rm.status = "EXPIRED" THEN Known(rm) ELSE {PidOf(s)})
        /\ UNCHANGED <<matches, sockets>>
  BY Zenon DEF Leave
<1>2. RoomsOK(w) /\ SessionsOK(SweptSessions(w))
  BY SweptOK
<1>3. CASE rooms' = w /\ sessions' = [SweptSessions(w) EXCEPT ![s] = NoSession]
  <2>1. SessionsOK(sessions')
    BY <1>2, <1>3, SessionKinds, SessionsEdit
  <2> QED
    BY <1>1, <1>2, <1>3, <2>1, Assemble DEF IInv
<1>4. ASSUME PidOf(s) \in Known(w[RoomOf(s)]),
             NEW rm \in LeaveOutcomes(w[RoomOf(s)], PidOf(s)),
             rooms' = [w EXCEPT ![RoomOf(s)] = rm],
             sessions' = Revoked(SweptSessions(w), RoomOf(s),
                           IF rm.status = "EXPIRED" THEN Known(rm) ELSE {PidOf(s)})
      PROVE  IInv'
  <2>1. RoomOf(s) \in RoomIds
    BY <1>1 DEF SessionRoom, IInv, RoomOf, SessionType
  <2>2. RoomInv(rm)
    BY <1>2, <1>4, <2>1, LeaveInv DEF RoomsOK
  <2>3. RoomsOK(rooms') /\ SessionsOK(sessions')
    BY <1>2, <1>4, <2>1, <2>2, RoomsEdit, RevokedOK
  <2> QED
    BY <1>1, <2>3, Assemble DEF IInv
<1> QED
  BY <1>1, <1>3, <1>4

(* A socket's connection change, on the rooms and on the match. *)
LEMMA RecordStep ==
  ASSUME IInv, NEW k \in SocketType, NEW connected \in BOOLEAN, RecordConnection(k, connected),
         sockets' \in SUBSET SocketType
  PROVE  IInv'
<1>1. k.match \in MatchIds /\ k.room \in RoomIds /\ k.pid \in Participants \cup {None}
      /\ k.player \in HumanNames \cup {None}
  BY DEF SocketType
<1>2. matches' \in [MatchIds -> MatchType]
  <2> DEFINE mt == matches[k.match]
  <2>1. mt \in MatchType
    BY <1>1 DEF IInv
  <2>2. MatchConnection(mt, k.player, connected) \in MatchType
    BY <2>1 DEF MatchConnection, MatchType
  <2> QED
    BY <1>1, <2>2 DEF RecordConnection, IInv
<1>3. RoomsOK(rooms')
  <2>1. RoomsOK(rooms) /\ RoomInv(rooms[k.room])
    BY <1>1 DEF IInv, RoomsOK
  <2>2. RoomInv(RoomConnection(rooms[k.room], k.pid, connected))
    BY <1>1, <2>1, ConnectionInv
  <2> QED
    BY <1>1, <2>1, <2>2, RoomsEdit DEF RecordConnection, RoomsOK
<1>4. SessionsOK(sessions')
  BY DEF RecordConnection, IInv, SessionsOK, IsActive, RoomOf
<1> QED
  BY <1>2, <1>3, <1>4, Assemble

LEMMA OpenSocketStep == ASSUME IInv, OpenSocket PROVE IInv'
<1>1. PICK s \in SessionIds :
        /\ Authorized(s)
        /\ \/ /\ sockets' = sockets \cup {WithCount(Identity(s), 1)}
              /\ RecordConnection(WithCount(Identity(s), 1), TRUE)
           \/ \E k \in sockets :
                /\ SameKey(k, Identity(s)) /\ k.count < MaxSockets
                /\ sockets' = (sockets \ {k}) \cup {[k EXCEPT !.count = @ + 1]}
                /\ UNCHANGED <<rooms, sessions, matches>>
  BY Zenon DEF OpenSocket
<1>2. CASE /\ sockets' = sockets \cup {WithCount(Identity(s), 1)}
           /\ RecordConnection(WithCount(Identity(s), 1), TRUE)
  <2>1. sessions[s] \in SessionType /\ RoomOf(s) \in RoomIds /\ PidOf(s) \in Participants \cup {None}
    BY <1>1 DEF Authorized, IInv, RoomOf, PidOf, SessionType
  <2>2. rooms[RoomOf(s)] \in RoomType /\ rooms[RoomOf(s)].match \in MatchIds
    BY <1>1, <2>1 DEF Authorized, IInv, RoomInv, RoomType
  <2>3. PlayerOf(s) \in HumanNames \cup {None}
    BY <2>1, <2>2 DEF PlayerOf, RoomType, PersonType
  <2>4. WithCount(Identity(s), 1) \in SocketType
    BY <2>1, <2>2, <2>3, TimesAssumption DEF WithCount, Identity, SocketType
  <2>5. sockets' \in SUBSET SocketType
    BY <1>2, <2>4 DEF IInv
  <2> QED
    BY <1>2, <2>4, <2>5, RecordStep
<1>3. ASSUME NEW k \in sockets, k.count < MaxSockets,
             sockets' = (sockets \ {k}) \cup {[k EXCEPT !.count = @ + 1]},
             UNCHANGED <<rooms, sessions, matches>>
      PROVE  IInv'
  <2>1. [k EXCEPT !.count = @ + 1] \in SocketType
    BY <1>3, TimesAssumption DEF IInv, SocketType
  <2> QED
    BY <1>3, <2>1 DEF IInv, IsActive, RoomOf
<1> QED
  BY <1>1, <1>2, <1>3

LEMMA CloseSocketStep == ASSUME IInv, CloseSocket PROVE IInv'
<1>1. PICK k \in sockets :
        IF k.count > 1
        THEN /\ sockets' = (sockets \ {k}) \cup {[k EXCEPT !.count = @ - 1]}
             /\ UNCHANGED <<rooms, sessions, matches>>
        ELSE /\ sockets' = sockets \ {k}
             /\ RecordConnection(k, FALSE)
  BY Zenon DEF CloseSocket
<1>2. k \in SocketType
  BY DEF IInv
<1>3. CASE k.count > 1
  <2>1. [k EXCEPT !.count = @ - 1] \in SocketType
    BY <1>2, <1>3, TimesAssumption DEF SocketType
  <2> QED
    BY <1>1, <1>3, <2>1 DEF IInv, IsActive, RoomOf
<1>4. CASE ~(k.count > 1)
  <2>1. sockets' \in SUBSET SocketType
    BY <1>1, <1>4 DEF IInv
  <2> QED
    BY <1>1, <1>2, <1>4, <2>1, RecordStep
<1> QED
  BY <1>3, <1>4

LEMMA MatchStep == ASSUME IInv, InputTimesOut \/ MatchEnds PROVE IInv'
<1>1. UNCHANGED <<rooms, sessions, sockets>>
  BY DEF InputTimesOut, MatchEnds
<1>2. matches' \in [MatchIds -> MatchType]
  <2>1. CASE InputTimesOut
    <3>1. PICK m \in MatchIds : \E name \in matches[m].humans \ matches[m].cpuRun :
            matches' = [matches EXCEPT ![m].cpuRun = @ \cup {name},
                                       ![m].offline = @ \cup {name}]
      BY <2>1 DEF InputTimesOut
    <3>2. PICK name \in matches[m].humans \ matches[m].cpuRun :
            matches' = [matches EXCEPT ![m].cpuRun = @ \cup {name},
                                       ![m].offline = @ \cup {name}]
      BY <3>1
    <3> DEFINE mt == [matches[m] EXCEPT !.cpuRun = @ \cup {name}, !.offline = @ \cup {name}]
    <3>3. mt \in MatchType
      BY DEF IInv, MatchType
    <3>4. matches' = [matches EXCEPT ![m] = mt]
      BY <3>2 DEF IInv
    <3> QED
      BY <3>3, <3>4 DEF IInv
  <2>2. CASE MatchEnds
    BY <2>2 DEF MatchEnds, IInv, MatchType
  <2> QED
    BY <2>1, <2>2
<1> QED
  BY <1>1, <1>2 DEF IInv, IsActive, RoomOf

LEMMA SweepStep == ASSUME IInv, Sweep PROVE IInv'
BY SweptOK, Assemble DEF Sweep, IInv

LEMMA TickStep == ASSUME IInv, Tick PROVE IInv'
<1>1. ASSUME NEW t \in Nat \cup {NoTimer}
      PROVE  /\ Elapse(t) \in Nat \cup {NoTimer} /\ (t \in Nat => Elapse(t) \in Nat)
             /\ (Elapse(t) > 0 => t > 0)
  BY DEF Elapse, NoTimer
<1>2. ASSUME NEW r \in RoomIds PROVE RoomInv(rooms'[r])
  <2> DEFINE rm == rooms[r]
  <2>1. RoomInv(rm) /\ rm.expires \in Nat /\ rm.delete \in Nat /\ rm.hostGone \in Nat \cup {NoTimer}
    BY DEF IInv, RoomInv, RoomType
  <2>2. rooms'[r] = [rm EXCEPT !.expires = Elapse(@), !.delete = Elapse(@), !.hostGone = Elapse(@)]
    BY DEF Tick
  <2> DEFINE e == Elapse(rm.expires)
             d == Elapse(rm.delete)
             g == Elapse(rm.hostGone)
  <2>3. rooms'[r] \in RoomType
    <3>1. e \in Nat /\ d \in Nat /\ g \in Nat \cup {NoTimer}
      BY <1>1, <2>1
    <3>2. rooms'[r] = [rm EXCEPT !.expires = e, !.delete = d, !.hostGone = g]
      BY <2>2
    <3> HIDE DEF e, d, g
    <3> QED
      BY <2>1, <3>1, <3>2 DEF RoomInv, RoomType
  <2> QED
    BY <2>1, <2>2, <2>3, OtherEditInv DEF RoomInv, RoomType
<1>3. RoomsOK(rooms')
  <2>1. DOMAIN rooms' = RoomIds /\ rooms' = [r \in RoomIds |-> rooms'[r]]
    BY DEF Tick
  <2> QED
    BY <1>2, <2>1 DEF RoomsOK, RoomInv
<1>4. SessionsOK(sessions')
  BY <1>1 DEF Tick, SessionsOK, IInv, SessionType, IsActive, RoomOf
<1> QED
  BY <1>3, <1>4, Assemble DEF Tick, IInv

-----------------------------------------------------------------------------
(* The theorems *)

LEMMA InitIInv == Init => IInv
<1> SUFFICES ASSUME Init PROVE IInv
  OBVIOUS
<1>1. RoomInv(AbsentRoom) /\ AbsentRoom \in RoomType
  BY AbsentInv DEF RoomInv
<1>2. NoMatch \in MatchType
  BY DEF NoMatch, MatchType
<1> QED
  BY <1>1, <1>2, SessionKinds DEF Init, IInv, IsActive

LEMMA NextIInv == IInv /\ [Next]_vars => IInv'
<1> SUFFICES ASSUME IInv, [Next]_vars PROVE IInv'
  OBVIOUS
<1>1. CASE Create
  BY <1>1, CreateStep
<1>2. CASE Join \/ JoinByPassphrase \/ Rejoin \/ Spectate
  BY <1>2, JoinStep, JoinByPassphraseStep, RejoinStep, SpectateStep
<1>3. CASE RotateSession \/ RotateInvitation \/ RevokeInvitation
  BY <1>3, RotateSessionStep, InvitationStep
<1>4. CASE SetReady \/ SetTeam \/ SetEntry \/ ShuffleTeams \/ SetEndTimeThreshold
           \/ SetSeatController
  BY <1>4, SetReadyStep, SetTeamStep, SetEntryStep, ShuffleTeamsStep,
     SetEndTimeThresholdStep, SetSeatControllerStep
<1>5. CASE Start \/ ReturnToLobby \/ Leave
  BY <1>5, StartStep, ReturnToLobbyStep, LeaveStep
<1>6. CASE OpenSocket \/ CloseSocket \/ InputTimesOut \/ MatchEnds
  BY <1>6, OpenSocketStep, CloseSocketStep, MatchStep
<1>7. CASE Sweep \/ Tick
  BY <1>7, SweepStep, TickStep
<1>8. CASE UNCHANGED vars
  BY <1>8 DEF vars, IInv, IsActive, RoomOf
<1> QED
  BY <1>1, <1>2, <1>3, <1>4, <1>5, <1>6, <1>7, <1>8 DEF Next

(* The inductive invariant holds at every step of the service. *)
THEOREM Invariant == Spec => []IInv
BY InitIInv, NextIInv, PTL DEF Spec

(* The variables keep their types, and a room is STARTED exactly while it    *)
(* has a match (start, its rollback, returnToLobby and expiry).              *)
THEOREM TypesHold == Spec => []TypeOK
<1>1. IInv => TypeOK
  BY DEF IInv, RoomInv, TypeOK
<1> QED
  BY <1>1, Invariant, PTL

(* Human seats stay bound to the participants in them, through any order of  *)
(* joining, rejoining, standing up, seat changes and leaving.                *)
THEOREM SeatsStayBound == Spec => []SeatBinding
<1>1. IInv => SeatBinding
  BY DEF IInv, RoomInv, SeatBinding
<1> QED
  BY <1>1, Invariant, PTL

(* An open or playing room always has a host who has not left it, whatever   *)
(* the sweep's successions and the hosts' leaving did before.                *)
THEOREM HostStaysPresent == Spec => []HostIsPresent
<1>1. IInv => HostIsPresent
  BY DEF IInv, RoomInv, HostIsPresent
<1> QED
  BY <1>1, Invariant, PTL
=============================================================================
