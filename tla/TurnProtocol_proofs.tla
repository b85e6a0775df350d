------------------------- MODULE TurnProtocol_proofs -------------------------
(* Proofs about turns, for every number of players and teams, and about the  *)
(* rules of EngineRules that only compute.                                   *)
(*                                                                           *)
(* What makes the turn invariants inductive is that a match goes on only     *)
(* while somebody is alive: then NextAlive finds somebody in the turn order. *)
EXTENDS TurnProtocol, WellFoundedInduction, FiniteSetTheorems, SequenceTheorems, TLAPS

(* A set of numbers that is not empty has a least one.                       *)
LEMMA LeastOfNumbers ==
  ASSUME NEW T \in SUBSET Nat, T # {}
  PROVE  \E x \in T : \A y \in T : x <= y
<1>1. PICK x \in T : \A y \in T : ~(<<y, x>> \in OpToRel(<, Nat))
  BY NatLessThanWellFounded, WFMin
<1>2. \A y \in T : ~(y < x)
  BY <1>1 DEF OpToRel
<1> QED
  BY <1>2

LEMMA OrderIsSequence ==
  ASSUME NEW o \in Orders
  PROVE  /\ Cardinality(Players) \in Nat
         /\ Len(o) = Cardinality(Players) /\ DOMAIN o = 1..Len(o)
         /\ \A i \in 1..Len(o) : o[i] \in Players
         /\ \A p \in Players : \E i \in 1..Len(o) : o[i] = p
<1>1. Cardinality(Players) \in Nat
  BY PlayersAssumption, FS_CardinalityType
<1>2. o \in [1..Cardinality(Players) -> Players]
  BY DEF Orders
<1>3. o \in Seq(Players)
  BY <1>1, <1>2
<1>4. Len(o) = Cardinality(Players)
  BY <1>1, <1>2, <1>3, LenProperties
<1> QED
  BY <1>1, <1>2, <1>4 DEF Orders

(* Counting on from the cursor and round the table reaches every index, and   *)
(* nothing but indices.                                                      *)
LEMMA RoundTheTable ==
  ASSUME NEW n \in Nat, NEW cur \in 1..n
  PROVE  /\ \A off \in 1..n : ((cur + off - 1) % n) + 1 \in 1..n
         /\ \A i \in 1..n : \E off \in 1..n : ((cur + off - 1) % n) + 1 = i
<1>1. \A off \in 1..n : ((cur + off - 1) % n) + 1 \in 1..n
  OBVIOUS
<1>2. ASSUME NEW i \in 1..n
      PROVE  \E off \in 1..n : ((cur + off - 1) % n) + 1 = i
  <2>1. CASE i > cur
    <3>1. ((cur + (i - cur) - 1) % n) + 1 = i
      BY <2>1
    <3> i - cur \in 1..n
      BY <2>1
    <3> WITNESS i - cur \in 1..n
    <3> QED
      BY <3>1
  <2>2. CASE i <= cur
    <3>1. ((cur + (i - cur + n) - 1) % n) + 1 = i
      BY <2>2
    <3> i - cur + n \in 1..n
      BY <2>2
    <3> WITNESS i - cur + n \in 1..n
    <3> QED
      BY <3>1
  <2> QED
    BY <2>1, <2>2
<1> QED
  BY <1>1, <1>2

(* Who is asked next is alive, and nobody alive was passed over on the way.   *)
THEOREM NextIsFirstAlive ==
  ASSUME NEW o \in Orders, NEW cur \in DOMAIN o, NEW living \in SUBSET Players, living # {}
  PROVE  /\ NextAlive(o, cur, living) \in living
         /\ \E off \in 1..Len(o) :
              /\ NextAlive(o, cur, living) = o[((cur + off - 1) % Len(o)) + 1]
              /\ \A other \in 1..Len(o) :
                   o[((cur + other - 1) % Len(o)) + 1] \in living => off <= other
<1> DEFINE n == Len(o)
           at(off) == o[((cur + off - 1) % n) + 1]
           found == {off \in 1..n : at(off) \in living}
<1>1. n \in Nat /\ cur \in 1..n
  BY OrderIsSequence
<1>2. found # {}
  <2>1. PICK p \in living : TRUE
    OBVIOUS
  <2>2. PICK i \in 1..n : o[i] = p
    BY <2>1, OrderIsSequence
  <2>3. PICK off \in 1..n : ((cur + off - 1) % n) + 1 = i
    BY <1>1, RoundTheTable
  <2>4. at(off) = p
    BY <2>2, <2>3
  <2> QED
    BY <2>1, <2>4
<1>3. PICK x \in found : \A y \in found : x <= y
  <2>1. found \in SUBSET Nat
    BY <1>1
  <2> HIDE DEF found
  <2> QED
    BY <1>2, <2>1, LeastOfNumbers
<1> DEFINE first == CHOOSE off \in found : \A other \in found : off <= other
<1>4. first \in found /\ \A other \in found : first <= other
  <2> HIDE DEF found
  <2> QED
    BY <1>3
<1>5. NextAlive(o, cur, living) = at(first)
  BY DEF NextAlive
<1> HIDE DEF first
<1> QED
  BY <1>4, <1>5

LEMMA UndecidedHasSomebody ==
  ASSUME NEW living \in SUBSET Players, NEW gone, currentMatchResult(living, gone) = NoResult
  PROVE  living # {}
BY DEF currentMatchResult, NoResult, Draw

---------------------------------------------------------------------------
(* The invariants of a match                                                 *)

IInv == TurnTypeOK /\ AskedIsAlive /\ WinnersAreOneTeam

LEMMA InitIInv == Init => IInv
<1> SUFFICES ASSUME Init PROVE IInv
  OBVIOUS
<1>1. 1 \in DOMAIN order /\ order[1] \in Players
  <2>1. PICK p \in Players : TRUE
    BY PlayersAssumption
  <2> QED
    BY <2>1, OrderIsSequence DEF Init
<1>2. TurnTypeOK
  BY <1>1 DEF Init, TurnTypeOK
<1>3. AskedIsAlive /\ WinnersAreOneTeam
  BY <1>1 DEF Init, AskedIsAlive, WinnersAreOneTeam, NoResult
<1> QED
  BY <1>2, <1>3 DEF IInv

LEMMA NextIInv == IInv /\ [Next]_turnVars => IInv'
<1> SUFFICES ASSUME IInv, [Next]_turnVars PROVE IInv'
  OBVIOUS
<1>1. CASE Interrupt
  BY <1>1 DEF Interrupt, Losing, IInv, TurnTypeOK, AskedIsAlive, WinnersAreOneTeam, NoResult
<1>2. CASE Pass
  <2>1. alive' \in SUBSET Players /\ alive' # {}
    BY <1>2, UndecidedHasSomebody DEF Pass, IInv, TurnTypeOK
  <2>2. asked' \in alive'
    BY <1>2, <2>1, NextIsFirstAlive DEF Pass, IInv, TurnTypeOK
  <2>3. TurnTypeOK'
    BY <1>2, <2>1, <2>2 DEF Pass, IInv, TurnTypeOK
  <2> QED
    BY <1>2, <2>2, <2>3 DEF Pass, IInv, AskedIsAlive, WinnersAreOneTeam, NoResult
<1>3. CASE Finish
  <2>1. TurnTypeOK'
    BY <1>3 DEF Finish, Losing, IInv, TurnTypeOK
  <2>2. AskedIsAlive'
    BY <1>3 DEF Finish, AskedIsAlive
  <2>3. WinnersAreOneTeam'
    BY <1>3 DEF Finish, Losing, WinnersAreOneTeam, currentMatchResult, NoResult, Draw
  <2> QED
    BY <2>1, <2>2, <2>3 DEF IInv
<1>4. CASE UNCHANGED turnVars
  BY <1>4 DEF turnVars, IInv, TurnTypeOK, AskedIsAlive, WinnersAreOneTeam
<1> QED
  BY <1>1, <1>2, <1>3, <1>4 DEF Next

LEMMA Invariant == Spec => []IInv
<1> QED
  BY InitIInv, NextIInv, PTL DEF Spec

(* The cursor stays in the turn order and everybody involved is a player.    *)
THEOREM TurnsAreTyped == Spec => []TurnTypeOK
<1>1. IInv => TurnTypeOK
  BY DEF IInv
<1> QED
  BY <1>1, Invariant, PTL

(* Whoever the match waits for is alive.                                     *)
THEOREM OnlyTheLivingAreAsked == Spec => []AskedIsAlive
<1>1. IInv => AskedIsAlive
  BY DEF IInv
<1> QED
  BY <1>1, Invariant, PTL

(* The winners of a match are all who are left of it, and of one team.       *)
THEOREM OneTeamWins == Spec => []WinnersAreOneTeam
<1>1. IInv => WinnersAreOneTeam
  BY DEF IInv
<1> QED
  BY <1>1, Invariant, PTL

(* Nobody comes back, and a match that is over stays over with its result.   *)
LossIsFinal == alive' \subseteq alive /\ (result # NoResult => UNCHANGED turnVars)
THEOREM LossesAreFinal == Spec => [][LossIsFinal]_turnVars
<1>1. [Next]_turnVars => [LossIsFinal]_turnVars
  BY DEF Next, Interrupt, Losing, Pass, Finish, LossIsFinal, turnVars
<1> QED
  BY <1>1, PTL DEF Spec

---------------------------------------------------------------------------
(* The rules that only compute                                               *)

(* A resource never leaves its range, whatever is added or taken.             *)
THEOREM ResourcesStayInRange ==
  ASSUME NEW n \in Int
  PROVE  /\ clampResource(n) \in 0..MaxResource
         /\ n \in 0..MaxResource => clampResource(n) = n
BY ResourceAssumption DEF clampResource, Most, Least

(* A price is paid exactly, money first, then MP, then HP, and never with     *)
(* more than there is when it can be paid at all.                            *)
THEOREM PricesArePaidExactly ==
  ASSUME NEW money \in Nat, NEW mp \in Nat, NEW hp \in Nat, NEW price \in Nat
  PROVE  LET paid == Payment(money, mp, price)
         IN /\ paid.money + paid.mp + paid.hp = price
            /\ paid.money \in 0..money /\ paid.mp \in 0..mp /\ paid.hp \in Nat
            /\ paid.mp > 0 => paid.money = money
            /\ paid.hp > 0 => paid.mp = mp
            /\ canPayPrice(money, mp, hp, price) => paid.hp <= hp
BY DEF Payment, Least, canPayPrice
=============================================================================
