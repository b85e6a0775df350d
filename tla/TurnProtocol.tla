---------------------------- MODULE TurnProtocol ----------------------------
(* What the game engine promises about turns, whatever cards do: who is      *)
(* asked, when the turn passes and to whom, and when a match is over.        *)
EXTENDS EngineRules

CONSTANT Nobody   \* asked when the match is over

VARIABLES
  order,    \* turnOrder
  cursor,   \* turnCursor: whose turn it is
  alive,    \* the players not yet lost
  lost,     \* defeatedThisTurn
  asked,    \* the player whose input the match waits for
  gf,       \* gfCount
  result
turnVars == <<order, cursor, alive, lost, asked, gf, result>>

Orders == {o \in [1..Cardinality(Players) -> Players] : \A p \in Players : \E i \in DOMAIN o : o[i] = p}

TurnTypeOK ==
  /\ order \in Orders /\ cursor \in DOMAIN order
  /\ alive \subseteq Players /\ lost \subseteq Players /\ gf \in Nat
  /\ asked \in Players \cup {Nobody}

Init ==
  /\ order \in Orders /\ cursor = 1 /\ asked = order[1]
  /\ alive = Players /\ lost = {} /\ gf = 1 /\ result = NoResult

(* Nobody comes back, and who is lost is counted for the turn.               *)
Losing ==
  /\ result = NoResult
  /\ alive' \in SUBSET alive /\ lost' = lost \cup (alive \ alive')
  /\ UNCHANGED order

(* The turn is interrupted: somebody alive is asked how he reacts.           *)
Interrupt ==
  /\ Losing
  /\ asked' \in alive' /\ gf' \in Nat /\ gf' >= gf
  /\ UNCHANGED <<cursor, result>>

(* The turn passes to the next player alive, if the match is not decided.    *)
Pass ==
  /\ result = NoResult /\ UNCHANGED <<order, result>>
  /\ alive' \in SUBSET alive /\ lost' = {}
  /\ currentMatchResult(alive', lost \cup (alive \ alive')) = NoResult
  /\ asked' = NextAlive(order, cursor, alive')
  /\ cursor' \in DOMAIN order /\ order[cursor'] = asked' /\ gf' \in Nat /\ gf' > gf

(* The match ends as soon as its result says so.                             *)
Finish ==
  /\ Losing
  /\ result' = currentMatchResult(alive', lost') /\ result' # NoResult
  /\ asked' = Nobody /\ gf' \in Nat /\ gf' >= gf /\ UNCHANGED cursor

Next == Interrupt \/ Pass \/ Finish
Spec == Init /\ [][Next]_turnVars

(* Whoever the match waits for is alive, until nobody is waited for because  *)
(* the match is over.                                                        *)
AskedIsAlive ==
  IF result = NoResult THEN asked \in alive ELSE asked = Nobody

(* A match that was won was won by players of one team, and by everybody     *)
(* left of it.                                                               *)
WinnersAreOneTeam ==
  result.kind = "WIN" =>
    result.winners = alive /\ alive # {} /\ \A p, q \in alive : Team[p] = Team[q]
=============================================================================
