------------------------------ MODULE RuntimeMatch ------------------------------
(***************************************************************************)
(* One online match as the server runs it: GameCommandApi (command-api.ts) *)
(* with the command entry of the engine (engine.ts handleCommand), input    *)
(* deadlines, the CPU that stands in and connection changes (session.ts,    *)
(* runtime-match.ts), the sockets and the scheduler that drive them         *)
(* (runtime-server.ts) and the durable record of the match                  *)
(* (durable-store.ts, persistence.ts), which survives the process.          *)
(*                                                                         *)
(* The rules of the game are abstracted to who must answer next: a command  *)
(* of that player whose content is legal takes effect and leads to any      *)
(* player's input or to the end of the match.  Each event of the engine     *)
(* increments the event sequence and the revision by one; revision stands   *)
(* for both.                                                                *)
(*                                                                         *)
(* A handler runs to its end in one step, except that the process may die   *)
(* once a transition is in the store and before anyone heard of it (Die).   *)
(* Dates are the time left until they pass, as in OnlineRoom.               *)
(***************************************************************************)
EXTENDS Integers, FiniteSets

CONSTANTS
  Humans, Bots,      \* players: people, and seats that were CPUs from the start
  CommandIds,        \* commandIds, drawn at random by browsers
  Contents,          \* payloads of commands
  LegalContents,     \* the payloads the rules accept from the player to answer
  TurnTime,          \* the 30 seconds of deadlineFor
  CpuLimit,          \* maxCpuDecisionsPerTick
  MaxEvents,         \* bound: events of one handler
  MaxRevision,       \* bound: revision of the match
  MaxRequests,       \* bound: different requests ever sent
  MaxSockets,        \* bound: sockets open at once for one player
  MaxCrashes,        \* bound: times the process dies
  Nobody

ASSUME PlayersAssumption ==
  /\ Nobody \notin Humans \cup Bots
  /\ Humans \cap Bots = {}

ASSUME BoundsAssumption ==
  /\ TurnTime \in Nat \ {0}
  /\ CpuLimit \in Nat \ {0}
  /\ MaxEvents \in Nat \ {0}
  /\ MaxRevision \in Nat \ {0}
  /\ MaxSockets \in Nat \ {0}
  /\ MaxCrashes \in Nat
  /\ LegalContents \subseteq Contents

VARIABLES
  store,      \* the match in the durable store
  mem,        \* the entry of #matches
  up,         \* is the process running
  responses,  \* #responses: the answer cached for each actor and commandId
  sockets,    \* #connectionCounts: open sockets of each person
  published,  \* latest revision sent to anybody
  requests,   \* every command sent: each may arrive late, twice, or never
  answers,    \* every answer given to a command
  crashes     \* how often the process died

vars == <<store, mem, up, responses, sockets, published, requests, answers, crashes>>

Players == Humans \cup Bots
NoTimer == -1

-----------------------------------------------------------------------------
(* The state of a match *)

IsPending(m, p) == p # Nobody /\ m.pending = p
Ended(m) == m.pending = Nobody
OwnedByCpu(m) == ~Ended(m) /\ m.controller[m.pending] = "CPU"

DeadlineFor(m, p) ==
  IF p # Nobody /\ m.controller[p] = "HUMAN" THEN TurnTime ELSE NoTimer

(* After n more events the engine asks p for input, or the match has ended.  *)
Asking(m, p, n) ==
  [m EXCEPT !.revision = @ + n, !.pending = p, !.asked = m.revision + n,
            !.deadline = DeadlineFor(m, p)]

Fits(m) == m.revision <= MaxRevision

Resolutions(m) ==
  {s \in {Asking(m, p, n) : p \in Players \cup {Nobody}, n \in 1..MaxEvents} : Fits(s)}

(* Slip: the expected revision is not compared.                              *)
RefusalAnyRevision(m, c) ==
  IF m.controller[c.actor] # "HUMAN" THEN "CONTROLLER_MISMATCH"
  ELSE IF IsPending(m, c.actor) /\ m.deadline = 0 THEN "INPUT_DEADLINE_EXPIRED"
  ELSE IF ~IsPending(m, c.actor) \/ c.content \notin LegalContents THEN "ILLEGAL"
  ELSE "NONE"

(* baseCommandValidation, then the phase and rule checks of the handler.     *)
Refusal(m, c) ==
  IF m.controller[c.actor] # "HUMAN" THEN "CONTROLLER_MISMATCH"
  ELSE IF c.expected # m.revision THEN "STALE_REVISION"
  ELSE IF IsPending(m, c.actor) /\ m.deadline = 0 THEN "INPUT_DEADLINE_EXPIRED"
  ELSE IF ~IsPending(m, c.actor) \/ c.content \notin LegalContents THEN "ILLEGAL"
  ELSE "NONE"

(* An entry of processedCommands: its fingerprint covers the command and the *)
(* occurredAt the server stamped on it, so justNow says whether the clock    *)
(* still shows that date.                                                    *)
Processed(c) == [cmd |-> c, justNow |-> TRUE]

(* Slip: only an identical command counts as processed.                      *)
IsProcessedIdentically(m, c) == \E e \in m.processed : e.cmd = c

IsProcessed(m, c) == \E e \in m.processed : e.cmd.id = c.id

(* handleCommand: the states and codes a command can lead to.               *)
HandleCommand(m, c) ==
  IF IsProcessed(m, c)
  THEN {[state |-> m, code |-> IF Processed(c) \in m.processed
                               THEN "OK" ELSE "DUPLICATE_COMMAND_CONFLICT"]}
  ELSE IF Refusal(m, c) # "NONE"
  THEN {[state |-> m, code |-> Refusal(m, c)]}
  ELSE {[state |-> [s EXCEPT !.processed = @ \cup {Processed(c)}], code |-> "OK"] :
          s \in Resolutions(m)}

(* setPlayerConnectionState: a person the CPU stands in for gets the controls *)
(* back with the event that reports the reconnection.                        *)
TakenOver(m, p) == m.controller[p] = "CPU" /\ m.disconnected[p]

(* Slip: the controls come back without a deadline.                          *)
ReconnectedUntimed(m, p) ==
  [m EXCEPT !.revision = @ + 1, !.disconnected[p] = FALSE,
            !.controller[p] = IF TakenOver(m, p) THEN "HUMAN" ELSE @]

(* Slip: a reconnection always starts the 30 seconds again.                  *)
ReconnectedWithNewDeadline(m, p) ==
  LET back == ReconnectedUntimed(m, p)
  IN IF IsPending(m, p) THEN [back EXCEPT !.deadline = DeadlineFor(back, p)] ELSE back

Reconnected(m, p) ==
  LET back == [m EXCEPT !.revision = @ + 1, !.disconnected[p] = FALSE,
                        !.controller[p] = IF TakenOver(m, p) THEN "HUMAN" ELSE @]
  IN IF TakenOver(m, p) /\ m.deadline = NoTimer /\ IsPending(m, p)
     THEN [back EXCEPT !.deadline = DeadlineFor(back, p)]
     ELSE back

ConnectionChanged(m, p, connected) ==
  IF m.disconnected[p] = ~connected THEN m
  ELSE IF connected THEN Reconnected(m, p)
  ELSE [m EXCEPT !.revision = @ + 1, !.disconnected[p] = TRUE]

(* INPUT_TIMED_OUT *)
IsDue(m) == ~Ended(m) /\ m.deadline = 0 /\ m.controller[m.pending] = "HUMAN"

(* Slip: the player is not marked disconnected.                              *)
TimedOutWithControls(m) ==
  [m EXCEPT !.revision = @ + 1, !.disconnected[m.pending] = TRUE, !.deadline = NoTimer]
TimedOutUnmarked(m) ==
  [m EXCEPT !.revision = @ + 1, !.controller[m.pending] = "CPU", !.deadline = NoTimer]

TimedOut(m) ==
  [m EXCEPT !.revision = @ + 1, !.controller[m.pending] = "CPU",
            !.disconnected[m.pending] = TRUE, !.deadline = NoTimer]

(* advanceCpuControllers: CPUs decide until a person must answer, the match   *)
(* ends, or the limit is reached; every decision emits at least one event.   *)
CpuRuns(m) ==
  IF OwnedByCpu(m)
  THEN {s \in Resolutions(m) : OwnedByCpu(s) => s.revision - m.revision >= CpuLimit}
  ELSE {m}

(* processInputDeadline *)
DeadlineRuns(m) == IF IsDue(m) THEN CpuRuns(TimedOut(m)) ELSE {m}

(* Slip: the null deadline ages too.                                         *)
OlderEvenWhenNull(m) ==
  [m EXCEPT !.deadline = IF @ # 0 THEN @ - 1 ELSE @,
            !.processed = {[cmd |-> e.cmd, justNow |-> FALSE] : e \in @}]

(* Every clock of the record, once time has passed.                          *)
Older(m) ==
  [m EXCEPT !.deadline = IF @ > 0 THEN @ - 1 ELSE @,
            !.processed = {[cmd |-> e.cmd, justNow |-> FALSE] : e \in @}]

-----------------------------------------------------------------------------

Init ==
  /\ \E p \in Players :
       store = [revision |-> 1, pending |-> p, asked |-> 1,
                deadline |-> IF p \in Humans THEN TurnTime ELSE NoTimer,
                controller |-> [q \in Players |-> IF q \in Humans THEN "HUMAN" ELSE "CPU"],
                disconnected |-> [q \in Players |-> FALSE],
                processed |-> {}]
  /\ mem = store
  /\ up = TRUE
  /\ responses = {}
  /\ sockets = [p \in Humans |-> 0]
  /\ published = 1
  /\ requests = {}
  /\ answers = {}
  /\ crashes = 0

(* Slip: the transition is not saved.                                        *)
CommitToMemory(m) ==
  /\ mem' = m
  /\ published' = m.revision
  /\ UNCHANGED <<store, up, crashes>>

(* The store takes later revisions only, in one transaction.                 *)
SaveTransition(m) ==
  /\ m.revision > store.revision
  /\ store' = m

(* saveTransition, #matches.set, #notifyMatchEvents: the transition is in the *)
(* store before memory has it, and in memory before anyone hears of it.      *)
Commit(m) ==
  /\ SaveTransition(m)
  /\ mem' = m
  /\ published' = m.revision
  /\ UNCHANGED <<up, crashes>>

(* The process is gone, and with it memory, cached answers and sockets.      *)
Down ==
  /\ crashes < MaxCrashes
  /\ crashes' = crashes + 1
  /\ up' = FALSE
  /\ responses' = {}
  /\ sockets' = [p \in Humans |-> 0]
  /\ UNCHANGED <<mem, requests, answers>>

(* The process dies inside a handler: saved is in the store, heard is the    *)
(* last revision it published.                                              *)
Die(saved, heard) ==
  /\ Down
  /\ store' = saved
  /\ published' = heard

CommandOf(p, id, content) ==
  [id |-> id, actor |-> p, expected |-> published, content |-> content]

(* A browser sends a command made for the revision it sees.  commandIds are   *)
(* drawn at random, so no two people ever use the same.                      *)
Send(p, id, content) ==
  /\ Cardinality(requests) < MaxRequests
  /\ \A c \in requests : c.id = id => c.actor = p
  /\ requests' = requests \cup {CommandOf(p, id, content)}
  /\ UNCHANGED <<store, mem, up, responses, sockets, published, answers, crashes>>

(* life says which process answered.                                         *)
AnswerTo(c, code, m) ==
  [cmd |-> c, code |-> code, revision |-> m.revision, life |-> crashes]
SameKey(c, d) == c.actor = d.actor /\ c.id = d.id

(* Slip: only successes are cached.                                          *)
RememberSuccess(answer) ==
  responses' = IF answer.code = "OK" THEN responses \cup {answer} ELSE responses

Remember(answer) == responses' = responses \cup {answer}

Reply(answer) ==
  /\ answers' = answers \cup {answer}
  /\ UNCHANGED <<sockets, requests>>

(* execute, for a commandId that has a cached answer.                        *)
AnswerFromCache(c) ==
  \E r \in responses :
    /\ SameKey(r.cmd, c)
    /\ Reply(IF r.cmd = c THEN r ELSE AnswerTo(c, "DUPLICATE_COMMAND_CONFLICT", mem))
    /\ UNCHANGED <<store, mem, up, responses, published, crashes>>

(* execute, otherwise: the engine decides, an accepted command is committed,  *)
(* and the answer, a refusal included, is cached.                            *)
Decide(c) ==
  /\ \A r \in responses : ~SameKey(r.cmd, c)
  /\ \E h \in HandleCommand(mem, c) :
       LET answer == AnswerTo(c, h.code, h.state) IN
       \/ /\ IF h.state = mem
             THEN UNCHANGED <<store, mem, up, published, crashes>>
             ELSE Commit(h.state)
          /\ Remember(answer)
          /\ Reply(answer)
       \/ h.state # mem /\ Die(h.state, published)

Execute(c) ==
  /\ up
  /\ c \in requests
  /\ AnswerFromCache(c) \/ Decide(c)

(* The scheduler's turn at this match: a deadline that has passed, then any   *)
(* CPU whose input is pending.  The two are committed one after the other.   *)
Advance ==
  /\ up
  /\ ~Ended(mem)
  /\ \E a \in DeadlineRuns(mem) : \E b \in CpuRuns(a) :
       /\ b # mem
       /\ \/ Commit(b) /\ UNCHANGED <<responses, sockets, requests, answers>>
          \/ a # mem /\ Die(a, published)
          \/ b # a /\ Die(b, a.revision)

(* setConnected, when the first socket opens or the last one closes.         *)
ChangeConnection(p, connected, count) ==
  LET m == ConnectionChanged(mem, p, connected) IN
  /\ Fits(m)
  /\ \/ /\ IF m = mem THEN UNCHANGED <<store, mem, up, published, crashes>>
                      ELSE Commit(m)
        /\ sockets' = [sockets EXCEPT ![p] = count]
        /\ UNCHANGED <<responses, requests, answers>>
     \/ m # mem /\ Die(m, published)

OnlySocketsOf(p, count) ==
  /\ sockets' = [sockets EXCEPT ![p] = count]
  /\ UNCHANGED <<store, mem, up, responses, published, requests, answers, crashes>>

SocketOpen(p) ==
  /\ up
  /\ sockets[p] < MaxSockets
  /\ IF sockets[p] = 0
     THEN ChangeConnection(p, TRUE, 1)
     ELSE OnlySocketsOf(p, sockets[p] + 1)

SocketClose(p) ==
  /\ up
  /\ sockets[p] > 0
  /\ IF sockets[p] = 1
     THEN ChangeConnection(p, FALSE, 0)
     ELSE OnlySocketsOf(p, sockets[p] - 1)

Crash ==
  /\ up
  /\ Die(store, published)

(* restorePersistedMatch: memory is loaded from the store, and subscribers    *)
(* are sent what it holds.                                                   *)
Restart ==
  /\ ~up
  /\ up' = TRUE
  /\ mem' = store
  /\ published' = store.revision
  /\ UNCHANGED <<store, responses, sockets, requests, answers, crashes>>

Tick ==
  /\ store' = Older(store)
  /\ mem' = Older(mem)
  /\ UNCHANGED <<up, responses, sockets, published, requests, answers, crashes>>

Next ==
  \/ \E p \in Humans, id \in CommandIds, content \in Contents : Send(p, id, content)
  \/ \E c \in requests : Execute(c)
  \/ Advance
  \/ \E p \in Humans : SocketOpen(p) \/ SocketClose(p)
  \/ Crash
  \/ Restart
  \/ Tick

(* The scheduler is a setInterval, the clock runs, and the process is started *)
(* again when it has died.                                                  *)
Fairness ==
  /\ WF_vars(Advance)
  /\ WF_vars(Tick)
  /\ WF_vars(Restart)

Spec == Init /\ [][Next]_vars
FairSpec == Spec /\ Fairness
-----------------------------------------------------------------------------
(* What a match promises.                                                    *)

Commands == [id: CommandIds, actor: Humans, expected: 1..MaxRevision, content: Contents]
Codes == {"OK", "DUPLICATE_COMMAND_CONFLICT", "CONTROLLER_MISMATCH",
          "STALE_REVISION", "INPUT_DEADLINE_EXPIRED", "ILLEGAL"}
Answers == [cmd: Commands, code: Codes, revision: 1..MaxRevision, life: 0..MaxCrashes]
Matches ==
  [revision: 1..MaxRevision, asked: 1..MaxRevision,
   pending: Players \cup {Nobody}, deadline: {NoTimer} \cup 0..TurnTime,
   controller: [Players -> {"HUMAN", "CPU"}], disconnected: [Players -> BOOLEAN],
   processed: SUBSET [cmd: Commands, justNow: BOOLEAN]]

(* Every variable has its type (RuntimeMatch's maps and MatchState).         *)
TypeOK ==
  /\ store \in Matches
  /\ mem \in Matches
  /\ up \in BOOLEAN
  /\ responses \subseteq Answers
  /\ sockets \in [Humans -> 0..MaxSockets]
  /\ published \in 1..MaxRevision
  /\ requests \subseteq Commands
  /\ answers \subseteq Answers
  /\ crashes \in 0..MaxCrashes

(* The store is what a running server has in memory, and nobody ever saw a    *)
(* revision that a restart would forget: execute and commitMatchTransition   *)
(* save before they set memory, and set memory before they notify.           *)
PublishedIsDurable ==
  /\ published <= store.revision
  /\ up => mem = store

IsTimed(m) ==
  IF Ended(m) THEN m.deadline = NoTimer
  ELSE m.deadline = NoTimer <=> OwnedByCpu(m)

StandInsMarked(m) ==
  /\ \A p \in Humans : m.controller[p] = "CPU" => m.disconnected[p]
  /\ \A p \in Bots : m.controller[p] = "CPU"

(* A person's input is timed and the CPU's is not: whoever is asked, and in   *)
(* whichever way the controls changed hands in the meantime (deadlineFor,    *)
(* INPUT_TIMED_OUT and PLAYER_CONNECTION_CHANGED of applyEvent).             *)
HumanInputIsTimed == IsTimed(store)

(* The CPU stands in only for people marked disconnected, which is what lets  *)
(* PLAYER_CONNECTION_CHANGED tell them from seats that are CPUs for good; it  *)
(* never hands one of those to a person.                                     *)
StandInsAreMarked == StandInsMarked(store)

(* Dropping and reopening the connection does not buy time: while the same    *)
(* input is pending its deadline only comes closer (applyEvent).             *)
DeadlineIsNeverExtended ==
  [][store'.asked = store.asked /\ store.deadline # NoTimer
       => store'.deadline <= store.deadline]_vars

(* A player who retries a command gets the answer that was given first, as    *)
(* long as the process lives (#responses of command-api.ts; PROTOCOL.md      *)
(* section 2 asks for it without that limit).                                *)
SameCommandSameAnswer ==
  \A a, b \in answers :
    a.cmd = b.cmd /\ a.life = b.life /\ a.code # "DUPLICATE_COMMAND_CONFLICT" => b = a

(* Absent players and a dying server do not hold up a match: every input is   *)
(* answered by its player or by the CPU, until the bound on revisions.        *)
InputIsDecided ==
  \A r \in 1..MaxRevision :
    (store.asked = r /\ ~Ended(store))
      ~> (store.asked # r \/ store.revision >= MaxRevision - 1)

(* The commands of the match implement the ledger.                           *)
Applied(m) == {e.cmd : e \in m.processed}
Verdict(a) == <<a.cmd, IF a.code = "OK" THEN "APPLIED" ELSE "REFUSED">>
Told == {Verdict(a) : a \in {b \in answers : b.code # "DUPLICATE_COMMAND_CONFLICT"}}

Ledger == INSTANCE MatchLedger
            WITH revision <- store.revision, applied <- Applied(store), told <- Told

(* Across retries, reordering, deaths of the process and restarts, a command  *)
(* takes effect at most once, in the revision it was made for, and its player *)
(* is never told otherwise (execute, handleCommand, saveTransition).         *)
ImplementsLedger == Ledger!Spec

(* No player is told of an effect that a restart forgets, nor of a refusal    *)
(* that a later retry turns into an effect.                                  *)
VerdictsAreTrue == Ledger!VerdictsAreTrue

(* Every revision is left by at most one command, and every commandId takes   *)
(* effect at most once, however many tabs and retries send them.              *)
OneCommandPerRevision == Ledger!OneCommandPerRevision
=============================================================================
