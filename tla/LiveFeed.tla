------------------------------ MODULE LiveFeed ------------------------------
(***************************************************************************)
(* How the events of a match reach the screen of one player, and what      *)
(* becomes of them when connections drop: RealtimeMatchHub of              *)
(* src/packages/server/src/realtime.ts, the connection, the stored cursor  *)
(* and the pages of src/packages/client/src/browser-app.ts, and the        *)
(* presentation queue.                                                     *)
(*                                                                         *)
(* The match only appends bursts of events to its log; the sequence number *)
(* of an event is its place there.  A message carries of the snapshot who  *)
(* controls the player and whether the match is over.                      *)
(***************************************************************************)
EXTENDS PresentationQueue

CONSTANTS
  Bursts,         \* what one transition of the match may append
  LastBurst,      \* what the last one appends
  EventHistoryLimit, RecentImportantEventLimit,
  MaxEvents,      \* events of a match
  MaxWire,        \* messages on their way
  MaxDrops,       \* connections that are cut and pages that are loaded again
  MaxMatches      \* matches played one after the other in the same room

ASSUME FeedAssumption ==
  /\ EventHistoryLimit \in Nat \ {0} /\ RecentImportantEventLimit \in Nat \ {0}
  /\ MaxEvents \in Nat /\ MaxWire \in Nat /\ MaxDrops \in Nat
  /\ MaxMatches \in Nat \ {0}

(* A transition appends something, and the first one of a match leaves room.  *)
ASSUME BurstsAssumption ==
  /\ LastBurst \in Seq(Kinds)
  /\ \A burst \in Bursts : burst \in Seq(Kinds) /\ Len(burst) \in 1..MaxEvents

VARIABLES
  match,          \* number of the match in its room
  log,            \* kinds of its events
  ended, controller,
  subscriber,     \* eventSeq of the viewer's subscriber at the hub, or None
  wire,           \* messages from the hub to the browser
  asking,         \* SYNC_MATCH requests to the hub
  link,           \* the socket of the page
  page,           \* the screen: "BATTLE", or "START" after a CPU took over
  lastEventSeq,   \* the cursor in the stored credential, or None
  selfHumanControlled,
  presentation,   \* the queue of the mounted battle screen
  due,            \* for the properties: the events this mount has to play
  drops

matchVars == <<match, log, ended, controller>>
linkVars == <<subscriber, wire, asking, link>>
pageVars == <<page, lastEventSeq, selfHumanControlled, presentation, due>>
vars == <<matchVars, linkVars, pageVars, drops>>

-----------------------------------------------------------------------------
(* The hub *)

Event(seq, kind) == [seq |-> seq, kind |-> kind]
EventsOf(kinds, from, upto) ==
  [i \in 1..(upto - from) |-> Event(from + i, kinds[from + i])]

(* #trimHistory: what the channel still has of a log.                        *)
Trimmed(kinds) ==
  EventsOf(kinds, IF Len(kinds) > EventHistoryLimit THEN Len(kinds) - EventHistoryLimit ELSE 0,
           Len(kinds))

projectEvents(events) == Kept(events, [seq : Nat, kind : Kinds \ {"SECRET"}])
importantReplayEvents(events) ==
  Kept(events, [seq : Nat, kind : {"CARD", "GRANT", "INSTANT"}])

eventBatch(after, upto, events, control, over) ==
  [type |-> "EVENT_BATCH", after |-> after, upto |-> upto,
   events |-> projectEvents(events), controller |-> control, ended |-> over]

LastOnes(events, n) == SubSeq(events, IF Len(events) > n THEN Len(events) - n + 1 ELSE 1, Len(events))

fullSnapshot ==
  [type |-> "FULL_SNAPSHOT", after |-> None, upto |-> Len(log),
   events |-> projectEvents(LastOnes(importantReplayEvents(Trimmed(log)),
                                     RecentImportantEventLimit)),
   controller |-> controller, ended |-> ended]

(* Slip: a cursor is believed even when the history no longer reaches it.    *)
synchronizeFromAnywhere(cursor) ==
  IF cursor = None \/ cursor > Len(log) THEN fullSnapshot
  ELSE eventBatch(cursor, Len(log), Kept(Trimmed(log), Later(cursor)),
                  controller, ended)

synchronize(cursor) ==
  LET first == IF log = <<>> THEN Len(log) + 1 ELSE Head(Trimmed(log)).seq IN
  IF cursor = None \/ cursor > Len(log) \/ cursor < first - 1
  THEN fullSnapshot
  ELSE eventBatch(cursor, Len(log), Kept(Trimmed(log), Later(cursor)),
                  controller, ended)

(* Slip: the position of the subscriber is that of its first answer.         *)
SubscriberStays(upto) == subscriber

SubscriberAt(upto) == IF subscriber = None THEN None ELSE upto

(* publish: the match moves on, and a subscriber is sent what is new.        *)
Publish(burst, control, over) ==
  LET grown == log \o burst IN
  /\ Len(grown) <= MaxEvents
  /\ subscriber # None => Len(wire) < MaxWire
  /\ log' = grown /\ controller' = control /\ ended' = over
  /\ wire' = IF subscriber = None THEN wire
             ELSE Append(wire, eventBatch(subscriber, Len(grown),
                                          EventsOf(grown, Len(log), Len(grown)), control, over))
  /\ subscriber' = SubscriberAt(Len(grown))
  /\ UNCHANGED <<match, asking, link>>

(* Slip: the answer is sent and the viewer is not added to the channel.      *)
Unsubscribed(message) == None

Subscribed(message) == message.upto

(* subscribe: the answer to SYNC_MATCH.                                      *)
Subscribe ==
  /\ asking # <<>> /\ Len(wire) < MaxWire
  /\ LET message == synchronize(Head(asking)) IN
     /\ wire' = Append(wire, message)
     /\ subscriber' = Subscribed(message)
  /\ asking' = Tail(asking)
  /\ UNCHANGED <<matchVars, link, pageVars, drops>>

-----------------------------------------------------------------------------
(* The match *)

MoveOn ==
  /\ ~ended
  /\ \E burst \in Bursts : Publish(burst, controller, FALSE)
  /\ UNCHANGED <<pageVars, drops>>

(* PLAYER_CONNECTION_CHANGED: the player was away for too long.              *)
TakeOver ==
  /\ ~ended /\ controller = "HUMAN"
  /\ Publish(<<"INSTANT">>, "CPU", FALSE)
  /\ UNCHANGED <<pageVars, drops>>

End ==
  /\ ~ended
  /\ Publish(LastBurst, controller, TRUE)
  /\ UNCHANGED <<pageVars, drops>>

-----------------------------------------------------------------------------
(* The browser *)

Disconnected == subscriber' = None /\ wire' = <<>> /\ asking' = <<>> /\ link' = "DOWN"

(* A battle screen is mounted with a queue of its own.                       *)
Mounted(human) ==
  /\ page' = "BATTLE" /\ selfHumanControlled' = human
  /\ presentation' = createPresentationQueue /\ due' = <<>>

(* connectOnlineRealtime, up to the request that the open socket sends.      *)
Connect ==
  /\ page = "BATTLE" /\ link = "DOWN"
  /\ link' = "UP" /\ asking' = <<lastEventSeq>>
  /\ UNCHANGED <<matchVars, subscriber, wire, pageVars, drops>>

(* What a message makes due: a snapshot starts over with what it brought, a   *)
(* batch goes on from the cursor with all that the player may see.           *)
DueWith(message) ==
  IF message.type = "FULL_SNAPSHOT"
  THEN IF message.ended THEN <<>> ELSE message.events
  ELSE due \o projectEvents(EventsOf(log, lastEventSeq, message.upto))

ReturnsToStart(message) ==
  selfHumanControlled /\ message.controller = "CPU" /\ ~message.ended

(* The message handler of connectOnlineRealtime.                             *)
Deliver ==
  /\ wire # <<>>
  /\ LET message == Head(wire) IN
     /\ lastEventSeq' = message.upto
     /\ \/ /\ ReturnsToStart(message)
           /\ page' = "START"
           /\ presentation' = createPresentationQueue /\ due' = <<>>
           /\ Disconnected
           /\ UNCHANGED selfHumanControlled
        \/ /\ ~ReturnsToStart(message)
           /\ selfHumanControlled' = (selfHumanControlled \/ message.controller = "HUMAN")
           /\ \E timeIsUp \in BOOLEAN :
                presentation' = applyRealtimePresentationMessage(presentation, message, timeIsUp)
           /\ due' = DueWith(message)
           /\ wire' = Tail(wire)
           /\ UNCHANGED <<page, subscriber, asking, link>>
  /\ UNCHANGED <<matchVars, drops>>

(* tick, when the time of the step on the screen is up.                      *)
Play ==
  /\ page = "BATTLE" /\ presentation.active # None
  /\ presentation' = advancePresentationClock(presentation, TRUE)
  /\ UNCHANGED <<matchVars, linkVars, page, lastEventSeq, selfHumanControlled, due, drops>>

(* The connection is lost, or the server restarts: it registers the match     *)
(* again with all its events.                                                *)
Cut ==
  /\ link = "UP" /\ drops < MaxDrops
  /\ drops' = drops + 1
  /\ Disconnected
  /\ UNCHANGED <<matchVars, pageVars>>

(* restore: the stored credential, and a snapshot from the server.           *)
Reload ==
  /\ page = "BATTLE" /\ drops < MaxDrops
  /\ drops' = drops + 1
  /\ Disconnected /\ Mounted(controller = "HUMAN")
  /\ UNCHANGED <<matchVars, lastEventSeq>>

(* resumeOnline: the player takes the seat back.                             *)
Rejoin ==
  /\ page = "START"
  /\ \/ ~ended /\ controller = "CPU" /\ Publish(<<"INSTANT">>, "HUMAN", FALSE)
     \/ ended /\ UNCHANGED <<matchVars, linkVars>>
  /\ Mounted(controller' = "HUMAN")
  /\ UNCHANGED <<lastEventSeq, drops>>

(* The way back to the lobby and into the next match: the credential keeps    *)
(* the cursor of the match before.                                           *)
Rematch ==
  /\ ended /\ page = "BATTLE" /\ match < MaxMatches
  /\ match' = match + 1 /\ ended' = FALSE /\ controller' = "HUMAN"
  /\ \E burst \in Bursts : log' = burst
  /\ Disconnected /\ Mounted(TRUE)
  /\ UNCHANGED <<lastEventSeq, drops>>

-----------------------------------------------------------------------------

Init ==
  /\ match = 1 /\ ended = FALSE /\ controller = "HUMAN"
  /\ log \in Bursts
  /\ subscriber = None /\ wire = <<>> /\ asking = <<>> /\ link = "DOWN"
  /\ page = "BATTLE" /\ lastEventSeq = None /\ selfHumanControlled = TRUE
  /\ presentation = createPresentationQueue /\ due = <<>>
  /\ drops = 0

Next ==
  \/ MoveOn \/ TakeOver \/ End
  \/ Connect \/ Subscribe \/ Deliver \/ Play
  \/ Cut \/ Reload \/ Rejoin \/ Rematch

(* The reconnection timer, the server's event loop, the socket and the        *)
(* screen's timer all run on their own.                                      *)
Fairness == WF_vars(Connect) /\ WF_vars(Subscribe) /\ WF_vars(Deliver) /\ WF_vars(Play)

Spec == Init /\ [][Next]_vars
FairSpec == Spec /\ Fairness

-----------------------------------------------------------------------------
(* Properties *)

(* The state has its type, every message brings events that there are, and no *)
(* snapshot more than its limit.                                             *)
TypeOK ==
  /\ match \in 1..MaxMatches /\ drops \in 0..MaxDrops
  /\ log \in Seq(Kinds) /\ Len(log) \in 1..MaxEvents
  /\ ended \in BOOLEAN /\ controller \in {"HUMAN", "CPU"}
  /\ subscriber \in {None} \cup 1..MaxEvents
  /\ asking \in {<<>>, <<lastEventSeq>>} /\ Len(wire) <= MaxWire
  /\ \A i \in DOMAIN wire :
       /\ wire[i].upto \in 1..Len(log)
       /\ wire[i].events \in Seq([seq : 1..wire[i].upto, kind : Kinds \ {"SECRET"}])
       /\ wire[i].type = "FULL_SNAPSHOT"
            => Len(wire[i].events) <= RecentImportantEventLimit
  /\ link \in {"UP", "DOWN"} /\ page \in {"BATTLE", "START"}
  /\ page = "START" => link = "DOWN" /\ lastEventSeq # None
  /\ lastEventSeq \in {None} \cup 1..MaxEvents
  /\ selfHumanControlled \in BOOLEAN
  /\ presentation.lastCompleted <= presentation.lastQueued

(* Whatever was cut, restarted or asked for again, every batch on its way      *)
(* starts where the browser will stand when it arrives, and the hub holds the *)
(* subscriber to be where the last message leaves it: the browser, which does *)
(* not compare afterEventSeq with its cursor, never skips an event.          *)
BatchesJoin ==
  LET StandsAt(i) == IF i = 0 THEN lastEventSeq ELSE wire[i].upto IN
  /\ \A i \in DOMAIN wire : wire[i].type = "EVENT_BATCH" => wire[i].after = StandsAt(i - 1)
  /\ subscriber # None => subscriber = Len(log) /\ StandsAt(Len(wire)) = Len(log)

(* From the snapshot on with which a screen began, every step of every event  *)
(* that the player may see is played exactly once and in order, however the   *)
(* events were divided into messages: what was shown, what is shown and what  *)
(* is queued together are the steps of all events up to the cursor.          *)
EveryEventPlays == StepsOf(due) = presentation.shown \o Steps(presentation)

(* A card is kept face down only while something is still to be played.      *)
SettledHidesNothing ==
  presentation.concealed # {} => ~isPresentationSettled(presentation)

CaughtUp == lastEventSeq = Len(log) /\ isPresentationSettled(presentation)

(* Once the match is over, the player's screen shows its end after finitely    *)
(* many cuts, unless the player was sent back to the start page.             *)
FeedCatchesUp == []<>(ended => page = "START" \/ CaughtUp)
=============================================================================
