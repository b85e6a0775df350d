------------------------------ MODULE MatchLedger ------------------------------
(***************************************************************************)
(* What the server promises about the commands of one match, whatever      *)
(* happens to the process that serves it: a command takes effect at most   *)
(* once, and only in the revision it was made for; the revision never goes *)
(* back; and whoever is told the fate of a command is told the truth, for  *)
(* good.  RuntimeMatch is shown to implement it.                           *)
(***************************************************************************)
EXTENDS Integers

CONSTANTS
  Commands,     \* records with fields id (commandId) and expected (expectedRevision)
  MaxRevision   \* bound on the revision

VARIABLES
  revision,  \* the durable revision of the match
  applied,   \* the commands that took effect
  told       \* the verdicts players were given: pairs <<command, verdict>>

ledger == <<revision, applied, told>>

Init ==
  /\ revision \in 1..MaxRevision
  /\ applied = {}
  /\ told = {}

(* The match moves on by itself: a timeout, the CPU, a connection change.   *)
Move ==
  /\ revision' \in (revision + 1)..MaxRevision
  /\ UNCHANGED <<applied, told>>

(* A command takes effect.  Its player may be told at once, or never, if the *)
(* server dies before it can answer.                                        *)
Apply(c) ==
  /\ c.expected = revision
  /\ \A d \in applied : d.id # c.id
  /\ <<c, "REFUSED">> \notin told
  /\ revision' \in (revision + 1)..MaxRevision
  /\ applied' = applied \cup {c}
  /\ told' \in {told, told \cup {<<c, "APPLIED">>}}

Confirm(c) ==
  /\ c \in applied
  /\ told' = told \cup {<<c, "APPLIED">>}
  /\ UNCHANGED <<revision, applied>>

(* A refusal is final: Apply requires that the command was never refused.   *)
Refuse(c) ==
  /\ c \notin applied
  /\ told' = told \cup {<<c, "REFUSED">>}
  /\ UNCHANGED <<revision, applied>>

Next ==
  \/ Move
  \/ \E c \in Commands : Apply(c) \/ Confirm(c) \/ Refuse(c)

Spec == Init /\ [][Next]_ledger

-----------------------------------------------------------------------------

(* No command is reported both as applied and as refused, and only applied   *)
(* commands are reported as applied (command-api.ts execute, over restarts). *)
VerdictsAreTrue ==
  \A c \in Commands :
    /\ <<c, "APPLIED">> \in told => c \in applied
    /\ <<c, "REFUSED">> \in told => c \notin applied

(* Every revision is left by at most one command, and every commandId takes  *)
(* effect at most once (expectedRevision and commandId of handleCommand).    *)
OneCommandPerRevision ==
  \A c, d \in applied :
    (c.expected = d.expected \/ c.id = d.id) => c = d
=============================================================================
