----------------------------- MODULE MCLiveFeed -----------------------------
(* An instance of LiveFeed for TLC. *)
EXTENDS LiveFeed

(* A card that is played, a grant to the player before a notice, and a grant   *)
(* to somebody else, of which the player is told nothing.                    *)
SomeBursts == {<<"CARD">>, <<"GRANT", "NOTICE">>, <<"SECRET">>}
Finish == <<"NOTICE">>
=============================================================================
