---------------------------- MODULE LobbyScreens ----------------------------
(***************************************************************************)
(* What the browser offers the players of a table before the game, on the  *)
(* new table view (static/lobby-model.js and renderLobby) and on the old   *)
(* one (static/app-session.js, showPrivateTable), against what the server  *)
(* accepts.  A screen is the set of the buttons and controls a player can  *)
(* press when the newest snapshot is drawn; the server may refuse what an  *)
(* older screen offers, and the page is drawn again then.                  *)
(***************************************************************************)
EXTENDS Table

Button(name) == [press |-> name, seat |-> 0]
Sit(s) == [press |-> "sit", seat |-> s]

You(p) == p \in Occupied(lobby)
IsOwner(p) == You(p) /\ lobby.owner = p
HumanSeats == {s \in Occupied(lobby) : lobby.seats[s].kind = "human"}
EveryoneReady(S) == \A s \in S : lobby.seats[s].ready

Offered(name, offers) == IF offers THEN {Button(name)} ELSE {}

StartOfferedEarly(p) ==
  IsOwner(p) /\ Waiting(lobby) /\ ~lobby.public /\ EveryoneReady(HumanSeats)

StartOffered(p) ==
  /\ IsOwner(p) /\ Waiting(lobby) /\ ~lobby.public
  /\ Free(lobby) = {} /\ EveryoneReady(HumanSeats)

\* The seats a waiting player of a private table may move to.
SeatsToSit(p) ==
  IF You(p) /\ Waiting(lobby) /\ ~lobby.public THEN {Sit(s) : s \in Free(lobby)} ELSE {}

\* lobbyModel and renderLobby: bots always count as ready.
LobbyModel(p) ==
  LET owns == IsOwner(p) /\ Waiting(lobby) /\ ~lobby.public IN
  Offered("ready", You(p) /\ Waiting(lobby) /\ ~lobby.public)
    \cup Offered("start", StartOffered(p))
    \cup Offered("startWithBots", owns /\ Free(lobby) # {} /\ EveryoneReady(HumanSeats))
    \cup Offered("settings", owns)
    \cup Offered("leave", lobby.public /\ Waiting(lobby) /\ You(p))
    \cup SeatsToSit(p)

\* showPrivateTable: every seat must be ready; a public table hides the owner's controls.
PrivateLobby(p) ==
  LET owns == IsOwner(p) /\ Waiting(lobby) /\ ~lobby.public
      allSeatedReady == EveryoneReady(Occupied(lobby))
  IN  Offered("ready", You(p) /\ Waiting(lobby) /\ ~lobby.public)
        \cup Offered("start", owns /\ Free(lobby) = {} /\ allSeatedReady)
        \cup Offered("startWithBots", owns /\ Free(lobby) # {} /\ allSeatedReady)
        \cup Offered("settings", owns)
        \cup Offered("leave", lobby.public /\ Waiting(lobby) /\ You(p))
        \cup SeatsToSit(p)

\* Whether the server accepts the action that a button sends for the player in seat p.
Accepts(p, button) ==
  CASE button.press = "ready" -> CanSetReady(lobby, p)
    [] button.press = "start" -> CanStart(lobby, p)
    [] button.press = "startWithBots" -> CanStartWithBots(lobby, p)
    [] button.press = "settings" -> CanSetTarget(lobby, p)
    [] button.press = "leave" -> CanLeave(lobby, p)
    [] button.press = "sit" -> CanChooseSeat(lobby, p, button.seat)

Starts == {Button("start"), Button("startWithBots")}

-----------------------------------------------------------------------------
(* Properties *)

\* Neither view offers what the server would refuse, whoever left, moved, lost the
\* connection or was deleted before (lobby-model.js:37-65, app-session.js:127-198).
OffersAreAccepted ==
  Online => \A p \in Occupied(lobby) :
              \A button \in LobbyModel(p) \cup PrivateLobby(p) : Accepts(p, button)

\* A private table whose players are all ready is never stuck in its lobby: on either
\* view some player's screen offers to start it, though the first owner may have left.
ReadyLobbyCanStart ==
  Online /\ ~lobby.public /\ Waiting(lobby) /\ Occupied(lobby) # {} /\ AllReady(lobby) =>
    \E p \in Occupied(lobby) :
      LobbyModel(p) \cap Starts # {} /\ PrivateLobby(p) \cap Starts # {}

=============================================================================
