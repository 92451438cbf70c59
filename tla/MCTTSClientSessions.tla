------------------------ MODULE MCTTSClientSessions ------------------------
(* Scenes for checking the client over rtRemote with TLC.                   *)
EXTENDS TTSClientSessions

Scene(crashes, atRest, setsMade) ==
  [crashes |-> crashes, atRest |-> atRest, sets |-> setsMade, deletes |-> TRUE,
   calls |-> 0, moves |-> 0, policy |-> "OPEN"]

Sessions(crashes, callsMade, movesMade, rule) ==
  [Scene(crashes, TRUE, 0) EXCEPT !.calls = callsMade, !.moves = movesMade, !.policy = rule]

ClientScenes ==
  {Scene(1, FALSE, 1), Scene(0, FALSE, 2), Scene(2, FALSE, 0), Scene(2, TRUE, 1),
   Sessions(1, 3, 1, "RESERVATION"), Sessions(0, 2, 2, "RESERVATION"),
   Sessions(1, 2, 1, "OPEN")}

ReconnectScenes == {[Scene(1, FALSE, 0) EXCEPT !.deletes = FALSE]}
OpenScenes      == {[Sessions(0, 2, 1, "OPEN") EXCEPT !.deletes = FALSE]}
=============================================================================
