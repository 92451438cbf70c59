------------------------ MODULE MCTTSClientJsonRPC ------------------------
(* Scenes for checking the client of the Thunder plugin with TLC.          *)
EXTENDS TTSClientJsonRPC

Scene(changesMade, atRest, glitchesMade, togglesMade, ops, callsMade) ==
  [changes |-> changesMade, atRest |-> atRest, glitches |-> glitchesMade, toggles |-> togglesMade,
   calls |-> ops, made |-> callsMade]

Speeches == {"create", "speak", "abort", "destroy"}

ThunderScenes ==
  {Scene(3, FALSE, 0, 0, {}, 0), Scene(3, TRUE, 2, 0, {}, 0), Scene(2, TRUE, 0, 0, {"create", "fetch"}, 1),
   Scene(0, TRUE, 0, 1, Speeches, 3), Scene(1, FALSE, 1, 0, {"create", "speak", "delete"}, 2)}
===========================================================================
