---------------------------- MODULE MCTTSSpeaker ----------------------------
(* Values for checking TTSSpeaker with TLC: the scenes of its runs differ   *)
(* in the entry points and the failures of GStreamer they admit.            *)
EXTENDS TTSSpeaker

AllUpsets  == {"create", "error", "neterror"}

Cancelling == [calls |-> {"speak", "ensure", "clear", "shut", "delete"}, upsets |-> AllUpsets]
Pausing    == [calls |-> {"speak", "ensure", "pause", "resume"}, upsets |-> {}]
Rewishing  == [calls |-> {"speak", "ensure", "release"}, upsets |-> {}]
Lasting    == [calls |-> {"speak", "ensure", "release", "delete"}, upsets |-> {"create", "error"}]
Resuming   == [calls |-> {"speak", "ensure", "pause", "resume", "delete"}, upsets |-> {}]
Aborting   == [calls |-> {"speak", "ensure", "release", "clear"}, upsets |-> {}]
Yielding   == [calls |-> {"speak", "ensure", "release", "pause"}, upsets |-> {}]
Leaving    == [calls |-> {"speak", "ensure", "shut", "delete"}, upsets |-> {}]
Speaking   == [calls |-> {"speak", "ensure"}, upsets |-> {}]

SafetyScenes == {Cancelling, Pausing, Rewishing}
LiveScenes   == {Lasting, Resuming, Aborting, Yielding, Leaving}
ForceScenes  == {Speaking}
=============================================================================
