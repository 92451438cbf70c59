---------------------------- MODULE SpeechService ----------------------------
(***************************************************************************)
(* What the speaker promises the sessions, without threads, pipeline or    *)
(* flags: requests are served in the order they were accepted, one at a    *)
(* time; each is either discarded while it waits, unheard, or taken up and *)
(* ended exactly once.  TTSSpeaker.tla is shown to implement this.         *)
(***************************************************************************)
EXTENDS Naturals, Sequences, Subsequence

CONSTANT Requests

VARIABLES
  waiting,    \* accepted requests, oldest first
  serving,    \* the request being spoken, as a set of at most one
  ended,      \* requests whose end the client was told
  discarded   \* requests removed before they were taken up

serviceVars == <<waiting, serving, ended, discarded>>

ServiceInit ==
  waiting = <<>> /\ serving = {} /\ ended = {} /\ discarded = {}

Waits(r) == r \in Elements(waiting)

Accept(r) ==
  /\ ~Waits(r) /\ r \notin serving \cup ended \cup discarded
  /\ waiting' = Append(waiting, r)
  /\ UNCHANGED <<serving, ended, discarded>>

Take ==
  /\ serving = {} /\ waiting # <<>>
  /\ serving' = {Head(waiting)} /\ waiting' = Tail(waiting)
  /\ UNCHANGED <<ended, discarded>>

End ==
  /\ serving # {}
  /\ ended' = ended \cup serving /\ serving' = {}
  /\ UNCHANGED <<waiting, discarded>>

Discard(gone) ==
  /\ waiting' = Without(waiting, gone)
  /\ discarded' = discarded \cup {r \in gone : Waits(r)}
  /\ UNCHANGED <<serving, ended>>

ServiceNext ==
  \/ \E r \in Requests : Accept(r)
  \/ Take \/ End
  \/ \E gone \in SUBSET Requests : Discard(gone)

ServiceSpec == ServiceInit /\ [][ServiceNext]_serviceVars
=============================================================================
