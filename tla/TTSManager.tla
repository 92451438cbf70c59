----------------------------- MODULE TTSManager -----------------------------
(***************************************************************************)
(* TTSManager (ttsengine/TTSManager.cpp): the sessions of the engine and   *)
(* the allocation of the one player, the audio pipeline, among them.       *)
(*                                                                         *)
(* Every handler runs on the main loop thread, one at a time, so a handler *)
(* is one action.  Under the RESERVATION policy the player belongs to the  *)
(* app that claimed it, else to the app it is reserved for; under OPEN     *)
(* every session of an enabled engine may speak.                           *)
(*                                                                         *)
(* A session is its id.  A TTSSession object lives on after destroySession *)
(* for as long as a client holds a reference to it: `player.active` is the *)
(* set of all session objects with m_speaker set, listed or not.           *)
(***************************************************************************)
EXTENDS Naturals

CONSTANTS
  Apps,          \* app ids; 0 stands for "no app" in the code
  NoApp,
  MaxSessions    \* bound: sessions created in a behaviour

ASSUME ManagerAssumption ==
  /\ NoApp \notin Apps
  /\ MaxSessions \in Nat

VARIABLES
  policy,        \* m_policy as tts.ini sets it, once: PRIORITY becomes OPEN
  ttsEnabled,    \* m_ttsEnabled
  sessions,      \* the ids in m_sessionMap
  appOf,         \* TTSSession::m_appId of every session created so far
  sessionOf,     \* m_appMap
  lastSession,   \* the counter of nextSessionId()
  reserved,      \* m_reservedApp
  claimed,       \* m_claimedApp
  player,        \* [active, session, ensured]: session objects with m_speaker
                 \* set, m_activeSession, TTSSpeaker::m_ensurePipeline
  conn,          \* the monitor connection each client opens for its session
  locked,        \* m_mutex left locked by setConfiguration
  blocked        \* the main loop thread waits for it, for ever

mapVars   == <<sessions, appOf, sessionOf, lastSession>>
restVars  == <<policy, locked, blocked>>
vars == <<ttsEnabled, mapVars, reserved, claimed, player, conn, restVars>>

Sessions   == 1..MaxSessions
NoSession  == 0
Reservation == policy = "RESERVATION"

Player(active, session, ensured) ==
  [active |-> active, session |-> session, ensured |-> ensured]

Init ==
  /\ policy \in {"RESERVATION", "OPEN"}
  /\ ttsEnabled = FALSE
  /\ sessions = {} /\ lastSession = 0
  /\ appOf = [s \in Sessions |-> NoApp]
  /\ sessionOf = [a \in Apps |-> NoSession]
  /\ reserved = NoApp /\ claimed = NoApp
  /\ player = Player({}, NoSession, FALSE)
  /\ conn = [s \in Sessions |-> "none"]
  /\ locked = FALSE /\ blocked = FALSE

\* A handler takes m_mutex on the thread that would have to release it.
Enter == ~locked /\ ~blocked

-----------------------------------------------------------------------------
(* The player after ...                                                    *)

\* Mutants: the pipeline is not asked for; the session keeps its speaker; an
\* owner without a session is not told apart.
MakeSessionActive_NoPipeline(p, s) ==
  IF p.session # s THEN Player(p.active \cup {s}, s, p.ensured) ELSE p

MakeSessionInActive_KeepsSpeaker(p) ==
  IF p.session # NoSession THEN Player(p.active, NoSession, FALSE) ELSE p

MakeSessionActive(p, s) ==
  IF p.session # s THEN Player(p.active \cup {s}, s, TRUE) ELSE p

MakeSessionInActive(p) ==
  IF p.session # NoSession
    THEN Player(p.active \ {p.session}, NoSession, FALSE)
    ELSE p

\* The app the player belongs to when `c` is claimed and `r` reserved.
Owner(c, r) == IF c # NoApp THEN c ELSE r

MakeOwnerActive_Unlisted(p, enabled, map, owner) ==
  IF enabled /\ owner # NoApp THEN MakeSessionActive(p, map[owner]) ELSE p

\* makeReservedOrClaimedSessionActive(): the owner's session, if there is one.
MakeOwnerActive(p, enabled, map, owner) ==
  IF enabled /\ owner # NoApp
    THEN IF map[owner] # NoSession THEN MakeSessionActive(p, map[owner]) ELSE p
    ELSE p

IsActiveApp(a) == player.session # NoSession /\ appOf[player.session] = a

\* Mutants: the reservation is not honoured after a claim; a claim is released
\* only by the active app; the app that releases its reservation stays active.
Released_NotReturned(a, c, r) ==
  IF c = a
    THEN [claimed |-> NoApp, reserved |-> r,
          player |-> IF IsActiveApp(a) /\ a # r THEN MakeSessionInActive(player) ELSE player]
    ELSE [claimed |-> c, reserved |-> IF r = a THEN NoApp ELSE r,
          player |-> IF r = a /\ IsActiveApp(a) THEN MakeSessionInActive(player) ELSE player]

Released_ActiveClaim(a, c, r) ==
  IF c = a /\ IsActiveApp(a)
    THEN [claimed |-> NoApp, reserved |-> r,
          player |-> MakeOwnerActive(MakeSessionInActive(player), ttsEnabled, sessionOf, r)]
    ELSE [claimed |-> c, reserved |-> IF r = a THEN NoApp ELSE r,
          player |-> IF r = a /\ IsActiveApp(a) THEN MakeSessionInActive(player) ELSE player]

Released_StaysActive(a, c, r) ==
  IF c = a
    THEN [claimed |-> NoApp, reserved |-> r,
          player |-> IF IsActiveApp(a) /\ a # r
                       THEN MakeOwnerActive(MakeSessionInActive(player), ttsEnabled, sessionOf, r)
                       ELSE player]
    ELSE [claimed |-> c, reserved |-> IF r = a THEN NoApp ELSE r, player |-> player]

\* releasePlayerResource(a): what is left of player, claim and reservation.
Released(a, c, r) ==
  IF c = a
    THEN [claimed |-> NoApp, reserved |-> r,
          player |-> IF IsActiveApp(a) /\ a # r
                       THEN MakeOwnerActive(MakeSessionInActive(player),
                                            ttsEnabled, sessionOf, r)
                       ELSE player]
    ELSE [claimed |-> c, reserved |-> IF r = a THEN NoApp ELSE r,
          player |-> IF r = a /\ IsActiveApp(a) THEN MakeSessionInActive(player)
                                                 ELSE player]

-----------------------------------------------------------------------------
\* Without a policy every listed session becomes active, or none is.
AllActive == Player(player.active \cup sessions, player.session,
                    player.ensured \/ sessions # {})

\* Mutant: the pipeline is kept.
NoneActive_Ensured == Player(player.active \ sessions, player.session, player.ensured)

NoneActive == Player(player.active \ sessions, player.session, FALSE)

EnableTTS(enable) ==
  /\ Enter /\ ttsEnabled # enable
  /\ ttsEnabled' = enable
  /\ player' =
       CASE Reservation /\ enable ->
              MakeOwnerActive(player, TRUE, sessionOf, Owner(claimed, reserved))
         [] Reservation /\ ~enable -> MakeSessionInActive(player)
         [] ~Reservation /\ enable -> AllActive
         [] ~Reservation /\ ~enable -> NoneActive
  /\ UNCHANGED <<mapVars, reserved, claimed, conn, restVars>>

\* Mutant: whether the app has a session is not asked.
Free_Unasked(a) == TRUE

Free(a) == \A s \in sessions : appOf[s] # a

\* A second session for an app is refused.
CreateSession(a) ==
  /\ Enter /\ lastSession < MaxSessions
  /\ Free(a)
  /\ LET s == lastSession + 1
     IN  /\ lastSession' = s
         /\ sessions' = sessions \cup {s}
         /\ appOf' = [appOf EXCEPT ![s] = a]
         /\ sessionOf' = [sessionOf EXCEPT ![a] = s]
         /\ player' =
              IF Reservation
                THEN MakeOwnerActive(player, ttsEnabled, sessionOf',
                                     Owner(claimed, reserved))
                ELSE IF ttsEnabled
                  THEN Player(player.active \cup {s}, player.session, TRUE)
                  ELSE player
  /\ UNCHANGED <<ttsEnabled, reserved, claimed, conn, restVars>>

\* destroySession(s): give the player back, forget the session, close its
\* connection, and give up the pipeline with the last session.
Destroy(s) ==
  /\ LET r == IF Reservation
                THEN Released(appOf[s], claimed, reserved)
                ELSE [claimed |-> claimed, reserved |-> reserved,
                      player |-> Player(player.active \ {s}, player.session,
                                        player.ensured)]
     IN  /\ claimed' = r.claimed /\ reserved' = r.reserved
         /\ player' = Player(r.player.active, r.player.session,
                             r.player.ensured /\ sessions # {s})
  /\ sessions' = sessions \ {s}
  /\ sessionOf' = [sessionOf EXCEPT ![appOf[s]] = NoSession]
  /\ UNCHANGED <<ttsEnabled, appOf, lastSession, restVars>>

DestroySession(s) ==
  /\ Enter /\ s \in sessions
  /\ Destroy(s)
  /\ conn' = [conn EXCEPT ![s] = IF @ = "known" THEN "closed" ELSE @]

ReservePlayerResource(a) ==
  /\ Enter /\ Reservation
  /\ reserved = NoApp
  /\ reserved' = a
  /\ player' = MakeOwnerActive(player, ttsEnabled, sessionOf, Owner(claimed, a))
  /\ UNCHANGED <<ttsEnabled, mapVars, claimed, conn, restVars>>

ReleasePlayerResource(a) ==
  /\ Enter /\ Reservation
  /\ LET r == Released(a, claimed, reserved)
     IN  claimed' = r.claimed /\ reserved' = r.reserved /\ player' = r.player
  /\ UNCHANGED <<ttsEnabled, mapVars, conn, restVars>>

\* Only a live app may claim.  The owner by reservation needs no claim; any
\* other reservation is released for the time of the claim, and kept.
ClaimPlayerResource(a) ==
  /\ Enter /\ Reservation
  /\ sessionOf[a] # NoSession /\ claimed = NoApp
  /\ reserved # a
  /\ claimed' = a
  /\ LET p == IF reserved # NoApp THEN Released(reserved, a, reserved).player
                                  ELSE player
     IN  player' = MakeOwnerActive(p, ttsEnabled, sessionOf, a)
  /\ UNCHANGED <<ttsEnabled, mapVars, reserved, conn, restVars>>

-----------------------------------------------------------------------------
(* The monitor connections: MonitorClients accepts, the callbacks read.    *)

\* The client of session s connects to echo the id, at its own time.
Connect(s) ==
  /\ ~blocked /\ s <= lastSession /\ conn[s] = "none"
  /\ conn' = [conn EXCEPT ![s] = "open"]
  /\ UNCHANGED <<ttsEnabled, mapVars, reserved, claimed, player, restVars>>

\* MonitorClientsSourceIOCB: the id arrives; m_connectionMap gets its entry.
ReadEcho(s) ==
  /\ ~blocked /\ conn[s] = "open"
  /\ conn' = [conn EXCEPT ![s] = "known"]
  /\ UNCHANGED <<ttsEnabled, mapVars, reserved, claimed, player, restVars>>

\* MonitorClientsSourceDestroyedCB: the client is gone.  destroySession of a
\* session that is not listed (any more), or of id 0 when the client went before
\* it wrote its echo, returns at once, and the descriptor is never closed.
HangUp(s) ==
  /\ Enter /\ conn[s] \in {"open", "known"}
  /\ IF conn[s] = "known" /\ s \in sessions
       THEN Destroy(s) /\ conn' = [conn EXCEPT ![s] = "closed"]
       ELSE /\ conn' = [conn EXCEPT ![s] = "leaked"]
            /\ UNCHANGED <<ttsEnabled, mapVars, reserved, claimed, player, restVars>>

\* setConfiguration(): a string that does not parse returns with m_mutex held.
\* (What an accepted one does to the sessions is in TTSSession.tla.)
RejectConfiguration ==
  /\ Enter
  /\ locked' = TRUE
  /\ UNCHANGED <<ttsEnabled, mapVars, reserved, claimed, player, conn, policy, blocked>>

\* The next handler that locks m_mutex stops the main loop.
BlockForEver ==
  /\ locked /\ ~blocked
  /\ blocked' = TRUE
  /\ UNCHANGED <<ttsEnabled, mapVars, reserved, claimed, player, conn, policy, locked>>

Next ==
  \/ \E enable \in BOOLEAN : EnableTTS(enable)
  \/ \E a \in Apps : \/ CreateSession(a) \/ ReservePlayerResource(a)
                     \/ ReleasePlayerResource(a) \/ ClaimPlayerResource(a)
  \/ \E s \in Sessions : \/ DestroySession(s) \/ Connect(s) \/ ReadEcho(s)
                         \/ HangUp(s)
  \/ RejectConfiguration \/ BlockForEver

Spec == Init /\ [][Next]_vars

-----------------------------------------------------------------------------
(* Properties.                                                             *)

Live == player.active \cap sessions

TypeOK ==
  /\ policy \in {"RESERVATION", "OPEN"}
  /\ ttsEnabled \in BOOLEAN
  /\ sessions \subseteq Sessions
  /\ appOf \in [Sessions -> Apps \cup {NoApp}]
  /\ sessionOf \in [Apps -> Sessions \cup {NoSession}]
  /\ lastSession \in 0..MaxSessions
  /\ reserved \in Apps \cup {NoApp} /\ claimed \in Apps \cup {NoApp}
  /\ player \in [active : SUBSET Sessions, session : Sessions \cup {NoSession},
                 ensured : BOOLEAN]
  /\ conn \in [Sessions -> {"none", "open", "known", "closed", "leaked"}]
  /\ locked \in BOOLEAN /\ blocked \in BOOLEAN

\* m_sessionMap and m_appMap list the same sessions, one per app, all of them
\* created (TTSManager.cpp:516-517, 566-570).
MapsAgree ==
  /\ \A s \in sessions : /\ s <= lastSession
                         /\ appOf[s] \in Apps /\ sessionOf[appOf[s]] = s
  /\ \A a \in Apps : sessionOf[a] # NoSession =>
                       sessionOf[a] \in sessions /\ appOf[sessionOf[a]] = a

\* Under RESERVATION the active session is one of the app that claimed the
\* player, or else of the app that reserved it, of an enabled engine
\* (TTSManager.cpp:618-787).  It need not be listed any more: the destroyed
\* session of an app that claimed and reserved the player stays active.
ActiveIsOwner ==
  Reservation /\ player.session # NoSession =>
    /\ ttsEnabled
    /\ player.session \in player.active
    /\ appOf[player.session] = Owner(claimed, reserved)

\* A claim does not outlive the session of the app that made it, so the player
\* goes back to the app it is reserved for (TTSManager.cpp:555-571, 707-716).
ClaimerIsLive == claimed # NoApp => sessionOf[claimed] # NoSession

\* The player is never withheld: whenever the engine is enabled and its owner
\* has a session, that session is the active one, whichever of enable, create,
\* reserve, claim, release and destroy came last.  The code asks for it only
\* at the places that call makeReservedOrClaimedSessionActive.
OwnerIsServed ==
  LET owner == Owner(claimed, reserved)
  IN  Reservation /\ ttsEnabled /\ owner \in Apps =>
        (sessionOf[owner] # NoSession => player.session = sessionOf[owner])

\* Of the listed sessions only m_activeSession may speak under RESERVATION.
LiveIsExclusive == Reservation => \A s \in Live : s = player.session

\* A listed session that may speak finds the pipeline wanted, and under
\* RESERVATION the pipeline is wanted for an active session only.
PipelineFollowsPlayer ==
  /\ Live # {} => player.ensured
  /\ Reservation /\ player.ensured => player.session # NoSession

\* Under OPEN exactly the listed sessions of an enabled engine may speak, and
\* the pipeline is wanted exactly when there is one.
OpenToAll ==
  ~Reservation => /\ claimed = NoApp
                  /\ player.active = IF ttsEnabled THEN sessions ELSE {}
                  /\ player.ensured = (ttsEnabled /\ sessions # {})

\* Every session created has an app, listed or not; nothing is active or
\* connected for one that is still to be created.
Created ==
  /\ \A s \in 1..lastSession : appOf[s] \in Apps
  /\ player.active \subseteq 1..lastSession
  /\ \A s \in Sessions : s > lastSession => conn[s] = "none"

\* The inductive invariant: the properties above support each other.
Inv ==
  /\ TypeOK /\ MapsAgree /\ Created
  /\ ClaimerIsLive /\ ActiveIsOwner /\ OwnerIsServed /\ LiveIsExclusive
  /\ PipelineFollowsPlayer /\ OpenToAll

\* tts.ini: "When reservation policy is set only the app for which the
\* resource is reserved can make use of the pipeline" (docs/tts.ini:54-55).
\* While there is to be a pipeline, every session object that may speak, those
\* of destroyed sessions included, belongs to the owner.
OnlyOwnerMaySpeak ==
  Reservation /\ player.ensured =>
    \A s \in player.active : appOf[s] = Owner(claimed, reserved)
=============================================================================
