-------------------------- MODULE TTSManager_proofs --------------------------
(* Proofs about TTSManager for every set of apps, every number of sessions   *)
(* and both policies.                                                        *)
EXTENDS TTSManager, TLAPS

\* The initial state, TTSManager's constructor, satisfies the invariant.
LEMMA InitInv == Init => Inv
<1> SUFFICES ASSUME Init PROVE Inv
  OBVIOUS
<1> USE ManagerAssumption DEF Init, Sessions, NoSession, Player
<1>1. TypeOK
  <2>1. player \in [active : SUBSET Sessions, session : Sessions \cup {NoSession},
                   ensured : BOOLEAN]
    OBVIOUS
  <2>2. /\ appOf \in [Sessions -> Apps \cup {NoApp}]
        /\ sessionOf \in [Apps -> Sessions \cup {NoSession}]
        /\ conn \in [Sessions -> {"none", "open", "known", "closed", "leaked"}]
    OBVIOUS
  <2>3. /\ sessions \subseteq Sessions /\ lastSession \in 0..MaxSessions
        /\ reserved \in Apps \cup {NoApp} /\ claimed \in Apps \cup {NoApp}
    OBVIOUS
  <2>4. /\ ttsEnabled \in BOOLEAN /\ locked \in BOOLEAN /\ blocked \in BOOLEAN
        /\ policy \in {"RESERVATION", "OPEN"}
    BY Zenon
  <2>5. QED
    BY ONLY <2>1, <2>2, <2>3, <2>4 DEF TypeOK
<1>2. MapsAgree /\ Created /\ ClaimerIsLive
  BY DEF MapsAgree, Created, ClaimerIsLive
<1>3. ActiveIsOwner /\ OwnerIsServed /\ LiveIsExclusive
  BY DEF ActiveIsOwner, OwnerIsServed, LiveIsExclusive, Live, Reservation
<1>4. PipelineFollowsPlayer /\ OpenToAll
  BY DEF PipelineFollowsPlayer, OpenToAll, Live
<1>5. QED
  BY <1>1, <1>2, <1>3, <1>4 DEF Inv

\* enableTTS keeps the invariant.
LEMMA EnableStep ==
  ASSUME Inv, NEW enable \in BOOLEAN, EnableTTS(enable)
  PROVE  Inv'
<1> USE ManagerAssumption DEF Inv, mapVars, restVars, Reservation, NoSession, Enter, EnableTTS, AllActive, NoneActive, Owner, MakeOwnerActive,
    MakeSessionActive, MakeSessionInActive, Player
<1>1. TypeOK'
  BY DEF TypeOK, Sessions
<1>2. MapsAgree'
  BY DEF TypeOK, MapsAgree, Sessions
<1>3. Created'
  BY DEF TypeOK, MapsAgree, Created, Sessions
<1>4. ClaimerIsLive'
  BY DEF TypeOK, MapsAgree, ClaimerIsLive, OpenToAll, Sessions
<1>5. ActiveIsOwner'
  BY DEF TypeOK, MapsAgree, Created, ClaimerIsLive, ActiveIsOwner,
         OwnerIsServed, Sessions
<1>6. OwnerIsServed'
  BY DEF TypeOK, MapsAgree, Created, ClaimerIsLive, ActiveIsOwner,
         OwnerIsServed, Sessions
<1>7. LiveIsExclusive'
  BY DEF TypeOK, MapsAgree, Created, ActiveIsOwner, LiveIsExclusive,
         Live, Sessions
<1>8. OpenToAll'
  <2>1. CASE Reservation
    BY <2>1 DEF OpenToAll
  <2>2. CASE ~Reservation /\ enable
    BY <2>2 DEF OpenToAll
  <2>3. CASE ~Reservation /\ ~enable
    BY <2>3 DEF OpenToAll
  <2>4. QED
    BY <2>1, <2>2, <2>3
<1>9. PipelineFollowsPlayer'
  BY DEF TypeOK, MapsAgree, Created, ActiveIsOwner, LiveIsExclusive,
         PipelineFollowsPlayer, OpenToAll, Live, Sessions
<1>10. QED
  BY <1>1, <1>2, <1>3, <1>4, <1>5, <1>6, <1>7, <1>8, <1>9 DEF Inv

\* createSession keeps the invariant.
LEMMA CreateStep ==
  ASSUME Inv, NEW a \in Apps, CreateSession(a)
  PROVE  Inv'
<1> USE ManagerAssumption DEF Inv, mapVars, restVars, Reservation, NoSession, Enter, CreateSession, Free, Owner, MakeOwnerActive,
    MakeSessionActive, MakeSessionInActive, Player
<1>1. TypeOK'
  <2>1. player' \in [active : SUBSET Sessions, session : Sessions \cup {NoSession},
                     ensured : BOOLEAN]
    BY DEF TypeOK, Sessions
  <2>2. /\ sessions' \subseteq Sessions /\ lastSession' \in 0..MaxSessions
        /\ reserved' \in Apps \cup {NoApp} /\ claimed' \in Apps \cup {NoApp}
    BY DEF TypeOK, Sessions
  <2>3. /\ appOf' \in [Sessions -> Apps \cup {NoApp}]
        /\ sessionOf' \in [Apps -> Sessions \cup {NoSession}]
        /\ conn' \in [Sessions -> {"none", "open", "known", "closed", "leaked"}]
    BY DEF TypeOK, Sessions
  <2>4. /\ ttsEnabled' \in BOOLEAN /\ locked' \in BOOLEAN /\ blocked' \in BOOLEAN
        /\ policy' \in {"RESERVATION", "OPEN"}
    BY DEF TypeOK
  <2>5. QED
    BY ONLY <2>1, <2>2, <2>3, <2>4 DEF TypeOK
<1>2. MapsAgree'
  BY DEF TypeOK, MapsAgree, Sessions
<1>3. Created'
  BY DEF TypeOK, MapsAgree, Created, Sessions
<1>4. ClaimerIsLive'
  BY DEF TypeOK, MapsAgree, ClaimerIsLive, OpenToAll, Sessions
<1>5. ActiveIsOwner'
  BY DEF TypeOK, MapsAgree, Created, ClaimerIsLive, ActiveIsOwner,
         OwnerIsServed, Sessions
<1>6. OwnerIsServed'
  BY DEF TypeOK, MapsAgree, Created, ClaimerIsLive, ActiveIsOwner,
         OwnerIsServed, Sessions
<1>7. LiveIsExclusive'
  BY DEF TypeOK, MapsAgree, Created, ActiveIsOwner, LiveIsExclusive,
         Live, Sessions
<1>8. OpenToAll'
  BY DEF TypeOK, Created, MapsAgree, OpenToAll, Sessions
<1>9. PipelineFollowsPlayer'
  BY DEF TypeOK, MapsAgree, Created, ActiveIsOwner, LiveIsExclusive,
         PipelineFollowsPlayer, OpenToAll, Live, Sessions
<1>10. QED
  BY <1>1, <1>2, <1>3, <1>4, <1>5, <1>6, <1>7, <1>8, <1>9 DEF Inv

\* reservePlayerResource keeps the invariant.
LEMMA ReserveStep ==
  ASSUME Inv, NEW a \in Apps, ReservePlayerResource(a)
  PROVE  Inv'
<1> USE ManagerAssumption DEF Inv, mapVars, restVars, Reservation, NoSession, Enter, ReservePlayerResource, Owner, MakeOwnerActive,
    MakeSessionActive, MakeSessionInActive, Player
<1>1. TypeOK'
  BY DEF TypeOK, Sessions
<1>2. MapsAgree'
  BY DEF TypeOK, MapsAgree, Sessions
<1>3. Created'
  BY DEF TypeOK, MapsAgree, Created, Sessions
<1>4. ClaimerIsLive'
  BY DEF TypeOK, MapsAgree, ClaimerIsLive, OpenToAll, Sessions
<1>5. ActiveIsOwner'
  BY DEF TypeOK, MapsAgree, Created, ClaimerIsLive, ActiveIsOwner,
         OwnerIsServed, Sessions
<1>6. OwnerIsServed'
  BY DEF TypeOK, MapsAgree, Created, ClaimerIsLive, ActiveIsOwner,
         OwnerIsServed, Sessions
<1>7. LiveIsExclusive'
  BY DEF TypeOK, MapsAgree, Created, ActiveIsOwner, LiveIsExclusive,
         Live, Sessions
<1>8. OpenToAll'
  BY DEF TypeOK, Created, MapsAgree, OpenToAll, Sessions
<1>9. PipelineFollowsPlayer'
  BY DEF TypeOK, MapsAgree, Created, ActiveIsOwner, LiveIsExclusive,
         PipelineFollowsPlayer, OpenToAll, Live, Sessions
<1>10. QED
  BY <1>1, <1>2, <1>3, <1>4, <1>5, <1>6, <1>7, <1>8, <1>9 DEF Inv

\* releasePlayerResource keeps the invariant.
LEMMA ReleaseStep ==
  ASSUME Inv, NEW a \in Apps, ReleasePlayerResource(a)
  PROVE  Inv'
<1> USE ManagerAssumption DEF Inv, mapVars, restVars, Reservation, NoSession, Enter, ReleasePlayerResource, Released, IsActiveApp, Owner, MakeOwnerActive,
    MakeSessionActive, MakeSessionInActive, Player
<1>1. TypeOK'
  BY DEF TypeOK, Sessions
<1>2. MapsAgree'
  BY DEF TypeOK, MapsAgree, Sessions
<1>3. Created'
  BY DEF TypeOK, MapsAgree, Created, Sessions
<1>4. ClaimerIsLive'
  BY DEF TypeOK, MapsAgree, ClaimerIsLive, OpenToAll, Sessions
<1>5. ActiveIsOwner'
  BY DEF TypeOK, MapsAgree, Created, ClaimerIsLive, ActiveIsOwner,
         OwnerIsServed, Sessions
<1>6. OwnerIsServed'
  BY DEF TypeOK, MapsAgree, Created, ClaimerIsLive, ActiveIsOwner,
         OwnerIsServed, Sessions
<1>7. LiveIsExclusive'
  BY DEF TypeOK, MapsAgree, Created, ActiveIsOwner, LiveIsExclusive,
         Live, Sessions
<1>8. OpenToAll'
  BY DEF TypeOK, Created, MapsAgree, OpenToAll, Sessions
<1>9. PipelineFollowsPlayer'
  BY DEF TypeOK, MapsAgree, Created, ActiveIsOwner, LiveIsExclusive,
         PipelineFollowsPlayer, OpenToAll, Live, Sessions
<1>10. QED
  BY <1>1, <1>2, <1>3, <1>4, <1>5, <1>6, <1>7, <1>8, <1>9 DEF Inv

\* claimPlayerResource keeps the invariant.
LEMMA ClaimStep ==
  ASSUME Inv, NEW a \in Apps, ClaimPlayerResource(a)
  PROVE  Inv'
<1> USE ManagerAssumption DEF Inv, mapVars, restVars, Reservation, NoSession, Enter, ClaimPlayerResource, Released, IsActiveApp, Owner, MakeOwnerActive,
    MakeSessionActive, MakeSessionInActive, Player
<1>1. TypeOK'
  BY DEF TypeOK, Sessions
<1>2. MapsAgree'
  BY DEF TypeOK, MapsAgree, Sessions
<1>3. Created'
  BY DEF TypeOK, MapsAgree, Created, Sessions
<1>4. ClaimerIsLive'
  BY DEF TypeOK, MapsAgree, ClaimerIsLive, OpenToAll, Sessions
<1>5. ActiveIsOwner'
  BY DEF TypeOK, MapsAgree, Created, ClaimerIsLive, ActiveIsOwner,
         OwnerIsServed, Sessions
<1>6. OwnerIsServed'
  BY DEF TypeOK, MapsAgree, Created, ClaimerIsLive, ActiveIsOwner,
         OwnerIsServed, Sessions
<1>7. LiveIsExclusive'
  BY DEF TypeOK, MapsAgree, Created, ActiveIsOwner, LiveIsExclusive,
         Live, Sessions
<1>8. OpenToAll'
  BY DEF TypeOK, Created, MapsAgree, OpenToAll, Sessions
<1>9. PipelineFollowsPlayer'
  BY DEF TypeOK, MapsAgree, Created, ActiveIsOwner, LiveIsExclusive,
         PipelineFollowsPlayer, OpenToAll, Live, Sessions
<1>10. QED
  BY <1>1, <1>2, <1>3, <1>4, <1>5, <1>6, <1>7, <1>8, <1>9 DEF Inv

\* destroySession keeps the invariant, when a client calls it and when the
\* connection of a client hangs up.
LEMMA DestroyStep ==
  ASSUME Inv, NEW s \in sessions, Destroy(s),
         NEW v \in {"none", "open", "known", "closed", "leaked"},
         conn' = [conn EXCEPT ![s] = v]
  PROVE  Inv'
<1> USE ManagerAssumption DEF Inv, mapVars, restVars, Reservation, NoSession, Enter, Destroy, Released, IsActiveApp, Owner, MakeOwnerActive,
    MakeSessionActive, MakeSessionInActive, Player
<1>l. (sessions # {s}) <=> (sessions' # {})
  OBVIOUS
<1>p. policy' = policy
  OBVIOUS
<1>1. TypeOK'
  <2>1. player' \in [active : SUBSET Sessions, session : Sessions \cup {NoSession},
                     ensured : BOOLEAN]
    BY DEF TypeOK, Sessions
  <2>2. /\ sessions' \subseteq Sessions /\ lastSession' \in 0..MaxSessions
        /\ reserved' \in Apps \cup {NoApp} /\ claimed' \in Apps \cup {NoApp}
    BY DEF TypeOK, Sessions
  <2>3. /\ appOf' \in [Sessions -> Apps \cup {NoApp}]
        /\ sessionOf' \in [Apps -> Sessions \cup {NoSession}]
        /\ conn' \in [Sessions -> {"none", "open", "known", "closed", "leaked"}]
    BY DEF TypeOK, Sessions
  <2>4. /\ ttsEnabled' \in BOOLEAN /\ locked' \in BOOLEAN /\ blocked' \in BOOLEAN
        /\ policy' \in {"RESERVATION", "OPEN"}
    BY DEF TypeOK
  <2>5. QED
    BY ONLY <2>1, <2>2, <2>3, <2>4 DEF TypeOK
<1>2. MapsAgree'
  BY DEF TypeOK, MapsAgree, Sessions
<1>3. Created'
  BY DEF TypeOK, MapsAgree, Created, Sessions
<1>4. ClaimerIsLive'
  BY DEF TypeOK, MapsAgree, ClaimerIsLive, OpenToAll, Sessions
<1>5. ActiveIsOwner'
  BY DEF TypeOK, MapsAgree, Created, ClaimerIsLive, ActiveIsOwner,
         OwnerIsServed, Sessions
<1>6. OwnerIsServed'
  BY DEF TypeOK, MapsAgree, Created, ClaimerIsLive, ActiveIsOwner,
         OwnerIsServed, Sessions
<1>7. LiveIsExclusive'
  BY DEF TypeOK, MapsAgree, Created, ActiveIsOwner, LiveIsExclusive,
         Live, Sessions
<1>8. OpenToAll'
  <2>1. SUFFICES ASSUME ~Reservation
                  PROVE  OpenToAll'
    BY DEF OpenToAll
  <2>2. /\ player'.active = player.active \ {s}
        /\ player'.ensured = (player.ensured /\ sessions # {s})
        /\ claimed' = claimed /\ ttsEnabled' = ttsEnabled
        /\ sessions' = sessions \ {s}
    BY <2>1
  <2>3. CASE ttsEnabled
    BY ONLY <2>1, <2>2, <2>3, <1>l, <1>p, Inv DEF OpenToAll, Inv
  <2>4. CASE ~ttsEnabled
    BY ONLY <2>1, <2>2, <2>4, <1>l, <1>p, Inv DEF OpenToAll, Inv
  <2>5. QED
    BY <2>3, <2>4
<1>9. PipelineFollowsPlayer'
  <2>1. CASE Reservation
    <3> DEFINE p == Released(appOf[s], claimed, reserved).player
    <3>1. /\ player'.active = p.active /\ player'.session = p.session
          /\ player'.ensured = (p.ensured /\ sessions # {s})
      BY <2>1
    <3>2. \/ p = player
          \/ p.session = NoSession /\ p.ensured = FALSE
          \/ p.session # NoSession /\ p.ensured = TRUE
      BY <2>1 DEF TypeOK, MapsAgree, Sessions
    <3>3. p.ensured => p.session # NoSession
      BY ONLY <2>1, <3>2, Inv DEF Inv, PipelineFollowsPlayer
    <3>4. ASSUME NEW t \in Live' PROVE player'.ensured
      <4>1. t \in sessions /\ t # s /\ t \in p.active
        BY <3>1, <3>4 DEF Live
      <4>2. t = p.session /\ t # NoSession
        BY <1>7, <3>1, <3>4, <4>1, <2>1 DEF LiveIsExclusive, TypeOK, Sessions
      <4>3. p.ensured
        BY ONLY <3>2, <4>1, <4>2, Inv DEF Inv, PipelineFollowsPlayer, Live
      <4>4. QED
        BY ONLY <3>1, <4>1, <4>3
    <3>5. QED
      BY ONLY <2>1, <1>p, <3>1, <3>3, <3>4 DEF PipelineFollowsPlayer, Reservation
  <2>2. CASE ~Reservation
    <3>1. /\ player'.active = IF ttsEnabled' THEN sessions' ELSE {}
          /\ player'.ensured = (ttsEnabled' /\ sessions' # {})
      BY <2>2, <1>8 DEF OpenToAll, Reservation
    <3>2. player'.active # {} => player'.ensured
      BY ONLY <3>1
    <3>3. QED
      BY ONLY <2>2, <1>p, <3>2 DEF PipelineFollowsPlayer, Live, Reservation
  <2>3. QED
    BY <2>1, <2>2
<1>10. QED
  BY <1>1, <1>2, <1>3, <1>4, <1>5, <1>6, <1>7, <1>8, <1>9 DEF Inv

\* A step that leaves the sessions and the player alone.
LEMMA ConnStep ==
  ASSUME Inv, NEW s \in Sessions,
         NEW v \in {"none", "open", "known", "closed", "leaked"},
         s <= lastSession,
         conn' = [conn EXCEPT ![s] = v],
         UNCHANGED <<ttsEnabled, mapVars, reserved, claimed, player, restVars>>
  PROVE  Inv'
<1> USE DEF Inv, mapVars, restVars
<1>1. TypeOK'
  BY DEF TypeOK
<1>2. MapsAgree' /\ ClaimerIsLive'
  BY DEF MapsAgree, ClaimerIsLive
<1>3. Created'
  BY ManagerAssumption DEF TypeOK, Created, Sessions
<1>4. ActiveIsOwner' /\ OwnerIsServed' /\ LiveIsExclusive'
  BY DEF ActiveIsOwner, OwnerIsServed, LiveIsExclusive, Live, Reservation
<1>5. PipelineFollowsPlayer' /\ OpenToAll'
  BY DEF PipelineFollowsPlayer, OpenToAll, Live, Reservation
<1>6. QED
  BY <1>1, <1>2, <1>3, <1>4, <1>5

\* The end of a client's connection, whether or not it destroys the session,
\* keeps the invariant.
LEMMA HangUpStep ==
  ASSUME Inv, NEW s \in Sessions, HangUp(s)
  PROVE  Inv'
<1>1. CASE conn[s] = "known" /\ s \in sessions
  BY <1>1, DestroyStep DEF HangUp
<1>2. CASE ~(conn[s] = "known" /\ s \in sessions)
  <2>1. s <= lastSession
    BY ManagerAssumption DEF HangUp, Inv, TypeOK, Created, Sessions
  <2>2. QED
    BY <1>2, <2>1, ConnStep DEF HangUp
<1>3. QED
  BY <1>1, <1>2

\* The lock and the connections are all that may change: a rejected
\* configuration, the handler it blocks, a stuttering step.
LEMMA LockStep ==
  ASSUME Inv, locked' \in BOOLEAN, blocked' \in BOOLEAN,
         UNCHANGED <<policy, ttsEnabled, mapVars, reserved, claimed, player, conn>>
  PROVE  Inv'
<1> USE DEF Inv, mapVars
<1>1. TypeOK'
  BY DEF TypeOK
<1>2. MapsAgree' /\ Created' /\ ClaimerIsLive'
  BY DEF MapsAgree, Created, ClaimerIsLive
<1>3. ActiveIsOwner' /\ OwnerIsServed' /\ LiveIsExclusive'
  BY DEF ActiveIsOwner, OwnerIsServed, LiveIsExclusive, Live, Reservation
<1>4. PipelineFollowsPlayer' /\ OpenToAll'
  BY DEF PipelineFollowsPlayer, OpenToAll, Live, Reservation
<1>5. QED
  BY <1>1, <1>2, <1>3, <1>4

\* Every step of the manager keeps the invariant, one case per handler.
LEMMA NextInv == Inv /\ [Next]_vars => Inv'
<1> SUFFICES ASSUME Inv, [Next]_vars PROVE Inv'
  OBVIOUS
<1>1. ASSUME NEW enable \in BOOLEAN, EnableTTS(enable) PROVE Inv'
  BY <1>1, EnableStep
<1>2. ASSUME NEW a \in Apps, CreateSession(a) PROVE Inv'
  BY <1>2, CreateStep
<1>3. ASSUME NEW a \in Apps, ReservePlayerResource(a) PROVE Inv'
  BY <1>3, ReserveStep
<1>4. ASSUME NEW a \in Apps, ReleasePlayerResource(a) PROVE Inv'
  BY <1>4, ReleaseStep
<1>5. ASSUME NEW a \in Apps, ClaimPlayerResource(a) PROVE Inv'
  BY <1>5, ClaimStep
<1>6. ASSUME NEW s \in Sessions, DestroySession(s) PROVE Inv'
  <2> DEFINE v == IF conn[s] = "known" THEN "closed" ELSE conn[s]
  <2>1. v \in {"none", "open", "known", "closed", "leaked"}
    BY DEF Inv, TypeOK
  <2>2. s \in sessions /\ Destroy(s) /\ conn' = [conn EXCEPT ![s] = v]
    BY <1>6 DEF DestroySession
  <2>3. QED
    BY <2>1, <2>2, DestroyStep
<1>7. ASSUME NEW s \in Sessions, Connect(s) PROVE Inv'
  BY <1>7, ConnStep DEF Connect
<1>8. ASSUME NEW s \in Sessions, ReadEcho(s) PROVE Inv'
  <2>1. s <= lastSession
    BY <1>8, ManagerAssumption DEF ReadEcho, Inv, TypeOK, Created, Sessions
  <2>2. QED
    BY <1>8, <2>1, ConnStep DEF ReadEcho
<1>9. ASSUME NEW s \in Sessions, HangUp(s) PROVE Inv'
  BY <1>9, HangUpStep
<1>10. CASE RejectConfiguration
  BY <1>10, LockStep, Zenon DEF RejectConfiguration, Inv, TypeOK
<1>11. CASE BlockForEver
  BY <1>11, LockStep, Zenon DEF BlockForEver, Inv, TypeOK
<1>12. CASE UNCHANGED vars
  BY <1>12, LockStep DEF vars, restVars, Inv, TypeOK
<1>13. QED
  BY <1>1, <1>2, <1>3, <1>4, <1>5, <1>6, <1>7, <1>8, <1>9, <1>10, <1>11,
     <1>12 DEF Next

\* The conjunction of the manager's invariants holds in every reachable state,
\* for any apps, any number of sessions and both policies.
THEOREM Invariance == Spec => []Inv
<1>1. Inv /\ [Next]_vars => Inv'
  BY NextInv
<1>2. QED
  BY InitInv, <1>1, PTL DEF Spec

\* Every variable keeps its type.
THEOREM TypeCorrect == Spec => []TypeOK
<1>1. Inv => TypeOK
  BY DEF Inv
<1>2. QED
  BY Invariance, <1>1, PTL

\* Under RESERVATION the active session, listed or not, is one of the app that
\* owns the player (OwnerServed, below, is the other half of the allocation).
THEOREM Allocation == Spec => []ActiveIsOwner
<1>1. Inv => ActiveIsOwner
  BY DEF Inv
<1>2. QED
  BY Invariance, <1>1, PTL

\* No two listed sessions may speak at a time under RESERVATION.
THEOREM Exclusion == Spec => []LiveIsExclusive
<1>1. Inv => LiveIsExclusive
  BY DEF Inv
<1>2. QED
  BY Invariance, <1>1, PTL

\* The pipeline is wanted whenever a listed session may speak, and under
\* RESERVATION it is not wanted without an active session.
THEOREM PipelineWanted == Spec => []PipelineFollowsPlayer
<1>1. Inv => PipelineFollowsPlayer
  BY DEF Inv
<1>2. QED
  BY Invariance, <1>1, PTL

\* A claim ends with the claimer's session.
THEOREM ClaimEnds == Spec => []ClaimerIsLive
<1>1. Inv => ClaimerIsLive
  BY DEF Inv
<1>2. QED
  BY Invariance, <1>1, PTL

\* Under OPEN exactly the listed sessions of an enabled engine may speak.
THEOREM OpenPolicy == Spec => []OpenToAll
<1>1. Inv => OpenToAll
  BY DEF Inv
<1>2. QED
  BY Invariance, <1>1, PTL

\* The session of an app is the app of that session, in either map.
THEOREM MapsConsistent == Spec => []MapsAgree
<1>1. Inv => MapsAgree
  BY DEF Inv
<1>2. QED
  BY Invariance, <1>1, PTL

\* The app that claimed or reserved the player is served when it can be.
THEOREM OwnerServed == Spec => []OwnerIsServed
<1>1. Inv => OwnerIsServed
  BY DEF Inv
<1>2. QED
  BY Invariance, <1>1, PTL
=============================================================================
