-------------------------- MODULE TTSClientSessions --------------------------
(***************************************************************************)
(* The sessions of a client over its connection to the engine              *)
(* (ttsclient/TTSClientPrivateRtRemote.cpp:528-1034), composed with        *)
(* TTSClientConnection.                                                    *)
(*                                                                         *)
(* The app's thread creates and destroys sessions and asks about them; the *)
(* dispatcher thread handles the events the engine sends.  Both write      *)
(* m_ttsEnabled and the SessionInfo objects, without a lock.  Events carry *)
(* a CallbackDataWrapper, shared by all the listeners of one client or one *)
(* session, which is cleared when the object behind it is deleted.         *)
(*                                                                         *)
(* The engine (external, see TTSManager) is what one app sees of it: its   *)
(* session, whether TTS is enabled, whether the player is the app's.       *)
(***************************************************************************)
EXTENDS TTSClientConnection, Sequences, FiniteSets

CONSTANTS
  MaxSessions,   \* bound: calls of createSession that reach the engine
  MaxIds         \* bound: session ids one start of the engine gives out

ASSUME SessionsAssumption == MaxSessions \in Nat /\ MaxIds \in Nat

VARIABLES
  host,          \* the engine (external)
  policy,        \* m_policy
  enabled,       \* m_ttsEnabled
  sessionMap,    \* m_sessionMap: the SessionInfo of an id, 0 if none
  infos,         \* the SessionInfo objects, in the order of their creation
  wrapper,       \* m_callbackWrapper of the client: live, cleared, deleted
  stateEvents,   \* tts_state_changed events not handled yet
  handling,      \* the event the dispatcher is about to use the object for
  call, calls,   \* the app's call, and how many it made
  moves,         \* how often somebody else moved the engine
  fault,         \* undefined behaviour reached, if any
  orphans,       \* history: sessions whose creation was never answered
  overtaken      \* history: m_ttsEnabled is from a reply a newer event overtook

callVars    == <<call, calls>>
sessionVars == <<host, policy, enabled, sessionMap, infos, wrapper, stateEvents, handling,
                 callVars, moves, fault, orphans, overtaken>>
vars == <<connectionVars, sessionVars>>

Ids   == 1..MaxIds
Infos == 1..MaxSessions
Client == 0                     \* whom an event is about: the client, or an info

NoInfo == [life |-> "none", wrapper |-> "live", refused |-> "none", id |-> 0, start |-> 0,
           got |-> FALSE, events |-> <<>>, overtaken |-> FALSE]
NoCall == [op |-> "none", info |-> 0, id |-> 0, answer |-> FALSE, missed |-> FALSE]
NoEvent == [about |-> Client, event |-> "none"]
NewHost == [enabled |-> FALSE, wanted |-> FALSE, ours |-> 0, info |-> 0, lastId |-> 0,
            others |-> {}]

Init ==
  /\ ConnectionInit
  /\ host = NewHost
  /\ policy = "INVALID" /\ enabled = FALSE
  /\ sessionMap = [i \in Ids |-> 0]
  /\ infos = [n \in Infos |-> NoInfo]
  /\ wrapper = "live" /\ stateEvents = <<>> /\ handling = NoEvent
  /\ call = NoCall /\ calls = 0 /\ moves = 0
  /\ fault = "none" /\ orphans = {} /\ overtaken = FALSE

\* How many createSession calls were made.
Made == Cardinality({n \in Infos : infos[n].life # "none"})

-----------------------------------------------------------------------------
(* The engine, as one app sees it (external).                              *)

\* Its session may speak.
Active(h) == h.ours # 0 /\ h.enabled /\ (scene.policy = "OPEN" \/ h.wanted)

\* The events of its session when h becomes h2: only RESERVATION tells them.
Announced(h, h2) ==
  CASE scene.policy = "RESERVATION" /\ ~Active(h) /\ Active(h2) -> <<"acquired">>
    [] scene.policy = "RESERVATION" /\ Active(h) /\ ~Active(h2) -> <<"released">>
    [] OTHER -> <<>>

Announce(n, events, table) ==
  IF n = 0 THEN table ELSE [table EXCEPT ![n].events = @ \o events]

\* The session is destroyed with the reservation of its app, or another
\* client's session that has the same id is; speeches may be cancelled.
Destroyed(id) ==
  IF id = host.ours
    THEN \E first \in {<<>>, IF Active(host) THEN <<"speech">> ELSE <<>>} :
           LET h2 == [host EXCEPT !.ours = 0, !.info = 0, !.wanted = FALSE]
           IN  /\ host' = h2
               /\ infos' = Announce(host.info, first \o Announced(host, h2), infos)
    ELSE host' = [host EXCEPT !.others = @ \ {id}] /\ UNCHANGED infos

\* enableTTS by any client, a reservation of this or another app, and the
\* creation of another client's session.
Toggle ==
  LET h2 == [host EXCEPT !.enabled = ~@]
  IN  /\ host' = h2
      /\ infos' = Announce(host.info, Announced(host, h2), infos)
      /\ stateEvents' = IF engine.listening > 0 THEN Append(stateEvents, h2.enabled)
                                                ELSE stateEvents

Want(wanted) ==
  LET h2 == [host EXCEPT !.wanted = wanted]
  IN  /\ scene.policy = "RESERVATION" /\ host.wanted # wanted
      /\ host' = h2
      /\ infos' = Announce(host.info, Announced(host, h2), infos)
      /\ UNCHANGED stateEvents

OtherSession ==
  /\ host.lastId < MaxIds
  /\ host' = [host EXCEPT !.lastId = @ + 1, !.others = @ \cup {host.lastId + 1}]
  /\ UNCHANGED <<infos, stateEvents>>

EngineMoves ==
  /\ engine.state = "ready" /\ moves < scene.moves /\ moves' = moves + 1
  /\ Toggle \/ (\E wanted \in BOOLEAN : Want(wanted)) \/ OtherSession
  /\ UNCHANGED <<connectionVars, policy, enabled, sessionMap, wrapper, handling, callVars, fault,
                 orphans, overtaken>>

\* A crash takes the sessions and the events that are under way with it.
Crash ==
  /\ EngineCrash
  /\ host' = NewHost /\ stateEvents' = <<>>
  /\ infos' = [n \in Infos |-> [infos[n] EXCEPT !.events = <<>>]]
  /\ UNCHANGED <<scene, policy, enabled, sessionMap, wrapper, handling, callVars, moves, fault,
                 orphans, overtaken>>

-----------------------------------------------------------------------------
(* The app's calls.                                                        *)

Ready == app = AtApi /\ call = NoCall

\* A call of the app that needs the connection.
Calls == Ready /\ connected /\ calls < scene.calls /\ calls' = calls + 1

AfterClear(state) == IF state = "live" THEN "cleared" ELSE state

\* delete sessionInfo: ~SessionInfo clears the wrapper its listeners share.
\* Mutant: the wrapper keeps pointing to the object.
Deleted_KeepsWrapper(n, table) == [table EXCEPT ![n].life = "deleted"]

Deleted(n, table) ==
  [table EXCEPT ![n].life = "deleted",
                ![n].wrapper = AfterClear(@)]

\* The new SessionInfo of createSession: without the RESERVATION policy it
\* has the resource for good.
NewInfo == [NoInfo EXCEPT !.life = "live", !.got = (policy # "RESERVATION")]

\* The engine creates the session, which may start to speak at once; an app
\* that has a session already is refused.  The reply may be lost.
CreateSession ==
  /\ Calls /\ Made < MaxSessions
  /\ LET n  == Made + 1
         id == host.lastId + 1
         h2 == [host EXCEPT !.ours = id, !.info = n, !.lastId = id]
     IN  IF Answers /\ host.ours = 0
           THEN /\ id \in Ids
                /\ host' = h2
                /\ LET table == Announce(n, Announced(host, h2), [infos EXCEPT ![n] = NewInfo])
                   IN  \/ /\ call' = [NoCall EXCEPT !.op = "create", !.info = n, !.id = id,
                                                    !.answer = host.enabled]
                          /\ infos' = [table EXCEPT ![n].start = engine.start]
                          /\ UNCHANGED orphans
                       \/ /\ infos' = Deleted(n, table)
                          /\ orphans' = orphans \cup {<<engine.start, id>>}
                          /\ UNCHANGED call
           ELSE infos' = Deleted(n, [infos EXCEPT ![n] = NewInfo]) /\ UNCHANGED <<host, call, orphans>>
  /\ UNCHANGED <<connectionVars, policy, enabled, sessionMap, wrapper, stateEvents, handling,
                 moves, fault, overtaken>>

\* Mutant: the resource is looked at as not acquired yet.
StoreSession_Resets ==
  /\ call.op = "create"
  /\ infos' = [infos EXCEPT ![call.info].id = call.id, ![call.info].got = (policy # "RESERVATION")]
  /\ sessionMap' = [sessionMap EXCEPT ![call.id] = call.info]
  /\ enabled' = call.answer /\ overtaken' = call.missed
  /\ call' = NoCall
  /\ UNCHANGED <<connectionVars, host, policy, wrapper, stateEvents, handling, calls, moves, fault,
                 orphans>>

\* The reply is stored: the session, and whether TTS is enabled.
StoreSession ==
  /\ call.op = "create"
  /\ infos' = [infos EXCEPT ![call.info].id = call.id]
  /\ sessionMap' = [sessionMap EXCEPT ![call.id] = call.info]
  /\ enabled' = call.answer /\ overtaken' = call.missed
  /\ call' = NoCall
  /\ UNCHANGED <<connectionVars, host, policy, wrapper, stateEvents, handling, calls, moves, fault,
                 orphans>>

\* The manager's destroySession is called for an id of the map, whichever
\* start of the engine gave it.
AskToDestroy(id) ==
  /\ sessionMap[id] # 0
  /\ IF Answers /\ id \in {host.ours} \cup host.others
       THEN Destroyed(id) ELSE UNCHANGED <<host, infos>>

\* destroySession(id) ends without effect unless the engine says TTS_OK: a
\* call that fails has an empty result, which reads as TTS_OK, but the code
\* returns before it deletes.  The reply may be lost.
DestroySession(id) ==
  /\ Calls /\ AskToDestroy(id)
  /\ \/ /\ Answers /\ id \in {host.ours} \cup host.others
        /\ call' = [NoCall EXCEPT !.op = "erase", !.info = sessionMap[id], !.id = id]
     \/ UNCHANGED call
  /\ UNCHANGED <<connectionVars, policy, enabled, sessionMap, wrapper, stateEvents, handling,
                 moves, fault, orphans, overtaken>>

\* cleanupConnection(false) asks for each session and erases it in any case.
CleanUpSession(id) ==
  /\ app.pc = "unregister" /\ call = NoCall
  /\ AskToDestroy(id)
  /\ call' = [NoCall EXCEPT !.op = "erase", !.info = sessionMap[id], !.id = id]
  /\ UNCHANGED <<connectionVars, policy, enabled, sessionMap, wrapper, stateEvents, handling,
                 calls, moves, fault, orphans, overtaken>>

EraseSession ==
  /\ call.op = "erase"
  /\ infos' = Deleted(call.info, infos)
  /\ sessionMap' = [sessionMap EXCEPT ![call.id] = 0]
  /\ call' = NoCall
  /\ UNCHANGED <<connectionVars, host, policy, enabled, wrapper, stateEvents, handling, calls,
                 moves, fault, orphans, overtaken>>

\* isTTSEnabled(true): the answer is stored when it is there.
AskEnabled ==
  /\ Calls /\ Answers
  /\ call' = [NoCall EXCEPT !.op = "enabled", !.answer = host.enabled]
  /\ UNCHANGED <<connectionVars, host, policy, enabled, sessionMap, infos, wrapper, stateEvents,
                 handling, moves, fault, orphans, overtaken>>

\* isActiveSession(id, true): asks the session's object, of its own start.
AskActive(id) ==
  /\ Calls /\ sessionMap[id] # 0
  /\ engine.state = "ready" /\ infos[sessionMap[id]].start = engine.start
  /\ call' = [NoCall EXCEPT !.op = "active", !.info = sessionMap[id],
                            !.answer = (host.ours = id /\ Active(host))]
  /\ UNCHANGED <<connectionVars, host, policy, enabled, sessionMap, infos, wrapper, stateEvents,
                 handling, moves, fault, orphans, overtaken>>

StoreAnswer ==
  /\ \/ /\ call.op = "enabled"
        /\ enabled' = call.answer /\ overtaken' = call.missed
        /\ UNCHANGED infos
     \/ /\ call.op = "active"
        /\ infos' = [infos EXCEPT ![call.info].got = call.answer,
                                  ![call.info].overtaken = call.missed]
        /\ UNCHANGED <<enabled, overtaken>>
  /\ call' = NoCall
  /\ UNCHANGED <<connectionVars, host, policy, sessionMap, wrapper, stateEvents, handling, calls,
                 moves, fault, orphans>>

\* acquireResource and releaseResource: only where the client believes in
\* RESERVATION; a call that does not get through looks like a success.
RequestResource(wanted) ==
  /\ Calls /\ policy = "RESERVATION" /\ Answers
  /\ Want(wanted)
  /\ UNCHANGED <<connectionVars, policy, enabled, sessionMap, wrapper, stateEvents, handling, call,
                 moves, fault, orphans, overtaken>>

-----------------------------------------------------------------------------
(* The dispatcher thread: onEventCB.                                       *)

DispatcherFree == dispatcher = "idle" /\ handling = NoEvent

\* An event of a wrapper whose object is gone is refused and the wrapper
\* deleted; the engine removes the listener of that event (TTSEventSource.cpp:
\* 69-74) and sends it no more, with the listeners of the other events still
\* holding the wrapper.  Any other event is handled with the object, some time
\* after the test.
Dispatch(state, event) ==
  CASE state = "live" -> handling' = event /\ UNCHANGED fault
    [] state = "cleared" -> UNCHANGED <<handling, fault>>
    [] state = "deleted" -> fault' = "wrapperGone" /\ UNCHANGED handling

AfterRefusal(state) == IF state = "cleared" THEN "deleted" ELSE state

TakeStateEvent ==
  /\ DispatcherFree /\ stateEvents # <<>>
  /\ Dispatch(wrapper, [about |-> Client, event |-> IF Head(stateEvents) THEN "on" ELSE "off"])
  /\ wrapper' = AfterRefusal(wrapper)
  /\ IF wrapper = "cleared"
       THEN stateEvents' = <<>> /\ engine' = [engine EXCEPT !.listening = 0]
       ELSE stateEvents' = Tail(stateEvents) /\ UNCHANGED engine
  /\ UNCHANGED <<scene, notice, watched, manager, flags, cached, startup, key, timeOut, dispatcher,
                 appVars, host, policy, enabled, sessionMap, infos, callVars, moves, orphans,
                 overtaken>>

TakeSessionEvent(n) ==
  /\ DispatcherFree /\ infos[n].events # <<>>
  /\ LET event == Head(infos[n].events)
     IN  /\ IF infos[n].wrapper = "deleted" /\ infos[n].refused = event
              THEN UNCHANGED <<handling, fault>>
              ELSE Dispatch(infos[n].wrapper, [about |-> n, event |-> event])
         /\ infos' = [infos EXCEPT ![n].events = Tail(@), ![n].wrapper = AfterRefusal(@),
                          ![n].refused = IF infos[n].wrapper = "cleared" THEN event ELSE @]
  /\ UNCHANGED <<connectionVars, host, policy, enabled, sessionMap, wrapper, stateEvents, callVars,
                 moves, orphans, overtaken>>

\* onConnectionEvent: m_ttsEnabled of a client that may be deleted by now.
HandleStateEvent ==
  /\ handling # NoEvent /\ handling.about = Client
  /\ handling' = NoEvent
  /\ IF app.pc = "gone"
       THEN fault' = "usedDeleted" /\ UNCHANGED <<enabled, overtaken, call>>
       ELSE /\ enabled' = (handling.event = "on")
            /\ overtaken' = FALSE
            /\ call' = IF call.op \in {"create", "enabled"}
                         THEN [call EXCEPT !.missed = (call.answer # (handling.event = "on"))]
                         ELSE call
            /\ UNCHANGED fault
  /\ UNCHANGED <<connectionVars, host, policy, sessionMap, infos, wrapper, stateEvents, calls,
                 moves, orphans>>

\* onSessionEvent: m_gotResource follows the two events of the resource.
HandleSessionEvent ==
  /\ handling.about # Client
  /\ handling' = NoEvent
  /\ LET n == handling.about
         got == handling.event = "acquired"
     IN  CASE infos[n].life = "deleted" ->
                fault' = "usedDeleted" /\ UNCHANGED <<infos, call>>
           [] infos[n].life = "live" /\ handling.event = "speech" ->
                UNCHANGED <<fault, infos, call>>
           [] OTHER ->
                /\ infos' = [infos EXCEPT ![n].got = got, ![n].overtaken = FALSE]
                /\ call' = IF call.op = "active" /\ call.info = n
                             THEN [call EXCEPT !.missed = (call.answer # got)] ELSE call
                /\ UNCHANGED fault
  /\ UNCHANGED <<connectionVars, host, policy, enabled, sessionMap, wrapper, stateEvents, calls,
                 moves, orphans, overtaken>>

EventHandler == \/ TakeStateEvent \/ HandleStateEvent
                \/ (\E n \in Infos : TakeSessionEvent(n)) \/ HandleSessionEvent

-----------------------------------------------------------------------------
(* The connection's steps, with what they do to the sessions.              *)

\* connectToTTSManager asks for the policy before it installs the handlers.
Install ==
  /\ InstallHandlers
  /\ policy' = IF Answers THEN scene.policy ELSE policy
  /\ UNCHANGED <<host, enabled, sessionMap, infos, wrapper, stateEvents, handling, callVars, moves,
                 fault, orphans, overtaken>>

\* The destructor's clean-up is over when the sessions are gone: the client's
\* own wrapper is cleared, the crash callback forgotten.
Forget ==
  /\ call = NoCall /\ \A i \in Ids : sessionMap[i] = 0
  /\ Unregister
  /\ wrapper' = AfterClear(wrapper)
  /\ UNCHANGED <<host, policy, enabled, sessionMap, infos, stateEvents, handling, callVars, moves,
                 fault, orphans, overtaken>>

StartupSteps    == (Startup /\ UNCHANGED sessionVars) \/ Install

\* What the crash callback and the cache of the settings use may be gone.
UsesDeleted ==
  /\ fault' = "usedDeleted"
  /\ UNCHANGED <<connectionVars, host, policy, enabled, sessionMap, infos, wrapper, stateEvents,
                 handling, callVars, moves, orphans, overtaken>>

DispatcherSteps == \/ /\ handling = NoEvent /\ ~CrashCallbackLate
                      /\ Dispatcher /\ UNCHANGED sessionVars
                   \/ handling = NoEvent /\ CrashCallbackLate /\ UsesDeleted
                   \/ EventHandler
AppSteps        == \/ AppReturns /\ UNCHANGED sessionVars
                   \/ CacheGone /\ UsesDeleted
                   \/ Forget \/ StoreSession \/ EraseSession \/ StoreAnswer
                   \/ \E i \in Ids : CleanUpSession(i)

AppCalls ==
  \/ /\ (\E k \in Settings : \E v \in Values : CallSet(k, v)) \/ Delete
     /\ call = NoCall /\ UNCHANGED sessionVars
  \/ CreateSession \/ AskEnabled
  \/ \E i \in Ids : DestroySession(i) \/ AskActive(i)
  \/ \E wanted \in BOOLEAN : RequestResource(wanted)

\* Nothing is said of what follows undefined behaviour.
Next ==
  /\ fault = "none" /\ UNCHANGED scene
  /\ \/ StartupSteps \/ DispatcherSteps \/ AppSteps \/ AppCalls
     \/ EngineComesUp /\ UNCHANGED sessionVars
     \/ Crash \/ EngineMoves

Spec == Init /\ [][Next]_vars

\* The client's threads run, calls return, and a started engine gets ready.
FairSpec ==
  /\ Spec
  /\ WF_vars(fault = "none" /\ UNCHANGED scene /\ StartupSteps)
  /\ WF_vars(fault = "none" /\ UNCHANGED scene /\ DispatcherSteps)
  /\ WF_vars(fault = "none" /\ UNCHANGED scene /\ AppSteps)
  /\ WF_vars(fault = "none" /\ UNCHANGED scene /\ EngineReady /\ UNCHANGED sessionVars)

-----------------------------------------------------------------------------
(* Properties.                                                             *)

Events == {"on", "off", "acquired", "released", "speech", "none"}

TypeOK ==
  /\ ConnectionTypeOK
  /\ host \in [enabled : BOOLEAN, wanted : BOOLEAN, ours : Ids \cup {0}, info : Infos \cup {0},
               lastId : 0..MaxIds, others : SUBSET Ids]
  /\ policy \in {"INVALID", "RESERVATION", "OPEN"} /\ enabled \in BOOLEAN
  /\ sessionMap \in [Ids -> Infos \cup {0}]
  /\ \A n \in Infos :
       infos[n] \in [life : {"none", "live", "deleted"}, wrapper : {"live", "cleared", "deleted"},
                    refused : Events, id : Ids \cup {0}, start : 0..(scene.crashes + 1), got : BOOLEAN,
                    events : Seq(Events), overtaken : BOOLEAN]
  /\ wrapper \in {"live", "cleared", "deleted"} /\ stateEvents \in Seq(BOOLEAN)
  /\ handling \in [about : Infos \cup {Client}, event : Events]
  /\ call \in [op : {"none", "create", "erase", "enabled", "active"}, info : Infos \cup {0},
               id : Ids \cup {0}, answer : BOOLEAN, missed : BOOLEAN]
  /\ calls \in 0..scene.calls /\ moves \in 0..scene.moves
  /\ fault \in {"none", "wrapperGone", "usedDeleted"}
  /\ overtaken \in BOOLEAN

\* The checks of speak(): what the client knows lets a session speak.
MaySpeak(id) == sessionMap[id] # 0 /\ enabled /\ infos[sessionMap[id]].got

\* Nothing about session id or the engine's state is under way.
Settled(id) ==
  /\ Ready /\ connected /\ Answers /\ fault = "none"
  /\ stateEvents = <<>> /\ infos[sessionMap[id]].events = <<>> /\ handling = NoEvent

\* Once the events have arrived the client lets its session speak exactly when
\* the engine would, whatever was asked, answered and told in between.  A reply
\* that a newer event overtook is the exception, until the next event, and so
\* is a session SpeaksWhenOpen is about (TTSClientPrivateRtRemote.cpp:528-544,
\* 632-686, 708-727, 771-787, 941-977).
SpeaksWhenActive ==
  \A id \in Ids :
    /\ sessionMap[id] # 0 /\ host.ours = id /\ Settled(id)
    /\ infos[sessionMap[id]].start = engine.start
    /\ ~overtaken /\ ~infos[sessionMap[id]].overtaken
    /\ scene.policy = "OPEN" => infos[sessionMap[id]].got
    => (MaySpeak(id) <=> Active(host))

\* A client that is deleted leaves no session behind in the engine, but for
\* one whose creation was never answered (TTSClientPrivateRtRemote.cpp:382-400,
\* 632-706).
LeavesNoSession ==
  app.pc = "gone" /\ engine.state = "ready" /\ host.ours # 0
    => <<engine.start, host.ours>> \in orphans

\* The dispatcher never begins to handle an event with a SessionInfo that is
\* already deleted: the wrapper tells it (TTSClientPrivateRtRemote.h:60-67,
\* TTSClientPrivateRtRemote.cpp:912-933).
LateEventsRefused ==
  [][\A n \in Infos : handling.about # n /\ handling'.about = n => infos[n].life = "live"]_vars

\* A crash of an engine at rest is survived: the client is connected to the
\* next start, with its handlers installed, or has given up waiting
\* (TTSClientPrivateRtRemote.cpp:249-288).
ComesBack ==
  (scene.atRest /\ serverCrashed)
    ~> (startup = "done" \/ Deleting \/ fault # "none"
          \/ (connected /\ Answers /\ engine.listening = 1))

\* The destructor, which joins the startup thread, comes back from wherever
\* that thread is when it is told to stop, except for the moment between the
\* predicate of its wait and the sleep, where the notification is lost
\* (TTSClientPrivateRtRemote.cpp:196-290, 354-380).
DestructorReturns ==
  (app.pc = "join" /\ startup \notin {"sleep", "blocked"}) ~> (app.pc = "gone" \/ fault # "none")

-----------------------------------------------------------------------------
(* What comments of the source say and the code does not keep.             *)

\* "Wait till the connection breaks" and "Wait 30 seconds for TTSEngine to
\* start" (TTSClientPrivateRtRemote.cpp:249, 260): once the engine is up for
\* good, a client that did not give up is connected to it again.
Reconnects ==
  <>[](engine.state = "ready") => []<>(startup = "done" \/ (connected /\ Answers))

\* "Open (Default Policy): With this policy all apps are treated equally and no
\* need for any reservation. Apps can directly call the Speech APIs as if they
\* own the resource" (docs/tts.ini:58-60): once TTS is enabled and the client
\* knows, it lets its session speak (TTSClientPrivateRtRemote.cpp:708-727, 784).
SpeaksWhenOpen ==
  \A id \in Ids :
    /\ scene.policy = "OPEN" /\ Active(host) /\ host.ours = id
    /\ sessionMap[id] # 0 /\ Settled(id) /\ ~overtaken
    /\ infos[sessionMap[id]].start = engine.start
    => MaySpeak(id)
=============================================================================
