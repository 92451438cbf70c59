---------------------- MODULE TTSClientPromises_proofs ----------------------
(***************************************************************************)
(* Proofs about what an app may count on, for any settings, scenes and     *)
(* bounds: the settings it makes early arrive, a client that is deleted    *)
(* leaves no session in the engine, and a client that was told everything  *)
(* lets its session speak exactly when the engine would.                   *)
(* TTSClientSessions_proofs has the invariants they rest on.               *)
(*                                                                         *)
(* The last rests on what the client knows of its session (Informed): the  *)
(* connection the session came by, the objects and the names they go by,   *)
(* the ids, and then, for whether TTS is enabled and whether the session   *)
(* has the resource, the same chain: the latest event under way is true;   *)
(* if none is, the one being handled is; if none is, what is believed or   *)
(* about to be stored is, or a newer event overtook it.                    *)
(***************************************************************************)
EXTENDS TTSClientSessions_proofs

\* A step of one of the client's threads, with the installation or without.
WorkStep ==
  \/ Startup \/ Dispatcher \/ AppReturns \/ Unregister \/ Delete
  \/ (\E k \in Settings : \E v \in Values : CallSet(k, v))

ThreadStep == WorkStep \/ InstallHandlers

\* The client does not crash or start the engine, nor does it take its handlers
\* away.
LEMMA ThreadsLeaveEngine ==
  ASSUME ConnectionInv, ThreadStep
  PROVE  /\ engine'.start = engine.start /\ engine'.state = engine.state
         /\ engine'.listening >= engine.listening
<1>0. ConnectionTypeOK /\ engine.listening \in Nat
  BY DEF ConnectionInv, ConnectionTypeOK
<1>1. CASE InstallHandlers \/ SendCached \/ SendSetting
  BY <1>0, <1>1 DEF InstallHandlers, Installed, SendCached, Flushed, SendSetting, Applied,
                   ConnectionTypeOK
<1>2. CASE Startup /\ ~SendCached
  BY <1>0, <1>2 DEF Startup, Loop, Find, SetConnected, TestCache, FreeCached, EraseCached, Watch, FallAsleep,
                   Probe
<1>3. CASE Dispatcher \/ Unregister \/ Delete \/ (AppReturns /\ ~SendSetting)
  BY <1>0, <1>3 DEF Dispatcher, CrashCallback, CrashDisconnects, MarkCrash, DropManager, Unregister, Delete,
                   AppReturns, Construct, CacheTest, CacheSetting, DeleteDisconnects, DeleteDrop, DeleteQuit, Join
<1>4. CASE \E k \in Settings : \E v \in Values : CallSet(k, v)
  BY <1>0, <1>4 DEF CallSet
<1>5. QED
  BY <1>1, <1>2, <1>3, <1>4 DEF ThreadStep, WorkStep

\* What the sessions' steps are about, but for the fault.
quietVars == <<host, policy, enabled, sessionMap, infos, wrapper, stateEvents, handling, callVars,
               moves, orphans, overtaken>>

\* The engine takes them away only from a client that is deleted.
LEMMA TakenWhenDeleted ==
  ASSUME Inv, TakeStateEvent
  PROVE  UNCHANGED connectionVars \/ (Forgotten /\ Deleting /\ stateEvents' = <<>>)
BY DEF TakeStateEvent, Forgotten, connectionVars, Inv, WrapperLives

-----------------------------------------------------------------------------
(* The settings that are made before the connection is complete.           *)

\* Neither did the first start of the engine end nor is the client deleted.
Undisturbed ==
  ~Deleting /\ engine.start <= 1 /\ (engine.start = 1 => engine.state # "down")

\* Nothing is known or told of a crash, and the startup thread gets through.
FirstConnection ==
  /\ ~notice /\ dispatcher = "idle" /\ ~serverCrashed
  /\ manager # 0 => manager = engine.start /\ engine.state = "ready"
  /\ startup \in {"install", "setConnected", "test", "send", "free", "erase", "watch", "sleep", "blocked"}
       => manager # 0
  /\ startup \in {"test", "send", "free", "erase", "watch", "sleep", "blocked"} => connected

\* The startup thread has sent what was cached of k.
AfterFlush(k) ==
  \/ startup \in {"watch", "sleep", "blocked"}
  \/ startup \in {"free", "erase"} /\ key = k
  \/ startup \in {"test", "send", "free", "erase"} /\ key = "config" /\ k = "enable"

\* What was set early is in the cache until it is sent, and then the engine's.
Travels(k) ==
  early[k] # "none" =>
    /\ startup # "none"
    /\ BeforeFlush(k) \/ (startup = "send" /\ key = k) => cached[k] = early[k]
    /\ AfterFlush(k) => engine.settings[k] = early[k]

FirstStart == Undisturbed => FirstConnection /\ \A k \in Settings : Travels(k)

\* Once disturbed there is no way back.
LEMMA UndisturbedBefore ==
  ASSUME ConnectionInv, ConnectionStep, Undisturbed'
  PROVE  Undisturbed
<1>1. ~Deleting
  BY DeletingStays DEF Undisturbed
<1>2. engine.start \in Nat
  BY SceneTypes
<1>3. CASE EngineComesUp
  <2>1. CASE EngineStart
    <3>1. engine'.start = engine.start + 1
      BY <2>1 DEF EngineStart, ConnectionInv, ConnectionTypeOK
    <3>2. QED
      BY <1>1, <1>2, <3>1 DEF Undisturbed
  <2>2. CASE EngineReady
    <3>1. engine'.start = engine.start /\ engine.state = "starting"
      BY <2>2 DEF EngineReady, ConnectionInv, ConnectionTypeOK
    <3>2. QED
      BY <1>1, <3>1 DEF Undisturbed
  <2>3. QED
    BY <1>3, <2>1, <2>2 DEF EngineComesUp
<1>4. CASE EngineCrash
  <2>1. engine'.start = engine.start /\ engine.state # "down"
    BY <1>4 DEF EngineCrash, ConnectionInv, ConnectionTypeOK
  <2>2. QED
    BY <1>1, <2>1 DEF Undisturbed
<1>5. CASE ThreadStep
  BY <1>1, <1>5, ThreadsLeaveEngine DEF Undisturbed
<1>6. CASE Forgotten
  <2>1. engine'.start = engine.start /\ engine'.state = engine.state
    BY <1>6 DEF Forgotten, ConnectionInv, ConnectionTypeOK
  <2>2. QED
    BY <1>1, <2>1 DEF Undisturbed
<1>7. QED
  BY <1>3, <1>4, <1>5, <1>6 DEF ConnectionStep, ThreadStep, WorkStep

\* The startup thread sends what is cached.
LEMMA StartupTravels ==
  ASSUME ConnectionInv, FirstStart, Undisturbed, Startup \/ InstallHandlers
  PROVE  FirstConnection' /\ \A k \in Settings : Travels(k)'
<1> USE DEF FirstConnection, AfterFlush, BeforeFlush, Travels, StartupGoto, Settings,
            appVars, flags
<1>0. /\ FirstConnection /\ \A k \in Settings : Travels(k)
      /\ key \in Settings /\ ConnectionTypeOK /\ Core
  BY DEF FirstStart, ConnectionInv, ConnectionTypeOK, Undisturbed
<1>1. CASE Loop \/ SetConnected \/ Watch \/ FallAsleep
  BY <1>0, <1>1 DEF Loop, SetConnected, Watch, FallAsleep
<1>2. CASE Find
  <2>1. startup = "find" /\ startup' \in {"install", "done"}
        /\ (startup' = "install" => engine.state = "ready" /\ manager' = engine.start)
        /\ (startup' = "done" => manager' = manager)
        /\ UNCHANGED <<engine, notice, connected, serverCrashed, cached, key, dispatcher, early>>
    BY <1>2 DEF Find, Locate
  <2>2. engine.state = "ready" => engine.start # 0
    BY <1>0 DEF Core, WatchedIsUp
  <2>3. QED
    BY <1>0, <2>1, <2>2
<1>3. CASE InstallHandlers
  <2>1. engine'.settings = engine.settings /\ engine'.state = engine.state
        /\ engine'.start = engine.start
    BY <1>0, <1>3 DEF InstallHandlers, Installed, ConnectionTypeOK
  <2>2. QED
    BY <1>0, <1>3, <2>1 DEF InstallHandlers
<1>4. CASE TestCache
  BY <1>0, <1>4 DEF TestCache, NextSetting
<1>9. CASE FreeCached
  BY <1>0, <1>9 DEF FreeCached, ConnectionTypeOK
<1>5. CASE EraseCached
  <2>1. /\ startup = "erase" /\ cached' = [cached EXCEPT ![key] = "none"]
        /\ UNCHANGED <<engine, notice, manager, connected, serverCrashed, dispatcher, early>>
        /\ IF key = "enable" THEN startup' = "test" /\ key' = "config"
                             ELSE startup' = "watch" /\ key' = key
    BY <1>5 DEF EraseCached, NextSetting
  <2>2. QED
    BY <1>0, <2>1 DEF ConnectionTypeOK
<1>6. CASE SendCached
  <2>1. startup = "send" /\ startup' = "free" /\ connected /\ Answers
        /\ UNCHANGED <<notice, manager, connected, serverCrashed, cached, key, dispatcher, early>>
    BY <1>0, <1>6 DEF SendCached, Answers
  <2>2. PICK v \in Sent : engine' = [engine EXCEPT !.settings[key] = v]
    BY <1>6, <2>1 DEF SendCached, Flushed, Applied
  <2>3. /\ engine'.state = engine.state /\ engine'.start = engine.start
        /\ engine'.settings = [engine.settings EXCEPT ![key] = v]
        /\ engine.settings \in [Settings -> Values \cup {"none"}]
    BY <1>0, <2>2 DEF ConnectionTypeOK
  <2>5. ASSUME early[key] # "none" PROVE v = early[key]
    <3>1. cached[key] = early[key] /\ early[key] \in Values
      BY <1>0, <2>1, <2>5 DEF ConnectionTypeOK
    <3>2. QED
      BY <2>2, <3>1, ConnectionAssumption DEF Sent
  <2>4. QED
    BY <1>0, <2>1, <2>3, <2>5
<1>7. CASE Probe
  <2>1. startup = "probe"
    BY <1>7 DEF Probe
  <2>2. QED
    BY <1>0, <2>1 DEF Core, ToldWhenConnected
<1>8. QED
  BY <1>1, <1>2, <1>3, <1>4, <1>5, <1>6, <1>7, <1>9 DEF Startup

\* The app adds to it, and what it sends itself is not early.
LEMMA AppTravels ==
  ASSUME ConnectionInv, FirstStart, Undisturbed, ~Deleting',
         \/ AppReturns \/ Unregister \/ Delete
         \/ \E k \in Settings : \E v \in Values : CallSet(k, v)
  PROVE  FirstConnection' /\ \A k \in Settings : Travels(k)'
<1> USE DEF FirstConnection, AfterFlush, BeforeFlush, Travels, Settings, flags
<1>0. /\ FirstConnection /\ \A k \in Settings : Travels(k)
      /\ key \in Settings /\ ConnectionTypeOK /\ Core /\ app.key \in Settings
      /\ early \in [Settings -> Values \cup {"none"}]
      /\ cached \in [Settings -> Values \cup {"none", "raw", "freed"}]
  BY DEF FirstStart, ConnectionInv, ConnectionTypeOK, Undisturbed
<1>1. CASE Construct
  <2>1. startup = "none" /\ startup' = "loop" /\ (manager' = manager \/ Locate)
        /\ UNCHANGED <<engine, notice, connected, serverCrashed, cached, key, dispatcher, early>>
    BY <1>0, <1>1 DEF Construct, Core, Constructing
  <2>2. engine.state = "ready" => engine.start # 0
    BY <1>0 DEF Core, WatchedIsUp
  <2>3. QED
    BY <1>0, <2>1, <2>2 DEF Locate
<1>7. CASE CacheTest
  BY <1>0, <1>7 DEF CacheTest
<1>2. CASE CacheSetting
  <2>1. /\ UNCHANGED <<engine, notice, manager, connected, serverCrashed, startup, key, dispatcher>>
        /\ cached' = [cached EXCEPT ![app.key] = app.value]
        /\ early' = [early EXCEPT ![app.key] = IF BeforeFlush(app.key) THEN app.value ELSE "none"]
    BY <1>2 DEF CacheSetting
  <2>2. ASSUME NEW k \in Settings PROVE Travels(k)'
    <3>1. CASE k # app.key
      BY <1>0, <2>1, <3>1
    <3>2. CASE k = app.key
      BY <1>0, <2>1, <3>2
    <3>3. QED
      BY <3>1, <3>2
  <2>3. QED
    BY <1>0, <2>1, <2>2
<1>3. CASE SendSetting
  <2>1. /\ UNCHANGED <<notice, manager, connected, serverCrashed, startup, key, dispatcher, cached>>
        /\ early' = [early EXCEPT ![app.key] = "none"]
        /\ engine' = Applied(app.key, app.value)
    BY <1>3 DEF SendSetting
  <2>2. /\ engine'.state = engine.state /\ engine'.start = engine.start
        /\ \A k \in Settings : k # app.key => engine'.settings[k] = engine.settings[k]
    BY <1>0, <2>1 DEF Applied, ConnectionTypeOK
  <2>3. QED
    BY <1>0, <2>1, <2>2
<1>4. CASE DeleteDisconnects \/ DeleteDrop \/ DeleteQuit \/ Join \/ Unregister \/ Delete
  BY <1>4 DEF DeleteDisconnects, DeleteDrop, DeleteQuit, Join, Unregister, Delete, Deleting, AtApi
<1>5. CASE \E k \in Settings : \E v \in Values : CallSet(k, v)
  BY <1>0, <1>5 DEF CallSet
<1>6. QED
  BY <1>1, <1>2, <1>3, <1>4, <1>5, <1>7 DEF AppReturns

\* The engine comes up once, with settings that are its own until it crashes.
LEMMA EngineTravels ==
  ASSUME ConnectionInv, FirstStart, Undisturbed, Undisturbed',
         EngineComesUp \/ EngineCrash \/ Dispatcher \/ Forgotten
  PROVE  FirstConnection' /\ \A k \in Settings : Travels(k)'
<1> USE DEF FirstConnection, AfterFlush, BeforeFlush, Travels, flags, appVars, ClientUnchanged
<1>0. /\ FirstConnection /\ \A k \in Settings : Travels(k)
      /\ ConnectionTypeOK /\ Core /\ engine.start \in Nat /\ manager \in Nat
  BY SceneTypes DEF FirstStart, ConnectionInv, ConnectionTypeOK, Undisturbed
<1>1. CASE EngineStart \/ EngineReady
  <2>1. engine'.settings = engine.settings /\ engine.state # "ready"
    BY <1>0, <1>1 DEF EngineStart, EngineReady, ConnectionTypeOK
  <2>2. manager = 0
    BY <1>0, <2>1
  <2>3. UNCHANGED <<notice, manager, flags, cached, startup, key, dispatcher, early>>
    BY <1>1 DEF EngineStart, EngineReady
  <2>4. QED
    BY <1>0, <2>1, <2>2, <2>3
<1>2. CASE EngineCrash
  <2>1. engine'.start = engine.start /\ engine'.state = "down" /\ engine.start # 0
    BY <1>0, <1>2 DEF EngineCrash, ConnectionTypeOK, Core, WatchedIsUp
  <2>2. QED
    BY <1>0, <2>1 DEF Undisturbed
<1>3. CASE Dispatcher
  BY <1>0, <1>3 DEF Dispatcher, CrashCallback, CrashDisconnects, MarkCrash, DropManager
<1>4. CASE Forgotten
  <2>1. engine'.settings = engine.settings /\ engine'.state = engine.state
        /\ engine'.start = engine.start
    BY <1>0, <1>4 DEF Forgotten, ConnectionTypeOK
  <2>2. QED
    BY <1>0, <1>4, <2>1 DEF Forgotten
<1>5. QED
  BY <1>1, <1>2, <1>3, <1>4 DEF EngineComesUp

\* As long as engine and client live, what was set early arrives, for any
\* settings and any scenes.
THEOREM EarlyArrives == Spec => []EarlySettingsArrive
<1>1. Init => FirstStart
  BY DEF Init, ConnectionInit, FirstStart, FirstConnection, Travels, Unset
<1>2. ConnectionInv /\ FirstStart /\ [Next]_vars => FirstStart'
  <2> SUFFICES ASSUME ConnectionInv, FirstStart, [Next]_vars, Undisturbed'
               PROVE  FirstConnection' /\ \A k \in Settings : Travels(k)'
    BY DEF FirstStart, Settings
  <2>1. CASE UNCHANGED connectionVars
    BY <2>1 DEF connectionVars, flags, appVars, FirstStart, Undisturbed, Deleting,
                FirstConnection, Travels, BeforeFlush, AfterFlush
  <2>2. CASE ConnectionStep
    <3>1. Undisturbed /\ ~Deleting'
      BY <2>2, UndisturbedBefore DEF Undisturbed
    <3>2. QED
      BY <2>2, <3>1, StartupTravels, AppTravels, EngineTravels DEF ConnectionStep
  <2>3. QED
    BY <2>1, <2>2, StepsOfConnection DEF vars
<1>3. FirstStart => EarlySettingsArrive
  BY DEF FirstStart, Undisturbed, Travels, AfterFlush, EarlySettingsArrive
<1>4. QED
  BY Invariance, <1>1, <1>2, <1>3, PTL DEF Spec

-----------------------------------------------------------------------------
(* The session of a client that is deleted.                                *)

\* The client knows the engine's session, or is about to store it.
Known(id) ==
  /\ (call.op = "create" /\ call.id = id) \/ sessionMap[id] # 0
  /\ call.op = "erase" => call.id # id

\* The connection the session was created over is still there, and the
\* destructor, if it runs, is still at the sessions.
Reachable ==
  /\ app.pc \notin {"unconnected", "drop", "quit", "join", "gone"}
  /\ watched = engine.start /\ manager = engine.start /\ ~notice /\ dispatcher = "idle"
  /\ Deleting \/ connected

Kept ==
  /\ call.op = "create" => call.info # 0
  /\ host.ours # 0 => engine.state = "ready"
  /\ host.ours # 0 /\ <<engine.start, host.ours>> \notin orphans => Known(host.ours) /\ Reachable

\* A step of the connection that neither crashes the engine nor ends the
\* clean-up of the sessions.
KeepingStep ==
  \/ Startup \/ InstallHandlers \/ Dispatcher \/ AppReturns \/ Delete \/ EngineComesUp
  \/ (\E k \in Settings : \E v \in Values : CallSet(k, v))
  \/ Forgotten

\* A session that is created when the call gets through is reachable.
LEMMA AnswersReach ==
  ASSUME ConnectionInv, Answers, connected, app = AtApi
  PROVE  Reachable
<1>1. ~Deleting /\ app.pc = "ready"
  BY DEF Deleting, AtApi
<1>2. Core /\ engine.start \in Nat /\ manager \in Nat /\ watched \in Nat
  BY <1>1, SceneTypes DEF ConnectionInv, ConnectionTypeOK
<1>3. engine.start # 0 /\ watched # 0
  BY <1>2 DEF Core, WatchedIsUp, Answers
<1>4. QED
  BY <1>1, <1>2, <1>3 DEF Reachable, Answers, Core, OneCrashAhead, WatchedIsUp

\* The connection's steps do not cut the session off; only the clean-up of
\* the sessions lets the destructor go on.
LEMMA ReachableStays ==
  ASSUME ConnectionInv, Reachable, host.ours # 0, engine.state = "ready", KeepingStep
  PROVE  Reachable' /\ engine'.state = "ready" /\ engine'.start = engine.start
<1> USE DEF Reachable, Deleting, flags, appVars
<1>0. ~EngineComesUp /\ engine'.state = "ready" /\ engine'.start = engine.start
  <2>1. CASE Forgotten
    BY <2>1 DEF Forgotten, EngineComesUp, EngineStart, EngineReady, ConnectionInv, ConnectionTypeOK
  <2>2. QED
    BY <2>1, ThreadsLeaveEngine DEF KeepingStep, ThreadStep, WorkStep, EngineComesUp, EngineStart,
                                    EngineReady
<1>1. CASE Startup \/ InstallHandlers
  <2>1. /\ UNCHANGED <<notice, dispatcher, app>> /\ (connected => connected')
        /\ (watched' = watched /\ manager' = manager)
             \/ (watched' = engine.start /\ manager' = engine.start)
    BY <1>1 DEF Startup, InstallHandlers, Loop, Find, Locate, SetConnected, TestCache, SendCached, FreeCached,
                EraseCached, Watch, FallAsleep, Probe
  <2>2. QED
    BY <1>0, <2>1
<1>2. CASE Dispatcher
  BY <1>2 DEF Dispatcher, CrashCallback, CrashDisconnects, MarkCrash, DropManager
<1>3. CASE AppReturns
  <2>1. CASE Construct \/ CacheTest \/ CacheSetting \/ SendSetting
    BY <1>0, <2>1 DEF Construct, Locate, CacheTest, CacheSetting, SendSetting, AtApi,
                      ConnectionInv, ConnectionTypeOK
  <2>2. CASE DeleteDisconnects \/ DeleteDrop \/ DeleteQuit \/ Join
    BY <1>0, <2>2 DEF DeleteDisconnects, DeleteDrop, DeleteQuit, Join, AtApi
  <2>3. QED
    BY <1>3, <2>1, <2>2 DEF AppReturns
<1>4. CASE Delete
  <2>1. /\ app = AtApi
        /\ app' = [AtApi EXCEPT !.pc = IF connected THEN "connected" ELSE "unconnected"]
        /\ UNCHANGED <<engine, notice, watched, manager, dispatcher>>
    BY <1>4 DEF Delete
  <2>2. connected
    BY <2>1 DEF AtApi
  <2>3. app'.pc = "connected"
    BY <2>1, <2>2 DEF AtApi
  <2>4. QED
    BY <2>1, <2>3
<1>5. CASE \E k \in Settings : \E v \in Values : CallSet(k, v)
  BY <1>5 DEF CallSet, AtApi
<1>6. CASE Forgotten
  BY <1>0, <1>6 DEF Forgotten
<1>7. QED
  BY <1>0, <1>1, <1>2, <1>3, <1>4, <1>5, <1>6 DEF KeepingStep

\* The connection's own steps.
LEMMA ConnectionKept ==
  ASSUME Inv, Kept, KeepingStep, UNCHANGED <<host, sessionMap, call, orphans>>
  PROVE  Kept'
<1>1. CASE host.ours = 0
  BY <1>1 DEF Kept
<1>2. CASE host.ours # 0 /\ engine.state = "ready"
  <2>1. engine'.state = "ready" /\ engine'.start = engine.start
    <3>1. CASE Forgotten
      BY <1>2, <3>1 DEF Forgotten, Inv, ConnectionInv, ConnectionTypeOK
    <3>2. QED
      BY <1>2, <3>1, ThreadsLeaveEngine
         DEF KeepingStep, ThreadStep, WorkStep, Inv, EngineComesUp, EngineStart, EngineReady
  <2>2. CASE <<engine.start, host.ours>> \in orphans
    BY <1>2, <2>1, <2>2 DEF Kept
  <2>3. CASE <<engine.start, host.ours>> \notin orphans
    BY <1>2, <2>1, <2>3, ReachableStays DEF Kept, Known, Inv
  <2>4. QED
    BY <2>2, <2>3
<1>3. QED
  BY <1>1, <1>2 DEF Kept

\* The engine's own steps.
LEMMA EngineKept ==
  ASSUME Inv, Kept, Crash \/ EngineMoves
  PROVE  Kept'
<1>1. CASE Crash
  BY <1>1 DEF Crash, Kept, NewHost, callVars
<1>2. CASE EngineMoves
  <2>1. host'.ours = host.ours /\ UNCHANGED <<connectionVars, sessionMap, call, orphans>>
    BY <1>2 DEF EngineMoves, Toggle, Want, OtherSession, callVars, Inv, SessionInv, SessionTypes,
                HostRecords
  <2>2. QED
    BY <2>1 DEF Kept, Known, Reachable, Deleting, connectionVars, flags, appVars
<1>3. QED
  BY <1>1, <1>2

\* A session is created: it is stored, or its creation was not answered.
LEMMA CreateKept ==
  ASSUME Inv, Kept, CreateSession
  PROVE  Kept'
<1>0. /\ UNCHANGED <<connectionVars, sessionMap>> /\ call = NoCall
      /\ connected /\ app = AtApi /\ Made + 1 # 0
  <2>1. Made \in Nat
    BY MadeType, SceneTypes DEF Inv
  <2>2. QED
    BY <2>1 DEF CreateSession, Calls, Ready
<1>1. CASE Answers /\ host.ours = 0
  <2> DEFINE id == host.lastId + 1
  <2>1. /\ host'.ours = id /\ id \in Ids
        /\ \/ call'.op = "create" /\ call'.id = id /\ call'.info = Made + 1
           \/ call' = call /\ orphans' = orphans \cup {<<engine.start, id>>}
    BY <1>1 DEF CreateSession, NoCall, Inv, SessionInv, SessionTypes, HostRecords
  <2>2. Reachable /\ engine.state = "ready"
    BY <1>0, <1>1, AnswersReach DEF Inv, Answers
  <2> HIDE DEF id
  <2>3. QED
    BY <1>0, <2>1, <2>2 DEF Kept, Known, Reachable, Deleting, NoCall, connectionVars, flags, appVars
<1>2. CASE ~(Answers /\ host.ours = 0)
  <2>1. UNCHANGED <<host, call, orphans>>
    BY <1>2 DEF CreateSession
  <2>2. QED
    BY <1>0, <2>1 DEF Kept, Known, Reachable, Deleting, connectionVars, flags, appVars
<1>3. QED
  BY <1>1, <1>2

\* The reply is stored: now it is in the map.
LEMMA StoreKept ==
  ASSUME Inv, Kept, StoreSession
  PROVE  Kept'
<1>1. /\ UNCHANGED <<connectionVars, host, orphans>> /\ call' = NoCall /\ call.op = "create"
      /\ sessionMap' = [sessionMap EXCEPT ![call.id] = call.info]
      /\ sessionMap \in [Ids -> Infos \cup {0}] /\ host.ours \in Ids \cup {0}
  BY DEF StoreSession, Inv, SessionInv, SessionTypes, HostRecords
<1>2. host.ours # 0 => (sessionMap'[host.ours] = IF call.id = host.ours
                                                   THEN call.info ELSE sessionMap[host.ours])
  BY <1>1
<1>3. QED
  BY <1>1, <1>2 DEF Kept, Known, Reachable, Deleting, NoCall, connectionVars, flags, appVars

\* What is erased is not the engine's session.
LEMMA EraseKept ==
  ASSUME Inv, Kept, EraseSession
  PROVE  Kept'
<1>1. /\ UNCHANGED <<connectionVars, host, orphans>> /\ call' = NoCall /\ call.op = "erase"
      /\ sessionMap' = [sessionMap EXCEPT ![call.id] = 0]
      /\ sessionMap \in [Ids -> Infos \cup {0}] /\ host.ours \in Ids \cup {0}
  BY DEF EraseSession, Inv, SessionInv, SessionTypes, HostRecords
<1>2. host.ours # 0 /\ call.id # host.ours => sessionMap'[host.ours] = sessionMap[host.ours]
  BY <1>1
<1>3. QED
  BY <1>1, <1>2 DEF Kept, Known, Reachable, Deleting, NoCall, connectionVars, flags, appVars

\* A session that is about to be erased was destroyed by the engine, if it
\* was the engine's and its creation was answered.
LEMMA DestroyKept ==
  ASSUME Inv, Kept, NEW id \in Ids, DestroySession(id) \/ CleanUpSession(id)
  PROVE  Kept'
<1>1. /\ UNCHANGED <<connectionVars, sessionMap, orphans>> /\ call = NoCall /\ AskToDestroy(id)
      /\ call' = call \/ (call'.op = "erase" /\ call'.id = id)
  BY DEF DestroySession, CleanUpSession, Calls, Ready, NoCall
<1>2. \/ host'.ours = 0
      \/ host'.ours = host.ours /\ (id = host.ours => ~Answers)
  <2>1. host \in HostRecords
    BY DEF Inv, SessionInv, SessionTypes
  <2>2. CASE Answers /\ id = host.ours
    <3>1. Destroyed(id)
      BY <1>1, <2>2 DEF AskToDestroy
    <3>2. host' = [host EXCEPT !.ours = 0, !.info = 0, !.wanted = FALSE]
      BY <2>2, <3>1 DEF Destroyed
    <3>3. QED
      BY <2>1, <3>2 DEF HostRecords
  <2>3. CASE ~(Answers /\ id = host.ours)
    <3>1. host' = host \/ host' = [host EXCEPT !.others = @ \ {id}]
      BY <1>1, <2>3 DEF AskToDestroy, Destroyed
    <3>2. QED
      BY <2>1, <2>3, <3>1 DEF HostRecords
  <2>4. QED
    BY <2>2, <2>3
<1>3. QED
  BY <1>1, <1>2 DEF Kept, Known, Reachable, Deleting, NoCall, Answers, connectionVars, flags, appVars

\* The destructor goes on when no session is left in the map.
LEMMA ForgetKept ==
  ASSUME Inv, Kept, Forget
  PROVE  Kept'
<1>1. /\ UNCHANGED <<engine, host, sessionMap, call, orphans>> /\ call = NoCall
      /\ \A i \in Ids : sessionMap[i] = 0
  BY DEF Forget, Unregister, callVars
<1>2. host.ours \in Ids \cup {0}
  BY DEF Inv, SessionInv, SessionTypes, HostRecords
<1>3. QED
  BY <1>1, <1>2 DEF Kept, Known, NoCall

\* A client that is deleted leaves no session behind in the engine, but for
\* one whose creation was never answered: for any bounds and scenes.
THEOREM NoSessionLeft == Spec => []LeavesNoSession
<1>1. Init => Kept
  BY DEF Init, Kept, NewHost, NoCall
<1>2. Inv /\ Kept /\ [Next]_vars => Kept'
  <2> SUFFICES ASSUME Inv, Kept, [Next]_vars PROVE Kept'
    OBVIOUS
  <2>1. ASSUME UNCHANGED <<connectionVars, host, sessionMap, orphans>>,
               call' = call \/ (call.op # "create" /\ call'.op \notin {"create", "erase"})
        PROVE  Kept'
    BY <2>1 DEF Kept, Known, Reachable, Deleting, connectionVars, flags, appVars
  <2>2. CASE UNCHANGED vars
    BY <2>1, <2>2 DEF vars, sessionVars, quietVars, callVars
  <2>3. CASE KeepingStep /\ UNCHANGED <<host, sessionMap, call, orphans>>
    BY <2>3, ConnectionKept
  <2>4. CASE StartupSteps \/ DispatcherSteps
    <3>1. CASE EventHandler
      <4>1. CASE TakeStateEvent
        <5>1. UNCHANGED connectionVars \/ Forgotten
          BY <4>1, TakenWhenDeleted
        <5>2. UNCHANGED <<host, sessionMap, call, orphans>>
          BY <4>1 DEF TakeStateEvent, callVars
        <5>3. QED
          BY <2>1, <2>3, <5>1, <5>2 DEF KeepingStep
      <4>2. CASE HandleStateEvent \/ (\E n \in Infos : TakeSessionEvent(n)) \/ HandleSessionEvent
        <5>1. /\ UNCHANGED <<connectionVars, host, sessionMap, orphans>>
              /\ call'.op = call.op /\ call'.id = call.id /\ call'.info = call.info
          BY <4>2 DEF HandleStateEvent, TakeSessionEvent, HandleSessionEvent, callVars,
                      Inv, SessionInv, SessionTypes, CallRecords
        <5>2. QED
          BY <5>1 DEF Kept, Known, Reachable, Deleting, connectionVars, flags, appVars
      <4>3. QED
        BY <3>1, <4>1, <4>2 DEF EventHandler
    <3>2. CASE UsesDeleted
      BY <2>1, <3>2 DEF UsesDeleted, callVars
    <3>3. QED
      BY <2>3, <2>4, <3>1, <3>2 DEF StartupSteps, DispatcherSteps, Install, KeepingStep, sessionVars, quietVars,
                              callVars
  <2>5. CASE AppSteps
    <3>1. CASE StoreAnswer
      BY <2>1, <3>1 DEF StoreAnswer, NoCall
    <3>2. CASE UsesDeleted
      BY <2>1, <3>2 DEF UsesDeleted, callVars
    <3>3. QED
      BY <2>3, <2>5, <3>1, <3>2, ForgetKept, StoreKept, EraseKept, DestroyKept
         DEF AppSteps, KeepingStep, sessionVars, quietVars, callVars
  <2>6. CASE AppCalls
    <3>1. CASE AskEnabled \/ \E i \in Ids : AskActive(i)
      <4>1. /\ UNCHANGED <<connectionVars, host, sessionMap, orphans>> /\ call = NoCall
            /\ call'.op \in {"enabled", "active"}
        BY <3>1 DEF AskEnabled, AskActive, Calls, Ready, NoCall
      <4>2. QED
        BY <2>1, <4>1 DEF NoCall
    <3>2. ASSUME NEW wanted \in BOOLEAN, RequestResource(wanted) PROVE Kept'
      <4>1. /\ UNCHANGED <<connectionVars, sessionMap, call, orphans>>
            /\ host' = [host EXCEPT !.wanted = wanted]
        BY <3>2 DEF RequestResource, Want
      <4>2. host'.ours = host.ours
        BY <4>1 DEF Inv, SessionInv, SessionTypes, HostRecords
      <4>3. QED
        BY <4>1, <4>2 DEF Kept, Known, Reachable, Deleting, connectionVars, flags, appVars
    <3>3. QED
      BY <2>3, <2>6, <3>1, <3>2, CreateKept, DestroyKept
         DEF AppCalls, KeepingStep, sessionVars, quietVars, callVars
  <2>7. CASE (EngineComesUp /\ UNCHANGED sessionVars) \/ Crash \/ EngineMoves
    BY <2>3, <2>7, EngineKept DEF KeepingStep, sessionVars, quietVars, callVars
  <2>8. QED
    BY <2>2, <2>4, <2>5, <2>6, <2>7 DEF Next
<1>3. Kept => LeavesNoSession
  BY DEF Kept, Reachable, LeavesNoSession
<1>4. QED
  BY SessionInvariance, <1>1, <1>2, <1>3, PTL DEF Spec

-----------------------------------------------------------------------------
(* What the client knows of its session: the connection it came by.        *)

\* The client is not being deleted and watches the engine that is up.
Here == ~Deleting /\ watched # 0

\* Only an engine that is ready is watched; a client that is connected to it
\* has installed its handlers and knows its policy.
Attached ==
  /\ watched # 0 => watched = engine.start /\ engine.state = "ready"
  /\ Here /\ (connected \/ startup = "setConnected") => engine.listening # 0
  /\ engine.listening # 0 => policy = scene.policy
  /\ ~Deleting /\ host.info # 0 => watched # 0

\* What the steps of the threads do to it, but for the installation.
LEMMA ThreadsAttached ==
  ASSUME ConnectionInv, Attached, WorkStep, ~Deleting'
  PROVE  /\ \/ watched' = watched
            \/ /\ watched' = engine.start /\ engine.state = "ready"
               /\ ~connected' /\ startup' # "setConnected"
         /\ startup' # "setConnected" \/ startup = "setConnected"
         /\ connected' => connected \/ startup = "setConnected"
<1> USE DEF Deleting, flags, appVars, AtApi
<1>0. ~Deleting /\ Core
  BY DeletingStays DEF ThreadStep, WorkStep, ConnectionStep, ConnectionInv
<1>1. CASE Startup
  <2>1. CASE Find
    <3>1. ~connected
      BY <1>0, <2>1 DEF Find, StartupGoto, Core, ToldWhenConnected, Past
    <3>2. QED
      BY <2>1, <3>1 DEF Find, StartupGoto, Locate
  <2>2. CASE Startup /\ ~Find
    BY <2>2 DEF Startup, StartupGoto, Loop, SetConnected, TestCache, NextSetting, SendCached, FreeCached,
                EraseCached, Watch, FallAsleep, Probe, EngineBack
  <2>3. QED
    BY <1>1, <2>1, <2>2
<1>2. CASE Dispatcher
  BY <1>2 DEF Dispatcher, CrashCallback, CrashDisconnects, MarkCrash, DropManager, Notify
<1>3. CASE AppReturns
  <2>1. CASE Construct
    BY <1>0, <2>1 DEF Construct, Locate, Core, Constructing
  <2>2. CASE CacheTest \/ CacheSetting \/ SendSetting
    BY <2>2 DEF CacheTest, CacheSetting, SendSetting
  <2>3. CASE DeleteDisconnects \/ DeleteDrop \/ DeleteQuit \/ Join
    BY <2>3 DEF DeleteDisconnects, DeleteDrop, DeleteQuit, Join
  <2>4. QED
    BY <1>3, <2>1, <2>2, <2>3 DEF AppReturns
<1>4. CASE Unregister \/ Delete
  BY <1>4 DEF Unregister, Delete
<1>5. CASE \E k \in Settings : \E v \in Values : CallSet(k, v)
  BY <1>5 DEF CallSet
<1>6. QED
  BY <1>1, <1>2, <1>3, <1>4, <1>5 DEF ThreadStep, WorkStep

\* A step either changes the connection and not the policy, or installs the
\* handlers, or leaves the connection alone.
LEMMA StepsAndPolicy ==
  ASSUME Inv, Next
  PROVE  \/ Install
         \/ UNCHANGED policy /\ (\/ (WorkStep /\ UNCHANGED <<host, infos>>)
                                 \/ (Forgotten /\ Deleting /\ stateEvents' = <<>>
                                       /\ UNCHANGED <<host, infos>>)
                                 \/ (EngineComesUp /\ UNCHANGED <<host, infos>>)
                                 \/ Crash \/ UNCHANGED connectionVars)
<1> USE DEF sessionVars, quietVars
<1>1. CASE StartupSteps
  BY <1>1 DEF StartupSteps, ThreadStep, WorkStep
<1>2. CASE DispatcherSteps
  <2>1. CASE TakeStateEvent
    BY <2>1, TakenWhenDeleted DEF TakeStateEvent
  <2>2. QED
    BY <1>2, <2>1 DEF DispatcherSteps, UsesDeleted, EventHandler, HandleStateEvent, TakeSessionEvent,
                      HandleSessionEvent, ThreadStep, WorkStep
<1>3. CASE AppSteps
  BY <1>3 DEF AppSteps, UsesDeleted, Forget, StoreSession, EraseSession, StoreAnswer, CleanUpSession,
              ThreadStep, WorkStep
<1>4. CASE AppCalls
  BY <1>4 DEF AppCalls, CreateSession, AskEnabled, DestroySession, AskActive, RequestResource,
              ThreadStep, WorkStep
<1>5. CASE (EngineComesUp /\ UNCHANGED sessionVars) \/ Crash \/ EngineMoves
  BY <1>5 DEF EngineMoves, Crash
<1>6. QED
  BY <1>1, <1>2, <1>3, <1>4, <1>5 DEF Next

\* Every step keeps it.
LEMMA AttachedStep ==
  ASSUME Inv, Attached, Next
  PROVE  Attached'
<1> USE DEF Attached, Here
<1>0. /\ ConnectionInv /\ ConnectionTypeOK /\ scene' = scene
      /\ engine.start \in Nat /\ engine.listening \in Nat
  BY DEF Inv, ConnectionInv, ConnectionTypeOK, Next
<1>1. CASE Install
  <2>1. /\ UNCHANGED <<watched, manager, connected, app, host>> /\ startup = "install"
        /\ engine' = Installed /\ policy' = IF Answers THEN scene.policy ELSE policy
    BY <1>1 DEF Install, InstallHandlers, StartupGoto, flags, appVars
  <2>2. CASE Answers
    <3>1. /\ engine'.start = engine.start /\ engine'.state = engine.state
          /\ engine'.listening = engine.listening + 1
      BY <1>0, <2>1, <2>2 DEF Installed, ConnectionTypeOK
    <3>2. QED
      BY <1>0, <2>1, <2>2, <3>1 DEF Deleting
  <2>3. CASE ~Answers
    <3>1. ~Here
      <4>1. SUFFICES ASSUME Here PROVE FALSE
        OBVIOUS
      <4>2. watched = manager
        BY <1>0, <4>1 DEF ConnectionInv, Core, OneCrashAhead
      <4>3. QED
        BY <2>3, <4>1, <4>2 DEF Answers
    <3>2. QED
      BY <1>0, <2>1, <2>3, <3>1 DEF Installed, Deleting
  <2>4. QED
    BY <2>2, <2>3
<1>2. CASE WorkStep /\ UNCHANGED <<host, infos>> /\ UNCHANGED policy
  <2>1. /\ engine'.start = engine.start /\ engine'.state = engine.state
        /\ engine'.listening \in Nat /\ engine'.listening >= engine.listening
    <3>1. engine'.listening \in Nat
      BY <1>0, <1>2, StartupTypes, DispatcherTypes, AppTypes DEF WorkStep, ConnectionTypeOK
    <3>2. QED
      BY <1>0, <1>2, <3>1, ThreadsLeaveEngine DEF ThreadStep
  <2>2. watched' # 0 => watched' = engine'.start /\ engine'.state = "ready"
    <3>1. watched' \in {watched, 0} \/ (watched' = engine.start /\ engine.state = "ready")
      BY <1>2 DEF WorkStep, Startup, Loop, Find, Locate, SetConnected, TestCache, SendCached, FreeCached,
                  EraseCached, Watch, FallAsleep, Probe, Dispatcher, CrashCallback, CrashDisconnects, MarkCrash,
                  DropManager, AppReturns, Construct, CacheTest, CacheSetting, SendSetting,
                  DeleteDisconnects, DeleteDrop, DeleteQuit, Join, Unregister, Delete, CallSet
    <3>2. QED
      BY <2>1, <3>1
  <2>3. engine'.listening # 0 => policy' = scene'.policy
    <3>1. engine'.listening = engine.listening
      BY <1>0, <1>2 DEF WorkStep, Startup, Loop, Find, SetConnected, TestCache, SendCached,
                  Flushed, Applied, ConnectionTypeOK, FreeCached,
                  EraseCached, Watch, FallAsleep, Probe, Dispatcher, CrashCallback, CrashDisconnects, MarkCrash,
                  DropManager, AppReturns, Construct, CacheTest, CacheSetting, SendSetting,
                  DeleteDisconnects, DeleteDrop, DeleteQuit, Join, Unregister, Delete, CallSet
    <3>2. QED
      BY <1>0, <1>2, <3>1
  <2>4. ASSUME ~Deleting'
        PROVE  /\ watched' # 0 /\ (connected' \/ startup' = "setConnected") => engine'.listening # 0
               /\ host'.info # 0 => watched' # 0
    <3>1. /\ \/ watched' = watched
             \/ /\ watched' = engine.start /\ engine.state = "ready"
                /\ ~connected' /\ startup' # "setConnected"
          /\ startup' # "setConnected" \/ startup = "setConnected"
          /\ connected' => connected \/ startup = "setConnected"
      BY <1>0, <1>2, <2>4, ThreadsAttached
    <3>2. ~Deleting /\ Core
      BY <1>0, <1>2, <2>4, DeletingStays DEF WorkStep, ConnectionStep, ConnectionInv
    <3>3. QED
      BY <1>0, <1>2, <2>1, <3>1, <3>2 DEF Core, WatchedIsUp
  <2>5. QED
    BY <2>2, <2>3, <2>4
<1>3. CASE (EngineComesUp \/ UNCHANGED connectionVars) /\ UNCHANGED <<host, policy>>
  <2>1. CASE EngineComesUp
    <3>1. /\ engine'.listening = engine.listening /\ engine.state # "ready"
          /\ UNCHANGED <<watched, connected, startup, app>>
      BY <1>0, <2>1 DEF EngineComesUp, EngineStart, EngineReady, ClientUnchanged, flags, appVars,
                        ConnectionTypeOK
    <3>2. QED
      BY <1>0, <1>3, <3>1 DEF Deleting
  <2>2. CASE UNCHANGED connectionVars
    BY <1>0, <1>3, <2>2 DEF connectionVars, flags, appVars, Deleting
  <2>3. QED
    BY <1>3, <2>1, <2>2
<1>4. CASE Crash
  <2>1. /\ engine'.listening = 0 /\ host'.info = 0
        /\ watched' = IF watched = engine.start THEN 0 ELSE watched
    BY <1>0, <1>4 DEF Crash, EngineCrash, NewHost, ConnectionTypeOK
  <2>2. QED
    BY <1>0, <2>1
<1>5. CASE UNCHANGED connectionVars /\ UNCHANGED policy
  <2>1. ~Deleting /\ host'.info # 0 => watched # 0
    <3>1. CASE CreateSession
      <4>1. CASE Answers
        <5>1. Reachable /\ engine.start # 0
          BY <1>0, <3>1, <4>1, AnswersReach
             DEF CreateSession, Calls, Ready, Answers, ConnectionInv, Core, WatchedIsUp, Deleting,
                 AtApi
        <5>2. QED
          BY <5>1 DEF Reachable
      <4>2. CASE ~Answers
        BY <3>1, <4>2 DEF CreateSession
      <4>3. QED
        BY <4>1, <4>2
    <3>2. CASE host'.info \in {0, host.info}
      BY <3>2
    <3>3. host'.info \in {0, host.info} \/ CreateSession
      <4>1. host \in HostRecords
        BY DEF Inv, SessionInv, SessionTypes
      <4>2. ASSUME NEW id \in Ids, AskToDestroy(id) PROVE host'.info \in {0, host.info}
        BY <4>1, <4>2 DEF AskToDestroy, Destroyed, HostRecords
      <4>3. ASSUME NEW wanted \in BOOLEAN, Want(wanted) PROVE host'.info = host.info
        BY <4>1, <4>3 DEF Want, HostRecords
      <4>4. CASE StartupSteps \/ DispatcherSteps \/ (EngineComesUp /\ UNCHANGED sessionVars) \/ Crash
        <5>1. CASE Crash
          BY <5>1 DEF Crash, NewHost
        <5>2. host' = host \/ Crash
          BY <4>4 DEF StartupSteps, Install, DispatcherSteps, UsesDeleted, EventHandler,
                      TakeStateEvent, HandleStateEvent, TakeSessionEvent, HandleSessionEvent, sessionVars, quietVars
        <5>3. QED
          BY <5>1, <5>2
      <4>5. CASE AppSteps
        BY <4>2, <4>5 DEF AppSteps, UsesDeleted, Forget, StoreSession, EraseSession, StoreAnswer, CleanUpSession,
                    sessionVars, quietVars
      <4>6. CASE AppCalls
        BY <4>2, <4>3, <4>6 DEF AppCalls, AskEnabled, DestroySession, AskActive, RequestResource,
                                sessionVars, quietVars
      <4>7. CASE EngineMoves
        BY <4>1, <4>3, <4>7 DEF EngineMoves, Toggle, OtherSession, HostRecords
      <4>8. QED
        BY <4>4, <4>5, <4>6, <4>7 DEF Next
    <3>4. QED
      BY <3>1, <3>2, <3>3
  <2>2. QED
    BY <1>0, <1>5, <2>1 DEF connectionVars, flags, appVars, Deleting
<1>6. CASE Forgotten /\ Deleting /\ UNCHANGED <<host, infos>> /\ UNCHANGED policy
  BY <1>0, <1>6 DEF Forgotten, Deleting, appVars, flags, ConnectionTypeOK
<1>7. QED
  BY <1>1, <1>2, <1>3, <1>4, <1>5, <1>6, StepsAndPolicy

-----------------------------------------------------------------------------
(* What the client knows of its session: the objects.                      *)

\* The sessions' steps one by one; the others leave the sessions alone.
LEMMA SessionSteps ==
  ASSUME Next
  PROVE  \/ UNCHANGED quietVars \/ Install \/ Forget
         \/ TakeStateEvent \/ HandleStateEvent
         \/ (\E n \in Infos : TakeSessionEvent(n)) \/ HandleSessionEvent
         \/ StoreSession \/ EraseSession \/ StoreAnswer
         \/ (\E i \in Ids : DestroySession(i) \/ CleanUpSession(i))
         \/ CreateSession \/ AskEnabled \/ (\E i \in Ids : AskActive(i))
         \/ (\E wanted \in BOOLEAN : RequestResource(wanted)) \/ EngineMoves \/ Crash
BY DEF Next, StartupSteps, DispatcherSteps, EventHandler, AppSteps, AppCalls, UsesDeleted,
       sessionVars, quietVars

\* The object belongs to a session that this start of the engine created.
Own(n) == infos[n].start = engine.start

\* The objects that were ever created.
Existing == {n \in Infos : infos[n].life # "none"}

\* A session of this start is one of an engine that is watched.
Current ==
  \A n \in Infos :
    /\ infos[n].start <= engine.start
    /\ Own(n) /\ engine.state # "down" => Deleting \/ (watched # 0 /\ engine.listening # 0)

\* Objects are created one after the other.
Ordered == Existing = 1..Made

\* The map, the dispatcher and the app's call name objects that exist.
Named ==
  /\ \A i \in Ids : sessionMap[i] # 0 => sessionMap[i] \in Existing
  /\ handling.about # Client => handling.about \in Existing
  /\ call.op \in {"create", "erase", "active"} => call.info \in Existing

Objects == Current /\ Ordered /\ Named

\* The same objects exist, each of the start it was of.
SameObjects ==
  \A n \in Infos : infos'[n].start = infos[n].start
                   /\ (infos'[n].life = "none" <=> infos[n].life = "none")

\* Telling events changes nothing else.
LEMMA ToldOnly ==
  ASSUME NEW table, Sound(table), NEW n \in Infos \cup {0}, NEW evs \in Seq(Events)
  PROVE  \A m \in Infos :
           /\ Announce(n, evs, table)[m].life = table[m].life
           /\ Announce(n, evs, table)[m].start = table[m].start
           /\ Announce(n, evs, table)[m].wrapper = table[m].wrapper
           /\ Announce(n, evs, table)[m].got = table[m].got
           /\ Announce(n, evs, table)[m].overtaken = table[m].overtaken
           /\ Announce(n, evs, table)[m].events =
                IF m = n THEN table[m].events \o evs ELSE table[m].events
<1>1. CASE n = 0
  BY <1>1 DEF Announce, Infos
<1>2. CASE n # 0
  <2>1. table[n] \in InfoRecords /\ table \in [Infos -> InfoRecords] /\ n \in Infos
    BY <1>2 DEF Sound
  <2> DEFINE new == [table[n] EXCEPT !.events = @ \o evs]
  <2>2. /\ new.life = table[n].life /\ new.start = table[n].start /\ new.got = table[n].got
        /\ new.wrapper = table[n].wrapper /\ new.overtaken = table[n].overtaken
        /\ new.events = table[n].events \o evs
    BY <2>1 DEF InfoRecords
  <2>3. Announce(n, evs, table) = [table EXCEPT ![n] = new]
    BY <1>2 DEF Announce
  <2> HIDE DEF new
  <2>4. QED
    BY <2>1, <2>2, <2>3
<1>3. QED
  BY <1>1, <1>2

\* The deletion of an object changes nothing of the others.
LEMMA DeletedOnly ==
  ASSUME NEW table, Sound(table), NEW n
  PROVE  \A m \in Infos :
           IF m = n THEN /\ Deleted(n, table)[m].life = "deleted"
                         /\ Deleted(n, table)[m].start = table[m].start
                         /\ Deleted(n, table)[m].events = table[m].events
                    ELSE Deleted(n, table)[m] = table[m]
<1>1. CASE n \in Infos
  <2> DEFINE new == [table[n] EXCEPT !.life = "deleted", !.wrapper = AfterClear(@)]
  <2>1. table[n] \in InfoRecords /\ table \in [Infos -> InfoRecords]
    BY <1>1 DEF Sound
  <2>2. /\ new.life = "deleted" /\ new.start = table[n].start
        /\ new.events = table[n].events
    BY <2>1 DEF InfoRecords
  <2>3. Deleted(n, table) = [table EXCEPT ![n] = new]
    BY <1>1 DEF Deleted, Sound
  <2> HIDE DEF new
  <2>4. QED
    BY <1>1, <2>1, <2>2, <2>3
<1>2. CASE n \notin Infos
  BY <1>2 DEF Deleted, Sound
<1>3. QED
  BY <1>1, <1>2

\* An entry of the table is changed.
LEMMA ChangedOnly ==
  ASSUME NEW table, Sound(table), NEW n \in Infos, NEW new
  PROVE  \A m \in Infos : [table EXCEPT ![n] = new][m] = IF m = n THEN new ELSE table[m]
BY DEF Sound

-----------------------------------------------------------------------------
(* What the steps do, field by field.                                      *)

\* Only these fields of an object matter for which objects there are.
SameObject(m) ==
  /\ infos'[m].life = infos[m].life /\ infos'[m].start = infos[m].start
  /\ infos'[m].wrapper = infos[m].wrapper

\* The engine is moved: by others, or by a request for the resource.
LEMMA EngineTold ==
  ASSUME Inv, EngineMoves \/ \E wanted \in BOOLEAN : RequestResource(wanted)
  PROVE  /\ UNCHANGED <<connectionVars, policy, enabled, sessionMap, wrapper, handling, call,
                        overtaken>>
         /\ host'.ours = host.ours /\ host'.info = host.info
         /\ host'.lastId \in Nat /\ host'.lastId >= host.lastId
         /\ \A m \in Infos :
              /\ SameObject(m)
              /\ infos'[m].got = infos[m].got /\ infos'[m].overtaken = infos[m].overtaken
              /\ infos'[m].events = IF m = host.info THEN infos[m].events \o Announced(host, host')
                                                     ELSE infos[m].events
         /\ \/ stateEvents' = stateEvents /\ host'.enabled = host.enabled
            \/ stateEvents' = IF engine.listening > 0 THEN Append(stateEvents, host'.enabled)
                                                      ELSE stateEvents
<1> USE DEF SameObject
<1>0. /\ host \in HostRecords /\ Sound(infos) /\ host.info \in Infos \cup {0}
      /\ MaxIds \in Nat
  BY SceneTypes DEF Inv, SessionInv, SessionTypes, HostRecords
<1>1. UNCHANGED <<connectionVars, policy, enabled, sessionMap, wrapper, handling, call, overtaken>>
  BY DEF EngineMoves, RequestResource, callVars
<1>2. ASSUME infos' = Announce(host.info, Announced(host, host'), infos)
      PROVE  \A m \in Infos :
              /\ SameObject(m)
              /\ infos'[m].got = infos[m].got /\ infos'[m].overtaken = infos[m].overtaken
              /\ infos'[m].events = IF m = host.info THEN infos[m].events \o Announced(host, host')
                                                     ELSE infos[m].events
  BY <1>0, <1>2, ToldOnly, AnnouncedType
<1>3. CASE Toggle
  <2>1. /\ host' = [host EXCEPT !.enabled = ~@]
        /\ infos' = Announce(host.info, Announced(host, host'), infos)
        /\ stateEvents' = IF engine.listening > 0 THEN Append(stateEvents, host'.enabled)
                                                  ELSE stateEvents
    BY <1>3 DEF Toggle
  <2>2. /\ host'.ours = host.ours /\ host'.info = host.info /\ host'.lastId = host.lastId
        /\ host'.lastId \in Nat
    BY <1>0, <2>1 DEF HostRecords
  <2>3. QED
    BY <1>1, <1>2, <2>1, <2>2
<1>4. ASSUME NEW wanted \in BOOLEAN, Want(wanted)
      PROVE  /\ host'.ours = host.ours /\ host'.info = host.info /\ host'.lastId = host.lastId
             /\ host'.lastId \in Nat /\ host'.enabled = host.enabled
             /\ infos' = Announce(host.info, Announced(host, host'), infos)
             /\ stateEvents' = stateEvents
  <2>1. /\ host' = [host EXCEPT !.wanted = wanted]
        /\ infos' = Announce(host.info, Announced(host, host'), infos)
        /\ stateEvents' = stateEvents
    BY <1>4 DEF Want
  <2>2. QED
    BY <1>0, <2>1 DEF HostRecords
<1>5. CASE OtherSession
  <2>1. UNCHANGED <<infos, stateEvents>>
    BY <1>5 DEF OtherSession
  <2>2. /\ host'.ours = host.ours /\ host'.info = host.info /\ host'.enabled = host.enabled
        /\ host'.wanted = host.wanted /\ host'.lastId = host.lastId + 1 /\ host.lastId \in Nat
    BY <1>0, <1>5 DEF OtherSession, HostRecords
  <2>3. Announced(host, host') = <<>>
    BY <2>2 DEF Announced, Active
  <2>4. \A m \in Infos : infos[m].events \o <<>> = infos[m].events
    <3>1. \A m \in Infos : infos[m].events \in Seq(Events)
      BY <1>0 DEF Sound, InfoRecords
    <3>2. QED
      BY <3>1
  <2>5. QED
    BY <1>1, <2>1, <2>2, <2>3, <2>4
<1>6. CASE \E wanted \in BOOLEAN : Want(wanted)
  BY <1>1, <1>2, <1>4, <1>6
<1>7. QED
  BY <1>3, <1>5, <1>6 DEF EngineMoves, RequestResource

\* The engine is asked to destroy a session.
LEMMA DestroyTold ==
  ASSUME Inv, NEW id \in Ids, DestroySession(id) \/ CleanUpSession(id)
  PROVE  /\ UNCHANGED <<connectionVars, policy, enabled, sessionMap, wrapper, stateEvents, handling,
                        overtaken>>
         /\ call = NoCall /\ sessionMap[id] # 0
         /\ \/ call' = call
            \/ call'.op = "erase" /\ call'.id = id /\ call'.info = sessionMap[id]
         /\ host'.enabled = host.enabled /\ host'.lastId = host.lastId
         /\ \/ host'.ours = 0 /\ host'.info = 0
            \/ /\ host'.ours = host.ours /\ host'.info = host.info /\ host'.wanted = host.wanted
               /\ infos' = infos /\ (call' # call => Deleting \/ id # host.ours)
         /\ \A m \in Infos :
              /\ SameObject(m)
              /\ infos'[m].got = infos[m].got /\ infos'[m].overtaken = infos[m].overtaken
              /\ m # host.info => infos'[m].events = infos[m].events
<1> USE DEF SameObject
<1>0. /\ host \in HostRecords /\ Sound(infos) /\ host.info \in Infos \cup {0}
  BY DEF Inv, SessionInv, SessionTypes, HostRecords
<1>1. /\ UNCHANGED <<connectionVars, policy, enabled, sessionMap, wrapper, stateEvents, handling,
                     overtaken>>
      /\ call = NoCall /\ AskToDestroy(id) /\ sessionMap[id] # 0
      /\ \/ call' = call
         \/ call'.op = "erase" /\ call'.id = id /\ call'.info = sessionMap[id]
  BY DEF DestroySession, CleanUpSession, Calls, Ready, NoCall, AskToDestroy
<1>2. call' # call => Deleting \/ (Answers /\ id \in {host.ours} \cup host.others)
  BY DEF DestroySession, CleanUpSession, Deleting
<1>3. CASE Answers /\ id = host.ours
  <2> DEFINE h == [host EXCEPT !.ours = 0, !.info = 0, !.wanted = FALSE]
  <2>1. Destroyed(id)
    BY <1>1, <1>3 DEF AskToDestroy
  <2>2. PICK first \in {<<>>, <<"speech">>} :
          host' = h /\ infos' = Announce(host.info, first \o Announced(host, h), infos)
    BY <1>3, <2>1 DEF Destroyed
  <2>3. /\ h.enabled = host.enabled /\ h.lastId = host.lastId /\ h.ours = 0 /\ h.info = 0
    BY <1>0 DEF HostRecords
  <2>4. first \o Announced(host, h) \in Seq(Events)
    <3>1. <<>> \in Seq(Events) /\ <<"speech">> \in Seq(Events)
      BY DEF Events
    <3>2. first \in Seq(Events) /\ Announced(host, h) \in Seq(Events)
      BY <3>1, AnnouncedType
    <3> HIDE DEF h
    <3>3. QED
      BY <3>2
  <2> DEFINE told == first \o Announced(host, h)
  <2> HIDE DEF h
  <2>5. infos' = Announce(host.info, told, infos) /\ told \in Seq(Events)
    BY <2>2, <2>4
  <2> HIDE DEF told
  <2>6. \A m \in Infos :
          /\ SameObject(m)
          /\ infos'[m].got = infos[m].got /\ infos'[m].overtaken = infos[m].overtaken
          /\ m # host.info => infos'[m].events = infos[m].events
    BY <1>0, <2>5, ToldOnly
  <2>7. QED
    BY <1>1, <2>2, <2>3, <2>6
<1>4. CASE ~(Answers /\ id = host.ours)
  <2>1. infos' = infos /\ (host' = host \/ host' = [host EXCEPT !.others = @ \ {id}])
    BY <1>1, <1>4 DEF AskToDestroy, Destroyed
  <2>2. /\ host'.enabled = host.enabled /\ host'.lastId = host.lastId /\ host'.ours = host.ours
        /\ host'.info = host.info /\ host'.wanted = host.wanted
    BY <1>0, <2>1 DEF HostRecords
  <2>3. QED
    BY <1>1, <1>2, <1>4, <2>1, <2>2
<1>5. QED
  BY <1>3, <1>4

\* An event of a session is taken.
LEMMA SessionTaken ==
  ASSUME Inv, NEW n \in Infos, TakeSessionEvent(n)
  PROVE  /\ UNCHANGED <<connectionVars, host, policy, enabled, sessionMap, wrapper, stateEvents,
                        call, overtaken>>
         /\ handling = NoEvent /\ infos[n].events # <<>>
         /\ IF infos[n].wrapper = "live"
              THEN /\ handling'.about = n /\ handling'.event = Head(infos[n].events)
                   /\ infos'[n].wrapper = "live"
              ELSE handling' = handling
         /\ infos'[n].events = Tail(infos[n].events)
         /\ \A m \in Infos :
              /\ infos'[m].life = infos[m].life /\ infos'[m].start = infos[m].start
              /\ infos'[m].got = infos[m].got /\ infos'[m].overtaken = infos[m].overtaken
              /\ m # n => infos'[m] = infos[m]
<1> DEFINE refused == IF infos[n].wrapper = "cleared" THEN Head(infos[n].events)
                                                      ELSE infos[n].refused
           new == [infos[n] EXCEPT !.events = Tail(@), !.wrapper = AfterRefusal(@),
                                   !.refused = refused]
           event == [about |-> n, event |-> Head(infos[n].events)]
<1>1. /\ UNCHANGED <<connectionVars, host, policy, enabled, sessionMap, wrapper, stateEvents,
                     call, overtaken>>
      /\ handling = NoEvent /\ infos[n].events # <<>>
      /\ \/ Dispatch(infos[n].wrapper, event)
         \/ infos[n].wrapper = "deleted" /\ UNCHANGED handling
      /\ infos' = [infos EXCEPT ![n] = new]
  <2>1. infos' = [infos EXCEPT ![n].events = Tail(@), ![n].wrapper = AfterRefusal(@),
                    ![n].refused = IF infos[n].wrapper = "cleared" THEN Head(infos[n].events) ELSE @]
    BY DEF TakeSessionEvent
  <2>2. infos' = [infos EXCEPT ![n] = new]
    BY <2>1 DEF Inv, SessionInv, Sound
  <2>3. QED
    BY <2>2 DEF TakeSessionEvent, DispatcherFree, callVars
<1>2. Sound(infos) /\ infos[n] \in InfoRecords
  BY DEF Inv, SessionInv, Sound
<1> HIDE DEF refused
<1>3. /\ new.life = infos[n].life /\ new.start = infos[n].start /\ new.got = infos[n].got
      /\ new.overtaken = infos[n].overtaken /\ new.events = Tail(infos[n].events)
      /\ infos[n].wrapper = "live" => new.wrapper = "live"
  BY <1>2 DEF InfoRecords, AfterRefusal
<1>4. IF infos[n].wrapper = "live"
        THEN handling'.about = n /\ handling'.event = Head(infos[n].events)
        ELSE handling' = handling
  <2>1. infos[n].wrapper \in {"live", "cleared", "deleted"}
    BY <1>2 DEF InfoRecords
  <2>2. event.about = n /\ event.event = Head(infos[n].events)
    OBVIOUS
  <2> HIDE DEF event
  <2>3. CASE infos[n].wrapper = "live"
    BY <1>1, <2>2, <2>3 DEF Dispatch
  <2>4. CASE infos[n].wrapper = "cleared"
    BY <1>1, <2>4 DEF Dispatch
  <2>5. CASE infos[n].wrapper = "deleted"
    BY <1>1, <2>5 DEF Dispatch
  <2>6. QED
    BY <2>1, <2>3, <2>4, <2>5
<1> HIDE DEF new, event
<1>5. infos'[n] = new /\ \A m \in Infos : m # n => infos'[m] = infos[m]
  <2>1. infos \in [Infos -> InfoRecords] /\ infos' = [infos EXCEPT ![n] = new]
    BY <1>1, <1>2 DEF Sound
  <2>2. QED
    BY ONLY <2>1, n \in Infos
<1>6. \A m \in Infos :
        /\ infos'[m].life = infos[m].life /\ infos'[m].start = infos[m].start
        /\ infos'[m].got = infos[m].got /\ infos'[m].overtaken = infos[m].overtaken
  BY <1>3, <1>5
<1>7. QED
  BY <1>1, <1>3, <1>4, <1>5, <1>6

\* An event of a session is handled.
LEMMA SessionHandled ==
  ASSUME Inv, HandleSessionEvent
  PROVE  /\ UNCHANGED <<connectionVars, host, policy, enabled, sessionMap, wrapper, stateEvents,
                        overtaken>>
         /\ handling' = NoEvent /\ handling.about \in Infos
         /\ call'.op = call.op /\ call'.info = call.info /\ call'.id = call.id
         /\ call'.answer = call.answer
         /\ call.op # "active" \/ call.info # handling.about => call' = call
         /\ \A m \in Infos :
              /\ SameObject(m) /\ infos'[m].events = infos[m].events
              /\ m # handling.about => infos'[m] = infos[m]
         /\ infos[handling.about].life = "live" /\ handling.event # "speech" =>
              /\ infos'[handling.about].got <=> handling.event = "acquired"
              /\ call.op = "active" /\ call.info = handling.about
                   => call'.missed \/ (call.answer <=> handling.event = "acquired")
<1> USE DEF SameObject
<1> DEFINE n   == handling.about
           got == handling.event = "acquired"
           missed == call.answer # got
           new == [infos[n] EXCEPT !.got = got, !.overtaken = FALSE]
           late == [call EXCEPT !.missed = missed]
<1>1. /\ UNCHANGED <<connectionVars, host, policy, enabled, sessionMap, wrapper, stateEvents,
                     overtaken>>
      /\ handling' = NoEvent /\ n # Client
  BY DEF HandleSessionEvent
<1>2. /\ n \in Infos /\ Sound(infos) /\ call \in CallRecords
      /\ infos[n] \in InfoRecords /\ infos \in [Infos -> InfoRecords]
  <2>1. n \in Infos \cup {Client}
    BY DEF Inv, SessionInv, SessionTypes
  <2>2. QED
    BY <1>1, <2>1 DEF Inv, SessionInv, SessionTypes, Sound
<1>3. \/ infos' = infos /\ call' = call
           /\ (infos[n].life = "live" => handling.event = "speech")
      \/ /\ infos' = [infos EXCEPT ![n] = new]
         /\ call' = IF call.op = "active" /\ call.info = n THEN late ELSE call
  <2>1. CASE infos[n].life = "deleted"
    BY <2>1 DEF HandleSessionEvent
  <2>2. CASE infos[n].life = "live" /\ handling.event = "speech"
    BY <2>2 DEF HandleSessionEvent
  <2>3. CASE infos[n].life # "deleted" /\ ~(infos[n].life = "live" /\ handling.event = "speech")
    BY <1>2, <2>3 DEF HandleSessionEvent
  <2>4. QED
    BY <2>1, <2>2, <2>3
<1>4. /\ new.life = infos[n].life /\ new.start = infos[n].start
      /\ new.wrapper = infos[n].wrapper /\ new.events = infos[n].events
  BY <1>2 DEF InfoRecords
<1>5. new.got <=> got
  BY <1>2 DEF InfoRecords
<1>6. /\ late.op = call.op /\ late.info = call.info /\ late.id = call.id
      /\ late.answer = call.answer
  BY <1>2 DEF CallRecords
<1>7. late.missed \/ (call.answer <=> got)
  <2>1. late.missed = missed
    BY <1>2 DEF CallRecords
  <2>2. QED
    BY <2>1, Zenon
<1> HIDE DEF n, got, missed, new, late
<1>8. CASE infos' = infos /\ call' = call /\ (infos[n].life = "live" => handling.event = "speech")
  BY <1>1, <1>2, <1>8 DEF n
<1>9. CASE /\ infos' = [infos EXCEPT ![n] = new]
           /\ call' = IF call.op = "active" /\ call.info = n THEN late ELSE call
  <2>1. infos'[n] = new /\ \A m \in Infos : m # n => infos'[m] = infos[m]
    BY <1>2, <1>9, ChangedOnly
  <2>2. \A m \in Infos : SameObject(m) /\ infos'[m].events = infos[m].events
    BY <1>2, <1>4, <2>1
  <2>3. /\ call'.op = call.op /\ call'.info = call.info /\ call'.id = call.id
        /\ call'.answer = call.answer
        /\ call.op # "active" \/ call.info # n => call' = call
    BY <1>6, <1>9
  <2>4. call.op = "active" /\ call.info = n => call'.missed \/ (call.answer <=> got)
    BY <1>7, <1>9
  <2>5. infos'[n].got <=> got
    BY <1>5, <2>1
  <2>6. QED
    BY <1>1, <1>2, <2>1, <2>2, <2>3, <2>4, <2>5 DEF n, got
<1>10. QED
  BY <1>3, <1>8, <1>9

\* The reply of createSession is stored.
LEMMA SessionStored ==
  ASSUME Inv, StoreSession
  PROVE  /\ UNCHANGED <<connectionVars, host, policy, wrapper, stateEvents, handling>>
         /\ call.op = "create" /\ call' = NoCall
         /\ enabled' = call.answer /\ overtaken' = call.missed
         /\ \A i \in Ids : sessionMap'[i] = IF i = call.id THEN call.info ELSE sessionMap[i]
         /\ \A m \in Infos :
              /\ SameObject(m) /\ infos'[m].events = infos[m].events
              /\ infos'[m].got = infos[m].got /\ infos'[m].overtaken = infos[m].overtaken
<1> USE DEF SameObject
<1> DEFINE n   == call.info
           new == [infos[n] EXCEPT !.id = call.id]
<1>1. /\ UNCHANGED <<connectionVars, host, policy, wrapper, stateEvents, handling>>
      /\ call.op = "create" /\ call' = NoCall
      /\ enabled' = call.answer /\ overtaken' = call.missed
      /\ sessionMap' = [sessionMap EXCEPT ![call.id] = call.info]
      /\ infos' = [infos EXCEPT ![n] = new]
  BY DEF StoreSession
<1>2. Sound(infos) /\ sessionMap \in [Ids -> Infos \cup {0}]
  BY DEF Inv, SessionInv, SessionTypes
<1>3. \A i \in Ids : sessionMap'[i] = IF i = call.id THEN call.info ELSE sessionMap[i]
  BY <1>1, <1>2
<1>4. CASE n \in Infos
  <2>1. infos[n] \in InfoRecords
    BY <1>2, <1>4 DEF Sound
  <2>2. /\ new.life = infos[n].life /\ new.start = infos[n].start /\ new.got = infos[n].got
        /\ new.overtaken = infos[n].overtaken /\ new.events = infos[n].events
        /\ new.wrapper = infos[n].wrapper
    BY <2>1 DEF InfoRecords
  <2> HIDE DEF new, n
  <2>3. QED
    BY <1>1, <1>2, <1>3, <1>4, <2>2, ChangedOnly
<1>5. CASE n \notin Infos
  <2>1. infos' = infos
    BY <1>1, <1>2, <1>5 DEF Sound
  <2>2. QED
    BY <1>1, <1>3, <2>1
<1>6. QED
  BY <1>4, <1>5

\* The answer to isTTSEnabled or isActiveSession is stored.
LEMMA AnswerStored ==
  ASSUME Inv, StoreAnswer
  PROVE  /\ UNCHANGED <<connectionVars, host, policy, sessionMap, wrapper, stateEvents, handling>>
         /\ call.op \in {"enabled", "active"} /\ call' = NoCall
         /\ call.op = "enabled" => enabled' = call.answer /\ overtaken' = call.missed
         /\ call.op = "active" => UNCHANGED <<enabled, overtaken>>
         /\ \A m \in Infos :
              /\ SameObject(m) /\ infos'[m].events = infos[m].events
              /\ IF call.op = "active" /\ m = call.info
                   THEN (infos'[m].got <=> call.answer) /\ (infos'[m].overtaken <=> call.missed)
                   ELSE infos'[m] = infos[m]
<1> USE DEF SameObject
<1> DEFINE n   == call.info
           new == [infos[n] EXCEPT !.got = call.answer, !.overtaken = call.missed]
<1>1. /\ UNCHANGED <<connectionVars, host, policy, sessionMap, wrapper, stateEvents, handling>>
      /\ call.op \in {"enabled", "active"} /\ call' = NoCall
      /\ call.op = "enabled" => /\ enabled' = call.answer /\ overtaken' = call.missed
                                /\ infos' = infos
      /\ call.op = "active" => /\ infos' = [infos EXCEPT ![n] = new]
                               /\ UNCHANGED <<enabled, overtaken>>
  BY DEF StoreAnswer, Inv, SessionInv, Sound
<1>2. Sound(infos) /\ n \in Infos \cup {0}
  BY DEF Inv, SessionInv, SessionTypes, CallRecords
<1>3. CASE call.op = "active" /\ n \in Infos
  <2>1. infos[n] \in InfoRecords
    BY <1>2, <1>3 DEF Sound
  <2>2. /\ new.life = infos[n].life /\ new.start = infos[n].start
        /\ new.events = infos[n].events /\ new.wrapper = infos[n].wrapper
    BY <2>1 DEF InfoRecords
  <2>3. (new.got <=> call.answer) /\ (new.overtaken <=> call.missed)
    BY <2>1 DEF InfoRecords
  <2> HIDE DEF new, n
  <2>4. \A m \in Infos : infos'[m] = IF m = n THEN new ELSE infos[m]
    BY <1>1, <1>2, <1>3, ChangedOnly
  <2>5. \A m \in Infos : SameObject(m) /\ infos'[m].events = infos[m].events
    BY <2>2, <2>4
  <2>6. QED
    BY <1>1, <1>3, <2>3, <2>4, <2>5 DEF n
<1>4. CASE call.op = "enabled"
  BY <1>1, <1>4
<1>5. CASE n \notin Infos
  <2>1. infos' = infos
    BY <1>1, <1>2, <1>5 DEF Sound
  <2>2. QED
    BY <1>1, <1>5, <2>1
<1>6. QED
  BY <1>1, <1>3, <1>4, <1>5

\* A session is erased.
LEMMA SessionErased ==
  ASSUME Inv, EraseSession
  PROVE  /\ UNCHANGED <<connectionVars, host, policy, enabled, wrapper, stateEvents, handling,
                        overtaken>>
         /\ call.op = "erase" /\ call' = NoCall
         /\ \A i \in Ids : sessionMap'[i] = IF i = call.id THEN 0 ELSE sessionMap[i]
         /\ \A m \in Infos :
              /\ infos'[m].start = infos[m].start /\ infos'[m].events = infos[m].events
              /\ IF m = call.info THEN infos'[m].life = "deleted" ELSE infos'[m] = infos[m]
<1>1. /\ UNCHANGED <<connectionVars, host, policy, enabled, wrapper, stateEvents, handling,
                     overtaken>>
      /\ call.op = "erase" /\ call' = NoCall
      /\ sessionMap' = [sessionMap EXCEPT ![call.id] = 0]
      /\ infos' = Deleted(call.info, infos)
  BY DEF EraseSession
<1>2. Sound(infos) /\ sessionMap \in [Ids -> Infos \cup {0}]
  BY DEF Inv, SessionInv, SessionTypes
<1>3. \A i \in Ids : sessionMap'[i] = IF i = call.id THEN 0 ELSE sessionMap[i]
  BY <1>1, <1>2
<1>4. QED
  BY <1>1, <1>2, <1>3, DeletedOnly

\* createSession got through to an engine that has no session of the app.
Granted ==
  /\ Answers /\ host.ours = 0
  /\ host'.ours = host.lastId + 1 /\ host'.lastId = host.lastId + 1 /\ host'.info = Made + 1
  /\ host'.enabled = host.enabled /\ host'.wanted = host.wanted

\* createSession: the reply comes back, or it is lost, or the call fails.
LEMMA SessionCreated ==
  ASSUME Inv, Ordered, CreateSession
  PROVE  /\ UNCHANGED <<connectionVars, policy, enabled, sessionMap, wrapper, stateEvents, handling,
                        overtaken>>
         /\ connected /\ app = AtApi /\ call = NoCall
         /\ Made + 1 \in Infos /\ Made + 1 \notin Existing
         /\ infos'[Made + 1].life # "none"
         /\ \A m \in Infos : m # Made + 1 => infos'[m] = infos[m]
         /\ \/ /\ Granted
               /\ call'.op = "create" /\ call'.info = Made + 1 /\ call'.id = host.lastId + 1
               /\ call'.answer = host.enabled
               /\ infos'[Made + 1].start = engine.start /\ infos'[Made + 1].life = "live"
               /\ infos'[Made + 1].wrapper = "live"
               /\ infos'[Made + 1].events = Announced(host, host')
               /\ infos'[Made + 1].got <=> policy # "RESERVATION"
            \/ Granted /\ call' = call /\ infos'[Made + 1].start = 0
            \/ UNCHANGED <<host, call>> /\ infos'[Made + 1].start = 0 /\ infos'[Made + 1].events = <<>>
<1> DEFINE n   == Made + 1
           id  == host.lastId + 1
           h   == [host EXCEPT !.ours = id, !.info = n, !.lastId = id]
           new == [infos EXCEPT ![n] = NewInfo]
           told == Announce(n, Announced(host, h), new)
<1>0. /\ UNCHANGED <<connectionVars, policy, enabled, sessionMap, wrapper, stateEvents, handling,
                     overtaken>>
      /\ connected /\ app = AtApi /\ call = NoCall /\ Made < MaxSessions
  BY DEF CreateSession, Calls, Ready
<1>1. /\ n \in Infos /\ n \notin Existing /\ Sound(infos) /\ host \in HostRecords
      /\ infos \in [Infos -> InfoRecords]
  <2>1. Made \in Nat /\ MaxSessions \in Nat
    BY MadeType, SceneTypes DEF Inv
  <2>2. QED
    BY <1>0, <2>1 DEF Infos, Ordered, Inv, SessionInv, SessionTypes, Sound
<1>2. /\ NewInfo.life = "live" /\ NewInfo.start = 0 /\ NewInfo.wrapper = "live"
      /\ NewInfo.events = <<>>
  BY DEF NewInfo, NoInfo
<1>3. NewInfo.got <=> policy # "RESERVATION"
  BY DEF NewInfo, NoInfo
<1>4. /\ Sound(new) /\ new[n] = NewInfo /\ \A m \in Infos : m # n => new[m] = infos[m]
  <2>1. Sound(new)
    BY <1>1, SceneTypes, CreatedSound DEF Inv
  <2>2. QED
    BY <1>1, <2>1
<1>5. CASE Answers /\ host.ours = 0
  <2>1. host' = h
        /\ \/ /\ call' = [NoCall EXCEPT !.op = "create", !.info = n, !.id = id, !.answer = host.enabled]
              /\ infos' = [told EXCEPT ![n].start = engine.start]
           \/ call' = call /\ infos' = Deleted(n, told)
    BY <1>5 DEF CreateSession
  <2>2. Granted
    BY <1>1, <1>5, <2>1 DEF Granted, HostRecords
  <2> HIDE DEF n, id, h, new
  <2>3. Sound(told)
    BY <1>1, <1>2, <1>4, AnnouncedType, AnnounceSound
  <2>4. /\ told[n].life = "live" /\ told[n].start = 0 /\ told[n].wrapper = "live"
        /\ told[n].got = NewInfo.got
        /\ told[n].events = Announced(host, h)
    <3>1. <<>> \o Announced(host, h) = Announced(host, h)
      BY AnnouncedType
    <3>2. /\ told[n].life = "live" /\ told[n].start = 0 /\ told[n].wrapper = "live"
          /\ told[n].got = new[n].got
          /\ told[n].events = new[n].events \o Announced(host, h)
      <4> DEFINE evs == Announced(host, h)
      <4>1. evs \in Seq(Events) /\ n \in Infos \cup {0}
        BY <1>1, AnnouncedType
      <4>2. told = Announce(n, evs, new)
        OBVIOUS
      <4> HIDE DEF evs, told
      <4>3. /\ told[n].life = new[n].life /\ told[n].start = new[n].start
            /\ told[n].wrapper = new[n].wrapper /\ told[n].got = new[n].got
            /\ told[n].events = new[n].events \o evs
        <5>1. Sound(new)
          BY <1>4
        <5>2. \A m \in Infos :
                /\ told[m].life = new[m].life /\ told[m].start = new[m].start
                /\ told[m].wrapper = new[m].wrapper /\ told[m].got = new[m].got
                /\ told[m].events = IF m = n THEN new[m].events \o evs ELSE new[m].events
          BY ONLY <4>1, <4>2, <5>1, ToldOnly
        <5>3. n \in Infos
          BY <1>1
        <5>4. QED
          BY ONLY <5>2, <5>3
      <4>4. QED
        BY <1>2, <1>4, <4>3 DEF evs
    <3>3. QED
      BY <1>2, <1>4, <3>1, <3>2
  <2>5. \A m \in Infos : m # n => told[m] = infos[m]
    <3>1. told = [new EXCEPT ![n].events = @ \o Announced(host, h)]
      BY <1>1 DEF Announce, Infos
    <3>2. QED
      BY <1>4, <3>1 DEF Sound
  <2> HIDE DEF told
  <2>6. CASE /\ call' = [NoCall EXCEPT !.op = "create", !.info = n, !.id = id, !.answer = host.enabled]
             /\ infos' = [told EXCEPT ![n].start = engine.start]
    <3> DEFINE entry == [told[n] EXCEPT !.start = engine.start]
    <3>1. told[n] \in InfoRecords
      BY <1>1, <2>3 DEF Sound
    <3>2. /\ entry.life = told[n].life /\ entry.start = engine.start
          /\ entry.wrapper = told[n].wrapper /\ entry.events = told[n].events
          /\ entry.got = told[n].got
      BY <3>1 DEF InfoRecords
    <3>3. infos' = [told EXCEPT ![n] = entry]
      BY <2>6
    <3> HIDE DEF entry
    <3>4. infos'[n] = entry /\ \A m \in Infos : m # n => infos'[m] = infos[m]
      BY <1>1, <2>3, <2>5, <3>3 DEF Sound
    <3>5. call'.op = "create" /\ call'.info = n /\ call'.id = id /\ call'.answer = host.enabled
      BY <2>6 DEF NoCall
    <3>6. infos'[n].got <=> policy # "RESERVATION"
      BY <1>3, <2>4, <3>2, <3>4
    <3>7. /\ infos'[n].start = engine.start /\ infos'[n].life = "live"
          /\ infos'[n].wrapper = "live" /\ infos'[n].events = Announced(host, host')
      BY <2>1, <2>4, <3>2, <3>4
    <3>8. QED
      BY <1>0, <1>1, <2>2, <3>4, <3>5, <3>6, <3>7 DEF n, id
  <2>7. CASE call' = call /\ infos' = Deleted(n, told)
    <3>1. /\ infos'[n].life = "deleted" /\ infos'[n].start = 0
          /\ \A m \in Infos : m # n => infos'[m] = infos[m]
      BY <1>1, <2>3, <2>4, <2>5, <2>7, DeletedOnly
    <3>2. QED
      BY <1>0, <1>1, <2>2, <2>7, <3>1 DEF n
  <2>8. QED
    BY <2>1, <2>6, <2>7
<1>6. CASE ~(Answers /\ host.ours = 0)
  <2>1. infos' = Deleted(n, new) /\ UNCHANGED <<host, call>>
    BY <1>6 DEF CreateSession
  <2> HIDE DEF n, new
  <2>2. /\ infos'[n].life = "deleted" /\ infos'[n].start = 0 /\ infos'[n].events = <<>>
        /\ \A m \in Infos : m # n => infos'[m] = infos[m]
    BY <1>1, <1>2, <1>4, <2>1, DeletedOnly
  <2>3. QED
    BY <1>0, <1>1, <2>1, <2>2 DEF n
<1>7. QED
  BY <1>5, <1>6
-----------------------------------------------------------------------------
(* The objects are kept.                                                   *)

\* The steps that neither the engine's session nor the objects take part in.
Apart ==
  \/ UNCHANGED quietVars \/ Install \/ Forget \/ TakeStateEvent \/ HandleStateEvent
  \/ AskEnabled \/ (\E i \in Ids : AskActive(i))

LEMMA ApartLeaves ==
  ASSUME Apart
  PROVE  UNCHANGED <<host, infos, sessionMap>>
BY DEF Apart, sessionVars, quietVars, Install, Forget, TakeStateEvent, HandleStateEvent, AskEnabled, AskActive

LEMMA CrashTold ==
  ASSUME Inv, Crash
  PROVE  /\ UNCHANGED <<policy, enabled, sessionMap, wrapper, handling, call, overtaken>>
         /\ host' = NewHost /\ stateEvents' = <<>>
         /\ engine'.state = "down" /\ engine'.start = engine.start /\ engine'.listening = 0
         /\ watched' = (IF watched = engine.start THEN 0 ELSE watched)
         /\ UNCHANGED <<manager, app>>
         /\ \A m \in Infos : SameObject(m) /\ infos'[m].events = <<>>
<1>1. \A m \in Infos : infos[m] \in InfoRecords
  BY DEF Inv, SessionInv, Sound
<1>2. infos' = [m \in Infos |-> [infos[m] EXCEPT !.events = <<>>]]
  BY DEF Crash
<1>3. \A m \in Infos : SameObject(m) /\ infos'[m].events = <<>>
  BY <1>1, <1>2 DEF SameObject, InfoRecords
<1>4. QED
  BY <1>3 DEF Crash, EngineCrash, ClientUnchanged, callVars, appVars, Inv, ConnectionInv,
              ConnectionTypeOK

\* Only createSession makes an object, and only the session that is created
\* knows its start.
LEMMA ObjectsStay ==
  ASSUME Inv, Named, Next
  PROVE  CreateSession \/ SameObjects
<1> USE DEF SameObjects, SameObject
<1>1. CASE Apart
  BY <1>1, ApartLeaves
<1>2. CASE EngineMoves \/ \E wanted \in BOOLEAN : RequestResource(wanted)
  BY <1>2, EngineTold
<1>3. ASSUME NEW id \in Ids, DestroySession(id) \/ CleanUpSession(id)
      PROVE  SameObjects
  BY <1>3, DestroyTold
<1>4. ASSUME NEW n \in Infos, TakeSessionEvent(n) PROVE SameObjects
  BY <1>4, SessionTaken
<1>5. CASE HandleSessionEvent
  BY <1>5, SessionHandled
<1>6. CASE StoreSession
  BY <1>6, SessionStored
<1>7. CASE StoreAnswer
  BY <1>7, AnswerStored
<1>8. CASE EraseSession
  BY <1>8, SessionErased DEF Named, Existing
<1>9. CASE Crash
  BY <1>9, CrashTold
<1>10. QED
  BY SessionSteps, <1>1, <1>2, <1>3, <1>4, <1>5, <1>6, <1>7, <1>8, <1>9 DEF Apart

\* A session of this start is one of an engine that is watched.
LEMMA CurrentStep ==
  ASSUME Inv, Attached, Ordered, Named, Current, Next
  PROVE  Current'
<1> USE DEF Own
<1>0. /\ ConnectionInv /\ ConnectionTypeOK /\ engine.start \in Nat /\ engine.listening \in Nat
      /\ infos \in [Infos -> InfoRecords]
  BY SceneTypes DEF Inv, ConnectionInv, ConnectionTypeOK, SessionInv, Sound
<1>1. CASE CreateSession
  <2>1. /\ UNCHANGED connectionVars /\ connected /\ app = AtApi
        /\ \A m \in Infos : m # Made + 1 => infos'[m] = infos[m]
        /\ infos'[Made + 1].start \in {0, engine.start}
        /\ infos'[Made + 1].start # 0 => Answers
    BY <1>1, SessionCreated DEF Granted
  <2>2. ~Deleting /\ engine' = engine /\ watched' = watched /\ Deleting' = Deleting
    BY <2>1 DEF Deleting, AtApi, connectionVars, appVars
  <2>3. engine.start = 0 => engine.state = "down"
    BY <1>0, <2>2 DEF ConnectionInv, Core, WatchedIsUp
  <2>4. Answers => watched # 0 /\ engine.listening # 0
    <3>1. SUFFICES ASSUME Answers PROVE watched # 0 /\ engine.listening # 0
      OBVIOUS
    <3>2. watched # 0
      BY <1>0, <2>1, <2>3, <3>1, AnswersReach DEF Reachable, Answers
    <3>3. QED
      BY <2>1, <2>2, <3>2 DEF Attached, Here
  <2>5. QED
    BY <1>0, <2>1, <2>2, <2>3, <2>4 DEF Current
<1>2. CASE SameObjects /\ UNCHANGED connectionVars
  BY <1>2 DEF Current, SameObjects, connectionVars, appVars, Deleting
<1>3. CASE SameObjects /\ ThreadStep
  <2>1. /\ engine'.start = engine.start /\ engine'.state = engine.state
        /\ engine'.listening >= engine.listening /\ engine'.listening \in Nat
    <3>1. ConnectionInv'
      BY <1>0, NextInv
    <3>2. engine'.listening \in Nat
      BY <3>1 DEF ConnectionInv, ConnectionTypeOK
    <3>3. QED
      BY <1>0, <1>3, <3>2, ThreadsLeaveEngine
  <2>2. ASSUME ~Deleting', watched # 0 PROVE watched' # 0
    <3>1. CASE WorkStep
      BY <1>0, <2>2, <3>1, ThreadsAttached DEF Attached
    <3>2. CASE InstallHandlers
      BY <2>2, <3>2 DEF InstallHandlers
    <3>3. QED
      BY <1>3, <3>1, <3>2 DEF ThreadStep
  <2>3. Deleting => Deleting'
    BY <1>3, DeletingStays DEF ThreadStep, WorkStep, ConnectionStep
  <2>4. QED
    BY <1>0, <1>3, <2>1, <2>2, <2>3 DEF Current, SameObjects
<1>4. CASE SameObjects /\ EngineComesUp
  <2>1. UNCHANGED <<watched, app>> /\ engine'.listening = engine.listening
    BY <1>0, <1>4 DEF EngineComesUp, EngineStart, EngineReady, ClientUnchanged, appVars,
                      ConnectionTypeOK
  <2>2. \/ engine'.start = engine.start + 1
        \/ engine'.start = engine.start /\ engine.state # "down"
    BY <1>0, <1>4 DEF EngineComesUp, EngineStart, EngineReady, ConnectionTypeOK
  <2>3. \A m \in Infos : infos[m].start \in Nat
    BY <1>0, SceneTypes DEF InfoRecords
  <2>4. QED
    BY <1>0, <1>4, <2>1, <2>2, <2>3 DEF Current, SameObjects, Deleting
<1>5. CASE SameObjects /\ Crash
  BY <1>5, CrashTold DEF Current, SameObjects
<1>6. Install => ThreadStep
  BY DEF Install, ThreadStep
<1>7. CASE SameObjects /\ Forgotten /\ Deleting
  BY <1>0, <1>7 DEF Forgotten, Current, SameObjects, ConnectionTypeOK, Deleting, appVars
<1>8. QED
  BY <1>1, <1>2, <1>3, <1>4, <1>5, <1>6, <1>7, StepsAndPolicy, ObjectsStay DEF ThreadStep

\* Objects are created one after the other.
LEMMA OrderedStep ==
  ASSUME Inv, Ordered, Named, Next
  PROVE  Ordered' /\ Existing \subseteq Existing'
<1>0. Made \in Nat /\ Made' = Cardinality(Existing') /\ Made = Cardinality(Existing)
  BY MadeType, SceneTypes DEF Inv, Made, Existing
<1>1. CASE SameObjects
  <2>1. Existing' = Existing
    BY <1>1 DEF SameObjects, Existing, Infos
  <2>2. QED
    BY <1>0, <2>1 DEF Ordered
<1>2. CASE CreateSession
  <2>1. /\ Made + 1 \in Infos
        /\ infos'[Made + 1].life # "none" /\ \A m \in Infos : m # Made + 1 => infos'[m] = infos[m]
    BY <1>2, SessionCreated
  <2>2. Existing' = Existing \cup {Made + 1}
    BY <2>1 DEF Existing, Infos
  <2>3. Existing' = 1..(Made + 1)
    <3>1. 1..(Made + 1) = 1..Made \cup {Made + 1}
      BY <1>0
    <3>2. QED
      BY <2>2, <3>1 DEF Ordered
  <2>4. Cardinality(1..(Made + 1)) = Made + 1
    BY <1>0, FS_Interval
  <2>5. QED
    BY <1>0, <2>2, <2>3, <2>4 DEF Ordered
<1>3. QED
  BY <1>1, <1>2, ObjectsStay

\* The map, the dispatcher and the app's call name objects that exist.
LEMMA NamedStep ==
  ASSUME Inv, Ordered, Named, Next
  PROVE  Named'
<1> USE DEF Named
<1>0. Existing \subseteq Existing' /\ (Made + 1 \in Infos /\ CreateSession => Made + 1 \in Existing')
  BY OrderedStep, SessionCreated DEF Existing, Infos
<1>1. ASSUME UNCHANGED <<sessionMap, handling, call>>
      PROVE  Named'
  BY <1>0, <1>1
<1>2. CASE UNCHANGED quietVars \/ Install \/ Forget \/ EngineMoves \/ Crash
           \/ \E wanted \in BOOLEAN : RequestResource(wanted)
  <2>1. CASE UNCHANGED quietVars \/ Install \/ Forget
    BY <1>1, <2>1 DEF sessionVars, quietVars, callVars, Install, Forget
  <2>2. QED
    BY <1>1, <1>2, <2>1, EngineTold, CrashTold
<1>3. CASE TakeStateEvent \/ HandleStateEvent
  <2>1. /\ sessionMap' = sessionMap /\ call'.op = call.op /\ call'.info = call.info
        /\ handling'.about = Client
    <3>1. CASE TakeStateEvent
      <4>1. handling.about = Client
        BY <3>1 DEF TakeStateEvent, DispatcherFree, NoEvent
      <4>2. UNCHANGED <<scene, sessionMap, call>>
        BY <3>1 DEF TakeStateEvent, callVars, connectionVars
      <4>3. QED
        BY <3>1, <4>1, <4>2, TakeStateStep
    <3>2. CASE HandleStateEvent
      BY <3>2 DEF HandleStateEvent, NoEvent, Inv, SessionInv, SessionTypes, CallRecords
    <3>3. QED
      BY <1>3, <3>1, <3>2
  <2>2. QED
    BY <1>0, <2>1
<1>4. ASSUME NEW n \in Infos, TakeSessionEvent(n) PROVE Named'
  <2>1. /\ UNCHANGED <<sessionMap, call>> /\ infos[n].events # <<>>
        /\ handling' = handling \/ handling'.about = n
    BY <1>4, SessionTaken
  <2>2. n \in Existing
    BY <2>1 DEF Existing, Inv, SessionInv, Sound
  <2>3. QED
    BY <1>0, <2>1, <2>2
<1>5. CASE HandleSessionEvent
  BY <1>0, <1>5, SessionHandled DEF NoEvent
<1>6. CASE StoreSession
  BY <1>0, <1>6, SessionStored DEF NoCall
<1>7. CASE StoreAnswer \/ EraseSession
  BY <1>0, <1>7, AnswerStored, SessionErased DEF NoCall
<1>8. ASSUME NEW id \in Ids, DestroySession(id) \/ CleanUpSession(id) PROVE Named'
  BY <1>0, <1>8, DestroyTold
<1>9. CASE CreateSession
  BY <1>0, <1>9, SessionCreated
<1>10. CASE AskEnabled \/ \E i \in Ids : AskActive(i)
  <2>1. UNCHANGED <<sessionMap, handling>>
    BY <1>10 DEF AskEnabled, AskActive
  <2>2. \/ call'.op = "enabled"
        \/ call'.op = "active" /\ \E i \in Ids : sessionMap[i] # 0 /\ call'.info = sessionMap[i]
    BY <1>10 DEF AskEnabled, AskActive, NoCall
  <2>3. QED
    BY <1>0, <2>1, <2>2
<1>11. QED
  BY SessionSteps, <1>2, <1>3, <1>4, <1>5, <1>6, <1>7, <1>8, <1>9, <1>10
-----------------------------------------------------------------------------
(* The engine that is watched, and its sessions in the map.                *)

\* A client that watches an engine after a step watched it before, or has
\* just found it: then no session and no event is of this start.
LEMMA HereBefore ==
  ASSUME Inv, Attached, Current, Next, Here'
  PROVE  /\ engine'.start = engine.start /\ engine.state = "ready"
         /\ \/ Here /\ ~Crash /\ engine'.listening >= engine.listening
            \/ ~Here /\ UNCHANGED quietVars /\ manager = 0 /\ \A n \in Infos : ~Own(n)
<1> USE DEF Here
<1>0. /\ ConnectionInv /\ ConnectionTypeOK /\ engine.listening \in Nat /\ Core /\ ~Deleting
  <2>1. ConnectionInv /\ ConnectionTypeOK /\ engine.listening \in Nat
    BY DEF Inv, ConnectionInv, ConnectionTypeOK
  <2>2. ~Deleting
    <3>1. CASE ConnectionStep
      BY <3>1, DeletingStays
    <3>2. CASE UNCHANGED connectionVars
      BY <3>2 DEF connectionVars, appVars, Deleting
    <3>3. QED
      BY <3>1, <3>2, StepsOfConnection
  <2>3. QED
    BY <2>1, <2>2 DEF ConnectionInv
<1>1. CASE watched # 0
  <2>1. engine.state = "ready" /\ watched = engine.start
    BY <1>1 DEF Attached
  <2>2. ~Crash
    BY <2>1, CrashTold
  <2>3. ~EngineComesUp
    BY <2>1 DEF EngineComesUp, EngineStart, EngineReady
  <2>4. engine'.start = engine.start /\ engine'.listening >= engine.listening
    <3>1. CASE ThreadStep
      BY <1>0, <3>1, ThreadsLeaveEngine
    <3>2. CASE UNCHANGED connectionVars
      BY <1>0, <3>2 DEF connectionVars
    <3>3. QED
      BY <1>0, <2>2, <2>3, <3>1, <3>2, StepsAndPolicy DEF ThreadStep, Install
  <2>5. QED
    BY <1>0, <1>1, <2>1, <2>2, <2>4
<1>2. CASE watched = 0
  <2>1. ~Crash /\ ~Forget /\ ~UNCHANGED connectionVars
    BY <1>2, CrashTold DEF Forget, Unregister, connectionVars
  <2>2. ~Install /\ ~EngineComesUp
    BY <1>2 DEF Install, InstallHandlers, EngineComesUp, EngineStart, EngineReady
  <2>3. WorkStep /\ UNCHANGED quietVars
    <3>0. TakeStateEvent => UNCHANGED connectionVars
      BY <1>0, TakenWhenDeleted
    <3>1. Next => UNCHANGED quietVars \/ UNCHANGED connectionVars \/ Install \/ Forget \/ Crash
      BY <3>0
      DEF Next, StartupSteps, DispatcherSteps, AppSteps, AppCalls, EventHandler, UsesDeleted,
             sessionVars, quietVars, HandleStateEvent, TakeSessionEvent, HandleSessionEvent, StoreSession, EraseSession,
             StoreAnswer, CleanUpSession, CreateSession, AskEnabled, DestroySession, AskActive,
             RequestResource, EngineMoves
    <3>2. QED
      BY <1>0, <2>1, <2>2, <3>1, StepsAndPolicy
  <2>4. Find \/ Construct
    BY <1>2, <2>3 DEF WorkStep, Startup, Loop, SetConnected, TestCache, SendCached, FreeCached, EraseCached,
                      Watch, FallAsleep, Probe, Dispatcher, CrashCallback, CrashDisconnects, MarkCrash, DropManager,
                      AppReturns, CacheTest, CacheSetting, SendSetting, DeleteDisconnects, DeleteDrop, DeleteQuit, Join,
                      Unregister, Delete, CallSet
  <2>5. manager = 0
    BY <1>0, <2>4 DEF Find, StartupGoto, Construct, Core, Constructing, OneCrashAhead
  <2>6. engine.state = "ready" /\ engine'.start = engine.start
    BY <1>2, <2>4 DEF Find, Construct, Locate
  <2>7. \A n \in Infos : ~Own(n)
    BY <1>0, <1>2, <2>6 DEF Current
  <2>8. QED
    BY <1>2, <2>3, <2>5, <2>6, <2>7
<1>3. QED
  BY <1>1, <1>2

\* The object the engine tells the events of its session is the one the map
\* has under that session's id.
HostNamed ==
  host.info # 0 =>
    /\ \A i \in Ids : sessionMap[i] = host.info => i = host.ours
    /\ call.op = "create" /\ call.info = host.info => call.id = host.ours
    /\ call.op = "erase" => Deleting \/ call.info # host.info

LEMMA HostNamedStep ==
  ASSUME Inv, Ordered, Named, HostNamed, Next
  PROVE  HostNamed'
<1> USE DEF HostNamed
<1>0. Deleting => Deleting'
  <2>1. CASE ConnectionStep
    BY <2>1, DeletingStays
  <2>2. CASE UNCHANGED connectionVars
    BY <2>2 DEF connectionVars, appVars, Deleting
  <2>3. QED
    BY <2>1, <2>2, StepsOfConnection
<1>1. ASSUME UNCHANGED sessionMap, host'.info = host.info, host'.ours = host.ours,
             \/ call'.op = call.op /\ call'.info = call.info /\ call'.id = call.id
             \/ call'.op \notin {"create", "erase"}
      PROVE  HostNamed'
  BY <1>0, <1>1
<1>2. CASE Apart
  <2>1. \/ call'.op = call.op /\ call'.info = call.info /\ call'.id = call.id
        \/ call'.op \notin {"create", "erase"}
    <3>1. CASE UNCHANGED quietVars \/ Install \/ Forget \/ TakeStateEvent
      BY <3>1 DEF sessionVars, quietVars, callVars, Install, Forget, TakeStateEvent
    <3>2. CASE HandleStateEvent
      BY <3>2 DEF HandleStateEvent, Inv, SessionInv, SessionTypes, CallRecords
    <3>3. CASE AskEnabled \/ \E i \in Ids : AskActive(i)
      BY <3>3 DEF AskEnabled, AskActive, NoCall
    <3>4. QED
      BY <1>2, <3>1, <3>2, <3>3 DEF Apart
  <2>2. QED
    BY <1>1, <1>2, <2>1, ApartLeaves
<1>3. CASE EngineMoves \/ \E wanted \in BOOLEAN : RequestResource(wanted)
  BY <1>1, <1>3, EngineTold
<1>4. ASSUME NEW n \in Infos, TakeSessionEvent(n) PROVE HostNamed'
  BY <1>1, <1>4, SessionTaken
<1>5. CASE HandleSessionEvent
  BY <1>1, <1>5, SessionHandled
<1>6. CASE StoreSession
  BY <1>6, SessionStored DEF NoCall
<1>7. CASE StoreAnswer
  BY <1>1, <1>7, AnswerStored DEF NoCall
<1>8. CASE EraseSession
  BY <1>8, SessionErased DEF NoCall
<1>9. CASE Crash
  BY <1>9, CrashTold DEF NewHost
<1>10. ASSUME NEW id \in Ids, DestroySession(id) \/ CleanUpSession(id) PROVE HostNamed'
  BY <1>0, <1>10, DestroyTold DEF NoCall
<1>11. CASE CreateSession
  <2>1. UNCHANGED sessionMap /\ call = NoCall /\ Made + 1 \notin Existing
    BY <1>11, SessionCreated
  <2>2. \A i \in Ids : sessionMap[i] # Made + 1
    <3>1. Made + 1 # 0
      BY MadeType, SceneTypes DEF Inv
    <3>2. QED
      BY <2>1, <3>1 DEF Named
  <2>3. CASE UNCHANGED <<host, call>>
    BY <1>1, <2>1, <2>3
  <2>4. CASE host'.info = Made + 1 /\ (call' = call \/ (call'.op = "create" /\ call'.id = host'.ours))
    BY <2>1, <2>2, <2>4 DEF NoCall
  <2>5. QED
    BY <1>11, <2>3, <2>4, SessionCreated DEF Granted
<1>12. QED
  BY SessionSteps, <1>2, <1>3, <1>4, <1>5, <1>6, <1>7, <1>8, <1>9, <1>10, <1>11 DEF Apart

\* Ids are given out in order, and what the map has under the id of the
\* engine's session is the object of this session.
Numbered ==
  /\ host.ours <= host.lastId
  /\ Here =>
       /\ \A i \in Ids : sessionMap[i] # 0 /\ Own(sessionMap[i]) =>
            i <= host.lastId /\ (host.ours = i => sessionMap[i] = host.info)
       /\ call.op = "create" /\ Own(call.info) =>
            call.id <= host.lastId /\ (host.ours = call.id => call.info = host.info)

LEMMA NumberedStep ==
  ASSUME Inv, Attached, Objects, Numbered, Next
  PROVE  Numbered'
<1> USE DEF Objects, Numbered, Own
<1>0. /\ host.ours \in Nat /\ host.lastId \in Nat /\ Made \in Nat /\ Ids \subseteq Nat \ {0}
      /\ sessionMap \in [Ids -> Infos \cup {0}] /\ call.info \in Infos \cup {0}
      /\ \A i \in Ids : sessionMap[i] # 0 => sessionMap[i] \in Existing
      /\ call.op = "create" => call.info \in Existing
      /\ Existing \subseteq Infos
  <2>1. host.ours \in Ids \cup {0} /\ host.lastId \in 0..MaxIds
    BY DEF Inv, SessionInv, SessionTypes, HostRecords
  <2>2. Ids \subseteq Nat \ {0} /\ MaxIds \in Nat /\ Made \in Nat
    BY MadeType, SceneTypes DEF Inv, Ids
  <2>3. sessionMap \in [Ids -> Infos \cup {0}] /\ call.info \in Infos \cup {0}
    BY DEF Inv, SessionInv, SessionTypes, CallRecords
  <2>4. /\ \A i \in Ids : sessionMap[i] # 0 => sessionMap[i] \in Existing
        /\ call.op = "create" => call.info \in Existing
    BY DEF Named
  <2>5. host.ours \in Nat /\ host.lastId \in Nat
    BY <2>1, SceneTypes DEF Ids
  <2>6. Existing \subseteq Infos
    BY DEF Existing
  <2>7. QED
    BY <2>2, <2>3, <2>4, <2>5, <2>6
<1>1. host'.ours <= host'.lastId
  <2>1. CASE Apart \/ StoreSession \/ StoreAnswer \/ EraseSession \/ HandleSessionEvent
             \/ \E n \in Infos : TakeSessionEvent(n)
    <3>1. host' = host
      BY <2>1, ApartLeaves, SessionStored, AnswerStored, SessionErased, SessionHandled, SessionTaken
    <3>2. QED
      BY <3>1
  <2>2. CASE EngineMoves \/ \E wanted \in BOOLEAN : RequestResource(wanted)
    BY <1>0, <2>2, EngineTold
  <2>3. ASSUME NEW id \in Ids, DestroySession(id) \/ CleanUpSession(id) PROVE host'.ours <= host'.lastId
    BY <1>0, <2>3, DestroyTold
  <2>4. CASE Crash
    BY <2>4, CrashTold DEF NewHost
  <2>5. CASE CreateSession
    BY <1>0, <2>5, SessionCreated DEF Granted
  <2>6. QED
    BY SessionSteps, <2>1, <2>2, <2>3, <2>4, <2>5 DEF Apart
<1>2. ASSUME Here'
      PROVE  /\ \A i \in Ids : sessionMap'[i] # 0 /\ infos'[sessionMap'[i]].start = engine'.start =>
                  i <= host'.lastId /\ (host'.ours = i => sessionMap'[i] = host'.info)
             /\ call'.op = "create" /\ infos'[call'.info].start = engine'.start =>
                  call'.id <= host'.lastId /\ (host'.ours = call'.id => call'.info = host'.info)
  <2>0. engine'.start = engine.start /\ (Here \/ \A n \in Infos : ~Own(n)) /\ ~Crash
    BY <1>2, HereBefore, CrashTold DEF Here, sessionVars, quietVars, Attached
  <2>1. /\ \A i \in Ids : sessionMap[i] # 0 /\ Own(sessionMap[i]) =>
             i <= host.lastId /\ (host.ours = i => sessionMap[i] = host.info)
        /\ call.op = "create" /\ Own(call.info) =>
             call.id <= host.lastId /\ (host.ours = call.id => call.info = host.info)
    BY <1>0, <2>0
  <2>2. CASE Apart \/ StoreAnswer \/ EraseSession \/ HandleSessionEvent
             \/ \E n \in Infos : TakeSessionEvent(n)
    <3>1. /\ host' = host /\ \A m \in Infos : infos'[m].start = infos[m].start
          /\ \A i \in Ids : sessionMap'[i] \in {0, sessionMap[i]}
      BY <2>2, ApartLeaves, AnswerStored, SessionErased, SessionHandled, SessionTaken DEF SameObject
    <3>2. call'.op = "create" => call.op = "create" /\ call'.info = call.info /\ call'.id = call.id
      <4>1. CASE UNCHANGED quietVars \/ Install \/ Forget \/ TakeStateEvent
        BY <4>1 DEF sessionVars, quietVars, callVars, Install, Forget, TakeStateEvent
      <4>2. CASE HandleStateEvent
        BY <4>2 DEF HandleStateEvent, Inv, SessionInv, SessionTypes, CallRecords
      <4>3. CASE AskEnabled \/ \E i \in Ids : AskActive(i)
        BY <4>3 DEF AskEnabled, AskActive, NoCall
      <4>4. CASE StoreAnswer \/ EraseSession \/ HandleSessionEvent
                 \/ \E n \in Infos : TakeSessionEvent(n)
        BY <4>4, AnswerStored, SessionErased, SessionHandled, SessionTaken DEF NoCall
      <4>5. QED
        BY <2>2, <4>1, <4>2, <4>3, <4>4 DEF Apart
    <3>3. QED
      BY <1>0, <2>0, <2>1, <3>1, <3>2
  <2>3. CASE StoreSession
    <3>1. /\ host' = host /\ call.op = "create" /\ call'.op # "create"
          /\ \A i \in Ids : sessionMap'[i] = IF i = call.id THEN call.info ELSE sessionMap[i]
          /\ \A m \in Infos : infos'[m].start = infos[m].start
      BY <2>3, SessionStored DEF SameObject, NoCall
    <3>2. ASSUME NEW i \in Ids, sessionMap'[i] # 0, infos'[sessionMap'[i]].start = engine'.start
          PROVE  i <= host'.lastId /\ (host'.ours = i => sessionMap'[i] = host'.info)
      <4>1. sessionMap'[i] \in Infos /\ Own(sessionMap'[i])
        BY <1>0, <2>0, <3>1, <3>2
      <4>2. QED
        BY <2>1, <3>1, <3>2, <4>1
    <3>3. QED
      BY <3>1, <3>2
  <2>4. CASE EngineMoves \/ \E wanted \in BOOLEAN : RequestResource(wanted)
    <3>1. /\ UNCHANGED <<sessionMap, call>> /\ host'.ours = host.ours /\ host'.info = host.info
          /\ host'.lastId \in Nat /\ host'.lastId >= host.lastId
          /\ \A m \in Infos : infos'[m].start = infos[m].start
      BY <2>4, EngineTold DEF SameObject
    <3>2. ASSUME NEW i \in Ids, sessionMap'[i] # 0, infos'[sessionMap'[i]].start = engine'.start
          PROVE  i <= host'.lastId /\ (host'.ours = i => sessionMap'[i] = host'.info)
      <4>1. sessionMap[i] \in Infos /\ Own(sessionMap[i])
        BY <1>0, <2>0, <3>1, <3>2
      <4>2. QED
        BY <1>0, <2>1, <3>1, <3>2, <4>1
    <3>3. ASSUME call'.op = "create", infos'[call'.info].start = engine'.start
          PROVE  call'.id <= host'.lastId /\ (host'.ours = call'.id => call'.info = host'.info)
      <4>1. Own(call.info) /\ call.op = "create" /\ call.id \in Nat
        <5>1. call.id \in Ids \cup {0}
          BY DEF Inv, SessionInv, SessionTypes, CallRecords
        <5>2. call.op = "create" /\ call.info \in Infos
          BY <1>0, <3>1, <3>3
        <5>3. call.id \in Nat
          BY ONLY <5>1 DEF Ids
        <5>4. infos[call.info].start = engine.start
          BY ONLY <2>0, <3>1, <3>3, <5>2
        <5>5. QED
          BY <5>2, <5>3, <5>4
      <4>2. QED
        BY <1>0, <2>1, <3>1, <4>1
    <3>4. QED
      BY <3>2, <3>3
  <2>5. ASSUME NEW id \in Ids, DestroySession(id) \/ CleanUpSession(id)
        PROVE  /\ \A i \in Ids : sessionMap'[i] # 0 /\ infos'[sessionMap'[i]].start = engine'.start =>
                    i <= host'.lastId /\ (host'.ours = i => sessionMap'[i] = host'.info)
               /\ call'.op # "create"
    BY <1>0, <2>0, <2>1, <2>5, DestroyTold DEF SameObject, NoCall
  <2>6. CASE CreateSession
    <3>1. /\ UNCHANGED sessionMap /\ call = NoCall /\ Made + 1 \notin Existing
          /\ \A m \in Infos : m # Made + 1 => infos'[m] = infos[m]
      BY <2>6, SessionCreated
    <3>2. CASE UNCHANGED <<host, call>>
      BY <1>0, <2>0, <2>1, <3>1, <3>2 DEF NoCall
    <3>3. CASE /\ Granted
               /\ \/ call' = call
                  \/ call'.op = "create" /\ call'.info = Made + 1 /\ call'.id = host.lastId + 1
      BY <1>0, <2>0, <2>1, <3>1, <3>3 DEF NoCall, Granted
    <3>4. QED
      BY <2>6, <3>2, <3>3, SessionCreated
  <2>7. QED
    BY SessionSteps, <2>0, <2>2, <2>3, <2>4, <2>5, <2>6 DEF Apart
<1>3. QED
  BY <1>1, <1>2
-----------------------------------------------------------------------------
(* Whether TTS is enabled: what the client was told and believes.          *)

\* The last element of a sequence that is not empty.
Latest(s) == s[Len(s)]

\* The latest event is the one that is left when the others are taken.
LEMMA LatestOfTail ==
  ASSUME NEW S, NEW s \in Seq(S), s # <<>>
  PROVE  IF Tail(s) = <<>> THEN Head(s) = Latest(s)
                           ELSE Tail(s) \in Seq(S) /\ Latest(Tail(s)) = Latest(s)
<1>0. Len(Tail(s)) = Len(s) - 1 /\ Len(s) \in Nat /\ Len(Tail(s)) \in Nat
  <2>1. Tail(s) \in Seq(S) /\ Len(Tail(s)) = Len(s) - 1
    BY HeadTailProperties
  <2>2. QED
    BY <2>1, LenProperties
<1>1. /\ Head(s) = s[1] /\ Tail(s) \in Seq(S)
      /\ \A i \in 1..Len(Tail(s)) : Tail(s)[i] = s[i + 1]
  BY HeadTailProperties
<1>2. CASE Tail(s) = <<>>
  <2>1. Len(Tail(s)) = 0
    BY <1>1, <1>2, EmptySeq
  <2>2. Len(s) = 1
    BY ONLY <1>0, <2>1
  <2>3. QED
    BY <1>1, <1>2, <2>2 DEF Latest
<1>3. CASE Tail(s) # <<>>
  <2>1. Len(Tail(s)) # 0
    BY <1>1, <1>3, EmptySeq
  <2>2. Len(Tail(s)) \in 1..Len(Tail(s)) /\ Len(Tail(s)) + 1 = Len(s)
    <3>1. ASSUME NEW k \in Nat, NEW l \in Nat, k = l - 1, k # 0
          PROVE  k \in 1..k /\ k + 1 = l
      BY ONLY <3>1
    <3>2. QED
      BY ONLY <1>0, <2>1, <3>1
  <2>3. QED
    BY <1>1, <1>3, <2>2 DEF Latest
<1>4. QED
  BY <1>2, <1>3

LEMMA LatestAdded ==
  ASSUME NEW S, NEW s \in Seq(S), NEW e \in S
  PROVE  /\ Append(s, e) # <<>> /\ Latest(Append(s, e)) = e
         /\ s \o <<e>> = Append(s, e)
BY DEF Latest

\* A client that watches an engine loses it only by a crash, and m_manager is
\* not dropped while an event is handled.
LEMMA LinkStays ==
  ASSUME Inv, Attached, Next, ~Deleting'
  PROVE  /\ ~Deleting /\ Core
         /\ watched # 0 => watched' # 0 \/ Crash
         /\ handling # NoEvent /\ manager # 0 => manager' # 0
<1>0. ConnectionInv /\ ~Deleting /\ Core
  <2>1. ~Deleting
    <3>1. CASE ConnectionStep
      BY <3>1, DeletingStays
    <3>2. CASE UNCHANGED connectionVars
      BY <3>2 DEF connectionVars, appVars, Deleting
    <3>3. QED
      BY <3>1, <3>2, StepsOfConnection
  <2>2. QED
    BY <2>1 DEF Inv, ConnectionInv
<1>1. watched # 0 => watched' # 0 \/ Crash
  <2>1. CASE WorkStep
    BY <1>0, <2>1, ThreadsAttached DEF Attached
  <2>2. CASE Install \/ EngineComesUp \/ UNCHANGED connectionVars
    BY <2>2 DEF Install, InstallHandlers, EngineComesUp, EngineStart, EngineReady, connectionVars
  <2>3. QED
    BY <1>0, <2>1, <2>2, StepsAndPolicy
<1>2. ASSUME handling # NoEvent, manager # 0 PROVE manager' # 0
  <2>1. manager' = manager \/ Find \/ Construct \/ DeleteDrop
    <3>1. CASE StartupSteps
      BY <3>1 DEF StartupSteps, Install, InstallHandlers, Startup, Loop, SetConnected, TestCache,
                  SendCached, FreeCached, EraseCached, Watch, FallAsleep, Probe
    <3>2. CASE DispatcherSteps
      BY <1>2, <3>2 DEF DispatcherSteps, UsesDeleted, EventHandler, TakeStateEvent,
                        HandleStateEvent, TakeSessionEvent, HandleSessionEvent, connectionVars
    <3>3. CASE AppSteps
      <4>1. CASE AppReturns \/ Forget
        BY <4>1 DEF AppReturns, CacheTest, CacheSetting, SendSetting, DeleteDisconnects, DeleteQuit,
                    Join, Forget, Unregister
      <4>2. QED
        BY <3>3, <4>1 DEF AppSteps, UsesDeleted, StoreSession, EraseSession, StoreAnswer,
                          CleanUpSession, connectionVars
    <3>4. CASE AppCalls
      BY <3>4 DEF AppCalls, CallSet, Delete, CreateSession, AskEnabled, DestroySession, AskActive,
                  RequestResource, connectionVars
    <3>5. CASE (EngineComesUp /\ UNCHANGED sessionVars) \/ Crash \/ EngineMoves
      BY <3>5 DEF EngineComesUp, EngineStart, EngineReady, ClientUnchanged, Crash, EngineCrash,
                  EngineMoves, connectionVars
    <3>6. QED
      BY <3>1, <3>2, <3>3, <3>4, <3>5 DEF Next
  <2>2. ~Find /\ ~Construct
    BY <1>0, <1>2 DEF Find, StartupGoto, Construct, Core, Constructing, OneCrashAhead
  <2>3. ~DeleteDrop
    BY <1>0 DEF DeleteDrop, Deleting
  <2>4. QED
    BY <1>2, <2>1, <2>2, <2>3
<1>3. QED
  BY <1>0, <1>1, <1>2

\* The latest event says whether TTS is enabled.
StateTold ==
  stateEvents # <<>> => engine.listening # 0 /\ (Latest(stateEvents) <=> host.enabled)

LEMMA StateToldStep ==
  ASSUME Inv, Ordered, StateTold, Next
  PROVE  StateTold'
<1> USE DEF StateTold
<1>0. /\ ConnectionInv /\ engine.listening \in Nat /\ engine'.listening \in Nat
      /\ stateEvents \in Seq(BOOLEAN)
      /\ (engine.listening # 0 => engine'.listening # 0) \/ Crash \/ stateEvents' = <<>>
  <2>1. ConnectionInv /\ ConnectionInv'
    BY NextInv DEF Inv
  <2>2. engine.listening \in Nat /\ engine'.listening \in Nat
    BY <2>1 DEF ConnectionInv, ConnectionTypeOK
  <2>3. CASE ThreadStep
    BY <2>1, <2>2, <2>3, ThreadsLeaveEngine DEF Inv, SessionInv, SessionTypes
  <2>4. CASE EngineComesUp \/ UNCHANGED connectionVars \/ Crash
    <3>1. engine'.listening = engine.listening \/ Crash
      BY <2>1, <2>4 DEF EngineComesUp, EngineStart, EngineReady, connectionVars, ConnectionInv,
                        ConnectionTypeOK
    <3>2. QED
      BY <2>1, <2>2, <3>1 DEF Inv, SessionInv, SessionTypes
  <2>5. QED
    BY <2>2, <2>3, <2>4, StepsAndPolicy DEF ThreadStep, Install, Inv, SessionInv, SessionTypes
<1>1. CASE Crash
  BY <1>1, CrashTold
<1>2. CASE stateEvents' = stateEvents /\ host'.enabled = host.enabled /\ ~Crash
  BY <1>0, <1>2
<1>3. CASE EngineMoves \/ \E wanted \in BOOLEAN : RequestResource(wanted)
  <2>1. CASE engine.listening > 0 /\ stateEvents' = Append(stateEvents, host'.enabled)
    <3>1. host'.enabled \in BOOLEAN
      BY SessionStep DEF SessionInv, SessionTypes, HostRecords
    <3>2. Latest(stateEvents') = host'.enabled
      BY <1>0, <2>1, <3>1, LatestAdded
    <3>3. ~Crash
      BY <1>3, <2>1, CrashTold, EngineTold DEF connectionVars
    <3>4. QED
      BY <1>0, <2>1, <3>2, <3>3
  <2>2. CASE engine.listening = 0 /\ stateEvents' = stateEvents
    BY <2>2
  <2>3. QED
    BY <1>0, <1>1, <1>2, <1>3, <2>1, <2>2, EngineTold
<1>4. CASE TakeStateEvent
  <2>1. /\ stateEvents # <<>> /\ host' = host
        /\ stateEvents' = <<>> \/ (stateEvents' = Tail(stateEvents) /\ engine' = engine)
    BY <1>4 DEF TakeStateEvent
  <2>2. CASE stateEvents' = <<>>
    BY <2>2
  <2>3. CASE stateEvents' # <<>>
    <3>1. stateEvents' = Tail(stateEvents) /\ engine' = engine
      BY <2>1, <2>3
    <3>2. Latest(stateEvents') = Latest(stateEvents)
      BY <1>0, <2>1, <2>3, <3>1, LatestOfTail
    <3>3. QED
      BY <2>1, <3>1, <3>2
  <2>4. QED
    BY <2>2, <2>3
<1>5. CASE (Apart /\ ~TakeStateEvent) \/ StoreSession \/ StoreAnswer \/ EraseSession
           \/ HandleSessionEvent \/ \E n \in Infos : TakeSessionEvent(n)
  <2>1. CASE Apart /\ ~TakeStateEvent
    <3>1. stateEvents' = stateEvents
      BY <2>1 DEF Apart, sessionVars, quietVars, Install, Forget, HandleStateEvent, AskEnabled, AskActive
    <3>2. QED
      BY <1>1, <1>2, <2>1, <3>1, ApartLeaves
  <2>2. QED
    BY <1>1, <1>2, <1>5, <2>1, SessionStored, AnswerStored, SessionErased, SessionHandled, SessionTaken
<1>6. ASSUME NEW id \in Ids, DestroySession(id) \/ CleanUpSession(id) PROVE StateTold'
  BY <1>1, <1>2, <1>6, DestroyTold
<1>7. CASE CreateSession
  BY <1>1, <1>2, <1>7, SessionCreated DEF Granted
<1>8. QED
  BY SessionSteps, <1>1, <1>3, <1>4, <1>5, <1>6, <1>7 DEF Apart

\* Events reach the client as long as it is not deleted, and come from an
\* engine it watches.
Reached ==
  ~Deleting =>
    /\ wrapper = "live"
    /\ handling # NoEvent => manager # 0
    /\ \A n \in Infos : infos[n].events # <<>> => watched # 0

LEMMA ReachedStep ==
  ASSUME Inv, Attached, Objects, StateTold, Reached, Next
  PROVE  Reached'
<1> SUFFICES ASSUME ~Deleting'
             PROVE  /\ wrapper' = "live"
                    /\ handling' # NoEvent => manager' # 0
                    /\ \A n \in Infos : infos'[n].events # <<>> => watched' # 0
  BY DEF Reached, Infos, NoEvent
<1> USE DEF Objects
<1>0. /\ ~Deleting /\ Core /\ wrapper = "live"
      /\ watched # 0 => watched' # 0 \/ Crash
      /\ handling # NoEvent => manager' # 0
      /\ \A n \in Infos : infos[n].events # <<>> => watched # 0
  BY LinkStays DEF Reached
<1>1. watched # 0 => manager # 0
  BY <1>0 DEF Core, OneCrashAhead
<1>2. wrapper' = "live"
  <2>1. ~Forget
    BY DEF Forget, Unregister, Deleting, AtApi
  <2>2. CASE Apart
    BY <1>0, <2>1, <2>2 DEF Apart, sessionVars, quietVars, Install, TakeStateEvent, AfterRefusal,
                            HandleStateEvent, AskEnabled, AskActive
  <2>3. CASE StoreSession \/ StoreAnswer \/ EraseSession \/ HandleSessionEvent \/ Crash
             \/ \E n \in Infos : TakeSessionEvent(n)
    BY <1>0, <2>3, SessionStored, AnswerStored, SessionErased, SessionHandled, SessionTaken, CrashTold
  <2>4. CASE \/ EngineMoves \/ (\E wanted \in BOOLEAN : RequestResource(wanted)) \/ CreateSession
             \/ \E i \in Ids : DestroySession(i) \/ CleanUpSession(i)
    BY <1>0, <2>4, EngineTold, SessionCreated, DestroyTold
  <2>5. QED
    BY SessionSteps, <2>2, <2>3, <2>4 DEF Apart
<1>3. handling' # NoEvent => manager' # 0
  <2>1. CASE TakeStateEvent
    <3>1. stateEvents # <<>> /\ manager' = manager
      BY <2>1 DEF TakeStateEvent, connectionVars
    <3>2. watched # 0
      BY <1>0, <3>1 DEF StateTold, Core, InstalledAndPast
    <3>3. QED
      BY <1>1, <3>1, <3>2
  <2>2. ASSUME NEW n \in Infos, TakeSessionEvent(n) PROVE manager' # 0
    BY <1>0, <1>1, <2>2, SessionTaken DEF connectionVars
  <2>3. CASE handling' \in {handling, NoEvent}
    BY <1>0, <2>3
  <2>4. CASE Apart /\ ~TakeStateEvent
    BY <2>3, <2>4 DEF Apart, sessionVars, quietVars, Install, Forget, HandleStateEvent, AskEnabled, AskActive
  <2>5. CASE StoreSession \/ StoreAnswer \/ EraseSession \/ HandleSessionEvent \/ Crash
    BY <2>3, <2>5, SessionStored, AnswerStored, SessionErased, SessionHandled, CrashTold
  <2>6. CASE \/ EngineMoves \/ (\E wanted \in BOOLEAN : RequestResource(wanted)) \/ CreateSession
             \/ \E i \in Ids : DestroySession(i) \/ CleanUpSession(i)
    BY <2>3, <2>6, EngineTold, SessionCreated, DestroyTold
  <2>7. QED
    BY SessionSteps, <2>1, <2>2, <2>4, <2>5, <2>6 DEF Apart
<1>4. ASSUME NEW m \in Infos, infos'[m].events # <<>> PROVE watched' # 0
  <2>1. CASE infos[m].events # <<>> /\ ~Crash
    BY <1>0, <2>1
  <2>2. ~Crash
    BY <1>4, CrashTold
  <2>3. host.info # 0 => watched # 0
    BY <1>0 DEF Attached
  <2>4. CASE Apart
    BY <1>4, <2>1, <2>2, <2>4, ApartLeaves
  <2>5. CASE StoreSession \/ StoreAnswer \/ EraseSession \/ HandleSessionEvent
    BY <1>4, <2>1, <2>2, <2>5, SessionStored, AnswerStored, SessionErased, SessionHandled
  <2>6. ASSUME NEW n \in Infos, TakeSessionEvent(n) PROVE infos[m].events # <<>>
    BY <1>4, <2>6, SessionTaken
  <2>7. CASE EngineMoves \/ \E wanted \in BOOLEAN : RequestResource(wanted)
    <3>1. m # host.info => infos'[m].events = infos[m].events
      BY <2>7, EngineTold
    <3>2. QED
      BY <1>0, <1>4, <2>1, <2>2, <2>3, <3>1 DEF Infos
  <2>8. ASSUME NEW i \in Ids, DestroySession(i) \/ CleanUpSession(i)
        PROVE  watched' # 0
    <3>1. m # host.info => infos'[m].events = infos[m].events
      BY <2>8, DestroyTold
    <3>2. QED
      BY <1>0, <1>4, <2>1, <2>2, <2>3, <3>1 DEF Infos
  <2>9. CASE CreateSession
    <3>1. CASE m # Made + 1
      BY <1>4, <2>1, <2>2, <2>9, <3>1, SessionCreated
    <3>2. CASE m = Made + 1
      <4>1. infos'[m].start = 0 \/ Granted
        BY <2>9, <3>2, SessionCreated
      <4>2. ~Granted => infos'[m].events = <<>>
        BY <2>9, <3>2, SessionCreated DEF Granted
      <4>3. connected /\ app = AtApi /\ Answers
        BY <1>4, <2>9, <4>2, SessionCreated DEF Granted
      <4>4. Reachable /\ engine.start # 0
        BY <1>0, <4>3, AnswersReach DEF Inv, Core, WatchedIsUp, Answers
      <4>5. QED
        BY <1>0, <2>2, <4>4 DEF Reachable
    <3>3. QED
      BY <3>1, <3>2
  <2>10. QED
    BY SessionSteps, <1>0, <2>1, <2>2, <2>4, <2>5, <2>6, <2>7, <2>8, <2>9 DEF Apart
<1>5. QED
  BY <1>2, <1>3, <1>4

\* An event of the client is being handled, or none is to come.
AboutClient == handling # NoEvent /\ handling.about = Client
Quiet == stateEvents = <<>> /\ ~AboutClient
\* The map has a session of this start; or the reply of one is to be stored.
Has == \E i \in Ids : sessionMap[i] # 0 /\ Own(sessionMap[i])
Expected == call.op = "create" /\ Own(call.info)
Asks == call.op \in {"create", "enabled"}

\* What the client believes of TTS being enabled, is about to be told or is
\* about to store is true, or a newer event overtook it.
Believed ==
  Here =>
    /\ stateEvents = <<>> /\ AboutClient
         => engine.listening # 0 /\ (handling.event = "on" <=> host.enabled)
    /\ Quiet /\ Has => overtaken \/ (enabled <=> host.enabled)
    /\ Quiet /\ Asks /\ (Has \/ Expected) => call.missed \/ (call.answer <=> host.enabled)

\* A step that is not about the client's events.
LEMMA BelievedApart ==
  ASSUME Believed, Here,
         engine'.listening >= engine.listening, engine'.listening \in Nat, engine.listening \in Nat,
         host'.enabled = host.enabled, UNCHANGED <<stateEvents, enabled, overtaken>>,
         AboutClient \/ AboutClient' => handling' = handling,
         Has' => Has,
         Asks' => /\ call'.op = call.op /\ call'.answer = call.answer /\ call'.missed = call.missed
                  /\ (Expected' => Expected)
  PROVE  Believed'
<1>1. stateEvents' = <<>> /\ AboutClient'
        => engine'.listening # 0 /\ (handling'.event = "on" <=> host'.enabled)
  BY DEF Believed, AboutClient
<1>2. Quiet' <=> Quiet
  BY DEF Quiet, AboutClient
<1>3. Quiet' /\ Has' => overtaken' \/ (enabled' <=> host'.enabled)
  BY <1>2 DEF Believed
<1>4. Quiet' /\ Asks' /\ (Has' \/ Expected') => call'.missed \/ (call'.answer <=> host'.enabled)
  BY <1>2 DEF Believed, Asks
<1>5. QED
  BY <1>1, <1>3, <1>4 DEF Believed

LEMMA BelievedStep ==
  ASSUME Inv, Attached, Objects, StateTold, Reached, Believed, Next
  PROVE  Believed'
<1> USE DEF Objects, Own
<1> SUFFICES ASSUME Here' PROVE Believed'
  BY DEF Believed
<1>0. /\ engine'.start = engine.start /\ engine.state = "ready"
      /\ \/ Here /\ ~Crash /\ engine'.listening >= engine.listening
         \/ ~Here /\ UNCHANGED quietVars /\ manager = 0 /\ \A n \in Infos : ~Own(n)
      /\ ~Deleting' /\ ~Deleting /\ Core
  BY HereBefore, LinkStays DEF Here
<1>1. /\ engine.listening \in Nat /\ engine'.listening \in Nat
      /\ stateEvents \in Seq(BOOLEAN) /\ sessionMap \in [Ids -> Infos \cup {0}]
      /\ \A i \in Ids : sessionMap[i] # 0 => sessionMap[i] \in Existing
      /\ call.op = "create" => call.info \in Existing
      /\ Existing \subseteq Infos /\ host \in HostRecords
  <2>1. ConnectionInv /\ ConnectionInv'
    BY NextInv DEF Inv
  <2>2. engine.listening \in Nat /\ engine'.listening \in Nat
    BY <2>1 DEF ConnectionInv, ConnectionTypeOK
  <2>3. QED
    BY <2>2 DEF Inv, SessionInv, SessionTypes, Named, Existing
<1>2. CASE ~Here
  <2>1. ~Has' /\ ~Expected'
    BY <1>0, <1>1, <1>2 DEF Has, Expected, sessionVars, quietVars, callVars
  <2>2. ~AboutClient'
    BY <1>0, <1>2 DEF Reached, AboutClient, sessionVars, quietVars, NoEvent
  <2>3. QED
    BY <2>1, <2>2 DEF Believed
<1>3. CASE Here
  <2>0. engine'.listening >= engine.listening
    BY <1>0, <1>3
  <2>1. Has \/ Expected => engine.listening # 0
    BY <1>0, <1>1 DEF Has, Expected, Current
  <2>2. ASSUME \A m \in Infos : infos'[m].start = infos[m].start,
               \A i \in Ids : sessionMap'[i] \in {0, sessionMap[i]}
        PROVE  Has' => Has
    BY <1>0, <1>1, <2>2 DEF Has
  <2>3. CASE UNCHANGED quietVars \/ Install \/ HandleSessionEvent \/ EraseSession
             \/ \E n \in Infos : TakeSessionEvent(n)
    <3>1. /\ host' = host /\ UNCHANGED <<stateEvents, enabled, overtaken>>
          /\ \A m \in Infos : infos'[m].start = infos[m].start
          /\ \A i \in Ids : sessionMap'[i] \in {0, sessionMap[i]}
      <4>1. CASE UNCHANGED quietVars \/ Install
        BY <4>1 DEF sessionVars, quietVars, Install
      <4>2. QED
        BY <2>3, <4>1, SessionErased, SessionHandled, SessionTaken DEF SameObject
    <3>2. AboutClient \/ AboutClient' => handling' = handling
      <4>1. CASE UNCHANGED quietVars \/ Install \/ EraseSession
        BY <4>1, SessionErased DEF sessionVars, quietVars, Install
      <4>2. CASE HandleSessionEvent
        BY <4>2, SessionHandled DEF AboutClient, Client, Infos
      <4>3. ASSUME NEW n \in Infos, TakeSessionEvent(n)
            PROVE  AboutClient \/ AboutClient' => handling' = handling
        BY <4>3, SessionTaken DEF AboutClient, Client, Infos
      <4>4. QED
        BY <2>3, <4>1, <4>2, <4>3
    <3>3. Asks' => /\ call'.op = call.op /\ call'.answer = call.answer /\ call'.missed = call.missed
                   /\ call'.info = call.info
      <4>1. CASE UNCHANGED quietVars \/ Install
        BY <4>1 DEF sessionVars, quietVars, Install, callVars
      <4>2. QED
        BY <2>3, <4>1, SessionErased, SessionHandled, SessionTaken DEF Asks, NoCall
    <3>4. Asks' => (Expected' => Expected)
      BY <1>0, <1>1, <3>1, <3>3 DEF Expected
    <3>5. QED
      BY <1>1, <1>3, <2>0, <2>2, <3>1, <3>2, <3>3, <3>4, BelievedApart
  <2>4. ASSUME NEW id \in Ids, DestroySession(id) \/ CleanUpSession(id) PROVE Believed'
    <3>1. /\ host'.enabled = host.enabled
          /\ UNCHANGED <<stateEvents, enabled, overtaken, sessionMap, handling>>
          /\ \A m \in Infos : infos'[m].start = infos[m].start
          /\ ~Asks'
      BY <2>4, DestroyTold DEF SameObject, Asks, NoCall
    <3>2. QED
      BY <1>1, <1>3, <2>0, <2>2, <3>1, BelievedApart
  <2>5. ASSUME NEW i \in Ids, AskActive(i) PROVE Believed'
    <3>1. /\ UNCHANGED <<host, infos, stateEvents, enabled, overtaken, sessionMap, handling>>
          /\ ~Asks'
      BY <2>5 DEF AskActive, Asks, NoCall
    <3>2. QED
      BY <1>1, <1>3, <2>0, <2>2, <3>1, BelievedApart
  <2>6. CASE EngineMoves \/ \E wanted \in BOOLEAN : RequestResource(wanted)
    <3>1. /\ UNCHANGED <<connectionVars, enabled, sessionMap, handling, call, overtaken>>
          /\ \A m \in Infos : infos'[m].start = infos[m].start
          /\ \/ stateEvents' = stateEvents /\ host'.enabled = host.enabled
             \/ stateEvents' = IF engine.listening > 0 THEN Append(stateEvents, host'.enabled)
                                                       ELSE stateEvents
      BY <2>6, EngineTold DEF SameObject
    <3>2. (Has' => Has) /\ (Expected' => Expected)
      BY <1>0, <1>1, <2>2, <3>1 DEF Expected
    <3>3. CASE stateEvents' = stateEvents /\ host'.enabled = host.enabled
      BY <1>1, <1>3, <2>0, <3>1, <3>2, <3>3, BelievedApart
    <3>4. CASE engine.listening > 0 /\ stateEvents' = Append(stateEvents, host'.enabled)
      <4>1. host'.enabled \in BOOLEAN
        BY SessionStep DEF SessionInv, SessionTypes, HostRecords
      <4>2. stateEvents' # <<>>
        BY <1>1, <3>4, <4>1, LatestAdded
      <4>3. QED
        BY <4>2 DEF Believed, Quiet
    <3>5. CASE engine.listening = 0 /\ stateEvents' = stateEvents
      <4>1. ~Has' /\ ~Expected'
        BY <2>1, <3>2, <3>5
      <4>2. ~AboutClient'
        BY <1>3, <3>1, <3>5 DEF Believed, StateTold, AboutClient
      <4>3. QED
        BY <4>1, <4>2 DEF Believed
    <3>6. QED
      BY <1>1, <3>1, <3>3, <3>4, <3>5
  <2>7. CASE TakeStateEvent
    <3> DEFINE event == [about |-> Client, event |-> IF Head(stateEvents) THEN "on" ELSE "off"]
    <3>0. wrapper = "live"
      BY <1>0 DEF Reached
    <3>1. /\ stateEvents # <<>> /\ stateEvents' = Tail(stateEvents) /\ host' = host
          /\ Dispatch(wrapper, event)
          /\ UNCHANGED connectionVars
      BY <2>7, <3>0 DEF TakeStateEvent, connectionVars
    <3>2. handling' = event
      BY <3>0, <3>1 DEF Dispatch
    <3>3. (handling'.event = "on" <=> Head(stateEvents)) /\ handling'.about = Client
          /\ handling' # NoEvent
      BY <3>2 DEF NoEvent
    <3>4. engine'.listening # 0
      BY <3>1 DEF StateTold, connectionVars
    <3>5. stateEvents' = <<>> => (Head(stateEvents) <=> host.enabled)
      BY <1>1, <3>1, LatestOfTail DEF StateTold
    <3>6. QED
      BY <3>1, <3>3, <3>4, <3>5 DEF Believed, Quiet, AboutClient
  <2>8. CASE HandleStateEvent
    <3> DEFINE on == handling.event = "on"
    <3>1. /\ UNCHANGED <<host, infos, sessionMap, stateEvents>> /\ AboutClient /\ handling' = NoEvent
          /\ app.pc # "gone"
      BY <1>0, <2>8 DEF HandleStateEvent, AboutClient, Deleting
    <3>2. enabled' = on /\ call' = IF Asks THEN [call EXCEPT !.missed = (call.answer # on)] ELSE call
      BY <2>8, <3>1 DEF HandleStateEvent, Asks
    <3>3. ~AboutClient'
      BY <3>1 DEF AboutClient
    <3>4. stateEvents = <<>> => (on <=> host.enabled)
      BY <1>3, <3>1 DEF Believed
    <3>5. stateEvents = <<>> => (enabled' <=> host'.enabled)
      BY <3>1, <3>2, <3>4
    <3>6. Asks' => (call'.missed \/ (call'.answer <=> on))
      <4>1. call \in CallRecords
        BY DEF Inv, SessionInv, SessionTypes
      <4> HIDE DEF on
      <4>2. CASE ~Asks
        BY <3>2, <4>2 DEF Asks
      <4>3. CASE Asks
        <5> DEFINE missed == call.answer # on
        <5>1. call' = [call EXCEPT !.missed = missed]
          BY <3>2, <4>3
        <5> HIDE DEF missed
        <5>2. call'.missed = missed /\ call'.answer = call.answer
          BY <4>1, <5>1 DEF CallRecords
        <5>3. missed \/ (call.answer <=> on)
          BY Zenon DEF missed
        <5>4. QED
          BY <5>2, <5>3
      <4>4. QED
        BY <4>2, <4>3
    <3> HIDE DEF on
    <3>7. QED
      BY <3>1, <3>3, <3>4, <3>5, <3>6 DEF Believed, Quiet
  <2>9. CASE StoreSession
    <3>1. /\ UNCHANGED <<host, stateEvents, handling>> /\ call' = NoCall /\ Asks
          /\ enabled' = call.answer /\ overtaken' = call.missed /\ call.op = "create"
          /\ \A i \in Ids : sessionMap'[i] = IF i = call.id THEN call.info ELSE sessionMap[i]
          /\ \A m \in Infos : infos'[m].start = infos[m].start
          /\ UNCHANGED connectionVars
      BY <2>9, SessionStored DEF SameObject, Asks
    <3>2. Has' => Has \/ Expected
      BY <1>0, <1>1, <3>1 DEF Has, Expected
    <3>3. ~Asks' /\ (Quiet' <=> Quiet)
      BY <3>1 DEF Asks, NoCall, Quiet, AboutClient
    <3>4. Quiet' /\ Has' => overtaken' \/ (enabled' <=> host'.enabled)
      BY <1>3, <3>1, <3>2, <3>3 DEF Believed
    <3>5. stateEvents' = <<>> /\ AboutClient'
            => engine'.listening # 0 /\ (handling'.event = "on" <=> host'.enabled)
      BY <1>3, <3>1 DEF Believed, AboutClient, connectionVars
    <3>6. QED
      BY <3>3, <3>4, <3>5 DEF Believed
  <2>10. CASE StoreAnswer
    <3>1. /\ UNCHANGED <<host, sessionMap, stateEvents, handling>> /\ call' = NoCall
          /\ call.op \in {"enabled", "active"}
          /\ call.op = "enabled" => enabled' = call.answer /\ overtaken' = call.missed
          /\ call.op = "active" => UNCHANGED <<enabled, overtaken>>
          /\ \A m \in Infos : infos'[m].start = infos[m].start
          /\ UNCHANGED connectionVars
      BY <2>10, AnswerStored DEF SameObject
    <3>2. (Has' => Has) /\ ~Asks' /\ (Quiet' <=> Quiet)
      BY <2>2, <3>1 DEF Asks, NoCall, Quiet, AboutClient
    <3>3. Quiet' /\ Has' => overtaken' \/ (enabled' <=> host'.enabled)
      <4>1. CASE call.op = "enabled"
        BY <1>3, <3>1, <3>2, <4>1 DEF Believed, Asks
      <4>2. CASE call.op = "active"
        BY <1>3, <3>1, <3>2, <4>2 DEF Believed
      <4>3. QED
        BY <3>1, <4>1, <4>2
    <3>4. stateEvents' = <<>> /\ AboutClient'
            => engine'.listening # 0 /\ (handling'.event = "on" <=> host'.enabled)
      BY <1>3, <3>1 DEF Believed, AboutClient, connectionVars
    <3>5. QED
      BY <3>2, <3>3, <3>4 DEF Believed
  <2>11. CASE AskEnabled \/ CreateSession
    <3>1. /\ UNCHANGED <<connectionVars, sessionMap, stateEvents, handling, enabled, overtaken>>
          /\ call = NoCall /\ host'.enabled = host.enabled
          /\ \A m \in Infos : m \in Existing => infos'[m].start = infos[m].start
          /\ Asks' => call'.answer = host.enabled
      <4>1. CASE AskEnabled
        BY <4>1 DEF AskEnabled, Calls, Ready, NoCall
      <4>2. CASE CreateSession
        BY <4>2, SessionCreated DEF Granted, Asks, NoCall
      <4>3. QED
        BY <2>11, <4>1, <4>2
    <3>2. (Has' => Has) /\ (Quiet' <=> Quiet)
      BY <1>0, <1>1, <3>1 DEF Has, Quiet, AboutClient
    <3>3. Quiet' /\ Has' => overtaken' \/ (enabled' <=> host'.enabled)
      BY <1>3, <3>1, <3>2 DEF Believed
    <3>4. stateEvents' = <<>> /\ AboutClient'
            => engine'.listening # 0 /\ (handling'.event = "on" <=> host'.enabled)
      BY <1>3, <3>1 DEF Believed, AboutClient, connectionVars
    <3>5. QED
      BY <3>1, <3>3, <3>4 DEF Believed
  <2>12. ~Crash /\ ~Forget
    <3>1. ~Forget
      BY <1>0 DEF Forget, Unregister, Deleting, AtApi
    <3>2. QED
      BY <1>0, <1>3, <3>1
  <2>13. QED
    BY SessionSteps, <2>3, <2>4, <2>5, <2>6, <2>7, <2>8, <2>9, <2>10, <2>11, <2>12
<1>4. QED
  BY <1>2, <1>3
-----------------------------------------------------------------------------
(* Whether the session has the resource.                                   *)

\* The app's session, created by the engine that is watched, where sessions
\* have to reserve the resource.
Served == Here /\ scene.policy = "RESERVATION" /\ host.info # 0 /\ Own(host.info)

Resource == {"acquired", "released"}

\* What the object has, is about to be told or is about to store of the
\* resource is true, or a newer event overtook it.
Acquired ==
  Served =>
    LET o == infos[host.info]
        handled == handling.about = host.info
    IN  /\ host.ours # 0 /\ o.life = "live" /\ o.wrapper = "live"
        /\ o.events \in Seq(Resource)
        /\ handled => handling.event \in Resource
        /\ o.events # <<>> => (Latest(o.events) = "acquired" <=> Active(host))
        /\ o.events = <<>> /\ handled => (handling.event = "acquired" <=> Active(host))
        /\ o.events = <<>> /\ ~handled => o.overtaken \/ (o.got <=> Active(host))
        /\ o.events = <<>> /\ ~handled /\ call.op = "active" /\ call.info = host.info
             => call.missed \/ (call.answer <=> Active(host))

\* A step that is not about the object of the session.
LEMMA AcquiredApart ==
  ASSUME Acquired, Served,
         host'.info = host.info, host'.ours = host.ours, Active(host') <=> Active(host),
         infos'[host.info].life = infos[host.info].life,
         infos'[host.info].wrapper = infos[host.info].wrapper,
         infos'[host.info].events = infos[host.info].events,
         infos'[host.info].got = infos[host.info].got,
         infos'[host.info].overtaken = infos[host.info].overtaken,
         handling' = handling \/ (handling.about # host.info /\ handling'.about # host.info),
         call'.op = "active" /\ call'.info = host.info =>
           /\ call.op = "active" /\ call.info = host.info
           /\ call'.answer = call.answer /\ call'.missed = call.missed,
         UNCHANGED scene
  PROVE  Acquired'
<1> DEFINE o == infos[host.info]
<1>1. /\ o'.life = o.life /\ o'.wrapper = o.wrapper /\ o'.events = o.events /\ o'.got = o.got
      /\ o'.overtaken = o.overtaken
      /\ (handling'.about = host'.info <=> handling.about = host.info)
      /\ handling.about = host.info => handling' = handling
  OBVIOUS
<1>2. Active(host)' <=> Active(host)
  BY DEF Active
<1> HIDE DEF o
<1>3. QED
  BY <1>1, <1>2 DEF Acquired, o

\* The events of the resource tell what became of it.
LEMMA AnnouncedTells ==
  ASSUME scene.policy = "RESERVATION", NEW h, NEW h2
  PROVE  \/ Announced(h, h2) = <<>> /\ (Active(h) <=> Active(h2))
         \/ \E e \in Resource : Announced(h, h2) = <<e>> /\ (e = "acquired" <=> Active(h2))
BY DEF Announced, Resource

\* The engine is moved: its latest event says what it moved to.
LEMMA AcquiredMoves ==
  ASSUME Inv, Acquired, Served, UNCHANGED scene, Here',
         EngineMoves \/ \E wanted \in BOOLEAN : RequestResource(wanted)
  PROVE  Acquired'
<1> DEFINE o == infos[host.info]
<1>0. host.info \in Infos /\ scene.policy = "RESERVATION"
  BY DEF Served, Inv, SessionInv, SessionTypes, HostRecords
<1>1. /\ UNCHANGED <<handling, call>> /\ host'.ours = host.ours /\ host'.info = host.info
      /\ o'.life = o.life /\ o'.wrapper = o.wrapper /\ o'.got = o.got /\ o'.overtaken = o.overtaken
      /\ o'.events = o.events \o Announced(host, host')
  BY <1>0, EngineTold DEF SameObject
<1>2. o.events \in Seq(Resource)
  BY DEF Acquired, Served
<1>3. CASE Announced(host, host') = <<>> /\ (Active(host) <=> Active(host'))
  <2>1. o'.events = o.events
    BY <1>1, <1>2, <1>3
  <2> HIDE DEF o
  <2>2. QED
    BY <1>1, <1>3, <2>1, AcquiredApart DEF o
<1>4. ASSUME NEW e \in Resource, Announced(host, host') = <<e>>,
             e = "acquired" <=> Active(host')
      PROVE  Acquired'
  <2>1. o'.events = Append(o.events, e)
    BY <1>1, <1>2, <1>4, LatestAdded
  <2>2. o'.events # <<>> /\ o'.events \in Seq(Resource) /\ Latest(o'.events) = e
    <3> DEFINE events == o.events
    <3>1. events \in Seq(Resource)
      BY <1>2
    <3> HIDE DEF events
    <3>2. /\ Append(events, e) # <<>> /\ Append(events, e) \in Seq(Resource)
          /\ Latest(Append(events, e)) = e
      BY <1>4, <3>1, LatestAdded
    <3>3. QED
      BY <2>1, <3>2 DEF events
  <2>3. Active(host)' <=> e = "acquired"
    BY <1>4 DEF Active
  <2> HIDE DEF o
  <2>4. QED
    BY <1>1, <2>2, <2>3 DEF Acquired, Served, o
<1>5. QED
  BY <1>0, <1>3, <1>4, AnnouncedTells

\* A session that was just created is told at once if it may speak.
LEMMA AcquiredCreated ==
  ASSUME Inv, Attached, Objects, UNCHANGED scene, CreateSession, Granted, Served',
         infos'[Made + 1].start # 0
  PROVE  Acquired'
<1> DEFINE o == infos[host.info]
<1>0. scene.policy = "RESERVATION" /\ host'.info = Made + 1 /\ ~Active(host) /\ Served'
  BY DEF Served, Granted, Active
<1>1. /\ Made + 1 \in Infos /\ Made + 1 \notin Existing /\ UNCHANGED <<connectionVars, handling>>
      /\ connected /\ app = AtApi /\ call'.op # "active"
      /\ o'.life = "live" /\ o'.wrapper = "live" /\ o'.events = Announced(host, host')
      /\ o'.got <=> policy # "RESERVATION"
  <2>1. /\ Made + 1 \in Infos /\ Made + 1 \notin Existing /\ UNCHANGED <<connectionVars, handling>>
        /\ connected /\ app = AtApi /\ call'.op # "active"
    BY SessionCreated DEF Objects, NoCall
  <2>2. /\ infos'[Made + 1].life = "live" /\ infos'[Made + 1].wrapper = "live"
        /\ infos'[Made + 1].events = Announced(host, host')
        /\ infos'[Made + 1].got <=> policy # "RESERVATION"
    BY SessionCreated DEF Objects, Granted
  <2>3. QED
    BY <1>0, <2>1, <2>2
<1>2. policy = "RESERVATION"
  <2>1. Here
    BY <1>1 DEF Served, Here, connectionVars, appVars, Deleting
  <2>2. QED
    BY <1>0, <1>1, <2>1 DEF Attached
<1>3. handling'.about # host'.info
  BY <1>0, <1>1 DEF Objects, Named, Client, Infos
<1>4. host'.ours # 0
  <2>1. host.lastId \in Nat
    BY SceneTypes DEF Inv, SessionInv, SessionTypes, HostRecords
  <2>2. QED
    BY <2>1 DEF Granted
<1>5. Active(host)' <=> Active(host')
  BY DEF Active
<1>6. CASE Announced(host, host') = <<>> /\ (Active(host) <=> Active(host'))
  <2>1. <<>> \in Seq(Resource)
    OBVIOUS
  <2> HIDE DEF o
  <2>2. QED
    BY <1>0, <1>1, <1>2, <1>3, <1>4, <1>5, <1>6, <2>1 DEF Acquired, o
<1>7. ASSUME NEW e \in Resource, Announced(host, host') = <<e>>, e = "acquired" <=> Active(host')
      PROVE  Acquired'
  <2>1. <<e>> \in Seq(Resource) /\ <<e>> # <<>> /\ Latest(<<e>>) = e
    BY <1>7 DEF Latest
  <2> HIDE DEF o
  <2>2. QED
    BY <1>0, <1>1, <1>3, <1>4, <1>5, <1>7, <2>1 DEF Acquired, o
<1>8. QED
  BY <1>0, <1>6, <1>7, AnnouncedTells

\* The dispatcher takes an event of the session, and handles it.
LEMMA AcquiredEvents ==
  ASSUME Inv, Acquired, Served, UNCHANGED scene,
         HandleSessionEvent \/ \E n \in Infos : TakeSessionEvent(n)
  PROVE  Acquired'
<1> DEFINE o == infos[host.info]
           n == host.info
<1>0. n \in Infos /\ n # 0
  BY DEF Served, Inv, SessionInv, SessionTypes, HostRecords
<1>1. CASE HandleSessionEvent
  <2>1. /\ host' = host /\ handling' = NoEvent /\ o'.life = o.life /\ o'.wrapper = o.wrapper
        /\ o'.events = o.events
        /\ call'.op = call.op /\ call'.info = call.info /\ call'.answer = call.answer
        /\ call.op # "active" \/ call.info # handling.about => call' = call
        /\ n # handling.about => infos'[n] = infos[n]
    BY <1>0, <1>1, SessionHandled DEF SameObject
  <2>2. CASE handling.about # n
    <3>1. handling'.about # n
      BY <1>0, <2>1 DEF NoEvent, Client
    <3>2. Active(host') <=> Active(host)
      BY <2>1
    <3>3. QED
      BY <2>1, <2>2, <3>1, <3>2, AcquiredApart
  <2>3. CASE handling.about = n
    <3>1. o.life = "live" /\ handling.event \in Resource
      BY <2>3 DEF Acquired
    <3>2. /\ o'.got <=> handling.event = "acquired"
          /\ call.op = "active" /\ call.info = n
               => call'.missed \/ (call.answer <=> handling.event = "acquired")
      BY <1>1, <2>1, <2>3, <3>1, SessionHandled DEF Resource
    <3>3. handling'.about # n
      BY <1>0, <2>1 DEF NoEvent, Client
    <3>4. Active(host)' <=> Active(host)
      BY <2>1 DEF Active
    <3> HIDE DEF o
    <3>5. QED
      BY <2>1, <2>3, <3>2, <3>3, <3>4 DEF Acquired, o
  <2>4. QED
    BY <2>2, <2>3
<1>2. ASSUME NEW m \in Infos, TakeSessionEvent(m) PROVE Acquired'
  <2>1. /\ host' = host /\ call' = call /\ handling = NoEvent /\ o'.life = o.life
        /\ o'.got = o.got /\ o'.overtaken = o.overtaken
    BY <1>0, <1>2, SessionTaken
  <2>2. handling.about # n
    BY <1>0, <2>1 DEF NoEvent, Client
  <2>3. CASE m # n
    <3>1. infos'[n] = infos[n] /\ (handling' = handling \/ handling'.about = m)
      BY <1>0, <1>2, <2>3, SessionTaken
    <3>2. Active(host') <=> Active(host)
      BY <2>1
    <3>3. QED
      BY <2>1, <2>2, <2>3, <3>1, <3>2, AcquiredApart
  <2>4. CASE m = n
    <3>1. o.wrapper = "live" /\ o.events \in Seq(Resource)
      BY DEF Acquired
    <3>2. /\ handling'.about = n /\ handling'.event = Head(o.events) /\ o'.wrapper = "live"
          /\ o'.events = Tail(o.events) /\ o.events # <<>>
      BY <1>2, <2>1, <2>4, <3>1, SessionTaken
    <3>3. Active(host)' <=> Active(host)
      BY <2>1 DEF Active
    <3>4. Head(o.events) \in Resource /\ Tail(o.events) \in Seq(Resource)
      <4> DEFINE events == o.events
      <4>1. events \in Seq(Resource) /\ events # <<>>
        BY <3>1, <3>2
      <4> HIDE DEF events
      <4>2. Head(events) \in Resource /\ Tail(events) \in Seq(Resource)
        BY ONLY <4>1, HeadTailProperties
      <4>3. QED
        BY <4>2 DEF events
    <3>5. IF o'.events = <<>> THEN Head(o.events) = Latest(o.events)
                              ELSE Latest(o'.events) = Latest(o.events)
      BY <3>1, <3>2, LatestOfTail
    <3>6. Latest(o.events) = "acquired" <=> Active(host)
      BY <3>2 DEF Acquired
    <3> HIDE DEF o
    <3>7. QED
      BY <2>1, <3>2, <3>3, <3>4, <3>5, <3>6 DEF Acquired, o
  <2>5. QED
    BY <2>3, <2>4
<1>3. QED
  BY <1>1, <1>2

\* The app's calls, but for the creation.
LEMMA AcquiredCalls ==
  ASSUME Inv, HostNamed, Acquired, Served, UNCHANGED scene, Served',
         \/ StoreSession \/ StoreAnswer \/ EraseSession \/ (\E i \in Ids : AskActive(i))
         \/ \E i \in Ids : DestroySession(i) \/ CleanUpSession(i)
  PROVE  Acquired'
<1> DEFINE o == infos[host.info]
           n == host.info
<1>0. n \in Infos /\ n # 0 /\ ~Deleting
  BY DEF Served, Here, Inv, SessionInv, SessionTypes, HostRecords
<1>1. CASE StoreSession
  <2>1. /\ host' = host /\ handling' = handling /\ call'.op # "active"
        /\ o'.life = o.life /\ o'.wrapper = o.wrapper /\ o'.events = o.events /\ o'.got = o.got
        /\ o'.overtaken = o.overtaken
    BY <1>0, <1>1, SessionStored DEF SameObject, NoCall
  <2>2. Active(host') <=> Active(host)
    BY <2>1
  <2>3. QED
    BY <2>1, <2>2, AcquiredApart
<1>2. CASE StoreAnswer
  <2>1. /\ host' = host /\ handling' = handling /\ call'.op # "active"
        /\ o'.life = o.life /\ o'.wrapper = o.wrapper /\ o'.events = o.events
        /\ IF call.op = "active" /\ call.info = n
             THEN (o'.got <=> call.answer) /\ (o'.overtaken <=> call.missed)
             ELSE infos'[n] = infos[n]
    BY <1>0, <1>2, AnswerStored DEF SameObject, NoCall
  <2>2. (Active(host') <=> Active(host)) /\ (Active(host)' <=> Active(host))
    BY <2>1 DEF Active
  <2>3. CASE call.op = "active" /\ call.info = n
    <3>1. /\ host.ours # 0 /\ o.life = "live" /\ o.wrapper = "live" /\ o.events \in Seq(Resource)
          /\ handling.about = n => handling.event \in Resource
          /\ o.events # <<>> => (Latest(o.events) = "acquired" <=> Active(host))
          /\ o.events = <<>> /\ handling.about = n => (handling.event = "acquired" <=> Active(host))
      BY DEF Acquired
    <3>2. o.events = <<>> /\ handling.about # n => call.missed \/ (call.answer <=> Active(host))
      BY <2>3 DEF Acquired
    <3>3. o.events = <<>> /\ handling.about # n => o'.overtaken \/ (o'.got <=> Active(host))
      BY <2>1, <2>3, <3>2
    <3> HIDE DEF o
    <3>4. QED
      BY <2>1, <2>2, <3>1, <3>3 DEF Acquired, o
  <2>4. CASE ~(call.op = "active" /\ call.info = n)
    BY <2>1, <2>2, <2>4, AcquiredApart
  <2>5. QED
    BY <2>3, <2>4
<1>3. CASE EraseSession
  <2>1. /\ host' = host /\ handling' = handling /\ call'.op # "active"
        /\ call.op = "erase" /\ (n # call.info => infos'[n] = infos[n])
    BY <1>0, <1>3, SessionErased DEF NoCall
  <2>2. n # call.info
    BY <1>0, <2>1 DEF HostNamed
  <2>3. Active(host') <=> Active(host)
    BY <2>1
  <2>4. QED
    BY <2>1, <2>2, <2>3, AcquiredApart
<1>4. ASSUME NEW i \in Ids, AskActive(i) PROVE Acquired'
  <2> DEFINE answer == host.ours = i /\ Active(host)
  <2>1. /\ UNCHANGED <<host, infos, handling>>
        /\ call' = [NoCall EXCEPT !.op = "active", !.info = sessionMap[i], !.answer = answer]
    BY <1>4 DEF AskActive
  <2>2. call'.info = sessionMap[i] /\ call'.answer = answer
    BY <2>1 DEF NoCall
  <2>3. call'.info = n => (answer <=> Active(host))
    BY <1>0, <2>2 DEF HostNamed
  <2> HIDE DEF answer
  <2>4. call'.info = n => (call'.answer <=> Active(host))
    BY <2>2, <2>3
  <2>5. Active(host)' <=> Active(host)
    BY <2>1 DEF Active
  <2>6. QED
    BY <2>1, <2>4, <2>5 DEF Acquired
<1>5. ASSUME NEW i \in Ids, DestroySession(i) \/ CleanUpSession(i) PROVE Acquired'
  <2>1. host'.info # 0
    BY DEF Served
  <2>2. /\ host'.ours = host.ours /\ host'.info = host.info /\ host'.wanted = host.wanted
        /\ host'.enabled = host.enabled /\ infos' = infos /\ handling' = handling
        /\ call = NoCall /\ (call' = call \/ call'.op = "erase")
    BY <1>5, <2>1, DestroyTold
  <2>3. Active(host') <=> Active(host)
    BY <2>2 DEF Active
  <2>4. QED
    BY <2>2, <2>3, AcquiredApart DEF NoCall
<1>6. QED
  BY <1>1, <1>2, <1>3, <1>4, <1>5

LEMMA AcquiredStep ==
  ASSUME Inv, Attached, Objects, HostNamed, Acquired, Next
  PROVE  Acquired'
<1> SUFFICES ASSUME Served' PROVE Acquired'
  BY DEF Acquired
<1> DEFINE n == host.info
<1>0. /\ UNCHANGED scene /\ Here' /\ ~Deleting'
      /\ engine'.start = engine.start
      /\ (Here /\ ~Crash) \/ (UNCHANGED quietVars /\ \A m \in Infos : ~Own(m))
  BY HereBefore DEF Next, Served, Here, Objects
<1>1. n \in Infos \cup {0}
  BY DEF Inv, SessionInv, SessionTypes, HostRecords
<1>2. ASSUME host'.info = host.info, \A m \in Infos : infos'[m].start = infos[m].start
      PROVE  Served
  <2>1. n \in Infos /\ infos[n].start = engine.start /\ host.info # 0
    BY <1>0, <1>1, <1>2 DEF Served, Own
  <2>2. Here
    BY <1>0, <2>1 DEF Own
  <2>3. QED
    BY <1>0, <2>1, <2>2 DEF Served, Own
<1>3. CASE EngineMoves \/ \E wanted \in BOOLEAN : RequestResource(wanted)
  BY <1>0, <1>2, <1>3, EngineTold, AcquiredMoves DEF SameObject
<1>4. CASE HandleSessionEvent \/ \E m \in Infos : TakeSessionEvent(m)
  <2>1. host' = host /\ \A m \in Infos : infos'[m].start = infos[m].start
    BY <1>4, SessionHandled, SessionTaken DEF SameObject
  <2>2. QED
    BY <1>0, <1>2, <1>4, <2>1, AcquiredEvents
<1>5. CASE StoreSession \/ StoreAnswer \/ EraseSession \/ \E i \in Ids : AskActive(i)
  <2>1. host' = host /\ \A m \in Infos : infos'[m].start = infos[m].start
    BY <1>5, SessionStored, AnswerStored, SessionErased DEF SameObject, AskActive
  <2>2. QED
    BY <1>0, <1>2, <1>5, <2>1, AcquiredCalls
<1>6. ASSUME NEW i \in Ids, DestroySession(i) \/ CleanUpSession(i) PROVE Acquired'
  <2>1. host'.info = host.info /\ \A m \in Infos : infos'[m].start = infos[m].start
    BY <1>6, DestroyTold DEF SameObject, Served
  <2>2. QED
    BY <1>0, <1>2, <1>6, <2>1, AcquiredCalls
<1>7. CASE CreateSession
  <2>1. CASE Granted /\ infos'[Made + 1].start # 0
    BY <1>0, <1>7, <2>1, AcquiredCreated
  <2>2. CASE Granted /\ infos'[Made + 1].start = 0
    <3>1. engine.start = 0
      BY <1>0, <2>2 DEF Served, Own, Granted
    <3>2. Here /\ engine.state = "ready"
      BY <1>0, <1>7, SessionCreated, HereBefore
         DEF Objects, Here, connectionVars, appVars, Deleting
    <3>3. QED
      BY <3>1, <3>2 DEF Here, Inv, ConnectionInv, Core, WatchedIsUp
  <2>3. CASE UNCHANGED <<host, call>>
    <3>1. /\ n # Made + 1 /\ UNCHANGED handling
          /\ \A m \in Infos : m # Made + 1 => infos'[m] = infos[m]
      <4>1. /\ UNCHANGED handling /\ Made + 1 \in Infos /\ Made + 1 \notin Existing
            /\ \A m \in Infos : m # Made + 1 => infos'[m] = infos[m]
        BY <1>7, SessionCreated DEF Objects
      <4>2. n # 0 /\ infos[n].life # "none"
        BY <2>3 DEF Served, Inv, SessionInv, HostNamesObject
      <4>3. QED
        BY <4>1, <4>2 DEF Existing
    <3>2. host.info # 0 /\ infos'[n] = infos[n]
      BY <1>1, <2>3, <3>1 DEF Served
    <3>3. Served
      <4>1. Own(n) /\ n \in Infos
        BY <1>0, <1>1, <2>3, <3>2 DEF Served, Own
      <4>2. QED
        BY <1>0, <3>2, <4>1 DEF Served
    <3>4. Active(host') <=> Active(host)
      BY <2>3
    <3>5. QED
      BY <1>0, <2>3, <3>1, <3>2, <3>3, <3>4, AcquiredApart
  <2>4. QED
    BY <1>7, <2>1, <2>2, <2>3, SessionCreated DEF Objects
<1>8. CASE \/ UNCHANGED quietVars \/ Install \/ TakeStateEvent \/ HandleStateEvent \/ AskEnabled
  <2>1. UNCHANGED <<host, infos>>
    BY <1>8 DEF sessionVars, quietVars, Install, TakeStateEvent, HandleStateEvent, AskEnabled
  <2>2. Served
    BY <1>2, <2>1
  <2>3. n # 0 /\ Client = 0
    BY <2>2 DEF Served, Client
  <2>4. handling' = handling \/ (handling.about # n /\ handling'.about # n)
    <3>1. CASE TakeStateEvent
      <4>1. handling.about = Client
        BY <3>1 DEF TakeStateEvent, DispatcherFree, NoEvent
      <4>2. handling' = handling \/ handling'.about = Client
        BY <1>0, <3>1, TakeStateStep
      <4>3. QED
        BY <2>3, <4>1, <4>2
    <3>2. CASE HandleStateEvent
      BY <2>3, <3>2 DEF HandleStateEvent, NoEvent
    <3>3. CASE UNCHANGED quietVars \/ Install \/ AskEnabled
      BY <3>3 DEF sessionVars, quietVars, Install, AskEnabled
    <3>4. QED
      BY <1>8, <3>1, <3>2, <3>3
  <2>5. call'.op = "active" => call' = call
    <3>1. CASE HandleStateEvent
      BY <3>1 DEF HandleStateEvent, Inv, SessionInv, SessionTypes, CallRecords
    <3>2. CASE UNCHANGED quietVars \/ Install \/ TakeStateEvent \/ AskEnabled
      BY <3>2 DEF sessionVars, quietVars, callVars, Install, TakeStateEvent, AskEnabled, NoCall
    <3>3. QED
      BY <1>8, <3>1, <3>2
  <2>6. Active(host') <=> Active(host)
    BY <2>1
  <2>7. QED
    BY <1>0, <2>1, <2>2, <2>4, <2>5, <2>6, AcquiredApart
<1>9. ~Forget /\ (Crash => Acquired')
  <2>1. ~Forget
    BY <1>0 DEF Forget, Unregister, Deleting, AtApi
  <2>2. Crash => host'.info = 0
    BY CrashTold DEF NewHost
  <2>3. QED
    BY <2>1, <2>2 DEF Served
<1>10. QED
  BY SessionSteps, <1>3, <1>4, <1>5, <1>6, <1>7, <1>8, <1>9

-----------------------------------------------------------------------------
(* The theorem.                                                            *)

\* What the client knows of its session, and how it came to know it.
Informed ==
  Attached /\ Objects /\ HostNamed /\ Numbered /\ StateTold /\ Reached /\ Believed /\ Acquired

LEMMA InformedInit == Init => Informed
<1> SUFFICES ASSUME Init PROVE Informed
  OBVIOUS
<1>1. /\ engine.listening = 0 /\ watched = 0 /\ app.pc = "construct" /\ host = NewHost
      /\ sessionMap = [i \in Ids |-> 0] /\ infos = [n \in Infos |-> NoInfo] /\ wrapper = "live"
      /\ stateEvents = <<>> /\ handling = NoEvent /\ call = NoCall /\ engine.start \in {0, 1}
  BY DEF Init, ConnectionInit, AtApi
<1>2. Attached
  BY <1>1 DEF Attached, Here, NewHost
<1>3. Objects
  <2>1. \A n \in Infos : infos[n].start = 0 /\ infos[n].life = "none"
    BY <1>1 DEF NoInfo
  <2>2. Existing = {} /\ Made = 0
    BY <2>1, FS_EmptySet DEF Existing, Made
  <2>3. Ordered
    BY <2>2 DEF Ordered
  <2>4. Named
    BY <1>1 DEF Named, NoEvent, NoCall
  <2>5. ~Deleting /\ (engine.start = 0 => engine.state = "down")
    BY <1>1 DEF Deleting, Init, ConnectionInit
  <2>6. QED
    BY <1>1, <2>1, <2>3, <2>4, <2>5 DEF Objects, Current, Own
<1>4. HostNamed /\ Numbered /\ StateTold /\ Acquired
  BY <1>1 DEF HostNamed, Numbered, StateTold, Acquired, Served, Here, NewHost
<1>5. Reached /\ Believed
  BY <1>1 DEF Reached, Believed, Here, NoEvent, NoInfo
<1>6. QED
  BY <1>2, <1>3, <1>4, <1>5 DEF Informed

\* Once the events have arrived the client lets its session speak exactly
\* when the engine would: for any bounds and scenes.
THEOREM SpeaksAsTold == Spec => []SpeaksWhenActive
<1>1. Inv /\ Informed /\ [Next]_vars => Informed'
  <2> SUFFICES ASSUME Inv, Informed, [Next]_vars PROVE Informed'
    OBVIOUS
  <2>1. CASE Next
    BY <2>1, AttachedStep, CurrentStep, OrderedStep, NamedStep, HostNamedStep, NumberedStep,
       StateToldStep, ReachedStep, BelievedStep, AcquiredStep DEF Informed, Objects
  <2>2. CASE UNCHANGED vars
    <3>1. /\ UNCHANGED <<scene, engine, watched, manager, connected, startup, app, host, policy,
                         enabled, sessionMap, infos, wrapper, stateEvents>>
          /\ UNCHANGED <<handling, call, overtaken>>
      BY <2>2 DEF vars, connectionVars, sessionVars, quietVars, callVars, flags, appVars
    <3>2. Deleting' = Deleting /\ Existing' = Existing /\ Made' = Made /\ Here' = Here
      BY <3>1 DEF Deleting, Existing, Made, Here, Infos
    <3>3. Attached' /\ Objects' /\ HostNamed' /\ Numbered'
      BY <3>1, <3>2 DEF Informed, Attached, Objects, Current, Own, Ordered, Named, HostNamed, Numbered
    <3>4. StateTold' /\ Reached' /\ Believed'
      BY <3>1, <3>2 DEF Informed, StateTold, Reached, Believed, AboutClient, Quiet, Has, Own, Asks,
                        Expected
    <3>5. Acquired'
      BY <3>1, <3>2 DEF Informed, Acquired, Served, Own, Active
    <3>6. QED
      BY <3>3, <3>4, <3>5 DEF Informed
  <2>3. QED
    BY <2>1, <2>2
<1>2. Inv /\ Informed => SpeaksWhenActive
  <2> SUFFICES ASSUME Inv, Informed, NEW id \in Ids,
                      sessionMap[id] # 0, host.ours = id, Settled(id),
                      infos[sessionMap[id]].start = engine.start,
                      ~overtaken, ~infos[sessionMap[id]].overtaken,
                      scene.policy = "OPEN" => infos[sessionMap[id]].got
               PROVE  MaySpeak(id) <=> Active(host)
    BY DEF SpeaksWhenActive
  <2>1. /\ connected /\ app = AtApi /\ call = NoCall /\ Answers /\ handling = NoEvent
        /\ stateEvents = <<>> /\ infos[sessionMap[id]].events = <<>>
    BY DEF Settled, Ready
  <2>2. Here
    <3>1. Reachable
      BY <2>1, AnswersReach DEF Inv
    <3>2. ~Deleting
      BY <2>1 DEF Deleting, AtApi
    <3>3. QED
      BY <2>1, <3>1, <3>2 DEF Here, Reachable, Answers, Inv, ConnectionInv, Core, WatchedIsUp
  <2>3. sessionMap[id] = host.info /\ host.info # 0
    BY <2>2 DEF Informed, Numbered, Own
  <2>4. enabled <=> host.enabled
    <3>1. Quiet /\ Has
      BY <2>1, <2>3 DEF Quiet, AboutClient, Has, Own
    <3>2. QED
      BY <2>2, <3>1 DEF Informed, Believed
  <2>5. host.ours # 0
    BY DEF Ids
  <2>6. CASE scene.policy = "OPEN"
    BY <2>4, <2>5, <2>6 DEF MaySpeak, Active
  <2>7. CASE scene.policy = "RESERVATION"
    <3>1. Served
      BY <2>2, <2>3, <2>7 DEF Served, Own
    <3>2. handling.about # host.info
      BY <2>1, <2>3 DEF NoEvent, Client
    <3>3. infos[host.info].got <=> Active(host)
      BY <2>1, <2>3, <3>1, <3>2 DEF Informed, Acquired
    <3>4. Active(host) => host.enabled
      BY DEF Active
    <3>5. QED
      BY <2>3, <2>4, <3>3, <3>4 DEF MaySpeak
  <2>8. QED
    BY <2>6, <2>7, SceneTypes DEF Inv
<1>3. QED
  BY SessionInvariance, InformedInit, <1>1, <1>2, PTL DEF Spec
=============================================================================
