---------------------- MODULE TTSClientSessions_proofs ----------------------
(***************************************************************************)
(* Proofs about the connection of a client, for any settings and scenes:   *)
(* however many crashes and restarts there are, one start of the engine    *)
(* holds the handlers of the client at most once.                          *)
(*                                                                         *)
(* A second installation needs the startup thread to go round its loop     *)
(* while the start it installed its handlers with is still alive.  It goes *)
(* round only when it was told of a crash; Core says that it is told of    *)
(* the crash of the very start that m_manager points to, and only while it *)
(* waits.                                                                  *)
(***************************************************************************)
EXTENDS TTSClientSessions, FiniteSetTheorems, SequenceTheorems, TLAPS

\* Where the startup thread is once it is connected.
Past == {"test", "send", "free", "erase", "watch", "sleep", "blocked", "done"}

\* The constructor runs before anything else.
Constructing ==
  app.pc = "construct" => startup = "none" /\ ~connected /\ ~serverCrashed

\* The crash of the start m_manager points to is still to come, is about to be
\* told, or is being handled: one of the three.
OneCrashAhead ==
  /\ startup \in {"none", "find"} => manager = 0
  /\ watched # 0 => watched = manager /\ ~notice /\ dispatcher = "idle"
  /\ notice => manager # 0 /\ dispatcher = "idle"
  /\ dispatcher # "idle" => manager # 0

\* The start that is watched is up; one that is pointed to and not watched is
\* gone.
WatchedIsUp ==
  /\ engine.state # "down" => engine.start # 0
  /\ manager <= engine.start
  /\ watched # 0 => watched = engine.start /\ engine.state # "down"
  /\ manager # 0 /\ watched = 0 => manager < engine.start \/ engine.state = "down"

\* The thread is told of a crash when it is connected, and is not connected
\* again before it has found the engine back.
ToldWhenConnected ==
  /\ connected => startup \in Past /\ ~serverCrashed
  /\ dispatcher \in {"connected", "mark"} => startup \in Past /\ ~serverCrashed
  /\ dispatcher = "mark" => ~connected
  /\ serverCrashed => startup \in Past \cup {"probe"}
  /\ startup = "probe" => serverCrashed

\* Once installed, the thread is past the installation and has not been told
\* of a crash.
InstalledAndPast ==
  engine.listening # 0 =>
    watched # 0 /\ ~serverCrashed /\ startup \in Past \cup {"setConnected"}

\* The engine is started once more than it crashed.
StartsBounded == engine.state = "down" => engine.start <= scene.crashes

Core ==
  /\ Constructing /\ OneCrashAhead /\ WatchedIsUp /\ ToldWhenConnected /\ InstalledAndPast
  /\ engine.listening <= 1

ConnectionInv == ConnectionTypeOK /\ StartsBounded /\ (Deleting \/ Core)

\* The engine forgets the handlers of a client that refused an event.
Forgotten ==
  /\ engine' = [engine EXCEPT !.listening = 0]
  /\ UNCHANGED <<notice, watched, manager, flags, cached, startup, key, timeOut, dispatcher, appVars>>

\* A step of one of the three threads or of the engine.
ConnectionStep ==
  \/ Startup \/ InstallHandlers \/ Dispatcher \/ AppReturns \/ Unregister \/ Delete
  \/ (\E k \in Settings : \E v \in Values : CallSet(k, v))
  \/ EngineComesUp \/ EngineCrash \/ Forgotten

\* The sessions change the connection by its own steps only.
LEMMA StepsOfConnection ==
  ASSUME Next
  PROVE  (ConnectionStep \/ UNCHANGED connectionVars) /\ UNCHANGED scene
<1>1. CASE StartupSteps
  BY <1>1 DEF StartupSteps, Install, ConnectionStep, Next
<1>2. CASE DispatcherSteps
  <2>1. CASE TakeStateEvent
    <3>1. UNCHANGED connectionVars \/ Forgotten
      BY <2>1 DEF TakeStateEvent, Forgotten, connectionVars
    <3>2. QED
      BY <3>1 DEF ConnectionStep, Next
  <2>2. QED
    BY <1>2, <2>1 DEF DispatcherSteps, UsesDeleted, EventHandler, HandleStateEvent, TakeSessionEvent,
                      HandleSessionEvent, ConnectionStep, Next
<1>3. CASE AppSteps
  BY <1>3 DEF AppSteps, UsesDeleted, Forget, StoreSession, EraseSession, StoreAnswer,
              CleanUpSession, ConnectionStep, Next
<1>4. CASE AppCalls
  BY <1>4 DEF AppCalls, CreateSession, AskEnabled, DestroySession, AskActive, RequestResource,
              ConnectionStep, Next
<1>5. CASE (EngineComesUp /\ UNCHANGED sessionVars) \/ Crash \/ EngineMoves
  BY <1>5 DEF Crash, EngineMoves, ConnectionStep, Next
<1>6. QED
  BY <1>1, <1>2, <1>3, <1>4, <1>5 DEF Next

-----------------------------------------------------------------------------
(* Types.                                                                  *)

\* The initial state satisfies the invariant.
LEMMA InitInv == Init => ConnectionInv
<1> SUFFICES ASSUME Init PROVE ConnectionInv
  OBVIOUS
<1> USE ConnectionAssumption DEF Init, ConnectionInit, AtApi, Unset, Settings
<1>1. scene.crashes \in Nat /\ scene.sets \in Nat
  OBVIOUS
<1>2. ConnectionTypeOK
  <2>1. engine \in [state : {"down", "starting", "ready"}, start : 0..(scene.crashes + 1),
                   settings : [Settings -> Values \cup {"none"}], listening : Nat]
    BY <1>1
  <2>2. app = [pc |-> "construct", key |-> "enable", value |-> "none"]
    OBVIOUS
  <2>3. scene \in Scenes /\ sets \in 0..scene.sets /\ timeOut \in 0..Patience
    BY <1>1
  <2>4. /\ cached \in [Settings -> Values \cup {"none", "raw", "freed"}]
        /\ early \in [Settings -> Values \cup {"none"}]
        /\ key \in Settings
    OBVIOUS
  <2>5. /\ watched \in 0..(scene.crashes + 1) /\ manager \in 0..(scene.crashes + 1)
        /\ startup = "none" /\ dispatcher = "idle"
    BY <1>1
  <2>6. /\ notice \in BOOLEAN
        /\ connected \in BOOLEAN /\ serverCrashed \in BOOLEAN /\ quit \in BOOLEAN
    BY Zenon
  <2>7. QED
    BY ONLY <2>1, <2>2, <2>3, <2>4, <2>5, <2>6 DEF ConnectionTypeOK, Settings
<1>3. StartsBounded
  BY <1>1 DEF StartsBounded
<1>4. Core
  BY DEF Core, Constructing, OneCrashAhead, WatchedIsUp, ToldWhenConnected, InstalledAndPast
<1>5. QED
  BY <1>2, <1>3, <1>4 DEF ConnectionInv

\* The startup thread keeps the types.
LEMMA StartupTypes ==
  ASSUME ConnectionInv, Startup \/ InstallHandlers, UNCHANGED scene
  PROVE  ConnectionTypeOK' /\ StartsBounded'
<1> USE ConnectionAssumption DEF ConnectionInv, StartsBounded, StartupGoto, appVars, flags, Settings
<1>0. scene.crashes \in Nat /\ scene.sets \in Nat
  BY DEF ConnectionTypeOK
<1>1. CASE Loop \/ SetConnected \/ Watch \/ FallAsleep
  <2>1. /\ UNCHANGED <<engine, notice, watched, manager, serverCrashed, quit, cached, timeOut,
                      dispatcher, app, sets, early>>
        /\ connected' \in BOOLEAN /\ key' \in Settings
        /\ startup' \in {"find", "install", "test", "probe", "sleep", "blocked", "done"}
    BY <1>1 DEF Loop, SetConnected, Watch, FallAsleep, ConnectionTypeOK
  <2>2. QED
    BY <2>1 DEF ConnectionTypeOK
<1>2. CASE Find
  BY <1>2, <1>0 DEF Find, Locate, ConnectionTypeOK
<1>3. CASE InstallHandlers
  BY <1>3 DEF InstallHandlers, Installed, ConnectionTypeOK
<1>4. CASE TestCache \/ FreeCached \/ EraseCached
  BY <1>4 DEF TestCache, FreeCached, EraseCached, NextSetting, ConnectionTypeOK
<1>5. CASE SendCached
  <2>1. Sent \subseteq Values \cup {"none"}
    BY DEF Sent, ConnectionTypeOK
  <2>2. QED
    BY <1>5, <2>1 DEF SendCached, Flushed, Applied, ConnectionTypeOK
<1>6. CASE Probe
  <2>1. UNCHANGED <<engine, notice, watched, manager, connected, cached, key, dispatcher, app,
                    sets, early>>
    BY <1>6 DEF Probe
  <2>2. /\ timeOut' \in 0..Patience /\ serverCrashed' \in BOOLEAN /\ quit' \in BOOLEAN
        /\ startup' \in {startup, "done", "loop"}
    <3>1. CASE quit
      BY <1>6, <3>1 DEF Probe, ConnectionTypeOK
    <3>2. CASE ~quit /\ GivesUp
      BY <1>6, <3>2 DEF Probe, ConnectionTypeOK
    <3>3. CASE ~quit /\ ~GivesUp /\ engine.state # "down"
      <4>1. EngineBack /\ UNCHANGED quit
        BY <1>6, <3>3 DEF Probe
      <4>2. serverCrashed' \in BOOLEAN /\ quit' \in BOOLEAN
        BY <4>1, Zenon DEF EngineBack, ConnectionTypeOK
      <4>3. QED
        BY <4>1, <4>2 DEF EngineBack, ConnectionTypeOK
    <3>4. CASE ~quit /\ ~GivesUp /\ engine.state = "down"
      BY <1>6, <3>4 DEF Probe, GivesUp, ConnectionTypeOK
    <3>5. QED
      BY <3>1, <3>2, <3>3, <3>4
  <2>3. QED
    BY <2>1, <2>2 DEF ConnectionTypeOK
<1>7. QED
  BY <1>1, <1>2, <1>3, <1>4, <1>5, <1>6 DEF Startup

\* The dispatcher's thread keeps the types.
LEMMA DispatcherTypes ==
  ASSUME ConnectionInv, Dispatcher, UNCHANGED scene
  PROVE  ConnectionTypeOK' /\ StartsBounded'
<1> USE DEF ConnectionInv, StartsBounded, appVars, flags
<1>1. CASE CrashCallback \/ CrashDisconnects
  <2>1. /\ UNCHANGED <<engine, watched, manager, serverCrashed, quit, cached, startup, key,
                      timeOut, app, sets, early>>
        /\ notice' \in {FALSE, notice} /\ connected' \in {FALSE, connected}
        /\ dispatcher' \in {"connected", "unconnected", "mark", "drop"}
    BY <1>1 DEF CrashCallback, CrashDisconnects
  <2>2. /\ notice' \in BOOLEAN /\ connected' \in BOOLEAN
        /\ serverCrashed' \in BOOLEAN /\ quit' \in BOOLEAN
    BY <2>1, Zenon DEF ConnectionTypeOK
  <2>3. QED
    BY <2>1, <2>2 DEF ConnectionTypeOK
<1>2. CASE MarkCrash
  BY <1>2 DEF MarkCrash, Notify, ConnectionTypeOK
<1>3. CASE DropManager
  BY <1>3, ConnectionAssumption DEF DropManager, ConnectionTypeOK
<1>4. QED
  BY <1>1, <1>2, <1>3 DEF Dispatcher

\* The app's thread keeps the types.
LEMMA AppTypes ==
  ASSUME ConnectionInv, UNCHANGED scene,
         \/ AppReturns \/ Unregister \/ Delete
         \/ \E k \in Settings : \E v \in Values : CallSet(k, v)
  PROVE  ConnectionTypeOK' /\ StartsBounded'
<1> USE ConnectionAssumption DEF ConnectionInv, StartsBounded, flags, Settings, AtApi
<1>0. scene.crashes \in Nat /\ scene.sets \in Nat
  BY DEF ConnectionTypeOK
<1>1. CASE Construct
  BY <1>0, <1>1 DEF Construct, Locate, ConnectionTypeOK
<1>2. CASE CacheTest \/ CacheSetting
  BY <1>2 DEF CacheTest, CacheSetting, ConnectionTypeOK
<1>3. CASE SendSetting
  BY <1>3 DEF SendSetting, Applied, ConnectionTypeOK
<1>4. CASE DeleteDisconnects \/ DeleteDrop \/ DeleteQuit \/ Join \/ Unregister \/ Delete
  <2>1. app' \in [pc : {"connected", "unconnected", "unregister", "drop", "quit", "join", "gone"},
                  key : Settings, value : {"none"}]
    BY <1>4 DEF DeleteDisconnects, DeleteDrop, DeleteQuit, Join, Unregister, Delete
  <2>2. /\ UNCHANGED <<engine, serverCrashed, cached, key, timeOut, dispatcher, sets, early>>
        /\ connected' \in BOOLEAN /\ quit' \in BOOLEAN /\ notice' \in BOOLEAN
        /\ manager' \in {0, manager} /\ watched' \in {0, watched}
        /\ startup' \in {startup, "watch"}
    BY <1>4 DEF DeleteDisconnects, DeleteDrop, DeleteQuit, Join, Unregister, Delete, Notify,
                ConnectionTypeOK
  <2>3. QED
    BY <1>0, <2>1, <2>2 DEF ConnectionTypeOK
<1>5. ASSUME NEW k \in Settings, NEW v \in Values, CallSet(k, v)
      PROVE  ConnectionTypeOK' /\ StartsBounded'
  BY <1>0, <1>5 DEF CallSet, ConnectionTypeOK
<1>6. QED
  BY <1>1, <1>2, <1>3, <1>4, <1>5 DEF AppReturns

\* The engine keeps the types.
LEMMA EngineTypes ==
  ASSUME ConnectionInv, EngineComesUp \/ EngineCrash, UNCHANGED scene
  PROVE  ConnectionTypeOK' /\ StartsBounded'
<1> USE ConnectionAssumption DEF ConnectionInv, StartsBounded, flags, appVars, Settings, Unset,
                                 ClientUnchanged
<1>0. scene.crashes \in Nat /\ scene.sets \in Nat
  BY DEF ConnectionTypeOK
<1>1. CASE EngineStart
  <2>0. engine.start + 1 \in 0..(scene.crashes + 1)
    BY <1>0, <1>1 DEF EngineStart, ConnectionTypeOK
  <2>1. engine' \in [state : {"starting"}, start : 0..(scene.crashes + 1),
                    settings : [Settings -> Values \cup {"none"}], listening : Nat]
    BY <1>1, <2>0 DEF EngineStart, ConnectionTypeOK
  <2>2. QED
    BY <1>1, <2>1 DEF EngineStart, ConnectionTypeOK
<1>2. CASE EngineReady
  BY <1>0, <1>2 DEF EngineReady, ConnectionTypeOK
<1>3. CASE EngineCrash
  <2>1. /\ engine' \in [state : {"down"}, start : 0..(scene.crashes + 1),
                       settings : [Settings -> Values \cup {"none"}], listening : Nat]
        /\ engine'.start <= scene.crashes
    BY <1>0, <1>3 DEF EngineCrash, ConnectionTypeOK
  <2>2. notice' \in BOOLEAN /\ watched' \in {0, watched}
    BY <1>3 DEF EngineCrash, ConnectionTypeOK
  <2>3. QED
    BY <1>0, <1>3, <2>1, <2>2 DEF EngineCrash, ConnectionTypeOK
<1>4. QED
  BY <1>1, <1>2, <1>3 DEF EngineComesUp

-----------------------------------------------------------------------------
(* One crash ahead, told while the thread waits, installed once.           *)

\* The startup thread keeps Core.
LEMMA StartupCore ==
  ASSUME ConnectionTypeOK, Core, Startup \/ InstallHandlers
  PROVE  Core'
<1> USE DEF Core, Constructing, OneCrashAhead, WatchedIsUp, ToldWhenConnected, InstalledAndPast,
            Past, StartupGoto, appVars, flags
<1>0. engine.start \in Nat /\ manager \in Nat /\ watched \in Nat /\ engine.listening \in Nat
  BY DEF ConnectionTypeOK
<1>1. CASE Loop
  BY <1>0, <1>1 DEF Loop
<1>2. CASE Find
  BY <1>0, <1>2 DEF Find, Locate
<1>3. CASE InstallHandlers
  <2>1. CASE Answers
    <3>1. watched # 0 /\ engine.listening = 0
      BY <1>0, <1>3, <2>1 DEF InstallHandlers, Answers
    <3>2. engine'.listening = 1 /\ engine'.start = engine.start /\ engine'.state = engine.state
      BY <1>3, <2>1, <3>1 DEF InstallHandlers, Installed, ConnectionTypeOK
    <3>3. QED
      BY <1>0, <1>3, <3>1, <3>2 DEF InstallHandlers
  <2>2. CASE ~Answers
    BY <1>0, <1>3, <2>2 DEF InstallHandlers, Installed
  <2>3. QED
    BY <2>1, <2>2
<1>4. CASE SetConnected
  BY <1>0, <1>4 DEF SetConnected
<1>5. CASE TestCache \/ FreeCached \/ EraseCached
  BY <1>0, <1>5 DEF TestCache, FreeCached, EraseCached, NextSetting
<1>6. CASE SendCached
  <2>1. /\ engine'.start = engine.start /\ engine'.state = engine.state
        /\ engine'.listening = engine.listening
    BY <1>6 DEF SendCached, Flushed, Applied, ConnectionTypeOK
  <2>2. QED
    BY <1>0, <1>6, <2>1 DEF SendCached
<1>7. CASE Watch \/ FallAsleep
  BY <1>0, <1>7 DEF Watch, FallAsleep
<1>8. CASE Probe
  <2>1. /\ UNCHANGED <<engine, notice, watched, manager, connected, dispatcher, app>>
        /\ startup = "probe" /\ serverCrashed
    BY <1>8 DEF Probe
  <2>2. \/ startup' \in {"probe", "done"} /\ UNCHANGED serverCrashed
        \/ startup' = "loop" /\ serverCrashed' = FALSE
    BY <1>8 DEF Probe, EngineBack
  <2>3. QED
    BY <1>0, <2>1, <2>2
<1>9. QED
  BY <1>1, <1>2, <1>3, <1>4, <1>5, <1>6, <1>7, <1>8 DEF Startup

\* The dispatcher's thread keeps Core.
LEMMA DispatcherCore ==
  ASSUME ConnectionTypeOK, Core, Dispatcher
  PROVE  Core'
<1> USE DEF Core, Constructing, OneCrashAhead, WatchedIsUp, ToldWhenConnected, InstalledAndPast,
            Past, appVars, flags
<1>0. engine.start \in Nat /\ manager \in Nat /\ watched \in Nat /\ engine.listening \in Nat
  BY DEF ConnectionTypeOK
<1>1. CASE CrashCallback \/ CrashDisconnects
  BY <1>0, <1>1 DEF CrashCallback, CrashDisconnects
<1>2. CASE MarkCrash
  BY <1>0, <1>2 DEF MarkCrash, Notify
<1>3. CASE DropManager
  BY <1>0, <1>3 DEF DropManager
<1>4. QED
  BY <1>1, <1>2, <1>3 DEF Dispatcher

\* The app's thread keeps Core, unless it deletes the client.
LEMMA AppCore ==
  ASSUME ConnectionTypeOK, Core, ~Deleting,
         \/ AppReturns \/ Unregister \/ Delete
         \/ \E k \in Settings : \E v \in Values : CallSet(k, v)
  PROVE  Core' \/ Deleting'
<1> USE DEF Core, Constructing, OneCrashAhead, WatchedIsUp, ToldWhenConnected, InstalledAndPast,
            Past, flags, Deleting
<1>0. engine.start \in Nat /\ manager \in Nat /\ watched \in Nat /\ engine.listening \in Nat
  BY DEF ConnectionTypeOK
<1>1. CASE Construct
  BY <1>0, <1>1 DEF Construct, Locate, AtApi
<1>2. CASE CacheTest \/ CacheSetting
  <2>1. app'.pc # "construct"
    BY <1>2 DEF CacheTest, CacheSetting, AtApi, ConnectionTypeOK
  <2>2. QED
    BY <1>0, <1>2, <2>1 DEF CacheTest, CacheSetting
<1>3. CASE SendSetting
  <2>1. /\ engine'.start = engine.start /\ engine'.state = engine.state
        /\ engine'.listening = engine.listening
    BY <1>3 DEF SendSetting, Applied, ConnectionTypeOK
  <2>2. QED
    BY <1>0, <1>3, <2>1 DEF SendSetting, AtApi
<1>4. CASE DeleteDisconnects \/ DeleteDrop \/ DeleteQuit \/ Join \/ Unregister \/ Delete
  BY <1>4 DEF DeleteDisconnects, DeleteDrop, DeleteQuit, Join, Unregister, Delete, AtApi
<1>5. ASSUME NEW k \in Settings, NEW v \in Values, CallSet(k, v)
      PROVE  Core'
  <2>1. app'.pc # "construct"
    BY <1>5 DEF CallSet
  <2>2. QED
    BY <1>0, <1>5, <2>1 DEF CallSet
<1>6. QED
  BY <1>1, <1>2, <1>3, <1>4, <1>5 DEF AppReturns

\* The engine keeps Core: a crash takes the handlers with it.
LEMMA EngineCore ==
  ASSUME ConnectionTypeOK, Core, EngineComesUp \/ EngineCrash
  PROVE  Core'
<1> USE DEF Core, Constructing, OneCrashAhead, WatchedIsUp, ToldWhenConnected, InstalledAndPast,
            Past, appVars, flags, ClientUnchanged
<1>0. engine.start \in Nat /\ manager \in Nat /\ watched \in Nat /\ engine.listening \in Nat
  BY DEF ConnectionTypeOK
<1>1. CASE EngineStart
  <2>1. /\ engine'.start = engine.start + 1 /\ engine'.state = "starting"
        /\ engine'.listening = engine.listening /\ engine.state = "down"
    BY <1>1 DEF EngineStart, ConnectionTypeOK
  <2>2. QED
    BY <1>0, <1>1, <2>1 DEF EngineStart
<1>2. CASE EngineReady
  <2>1. /\ engine'.start = engine.start /\ engine'.state = "ready"
        /\ engine'.listening = engine.listening /\ engine.state = "starting"
    BY <1>2 DEF EngineReady, ConnectionTypeOK
  <2>2. QED
    BY <1>0, <1>2, <2>1 DEF EngineReady
<1>3. CASE EngineCrash
  <2>1. engine'.start = engine.start /\ engine'.state = "down" /\ engine'.listening = 0
    BY <1>3 DEF EngineCrash, ConnectionTypeOK
  <2>2. watched' = 0 /\ UNCHANGED <<manager, connected, serverCrashed, startup, dispatcher, app>>
    BY <1>0, <1>3 DEF EngineCrash
  <2>3. notice' => manager # 0 /\ dispatcher = "idle"
    BY <1>0, <1>3 DEF EngineCrash
  <2>4. QED
    BY <1>0, <2>1, <2>2, <2>3
<1>4. QED
  BY <1>1, <1>2, <1>3 DEF EngineComesUp

\* A refused event changes neither types nor Core.
LEMMA ForgottenKeeps ==
  ASSUME ConnectionTypeOK, Forgotten, UNCHANGED scene
  PROVE  /\ ConnectionTypeOK' /\ (StartsBounded => StartsBounded')
         /\ Core => Core'
         /\ Deleting => Deleting'
<1> USE DEF Forgotten, flags, appVars
<1>1. /\ engine' \in [state : {"down", "starting", "ready"}, start : 0..(scene.crashes + 1),
                     settings : [Settings -> Values \cup {"none"}], listening : Nat]
      /\ engine'.state = engine.state /\ engine'.start = engine.start /\ engine'.listening = 0
  BY DEF ConnectionTypeOK
<1>2. ConnectionTypeOK' /\ (StartsBounded => StartsBounded')
  BY <1>1 DEF ConnectionTypeOK, StartsBounded
<1>3. Core => Core'
  BY <1>1 DEF Core, Constructing, OneCrashAhead, WatchedIsUp, ToldWhenConnected, InstalledAndPast
<1>4. QED
  BY <1>2, <1>3 DEF Deleting

\* A client that is being deleted stays so.
LEMMA DeletingStays ==
  ASSUME Deleting, ConnectionStep
  PROVE  Deleting'
<1> USE DEF Deleting, appVars, AtApi
<1>1. CASE Startup \/ InstallHandlers \/ Dispatcher \/ EngineComesUp \/ EngineCrash
  <2>1. app' = app
    BY <1>1 DEF Startup, InstallHandlers, Dispatcher, EngineComesUp, EngineCrash, Loop, Find,
                SetConnected, TestCache, SendCached, FreeCached, EraseCached, Watch, FallAsleep, Probe,
                CrashCallback, CrashDisconnects, MarkCrash, DropManager, EngineStart, EngineReady, ClientUnchanged
  <2>2. QED
    BY <2>1
<1>2. CASE AppReturns \/ Unregister \/ Delete
  BY <1>2 DEF AppReturns, Construct, CacheTest, CacheSetting, SendSetting, DeleteDisconnects,
              DeleteDrop, DeleteQuit, Join, Unregister, Delete
<1>3. CASE \E k \in Settings : \E v \in Values : CallSet(k, v)
  BY <1>3 DEF CallSet
<1>4. CASE Forgotten
  BY <1>4 DEF Forgotten
<1>5. QED
  BY <1>1, <1>2, <1>3, <1>4 DEF ConnectionStep

-----------------------------------------------------------------------------
(* The theorems.                                                           *)

\* Every step keeps the invariant.
LEMMA NextInv == ConnectionInv /\ [Next]_vars => ConnectionInv'
<1> SUFFICES ASSUME ConnectionInv, [Next]_vars PROVE ConnectionInv'
  OBVIOUS
<1>1. ASSUME UNCHANGED connectionVars PROVE ConnectionInv'
  BY <1>1 DEF connectionVars, flags, appVars, ConnectionInv, ConnectionTypeOK, StartsBounded,
              Deleting, Core, Constructing, OneCrashAhead, WatchedIsUp, ToldWhenConnected,
              InstalledAndPast
<1>2. ASSUME ConnectionStep, UNCHANGED scene PROVE ConnectionInv'
  <2>1. ConnectionTypeOK' /\ StartsBounded'
    BY <1>2, StartupTypes, DispatcherTypes, AppTypes, EngineTypes, ForgottenKeeps
       DEF ConnectionStep, ConnectionInv
  <2>2. CASE Deleting
    BY <1>2, <2>1, <2>2, DeletingStays DEF ConnectionInv
  <2>3. CASE ~Deleting
    <3>1. ConnectionTypeOK /\ Core
      BY <2>3 DEF ConnectionInv
    <3>2. Core' \/ Deleting'
      BY <1>2, <2>3, <3>1, StartupCore, DispatcherCore, AppCore, EngineCore, ForgottenKeeps
         DEF ConnectionStep
    <3>3. QED
      BY <2>1, <3>2 DEF ConnectionInv
  <2>4. QED
    BY <2>2, <2>3
<1>3. QED
  BY <1>1, <1>2, StepsOfConnection DEF vars

\* The invariant of the connection holds of every behaviour, for any settings,
\* any patience and any scenes, whatever the sessions do.
THEOREM Invariance == Spec => []ConnectionInv
BY InitInv, NextInv, PTL DEF Spec

\* The handlers of a client that is not being deleted are installed at most
\* once with one start of the engine.
THEOREM HandlersOnce == Spec => []InstalledOnce
<1>1. ConnectionInv => InstalledOnce
  BY DEF ConnectionInv, Core, InstalledOnce
<1>2. QED
  BY Invariance, <1>1, PTL

-----------------------------------------------------------------------------
(* The sessions: types, and which wrapper an event is tested against.      *)

InfoRecords == [life : {"none", "live", "deleted"}, wrapper : {"live", "cleared", "deleted"},
            refused : Events, id : Ids \cup {0}, start : 0..(scene.crashes + 1), got : BOOLEAN,
            events : Seq(Events), overtaken : BOOLEAN]

HostRecords == [enabled : BOOLEAN, wanted : BOOLEAN, ours : Ids \cup {0}, info : Infos \cup {0},
            lastId : 0..MaxIds, others : SUBSET Ids]

CallRecords == [op : {"none", "create", "erase", "enabled", "active"}, info : Infos \cup {0},
             id : Ids \cup {0}, answer : BOOLEAN, missed : BOOLEAN]

\* A wrapper that is live belongs to an object that is not deleted, and no
\* event is about an object that was never created.
Sound(table) ==
  /\ table \in [Infos -> InfoRecords]
  /\ \A n \in Infos :
       /\ table[n].life = "deleted" => table[n].wrapper # "live"
       /\ table[n].life = "none" => table[n].events = <<>>

\* Two tables say the same of which objects there are.
SameLives(t, u) == \A n \in Infos : t[n].life = u[n].life

\* Events are added for an object that was created.
LEMMA AnnounceSound ==
  ASSUME NEW table, Sound(table), NEW n \in Infos \cup {0}, NEW evs \in Seq(Events),
         n # 0 => table[n].life # "none"
  PROVE  Sound(Announce(n, evs, table)) /\ SameLives(Announce(n, evs, table), table)
<1>1. CASE n = 0
  BY <1>1 DEF Announce, SameLives
<1>2. CASE n # 0
  <2>1. table[n] \in InfoRecords /\ n \in Infos
    BY <1>2 DEF Sound
  <2>2. table[n].events \o evs \in Seq(Events)
    <3>1. table[n].events \in Seq(Events)
      BY <2>1 DEF InfoRecords
    <3>2. QED
      BY <3>1
  <2> DEFINE new == [table[n] EXCEPT !.events = @ \o evs]
  <2>3. /\ new \in InfoRecords
        /\ new.life = table[n].life /\ new.wrapper = table[n].wrapper
    BY <2>1, <2>2 DEF InfoRecords
  <2>4. Announce(n, evs, table) = [table EXCEPT ![n] = new]
    BY <1>2 DEF Announce
  <2> HIDE DEF new
  <2>5. QED
    BY <1>2, <2>1, <2>3, <2>4 DEF Sound, SameLives
<1>3. QED
  BY <1>1, <1>2

\* ~SessionInfo clears the wrapper.
LEMMA DeletedSound ==
  ASSUME NEW table, Sound(table), NEW n
  PROVE  /\ Sound(Deleted(n, table))
         /\ \A m \in Infos : table[m].life # "none" => Deleted(n, table)[m].life # "none"
<1>1. CASE n \in Infos
  <2> DEFINE new == [table[n] EXCEPT !.life = "deleted", !.wrapper = AfterClear(@)]
  <2>1. table[n] \in InfoRecords
    BY <1>1 DEF Sound
  <2>2. new \in InfoRecords /\ new.life = "deleted" /\ new.wrapper # "live"
    BY <2>1 DEF InfoRecords, AfterClear
  <2>3. Deleted(n, table) = [table EXCEPT ![n] = new]
    BY <1>1 DEF Deleted, Sound
  <2> HIDE DEF new
  <2>4. QED
    BY <1>1, <2>2, <2>3 DEF Sound
<1>2. CASE n \notin Infos
  <2>1. \A m \in Infos : Deleted(n, table)[m] = table[m]
    BY <1>2 DEF Deleted, Sound
  <2>2. Deleted(n, table) \in [Infos -> InfoRecords]
    BY <1>2 DEF Deleted, Sound
  <2>3. QED
    BY <2>1, <2>2 DEF Sound
<1>3. QED
  BY <1>1, <1>2

\* An entry is replaced by one that says the same of the object.
LEMMA ReplacedSound ==
  ASSUME NEW table, Sound(table), NEW n \in Infos, NEW new \in InfoRecords,
         new.life = table[n].life,
         table[n].wrapper # "live" => new.wrapper # "live",
         table[n].events = <<>> => new.events = <<>>
  PROVE  /\ Sound([table EXCEPT ![n] = new])
         /\ SameLives([table EXCEPT ![n] = new], table)
BY DEF Sound, SameLives

\* A new SessionInfo is sound in any table.
LEMMA CreatedSound ==
  ASSUME NEW table, Sound(table), NEW n \in Infos, scene.crashes \in Nat
  PROVE  /\ Sound([table EXCEPT ![n] = NewInfo])
         /\ \A m \in Infos : m = n \/ table[m].life # "none"
                               => [table EXCEPT ![n] = NewInfo][m].life # "none"
<1>1. NewInfo \in InfoRecords /\ NewInfo.life = "live"
  <2>1. 0 \in 0..(scene.crashes + 1) /\ <<>> \in Seq(Events)
    BY DEF Events
  <2>2. QED
    BY <2>1 DEF NewInfo, NoInfo, InfoRecords, Events
<1>2. QED
  BY <1>1 DEF Sound

\* The events of the resource are events.
LEMMA AnnouncedType ==
  ASSUME NEW h, NEW h2
  PROVE  Announced(h, h2) \in Seq(Events)
<1>1. /\ <<"acquired">> \in Seq(Events) /\ <<"released">> \in Seq(Events)
      /\ <<>> \in Seq(Events)
  BY DEF Events
<1>2. Announced(h, h2) \in {<<"acquired">>, <<"released">>, <<>>}
  BY DEF Announced
<1>3. QED
  BY <1>1, <1>2

\* TypeOK without the connection and the SessionInfo objects.
SessionTypes ==
  /\ host \in HostRecords
  /\ policy \in {"INVALID", "RESERVATION", "OPEN"} /\ enabled \in BOOLEAN
  /\ sessionMap \in [Ids -> Infos \cup {0}]
  /\ wrapper \in {"live", "cleared", "deleted"} /\ stateEvents \in Seq(BOOLEAN)
  /\ handling \in [about : Infos \cup {Client}, event : Events]
  /\ call \in CallRecords
  /\ calls \in 0..scene.calls /\ moves \in 0..scene.moves
  /\ fault \in {"none", "wrapperGone", "usedDeleted"}
  /\ overtaken \in BOOLEAN

\* The engine tells the events of its session for an object that was created.
HostNamesObject == host.info # 0 => infos[host.info].life # "none"

SessionInv == SessionTypes /\ Sound(infos) /\ HostNamesObject

\* The client's wrapper is cleared when the client is deleted.
WrapperLives == Deleting \/ wrapper = "live"

Inv == ConnectionInv /\ SessionInv /\ WrapperLives

\* What is known of the scene and the bounds.
LEMMA SceneTypes ==
  ASSUME ConnectionInv
  PROVE  /\ scene.crashes \in Nat /\ scene.calls \in Nat /\ scene.moves \in Nat
         /\ scene.policy \in {"RESERVATION", "OPEN"}
         /\ MaxSessions \in Nat /\ MaxIds \in Nat /\ engine.start \in 0..(scene.crashes + 1)
<1>1. scene \in Scenes /\ engine.start \in 0..(scene.crashes + 1)
  BY DEF ConnectionInv, ConnectionTypeOK
<1>2. QED
  BY <1>1, ConnectionAssumption, SessionsAssumption

\* The scene does not change, and neither does what a table may hold.
LEMMA SameScene ==
  ASSUME UNCHANGED scene, Sound(infos')
  PROVE  Sound(infos)'
<1>1. InfoRecords' = InfoRecords
  BY DEF InfoRecords, Ids, Events
<1>2. QED
  BY <1>1 DEF Sound, Infos

\* The initial state of the sessions satisfies their invariant.
LEMMA SessionInitInv == Init => SessionInv
<1> SUFFICES ASSUME Init PROVE SessionInv
  OBVIOUS
<1>0. ConnectionInv
  BY InitInv
<1>1. /\ host = NewHost /\ policy = "INVALID" /\ enabled = FALSE
      /\ sessionMap = [i \in Ids |-> 0] /\ infos = [n \in Infos |-> NoInfo]
      /\ wrapper = "live" /\ stateEvents = <<>> /\ handling = NoEvent
      /\ call = NoCall /\ calls = 0 /\ moves = 0 /\ fault = "none" /\ overtaken = FALSE
  BY DEF Init
<1>2. SessionTypes
  <2>1. NewHost \in HostRecords /\ NoCall \in CallRecords
    BY SessionsAssumption DEF NewHost, HostRecords, NoCall, CallRecords
  <2>2. /\ stateEvents \in Seq(BOOLEAN)
        /\ enabled \in BOOLEAN /\ overtaken \in BOOLEAN
    <3>1. stateEvents \in Seq(BOOLEAN)
      BY <1>1
    <3>2. enabled \in BOOLEAN /\ overtaken \in BOOLEAN
      BY <1>1, Zenon
    <3>3. QED
      BY <3>1, <3>2
  <2>3. calls \in 0..scene.calls /\ moves \in 0..scene.moves
    BY <1>0, <1>1, SceneTypes
  <2>4. handling \in [about : Infos \cup {Client}, event : Events]
    BY <1>1 DEF NoEvent, Client, Events
  <2>5. sessionMap \in [Ids -> Infos \cup {0}]
    BY <1>1
  <2>6. QED
    BY <1>1, <2>1, <2>2, <2>3, <2>4, <2>5 DEF SessionTypes
<1>3. Sound(infos)
  <2>1. NoInfo \in InfoRecords
    BY <1>0, SceneTypes DEF NoInfo, InfoRecords, Events
  <2>2. NoInfo.life = "none" /\ NoInfo.events = <<>>
    BY DEF NoInfo
  <2>3. QED
    BY <1>1, <2>1, <2>2 DEF Sound
<1>4. HostNamesObject
  BY <1>1 DEF HostNamesObject, NewHost
<1>5. QED
  BY <1>2, <1>3, <1>4 DEF SessionInv

\* The host changes, and the events this makes are told.
LEMMA HostMoves ==
  ASSUME Inv, NEW h \in HostRecords, NEW first \in {<<>>, <<"speech">>},
         host' = h, h.info \in {0, host.info},
         infos' = Announce(host.info, first \o Announced(host, h), infos)
  PROVE  Sound(infos') /\ HostNamesObject'
<1>1. host.info \in Infos \cup {0}
  BY DEF Inv, SessionInv, SessionTypes, HostRecords
<1>2. first \o Announced(host, h) \in Seq(Events)
  <2>1. <<>> \in Seq(Events) /\ <<"speech">> \in Seq(Events)
    BY DEF Events
  <2>2. first \in Seq(Events) /\ Announced(host, h) \in Seq(Events)
    BY <2>1, AnnouncedType
  <2>3. QED
    BY <2>2
<1>3. Sound(infos') /\ SameLives(infos', infos)
  BY <1>1, <1>2, AnnounceSound DEF Inv, SessionInv, HostNamesObject
<1>4. HostNamesObject'
  BY <1>1, <1>3 DEF HostNamesObject, SameLives, Inv, SessionInv
<1>5. QED
  BY <1>3, <1>4

\* The same for events that come alone.
LEMMA HostTells ==
  ASSUME Inv, NEW h \in HostRecords, host' = h, h.info \in {0, host.info},
         infos' = Announce(host.info, Announced(host, h), infos)
  PROVE  Sound(infos') /\ HostNamesObject'
<1>1. <<>> \o Announced(host, h) = Announced(host, h)
  BY AnnouncedType
<1>2. QED
  BY <1>1, HostMoves

-----------------------------------------------------------------------------
(* The engine's steps.                                                     *)

\* Another client, or another app, moves the engine.
LEMMA EngineMovesStep ==
  ASSUME Inv, UNCHANGED scene, EngineMoves
  PROVE  SessionInv'
<1> USE DEF Inv, SessionInv
<1>0. /\ host \in HostRecords /\ stateEvents \in Seq(BOOLEAN)
      /\ UNCHANGED <<policy, enabled, sessionMap, wrapper, handling, call, calls, fault, overtaken>>
      /\ moves' \in 0..scene.moves
  BY SceneTypes DEF EngineMoves, SessionTypes, callVars
<1>1. CASE Toggle
  <2> DEFINE h == [host EXCEPT !.enabled = ~@]
  <2>1. h \in HostRecords /\ h.info = host.info /\ h.enabled \in BOOLEAN
    BY <1>0 DEF HostRecords
  <2>2. /\ host' = h /\ infos' = Announce(host.info, Announced(host, h), infos)
        /\ stateEvents' \in {Append(stateEvents, h.enabled), stateEvents}
    BY <1>1 DEF Toggle
  <2> HIDE DEF h
  <2>3. stateEvents' \in Seq(BOOLEAN)
    BY <1>0, <2>1, <2>2
  <2>4. Sound(infos') /\ HostNamesObject'
    BY <2>1, <2>2, HostTells
  <2>5. QED
    BY <1>0, <2>1, <2>2, <2>3, <2>4, SameScene DEF SessionTypes, CallRecords, HostRecords
<1>2. ASSUME NEW wanted \in BOOLEAN, Want(wanted) PROVE SessionInv'
  <2> DEFINE h == [host EXCEPT !.wanted = wanted]
  <2>1. h \in HostRecords /\ h.info = host.info
    BY <1>0 DEF HostRecords
  <2>2. /\ host' = h /\ infos' = Announce(host.info, Announced(host, h), infos)
        /\ stateEvents' = stateEvents
    BY <1>2 DEF Want
  <2> HIDE DEF h
  <2>3. Sound(infos') /\ HostNamesObject'
    BY <2>1, <2>2, HostTells
  <2>4. QED
    BY <1>0, <2>1, <2>2, <2>3, SameScene DEF SessionTypes, CallRecords, HostRecords
<1>3. CASE OtherSession
  <2>0. /\ host.lastId + 1 \in 1..MaxIds /\ host.lastId + 1 \in 0..MaxIds
        /\ host.others \cup {host.lastId + 1} \subseteq Ids
    BY <1>0, <1>3, SceneTypes DEF OtherSession, HostRecords, Ids
  <2>1. host' \in HostRecords /\ host'.info = host.info
    BY <1>0, <1>3, <2>0 DEF OtherSession, HostRecords
  <2>2. UNCHANGED <<infos, stateEvents>>
    BY <1>3 DEF OtherSession
  <2>3. Sound(infos') /\ HostNamesObject'
    BY <2>1, <2>2 DEF HostNamesObject
  <2>4. QED
    BY <1>0, <2>1, <2>2, <2>3, SameScene DEF SessionTypes, CallRecords, HostRecords
<1>4. QED
  BY <1>1, <1>2, <1>3 DEF EngineMoves

\* A crash takes the events that are under way.
LEMMA CrashStep ==
  ASSUME Inv, UNCHANGED scene, Crash
  PROVE  SessionInv'
<1> USE DEF Inv, SessionInv
<1>1. NewHost \in HostRecords /\ NewHost.info = 0
  BY SceneTypes DEF NewHost, HostRecords
<1>2. Sound(infos')
  <2>1. <<>> \in Seq(Events)
    OBVIOUS
  <2>2. ASSUME NEW n \in Infos
        PROVE  /\ [infos[n] EXCEPT !.events = <<>>] \in InfoRecords
               /\ [infos[n] EXCEPT !.events = <<>>].life = infos[n].life
               /\ [infos[n] EXCEPT !.events = <<>>].wrapper = infos[n].wrapper
               /\ [infos[n] EXCEPT !.events = <<>>].events = <<>>
    BY <2>1 DEF Sound, InfoRecords
  <2>3. infos' = [n \in Infos |-> [infos[n] EXCEPT !.events = <<>>]]
    BY DEF Crash
  <2>4. QED
    BY <2>2, <2>3 DEF Sound
<1>3. HostNamesObject'
  BY <1>1 DEF Crash, HostNamesObject
<1>4. SessionTypes'
  <2>1. stateEvents' \in Seq(BOOLEAN)
    BY DEF Crash
  <2>2. QED
    BY <1>1, <2>1 DEF Crash, SessionTypes, callVars, HostRecords, CallRecords
<1>5. QED
  BY <1>2, <1>3, <1>4, SameScene

-----------------------------------------------------------------------------
(* The app's calls.                                                        *)

\* There is room for another object.
LEMMA MadeType == MaxSessions \in Nat => Made \in Nat
<1> SUFFICES ASSUME MaxSessions \in Nat PROVE Made \in Nat
  OBVIOUS
<1>1. IsFiniteSet(Infos)
  BY FS_Interval DEF Infos
<1>2. IsFiniteSet({n \in Infos : infos[n].life # "none"})
  BY <1>1, FS_Subset
<1>3. QED
  BY <1>2, FS_CardinalityType DEF Made

\* createSession: the object is created whatever becomes of the call.
LEMMA CreateSessionStep ==
  ASSUME Inv, UNCHANGED scene, CreateSession
  PROVE  SessionInv'
<1> USE DEF Inv, SessionInv
<1> DEFINE n   == Made + 1
           id  == host.lastId + 1
           h   == [host EXCEPT !.ours = id, !.info = n, !.lastId = id]
           new == [infos EXCEPT ![n] = NewInfo]
           told == Announce(n, Announced(host, h), new)
<1>0. /\ UNCHANGED <<policy, enabled, sessionMap, wrapper, stateEvents, handling, moves, fault,
                     overtaken>>
      /\ calls' \in 0..scene.calls
  BY SceneTypes DEF CreateSession, Calls, SessionTypes
<1>1. n \in Infos
  <2>1. Made \in Nat /\ MaxSessions \in Nat
    BY MadeType, SceneTypes
  <2>2. Made < MaxSessions
    BY DEF CreateSession
  <2>3. QED
    BY <2>1, <2>2 DEF Infos
<1>2. Sound(new) /\ \A m \in Infos : m = n \/ infos[m].life # "none" => new[m].life # "none"
  BY <1>1, SceneTypes, CreatedSound
<1>3. Sound(told) /\ SameLives(told, new)
  <2>1. new[n].life # "none"
    BY <1>1, <1>2
  <2> HIDE DEF n, h, new
  <2>2. QED
    BY <1>1, <1>2, <2>1, AnnouncedType, AnnounceSound
<1>4. CASE Answers /\ host.ours = 0
  <2>1. id \in Ids /\ host' = h /\ (call' = call \/ call' = [NoCall EXCEPT !.op = "create", !.info = n,
                                                      !.id = id, !.answer = host.enabled])
        /\ (infos' = [told EXCEPT ![n].start = engine.start] \/ infos' = Deleted(n, told))
    BY <1>4 DEF CreateSession
  <2>2. h \in HostRecords /\ h.info = n /\ host.enabled \in BOOLEAN
    <3>1. host \in HostRecords /\ id \in 1..MaxIds /\ MaxIds \in Nat
      BY <2>1, SceneTypes DEF SessionTypes, Ids
    <3>2. id \in Ids \cup {0} /\ id \in 0..MaxIds /\ n \in Infos \cup {0}
      BY <1>1, <2>1, <3>1
    <3> HIDE DEF n, id
    <3>3. QED
      BY <3>1, <3>2 DEF HostRecords
  <2>3. call' \in CallRecords
    BY <1>1, <2>1, <2>2 DEF SessionTypes, CallRecords, NoCall
  <2> HIDE DEF n, id, h, new, told
  <2>4. told[n].life # "none"
    BY <1>1, <1>2, <1>3 DEF SameLives
  <2>5. Sound(infos') /\ infos'[n].life # "none"
    <3>1. CASE infos' = [told EXCEPT ![n].start = engine.start]
      <4> DEFINE entry == [told[n] EXCEPT !.start = engine.start]
      <4>1. told[n] \in InfoRecords
        BY <1>1, <1>3 DEF Sound
      <4>2. /\ entry \in InfoRecords /\ entry.life = told[n].life
            /\ entry.wrapper = told[n].wrapper /\ entry.events = told[n].events
        BY <4>1, SceneTypes DEF InfoRecords
      <4>3. infos' = [told EXCEPT ![n] = entry]
        BY <3>1
      <4> HIDE DEF entry
      <4>4. QED
        <5>1. Sound(infos') /\ SameLives(infos', told)
          BY <1>1, <1>3, <4>2, <4>3, ReplacedSound
        <5>2. QED
          BY <1>1, <2>4, <5>1 DEF SameLives
    <3>2. CASE infos' = Deleted(n, told)
      BY <1>1, <1>3, <2>4, <3>2, DeletedSound
    <3>3. QED
      BY <2>1, <3>1, <3>2
  <2>6. HostNamesObject'
    BY <2>1, <2>2, <2>5 DEF HostNamesObject
  <2>7. QED
    BY <1>0, <2>1, <2>2, <2>3, <2>5, <2>6, SameScene DEF SessionTypes, HostRecords, CallRecords
<1>5. CASE ~(Answers /\ host.ours = 0)
  <2>1. infos' = Deleted(n, new) /\ UNCHANGED <<host, call>>
    BY <1>5 DEF CreateSession
  <2>2. Sound(infos') /\ \A m \in Infos : new[m].life # "none" => infos'[m].life # "none"
    BY <1>2, <2>1, DeletedSound
  <2>3. HostNamesObject'
    BY <1>2, <2>1, <2>2 DEF HostNamesObject, SessionTypes, HostRecords
  <2> HIDE DEF n, id, h, new, told
  <2>4. QED
    BY <1>0, <2>1, <2>2, <2>3, SameScene DEF SessionTypes, HostRecords, CallRecords
<1>6. QED
  BY <1>4, <1>5

\* The reply of createSession is stored.
LEMMA StoreSessionStep ==
  ASSUME Inv, UNCHANGED scene, StoreSession
  PROVE  SessionInv'
<1> USE DEF Inv, SessionInv
<1>1. /\ UNCHANGED <<host, policy, wrapper, stateEvents, handling, calls, moves, fault>>
      /\ sessionMap' = [sessionMap EXCEPT ![call.id] = call.info]
      /\ infos' = [infos EXCEPT ![call.info].id = call.id]
      /\ enabled' = call.answer /\ overtaken' = call.missed /\ call' = NoCall
  BY DEF StoreSession
<1>2. SessionTypes'
  <2>1. NoCall \in CallRecords
    BY DEF NoCall, CallRecords
  <2>2. call.answer \in BOOLEAN /\ call.missed \in BOOLEAN /\ call.info \in Infos \cup {0}
    BY DEF SessionTypes, CallRecords
  <2>3. enabled' \in BOOLEAN /\ overtaken' \in BOOLEAN
    BY <1>1, <2>2, Zenon
  <2>4. sessionMap' \in [Ids -> Infos \cup {0}]
    BY <1>1, <2>2 DEF SessionTypes
  <2>5. QED
    BY <1>1, <2>1, <2>3, <2>4 DEF SessionTypes, CallRecords, HostRecords
<1>3. Sound(infos') /\ SameLives(infos', infos)
  <2>1. CASE call.info \in Infos
    <3> DEFINE entry == [infos[call.info] EXCEPT !.id = call.id]
    <3>1. infos[call.info] \in InfoRecords /\ call.id \in Ids \cup {0}
      BY <2>1 DEF Sound, SessionTypes, CallRecords
    <3>2. /\ entry \in InfoRecords /\ entry.life = infos[call.info].life
          /\ entry.wrapper = infos[call.info].wrapper /\ entry.events = infos[call.info].events
      BY <3>1 DEF InfoRecords
    <3>3. infos' = [infos EXCEPT ![call.info] = entry]
      BY <1>1
    <3> HIDE DEF entry
    <3>4. QED
      BY <2>1, <3>2, <3>3, ReplacedSound
  <2>2. CASE call.info \notin Infos
    <3>1. infos' = infos
      BY <1>1, <2>2 DEF Sound
    <3>2. QED
      BY <3>1 DEF SameLives
  <2>3. QED
    BY <2>1, <2>2
<1>4. HostNamesObject'
  BY <1>1, <1>3 DEF HostNamesObject, SameLives, SessionTypes, HostRecords
<1>5. QED
  BY <1>2, <1>3, <1>4, SameScene

\* The engine is asked to destroy a session: its own, or another client's.
LEMMA AskedToDestroy ==
  ASSUME Inv, NEW id \in Ids, AskToDestroy(id)
  PROVE  Sound(infos') /\ HostNamesObject' /\ host' \in HostRecords
<1> USE DEF Inv, SessionInv
<1>0. host \in HostRecords
  BY DEF SessionTypes
<1>1. CASE UNCHANGED <<host, infos>>
  BY <1>0, <1>1 DEF HostNamesObject
<1>2. CASE Destroyed(id) /\ id = host.ours
  <2> DEFINE h == [host EXCEPT !.ours = 0, !.info = 0, !.wanted = FALSE]
  <2>1. h \in HostRecords /\ h.info = 0
    BY <1>0 DEF HostRecords
  <2>2. host' = h
    BY <1>2 DEF Destroyed
  <2>3. PICK first \in {<<>>, <<"speech">>} :
          infos' = Announce(host.info, first \o Announced(host, h), infos)
    BY <1>2 DEF Destroyed
  <2> HIDE DEF h
  <2>4. QED
    BY <2>1, <2>2, <2>3, HostMoves
<1>3. CASE Destroyed(id) /\ id # host.ours
  <2>1. host' = [host EXCEPT !.others = @ \ {id}] /\ infos' = infos
    BY <1>3 DEF Destroyed
  <2>2. host' \in HostRecords /\ host'.info = host.info
    BY <1>0, <2>1 DEF HostRecords
  <2>3. QED
    BY <2>1, <2>2 DEF HostNamesObject
<1>4. QED
  BY <1>1, <1>2, <1>3 DEF AskToDestroy

\* destroySession, by the app or by the destructor.
LEMMA DestroyStep ==
  ASSUME Inv, UNCHANGED scene, NEW id \in Ids, DestroySession(id) \/ CleanUpSession(id)
  PROVE  SessionInv'
<1> USE DEF Inv, SessionInv
<1>1. /\ AskToDestroy(id)
      /\ UNCHANGED <<policy, enabled, sessionMap, wrapper, stateEvents, handling, moves, fault,
                     overtaken>>
      /\ calls' \in 0..scene.calls
      /\ \/ call' = call
         \/ call' = [NoCall EXCEPT !.op = "erase", !.info = sessionMap[id], !.id = id]
  BY SceneTypes DEF DestroySession, CleanUpSession, Calls, SessionTypes
<1>2. call' \in CallRecords
  <2>1. sessionMap[id] \in Infos \cup {0}
    BY DEF SessionTypes
  <2>2. QED
    BY <1>1, <2>1 DEF SessionTypes, CallRecords, NoCall
<1>3. Sound(infos') /\ HostNamesObject' /\ host' \in HostRecords
  BY <1>1, AskedToDestroy
<1>4. QED
  BY <1>1, <1>2, <1>3, SameScene DEF SessionTypes, HostRecords, CallRecords

\* The object of the session is deleted.
LEMMA EraseStep ==
  ASSUME Inv, UNCHANGED scene, EraseSession
  PROVE  SessionInv'
<1> USE DEF Inv, SessionInv
<1>1. /\ UNCHANGED <<host, policy, enabled, wrapper, stateEvents, handling, calls, moves, fault,
                     overtaken>>
      /\ infos' = Deleted(call.info, infos)
      /\ sessionMap' = [sessionMap EXCEPT ![call.id] = 0] /\ call' = NoCall
  BY DEF EraseSession
<1>2. Sound(infos') /\ \A m \in Infos : infos[m].life # "none" => infos'[m].life # "none"
  BY <1>1, DeletedSound
<1>3. HostNamesObject'
  BY <1>1, <1>2 DEF HostNamesObject, SessionTypes, HostRecords
<1>4. NoCall \in CallRecords
  BY DEF NoCall, CallRecords
<1>5. sessionMap' \in [Ids -> Infos \cup {0}]
  BY <1>1 DEF SessionTypes
<1>6. QED
  BY <1>1, <1>2, <1>3, <1>4, <1>5, SameScene DEF SessionTypes, HostRecords, CallRecords

\* isTTSEnabled and isActiveSession ask.
LEMMA AskStep ==
  ASSUME Inv, UNCHANGED scene, AskEnabled \/ \E id \in Ids : AskActive(id)
  PROVE  SessionInv'
<1> USE DEF Inv, SessionInv
<1>1. /\ UNCHANGED <<host, policy, enabled, sessionMap, infos, wrapper, stateEvents, handling,
                     moves, fault, overtaken>>
      /\ calls' \in 0..scene.calls
  <2>1. CASE AskEnabled
    BY <2>1, SceneTypes DEF AskEnabled, Calls, SessionTypes
  <2>2. ASSUME NEW id \in Ids, AskActive(id)
        PROVE  /\ UNCHANGED <<host, policy, enabled, sessionMap, infos, wrapper, stateEvents,
                              handling, moves, fault, overtaken>>
               /\ calls' \in 0..scene.calls
    <3>1. /\ UNCHANGED <<host, policy, enabled, sessionMap, infos, wrapper, stateEvents,
                         handling, moves, fault, overtaken>>
          /\ Calls
      BY <2>2 DEF AskActive
    <3>2. calls' \in 0..scene.calls
      BY <3>1, SceneTypes DEF Calls, SessionTypes
    <3>3. QED
      BY <3>1, <3>2
  <2>3. QED
    BY <2>1, <2>2
<1>2. call' \in CallRecords
  <2>1. CASE AskEnabled
    <3>1. host.enabled \in BOOLEAN
      BY DEF SessionTypes, HostRecords
    <3>2. call' = [NoCall EXCEPT !.op = "enabled", !.answer = host.enabled]
      BY <2>1 DEF AskEnabled
    <3>3. QED
      BY <3>1, <3>2 DEF CallRecords, NoCall
  <2>2. ASSUME NEW id \in Ids, AskActive(id) PROVE call' \in CallRecords
    <3> DEFINE answer == host.ours = id /\ Active(host)
    <3>1. answer \in BOOLEAN /\ sessionMap[id] \in Infos \cup {0}
      BY DEF SessionTypes
    <3>2. call' = [NoCall EXCEPT !.op = "active", !.info = sessionMap[id], !.answer = answer]
      BY <2>2 DEF AskActive
    <3> HIDE DEF answer
    <3>3. QED
      BY <3>1, <3>2 DEF CallRecords, NoCall
  <2>3. QED
    BY <2>1, <2>2
<1>3. Sound(infos') /\ HostNamesObject'
  BY <1>1 DEF HostNamesObject
<1>4. QED
  BY <1>1, <1>2, <1>3, SameScene DEF SessionTypes, HostRecords, CallRecords

\* The flags of an object change, and nothing else of it.
LEMMA FlagsSound ==
  ASSUME Inv, NEW n \in Infos \cup {0}, NEW got \in BOOLEAN, NEW late \in BOOLEAN,
         infos' = [infos EXCEPT ![n].got = got, ![n].overtaken = late]
  PROVE  Sound(infos') /\ SameLives(infos', infos)
<1> USE DEF Inv, SessionInv
<1>1. CASE n \in Infos
  <2> DEFINE entry == [infos[n] EXCEPT !.got = got, !.overtaken = late]
  <2>1. infos[n] \in InfoRecords
    BY <1>1 DEF Sound
  <2>2. /\ entry \in InfoRecords /\ entry.life = infos[n].life
        /\ entry.wrapper = infos[n].wrapper /\ entry.events = infos[n].events
    BY <2>1 DEF InfoRecords
  <2>3. infos' = [infos EXCEPT ![n] = entry]
    BY <1>1 DEF Sound
  <2>4. Sound(infos)
    OBVIOUS
  <2> HIDE DEF entry
  <2>5. QED
    BY ONLY <1>1, <2>2, <2>3, <2>4, ReplacedSound
<1>2. CASE n \notin Infos
  <2>1. infos' = infos
    BY <1>2 DEF Sound
  <2>2. QED
    BY <2>1 DEF SameLives
<1>3. QED
  BY <1>1, <1>2

\* The answer is stored.
LEMMA StoreAnswerStep ==
  ASSUME Inv, UNCHANGED scene, StoreAnswer
  PROVE  SessionInv'
<1> USE DEF Inv, SessionInv
<1>1. /\ UNCHANGED <<host, policy, sessionMap, wrapper, stateEvents, handling, calls, moves, fault>>
      /\ call' = NoCall
  BY DEF StoreAnswer
<1>2. call.answer \in BOOLEAN /\ call.missed \in BOOLEAN /\ call.info \in Infos \cup {0}
  BY DEF SessionTypes, CallRecords
<1>3. NoCall \in CallRecords
  BY DEF NoCall, CallRecords
<1>4. CASE call.op = "enabled"
  <2>1. infos' = infos /\ enabled' = call.answer /\ overtaken' = call.missed
    BY <1>4 DEF StoreAnswer
  <2>2. enabled' \in BOOLEAN /\ overtaken' \in BOOLEAN
    BY <1>2, <2>1, Zenon
  <2>3. Sound(infos') /\ HostNamesObject'
    BY <1>1, <2>1 DEF HostNamesObject
  <2>4. QED
    BY <1>1, <1>3, <2>2, <2>3, SameScene DEF SessionTypes, HostRecords, CallRecords
<1>5. CASE call.op # "enabled"
  <2>1. /\ infos' = [infos EXCEPT ![call.info].got = call.answer,
                                  ![call.info].overtaken = call.missed]
        /\ UNCHANGED <<enabled, overtaken>>
    BY <1>5 DEF StoreAnswer
  <2>2. Sound(infos') /\ SameLives(infos', infos)
    BY <1>2, <2>1, FlagsSound
  <2>3. HostNamesObject'
    BY <1>1, <2>2 DEF HostNamesObject, SameLives, SessionTypes, HostRecords
  <2>4. QED
    BY <1>1, <1>3, <2>1, <2>2, <2>3, SameScene DEF SessionTypes, HostRecords, CallRecords
<1>6. QED
  BY <1>4, <1>5

\* acquireResource and releaseResource.
LEMMA RequestStep ==
  ASSUME Inv, UNCHANGED scene, NEW wanted \in BOOLEAN, RequestResource(wanted)
  PROVE  SessionInv'
<1> USE DEF Inv, SessionInv
<1> DEFINE h == [host EXCEPT !.wanted = wanted]
<1>1. /\ UNCHANGED <<policy, enabled, sessionMap, wrapper, stateEvents, handling, call, moves,
                     fault, overtaken>>
      /\ calls' \in 0..scene.calls
      /\ host' = h /\ infos' = Announce(host.info, Announced(host, h), infos)
  BY SceneTypes DEF RequestResource, Want, Calls, SessionTypes
<1>2. h \in HostRecords /\ h.info = host.info
  BY DEF SessionTypes, HostRecords
<1> HIDE DEF h
<1>3. Sound(infos') /\ HostNamesObject'
  BY <1>1, <1>2, HostTells
<1>4. QED
  BY <1>1, <1>2, <1>3, SameScene DEF SessionTypes, HostRecords, CallRecords

-----------------------------------------------------------------------------
(* The dispatcher's thread: an event is handled with an object that is     *)
(* there when the handling begins.                                         *)

\* What becomes of an event that is dispatched.
LEMMA DispatchTypes ==
  ASSUME Inv, NEW state \in {"live", "cleared", "deleted"},
         NEW event \in [about : Infos \cup {Client}, event : Events], Dispatch(state, event)
  PROVE  /\ handling' \in [about : Infos \cup {Client}, event : Events]
         /\ fault' \in {"none", "wrapperGone", "usedDeleted"}
         /\ handling' = handling \/ (state = "live" /\ handling' = event)
<1>1. CASE state = "live"
  BY <1>1 DEF Dispatch, Inv, SessionInv, SessionTypes
<1>2. CASE state = "cleared"
  BY <1>2 DEF Dispatch, Inv, SessionInv, SessionTypes
<1>3. CASE state = "deleted"
  BY <1>3 DEF Dispatch, Inv, SessionInv, SessionTypes
<1>4. QED
  BY <1>1, <1>2, <1>3

\* An event of the client is taken, and is never about a session.
LEMMA TakeStateStep ==
  ASSUME Inv, UNCHANGED scene, TakeStateEvent
  PROVE  SessionInv' /\ (handling' = handling \/ handling'.about = Client)
<1> USE DEF Inv, SessionInv
<1> DEFINE event == [about |-> Client, event |-> IF Head(stateEvents) THEN "on" ELSE "off"]
<1>1. /\ stateEvents # <<>> /\ stateEvents' \in {Tail(stateEvents), <<>>}
      /\ Dispatch(wrapper, event) /\ wrapper' = AfterRefusal(wrapper)
      /\ UNCHANGED <<host, policy, enabled, sessionMap, infos, call, calls, moves, overtaken>>
  BY DEF TakeStateEvent, callVars
<1>2. event \in [about : Infos \cup {Client}, event : Events] /\ event.about = Client
  BY DEF Events
<1>3. wrapper \in {"live", "cleared", "deleted"} /\ wrapper' \in {"live", "cleared", "deleted"}
  BY <1>1 DEF SessionTypes, AfterRefusal
<1>4. stateEvents' \in Seq(BOOLEAN)
  <2>1. stateEvents \in Seq(BOOLEAN)
    BY DEF SessionTypes
  <2>2. <<>> \in Seq(BOOLEAN)
    OBVIOUS
  <2>3. QED
    BY ONLY <1>1, <2>1, <2>2, HeadTailProperties
<1> HIDE DEF event
<1>5. /\ handling' \in [about : Infos \cup {Client}, event : Events]
      /\ fault' \in {"none", "wrapperGone", "usedDeleted"}
      /\ handling' = handling \/ handling' = event
  BY <1>1, <1>2, <1>3, DispatchTypes
<1>6. Sound(infos') /\ HostNamesObject'
  BY <1>1 DEF HostNamesObject
<1>7. QED
  BY <1>1, <1>2, <1>3, <1>4, <1>5, <1>6, SameScene DEF SessionTypes, HostRecords, CallRecords

\* An event of a session is taken: if it is to be handled, the object lives.
LEMMA TakeSessionStep ==
  ASSUME Inv, UNCHANGED scene, NEW n \in Infos, TakeSessionEvent(n)
  PROVE  /\ SessionInv'
         /\ handling' = handling \/ (handling'.about = n /\ infos[n].life = "live")
<1> USE DEF Inv, SessionInv
<1> DEFINE event == [about |-> n, event |-> Head(infos[n].events)]
           refused == IF infos[n].wrapper = "cleared" THEN Head(infos[n].events)
                                                      ELSE infos[n].refused
           entry == [infos[n] EXCEPT !.events = Tail(@), !.wrapper = AfterRefusal(@),
                                     !.refused = refused]
<1>0. infos[n] \in InfoRecords
  BY DEF Sound
<1>1. /\ infos[n].events # <<>> /\ infos' = [infos EXCEPT ![n] = entry]
      /\ UNCHANGED <<handling, fault>> \/ Dispatch(infos[n].wrapper, event)
      /\ UNCHANGED <<host, policy, enabled, sessionMap, wrapper, stateEvents, call, calls, moves,
                     overtaken>>
  <2>1. infos' = [infos EXCEPT ![n].events = Tail(@), ![n].wrapper = AfterRefusal(@),
                    ![n].refused = IF infos[n].wrapper = "cleared" THEN Head(infos[n].events) ELSE @]
    BY DEF TakeSessionEvent
  <2>2. infos' = [infos EXCEPT ![n] = entry]
    BY <1>0, <2>1 DEF Sound
  <2>3. QED
    BY <2>2 DEF TakeSessionEvent, callVars
<1>2. event \in [about : Infos \cup {Client}, event : Events] /\ event.about = n
  BY <1>0, <1>1 DEF InfoRecords
<1>3. /\ entry \in InfoRecords /\ entry.life = infos[n].life
      /\ infos[n].wrapper # "live" => entry.wrapper # "live"
  <2>1. infos[n].events \in Seq(Events)
    BY <1>0 DEF InfoRecords
  <2>2. Tail(infos[n].events) \in Seq(Events)
    BY ONLY <1>1, <2>1, HeadTailProperties
  <2>3. AfterRefusal(infos[n].wrapper) \in {"live", "cleared", "deleted"}
    BY <1>0 DEF InfoRecords, AfterRefusal
  <2>4. infos[n].wrapper # "live" => AfterRefusal(infos[n].wrapper) # "live"
    BY DEF AfterRefusal
  <2>5. refused \in Events
    BY <1>0, <1>1 DEF InfoRecords
  <2> HIDE DEF refused
  <2>6. QED
    BY <1>0, <2>2, <2>3, <2>4, <2>5 DEF InfoRecords
<1>4. infos[n].wrapper \in {"live", "cleared", "deleted"}
  BY <1>0 DEF InfoRecords
<1>5. infos[n].wrapper = "live" => infos[n].life = "live"
  BY <1>0, <1>1 DEF Sound, InfoRecords
<1> HIDE DEF event, entry
<1>6. /\ handling' \in [about : Infos \cup {Client}, event : Events]
      /\ fault' \in {"none", "wrapperGone", "usedDeleted"}
      /\ handling' = handling \/ (infos[n].wrapper = "live" /\ handling' = event)
  <2>1. CASE UNCHANGED <<handling, fault>>
    BY <2>1 DEF SessionTypes
  <2>2. CASE Dispatch(infos[n].wrapper, event)
    BY <1>2, <1>4, <2>2, DispatchTypes
  <2>3. QED
    BY <1>1, <2>1, <2>2
<1>7. Sound(infos') /\ SameLives(infos', infos)
  <2>1. Sound(infos)
    OBVIOUS
  <2>2. QED
    BY ONLY <1>1, <1>3, <2>1, ReplacedSound
<1>8. HostNamesObject'
  BY <1>1, <1>7 DEF HostNamesObject, SameLives, SessionTypes, HostRecords
<1>9. SessionTypes'
  BY <1>1, <1>6 DEF SessionTypes, HostRecords, CallRecords
<1>10. QED
  BY <1>2, <1>5, <1>6, <1>7, <1>8, <1>9, SameScene

\* An event of the client is handled.
LEMMA HandleStateStep ==
  ASSUME Inv, UNCHANGED scene, HandleStateEvent
  PROVE  SessionInv' /\ handling'.about = Client
<1> USE DEF Inv, SessionInv
<1> DEFINE on == handling.event = "on"
<1>1. /\ UNCHANGED <<host, policy, sessionMap, infos, wrapper, stateEvents, calls, moves>>
      /\ handling' = NoEvent /\ fault' \in {fault, "usedDeleted"}
      /\ enabled' = enabled \/ enabled' = on
      /\ overtaken' = overtaken \/ overtaken' = FALSE
      /\ call' = call \/ call' = [call EXCEPT !.missed = (call.answer # on)]
  BY DEF HandleStateEvent
<1>2. NoEvent \in [about : Infos \cup {Client}, event : Events] /\ NoEvent.about = Client
  BY DEF NoEvent, Events
<1>3. enabled' \in BOOLEAN /\ overtaken' \in BOOLEAN
  BY <1>1, Zenon DEF SessionTypes
<1>4. call' \in CallRecords
  <2> DEFINE missed == call.answer # on
  <2>1. missed \in BOOLEAN /\ call \in CallRecords
    BY DEF SessionTypes
  <2>2. call' = call \/ call' = [call EXCEPT !.missed = missed]
    BY <1>1
  <2> HIDE DEF missed
  <2>3. QED
    BY <2>1, <2>2 DEF CallRecords
<1>5. Sound(infos') /\ HostNamesObject'
  BY <1>1 DEF HostNamesObject
<1>6. QED
  BY <1>1, <1>2, <1>3, <1>4, <1>5, SameScene DEF SessionTypes, HostRecords

\* An event of a session is handled.
LEMMA HandleSessionStep ==
  ASSUME Inv, UNCHANGED scene, HandleSessionEvent
  PROVE  SessionInv' /\ handling'.about = Client
<1> USE DEF Inv, SessionInv
<1> DEFINE n == handling.about
           got == handling.event = "acquired"
           missed == call.answer # got
<1>1. /\ UNCHANGED <<host, policy, enabled, sessionMap, wrapper, stateEvents, calls, moves,
                     overtaken>>
      /\ handling' = NoEvent
  BY DEF HandleSessionEvent
<1>2. /\ fault' \in {fault, "usedDeleted"}
      /\ infos' = infos \/ infos' = [infos EXCEPT ![n].got = got, ![n].overtaken = FALSE]
      /\ call' = call \/ call' = [call EXCEPT !.missed = missed]
  <2>1. CASE infos[n].life = "deleted"
    BY <2>1 DEF HandleSessionEvent
  <2>2. CASE infos[n].life = "live" /\ handling.event = "speech"
    BY <2>2 DEF HandleSessionEvent
  <2>3. CASE infos[n].life # "deleted" /\ ~(infos[n].life = "live" /\ handling.event = "speech")
    BY <2>3 DEF HandleSessionEvent
  <2>4. QED
    BY <2>1, <2>2, <2>3
<1>3. NoEvent \in [about : Infos \cup {Client}, event : Events] /\ NoEvent.about = Client
  BY DEF NoEvent, Events
<1>4. got \in BOOLEAN /\ missed \in BOOLEAN /\ n \in Infos \cup {0} /\ call \in CallRecords
  BY DEF SessionTypes, Client
<1> HIDE DEF n, got, missed
<1>5. call' \in CallRecords
  BY <1>2, <1>4 DEF CallRecords
<1>6. Sound(infos') /\ SameLives(infos', infos)
  <2>1. CASE infos' = infos
    BY <2>1 DEF SameLives
  <2>2. CASE infos' = [infos EXCEPT ![n].got = got, ![n].overtaken = FALSE]
    BY <1>4, <2>2, FlagsSound
  <2>3. QED
    BY <1>2, <2>1, <2>2
<1>7. HostNamesObject'
  BY <1>1, <1>6 DEF HostNamesObject, SameLives, SessionTypes, HostRecords
<1>8. QED
  BY <1>1, <1>2, <1>3, <1>5, <1>6, <1>7, SameScene DEF SessionTypes, HostRecords

-----------------------------------------------------------------------------
(* The theorems about the sessions.                                        *)

\* The connection's own steps keep the sessions' invariant.
LEMMA ConnectionKeeps ==
  ASSUME Inv, UNCHANGED scene, UNCHANGED sessionVars \/ UsesDeleted \/ Install \/ Forget
  PROVE  SessionInv' /\ handling' = handling
<1> USE DEF Inv, SessionInv
<1>1. /\ UNCHANGED <<host, enabled, sessionMap, infos, stateEvents, handling, call, calls, moves,
                     overtaken>>
      /\ fault' \in {fault, "usedDeleted"}
      /\ policy' \in {policy, scene.policy} /\ wrapper' \in {wrapper, AfterClear(wrapper)}
  BY DEF sessionVars, callVars, Install, Forget, UsesDeleted
<1>2. policy' \in {"INVALID", "RESERVATION", "OPEN"}
  BY <1>1, SceneTypes DEF SessionTypes
<1>3. wrapper' \in {"live", "cleared", "deleted"}
  BY <1>1 DEF SessionTypes, AfterClear
<1>4. Sound(infos') /\ HostNamesObject'
  BY <1>1 DEF HostNamesObject
<1>5. QED
  BY <1>1, <1>2, <1>3, <1>4, SameScene DEF SessionTypes, HostRecords, CallRecords

\* What a step may do to the event that is being handled.
BeginsWithLive == \A n \in Infos : handling.about # n /\ handling'.about = n => infos[n].life = "live"

\* Every step keeps the sessions' invariant, and begins to handle an event
\* with an object that lives.
LEMMA SessionStep ==
  ASSUME Inv, Next
  PROVE  SessionInv' /\ BeginsWithLive
<1> USE DEF BeginsWithLive
<1>0. UNCHANGED scene
  BY DEF Next
<1>1. CASE UNCHANGED sessionVars \/ UsesDeleted \/ Install \/ Forget
  BY <1>0, <1>1, ConnectionKeeps
<1>2. CASE EventHandler
  <2>1. CASE TakeStateEvent
    BY <1>0, <2>1, TakeStateStep DEF Client, Infos
  <2>2. ASSUME NEW n \in Infos, TakeSessionEvent(n) PROVE SessionInv' /\ BeginsWithLive
    BY <1>0, <2>2, TakeSessionStep
  <2>3. CASE HandleStateEvent \/ HandleSessionEvent
    BY <1>0, <2>3, HandleStateStep, HandleSessionStep DEF Client, Infos
  <2>4. QED
    BY <1>2, <2>1, <2>2, <2>3 DEF EventHandler
<1>3. CASE StoreSession \/ EraseSession \/ StoreAnswer \/ \E i \in Ids : CleanUpSession(i)
  <2>1. handling' = handling
    BY <1>3 DEF StoreSession, EraseSession, StoreAnswer, CleanUpSession
  <2>2. QED
    BY <1>0, <1>3, <2>1, StoreSessionStep, EraseStep, StoreAnswerStep, DestroyStep
<1>4. CASE \/ CreateSession \/ AskEnabled
           \/ \E i \in Ids : DestroySession(i) \/ AskActive(i)
           \/ \E wanted \in BOOLEAN : RequestResource(wanted)
  <2>1. handling' = handling
    BY <1>4 DEF CreateSession, AskEnabled, DestroySession, AskActive, RequestResource
  <2>2. QED
    BY <1>0, <1>4, <2>1, CreateSessionStep, AskStep, DestroyStep, RequestStep
<1>5. CASE Crash \/ EngineMoves
  <2>1. handling' = handling
    BY <1>5 DEF Crash, EngineMoves
  <2>2. QED
    BY <1>0, <1>5, <2>1, CrashStep, EngineMovesStep
<1>6. QED
  BY <1>1, <1>2, <1>3, <1>4, <1>5 DEF Next, StartupSteps, DispatcherSteps, AppSteps, AppCalls

\* The wrapper is cleared with the deletion, for good.
LEMMA WrapperStep ==
  ASSUME Inv, Next
  PROVE  WrapperLives'
<1>1. CASE Forget
  BY <1>1 DEF Forget, Unregister, WrapperLives, Deleting, AtApi
<1>2. CASE TakeStateEvent
  BY <1>2 DEF TakeStateEvent, AfterRefusal, Inv, WrapperLives, Deleting, appVars
<1>3. wrapper' = wrapper \/ Forget \/ TakeStateEvent
  BY DEF Next, StartupSteps, DispatcherSteps, AppSteps, AppCalls, EventHandler, Install, UsesDeleted,
         HandleStateEvent, TakeSessionEvent, HandleSessionEvent, StoreSession, EraseSession,
         StoreAnswer, CleanUpSession, CreateSession, AskEnabled, DestroySession, AskActive,
         RequestResource, Crash, EngineMoves, sessionVars
<1>4. Deleting => Deleting'
  <2>1. CASE UNCHANGED connectionVars
    BY <2>1 DEF connectionVars, appVars, Deleting
  <2>2. QED
    BY <2>1, StepsOfConnection, DeletingStays
<1>5. QED
  BY <1>1, <1>2, <1>3, <1>4 DEF Inv, WrapperLives

\* The invariant of the connection and the sessions holds of every behaviour.
THEOREM SessionInvariance == Spec => []Inv
<1>1. Init => Inv
  BY InitInv, SessionInitInv DEF Inv, WrapperLives, Init
<1>2. Inv /\ UNCHANGED vars => Inv'
  <2> SUFFICES ASSUME Inv, UNCHANGED vars PROVE Inv'
    OBVIOUS
  <2>1. ConnectionInv'
    BY NextInv DEF Inv
  <2>2. UNCHANGED scene /\ UNCHANGED sessionVars
    BY DEF vars, connectionVars
  <2>3. QED
    BY <2>1, <2>2, ConnectionKeeps
       DEF Inv, WrapperLives, Deleting, vars, connectionVars, appVars, sessionVars
<1>3. Inv /\ Next => Inv'
  BY NextInv, SessionStep, WrapperStep DEF Inv
<1>4. QED
  BY <1>1, <1>2, <1>3, PTL DEF Spec

\* The variables of the client keep their types.
THEOREM TypeCorrect == Spec => []TypeOK
<1>1. Inv => TypeOK
  BY DEF Inv, ConnectionInv, SessionInv, SessionTypes, Sound, InfoRecords, HostRecords,
         CallRecords, TypeOK
<1>2. QED
  BY SessionInvariance, <1>1, PTL

\* The dispatcher never begins to handle an event with a SessionInfo that is
\* already deleted.
THEOREM LateRefused == Spec => LateEventsRefused
<1>1. Inv /\ [Next]_vars => [BeginsWithLive]_vars
  BY SessionStep
<1>2. QED
  BY SessionInvariance, <1>1, PTL DEF Spec, LateEventsRefused, BeginsWithLive
=============================================================================
