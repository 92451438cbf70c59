-------------------------- MODULE TTSClientConnection --------------------------
(***************************************************************************)
(* The connection of a client to the engine                                *)
(* (ttsclient/TTSClientPrivateRtRemote.cpp).  Three threads of the client  *)
(* share its members, most of them without a lock:                         *)
(*                                                                         *)
(*  - the app's thread constructs and deletes the client and sets the two  *)
(*    settings, enableTTS and setTTSConfiguration, which are cached while  *)
(*    there is no connection;                                              *)
(*  - the startup thread runs connectToTTSManager: it finds the manager,   *)
(*    installs the handlers, sends what is cached, and waits for a crash;  *)
(*  - the dispatcher thread runs rtServerCrashCB when the engine is gone.  *)
(*                                                                         *)
(* The engine is a process that crashes and is started again; one start of *)
(* it is its number, and m_manager the number of the start it points to.   *)
(* TTSClientSessions adds the sessions, and with them the next-state       *)
(* relation.                                                               *)
(***************************************************************************)
EXTENDS Naturals

CONSTANTS
  Values,       \* values of a setting
  Patience,     \* sTimeOut: seconds to wait for the engine's process
  Scenes        \* the scenes a run covers: crashes, how many; whether they leave
                \* the client time (see EngineCrash); the settings and the calls
                \* the app makes, whether it deletes the client, and what other
                \* clients do to the engine (see TTSClientSessions)

ASSUME ConnectionAssumption ==
  /\ {"none", "raw", "freed"} \cap Values = {}
  /\ Patience \in Nat \ {0}
  /\ Scenes \subseteq [crashes : Nat, atRest : BOOLEAN, sets : Nat, deletes : BOOLEAN,
                       calls : Nat, moves : Nat, policy : {"RESERVATION", "OPEN"}]

VARIABLES
  scene,           \* the scene of this behaviour, never changed
  engine,          \* [state, start, settings, listening] (external)
  notice,          \* a crash callback is due
  watched,         \* the start rtServerCrashCB is registered for, 0 if none
  manager,         \* m_manager: the start it points to, 0 for NULL
  connected, serverCrashed, quit,   \* m_connected, m_serverCrashed, m_quit...
  cached,          \* m_cachedEnableTTS, m_cachedConfig: NULL (none), allocated and
                   \* not written yet (raw), deleted and not NULL yet (freed)
  startup, key,    \* the startup thread and the setting it is at
  timeOut,         \* sTimeOut
  dispatcher,      \* the crash callback: idle, connected or unconnected as it saw
                   \* the client, mark, drop
  app, sets,       \* the app's thread, and how many settings it made
  early            \* history: what the app last set, if it was cached before
                   \* the cache was read

flags   == <<connected, serverCrashed, quit>>
appVars == <<app, sets, early>>
connectionVars == <<scene, engine, notice, watched, manager, flags, cached, startup, key,
                    timeOut, dispatcher, appVars>>

Settings == {"enable", "config"}
Unset    == [k \in Settings |-> "none"]
AtApi    == [pc |-> "ready", key |-> "enable", value |-> "none"]

ConnectionInit ==
  /\ scene \in Scenes
  /\ engine \in {[state |-> s, start |-> IF s = "down" THEN 0 ELSE 1,
                    settings |-> Unset, listening |-> 0] : s \in {"down", "ready"}}
  /\ notice = FALSE /\ watched = 0 /\ manager = 0
  /\ connected = FALSE /\ serverCrashed = FALSE /\ quit = FALSE
  /\ cached = Unset
  /\ startup = "none" /\ key = "enable" /\ timeOut = Patience
  /\ dispatcher = "idle"
  /\ app = [AtApi EXCEPT !.pc = "construct"] /\ sets = 0
  /\ early = Unset

\* A remote call on m_manager gets through.
Answers == engine.state = "ready" /\ manager = engine.start

\* m_startupThreadCondition.notify_one(): lost unless the thread is waiting.
Notify == startup' = IF startup = "blocked" THEN "watch" ELSE startup

-----------------------------------------------------------------------------
(* The startup thread: connectToTTSManager().                              *)

StartupGoto(from, to) == startup = from /\ startup' = to

\* findRemoteObject() also registers rtServerCrashCB.
Locate == engine.state = "ready" /\ manager' = engine.start /\ watched' = engine.start

Loop ==
  /\ StartupGoto("loop", IF quit THEN "done" ELSE IF manager # 0 THEN "install" ELSE "find")
  /\ UNCHANGED <<engine, notice, watched, manager, flags, cached, key, timeOut, dispatcher, appVars>>

\* Found, or given up for good after ten seconds without the object.
Find ==
  /\ \/ StartupGoto("find", "install") /\ Locate
     \/ /\ StartupGoto("find", "done")
        /\ engine.state # "ready" /\ (scene.atRest => engine.state = "down")
        /\ UNCHANGED <<watched, manager>>
  /\ UNCHANGED <<engine, notice, flags, cached, key, timeOut, dispatcher, appVars>>

Installed == IF Answers THEN [engine EXCEPT !.listening = @ + 1] ELSE engine

\* INSTALL_HANDLER_CHECK_RESULT: a failure is logged, nothing more.
InstallHandlers ==
  /\ StartupGoto("install", "setConnected")
  /\ engine' = Installed
  /\ UNCHANGED <<notice, watched, manager, flags, cached, key, timeOut, dispatcher, appVars>>

SetConnected ==
  /\ StartupGoto("setConnected", "test")
  /\ connected' = TRUE /\ key' = "enable"
  /\ UNCHANGED <<engine, notice, watched, manager, serverCrashed, quit, cached, timeOut,
                 dispatcher, appVars>>

\* On to the second setting, or to onTTSServerConnected.
NextSetting ==
  IF key = "enable" THEN startup' = "test" /\ key' = "config"
                    ELSE startup' = "watch" /\ UNCHANGED key

TestCache ==
  /\ startup = "test"
  /\ IF cached[key] # "none" THEN startup' = "send" /\ UNCHANGED key ELSE NextSetting
  /\ UNCHANGED <<engine, notice, watched, manager, flags, cached, timeOut, dispatcher, appVars>>

Applied(k, v) == IF Answers THEN [engine EXCEPT !.settings[k] = v] ELSE engine

\* Mutant: the cached value is thrown away unsent.
Flushed_Unsent(v) == engine

\* enableTTS(*m_cachedEnableTTS): without a connection it caches the value
\* anew, that is not at all.
Flushed(v) == IF connected THEN Applied(key, v) ELSE engine

\* What is sent before the app has written it: any value, or a configuration
\* without a field the engine takes over.
Sent == CASE cached[key] \in Values -> {cached[key]}
          [] cached[key] = "raw" /\ key = "enable" -> Values
          [] OTHER -> {engine.settings[key]}

SendCached ==
  /\ StartupGoto("send", "free")
  /\ \E v \in Sent : engine' = Flushed(v)
  /\ UNCHANGED <<notice, watched, manager, flags, cached, key, timeOut, dispatcher, appVars>>

\* It is deleted, and then the member is NULL.
FreeCached ==
  /\ StartupGoto("free", "erase")
  /\ cached' = [cached EXCEPT ![key] = "freed"]
  /\ UNCHANGED <<engine, notice, watched, manager, flags, key, timeOut, dispatcher, appVars>>

EraseCached ==
  /\ startup = "erase"
  /\ cached' = [cached EXCEPT ![key] = "none"]
  /\ NextSetting
  /\ UNCHANGED <<engine, notice, watched, manager, flags, timeOut, dispatcher, appVars>>

\* Mutant: the predicate does not ask whether the thread is to stop.
Watch_NeverStops ==
  /\ StartupGoto("watch", IF serverCrashed THEN "probe" ELSE "sleep")
  /\ UNCHANGED <<engine, notice, watched, manager, flags, cached, key, timeOut,
                 dispatcher, appVars>>

\* The predicate of the wait, then the wait: the flags are not guarded by the
\* mutex the thread holds.
Watch ==
  /\ StartupGoto("watch", IF serverCrashed THEN "probe" ELSE IF quit THEN "done" ELSE "sleep")
  /\ UNCHANGED <<engine, notice, watched, manager, flags, cached, key, timeOut, dispatcher, appVars>>

FallAsleep ==
  /\ StartupGoto("sleep", "blocked")
  /\ UNCHANGED <<engine, notice, watched, manager, flags, cached, key, timeOut, dispatcher, appVars>>

\* Mutant: the crash is not forgotten when the engine is back.
EngineBack_StillCrashed == startup' = "loop" /\ timeOut' = Patience /\ UNCHANGED serverCrashed

EngineBack == startup' = "loop" /\ timeOut' = Patience /\ serverCrashed' = FALSE

\* Mutant: waits for ever.
GivesUp_Never == FALSE

\* if(!sTimeOut)
GivesUp == timeOut = 0

\* Wait for the engine's process, a second at a time.
Probe ==
  /\ startup = "probe"
  /\ CASE quit -> startup' = "done" /\ UNCHANGED <<timeOut, serverCrashed, quit>>
       [] ~quit /\ GivesUp ->
            startup' = "done" /\ quit' = TRUE /\ UNCHANGED <<timeOut, serverCrashed>>
       [] ~quit /\ ~GivesUp /\ engine.state # "down" -> EngineBack /\ UNCHANGED quit
       [] OTHER -> timeOut' = timeOut - 1 /\ UNCHANGED <<startup, serverCrashed, quit>>
  /\ UNCHANGED <<engine, notice, watched, manager, connected, cached, key, dispatcher, appVars>>

Startup == Loop \/ Find \/ SetConnected \/ TestCache \/ SendCached
           \/ FreeCached \/ EraseCached \/ Watch \/ FallAsleep \/ Probe

-----------------------------------------------------------------------------
(* The dispatcher thread: rtServerCrashCB and cleanupConnection(true).     *)

\* m_connected is tested, and then cleared.
CrashCallback ==
  /\ notice /\ dispatcher = "idle"
  /\ notice' = FALSE
  /\ dispatcher' = IF connected THEN "connected" ELSE "unconnected"
  /\ UNCHANGED <<engine, watched, manager, flags, cached, startup, key, timeOut, appVars>>

CrashDisconnects ==
  /\ dispatcher \in {"connected", "unconnected"}
  /\ connected' = FALSE
  /\ dispatcher' = IF dispatcher = "connected" THEN "mark" ELSE "drop"
  /\ UNCHANGED <<engine, notice, watched, manager, serverCrashed, quit, cached, startup, key,
                 timeOut, appVars>>

\* Mutant: the thread is not told.
MarkCrash_Quietly ==
  /\ dispatcher = "mark"
  /\ serverCrashed' = TRUE /\ UNCHANGED startup
  /\ dispatcher' = "drop"
  /\ UNCHANGED <<engine, notice, watched, manager, connected, quit, cached, key, timeOut, appVars>>

MarkCrash ==
  /\ dispatcher = "mark"
  /\ serverCrashed' = TRUE /\ Notify
  /\ dispatcher' = "drop"
  /\ UNCHANGED <<engine, notice, watched, manager, connected, quit, cached, key, timeOut, appVars>>

DropManager ==
  /\ dispatcher = "drop"
  /\ manager' = 0
  /\ dispatcher' = "idle"
  /\ UNCHANGED <<engine, notice, watched, flags, cached, startup, key, timeOut, appVars>>

Dispatcher == CrashCallback \/ CrashDisconnects \/ MarkCrash \/ DropManager

\* The callback is not unregistered by a client that is deleted while it is not
\* connected: another client's dispatcher thread runs it with what is gone.
CrashCallbackLate == app.pc = "gone" /\ (notice \/ dispatcher # "idle")

-----------------------------------------------------------------------------
(* The app's thread.                                                       *)

\* The constructor looks for the engine for a tenth of a second itself.
Construct ==
  /\ app.pc = "construct"
  /\ Locate \/ UNCHANGED <<manager, watched>>
  /\ startup' = "loop"
  /\ app' = AtApi
  /\ UNCHANGED <<engine, notice, flags, cached, key, timeOut, dispatcher, sets, early>>

\* enableTTS(v) or setTTSConfiguration(v): m_connected is tested ...
CallSet(k, v) ==
  /\ app = AtApi /\ sets < scene.sets
  /\ sets' = sets + 1
  /\ app' = [pc |-> IF connected THEN "send" ELSE "cache", key |-> k, value |-> v]
  /\ UNCHANGED <<engine, notice, watched, manager, flags, cached, startup, key, timeOut,
                 dispatcher, early>>

\* The startup thread has yet to look whether a value of k is cached.
BeforeFlush(k) ==
  \/ startup \in {"loop", "find", "install", "setConnected"}
  \/ startup = "test" /\ (key = k \/ key = "enable")
  \/ startup \in {"send", "free", "erase"} /\ key = "enable" /\ k = "config"

\* ... and the value is cached, in what is there or is allocated for it ...
CacheTest ==
  /\ app.pc = "cache"
  /\ cached' = [cached EXCEPT ![app.key] = IF @ = "none" THEN "raw" ELSE @]
  /\ app' = [app EXCEPT !.pc = "write"]
  /\ UNCHANGED <<engine, notice, watched, manager, flags, startup, key, timeOut, dispatcher, sets,
                 early>>

\* ... unless the startup thread deletes it in between (see TTSClientSessions) ...
CacheGone == app.pc = "write" /\ cached[app.key] \in {"none", "freed"}

CacheSetting ==
  /\ app.pc = "write" /\ ~CacheGone
  /\ cached' = [cached EXCEPT ![app.key] = app.value]
  /\ early' = [early EXCEPT ![app.key] = IF BeforeFlush(app.key) THEN app.value ELSE "none"]
  /\ app' = AtApi
  /\ UNCHANGED <<engine, notice, watched, manager, flags, startup, key, timeOut, dispatcher, sets>>

\* ... or sent; an error of the call is returned.
SendSetting ==
  /\ app.pc = "send"
  /\ engine' = Applied(app.key, app.value)
  /\ early' = [early EXCEPT ![app.key] = "none"]
  /\ app' = AtApi
  /\ UNCHANGED <<notice, watched, manager, flags, cached, startup, key, timeOut, dispatcher, sets>>

\* Mutant: the connection is looked at after m_connected = false.
Delete_Late ==
  /\ scene.deletes /\ app = AtApi
  /\ app' = [AtApi EXCEPT !.pc = "unconnected"]
  /\ UNCHANGED <<engine, notice, watched, manager, flags, cached, startup, key, timeOut,
                 dispatcher, sets, early>>

\* ~TTSClientPrivateRtRemote(): cleanupConnection(false), which destroys the
\* sessions and forgets the crash callback only if there is a connection ...
Delete ==
  /\ scene.deletes /\ app = AtApi
  /\ app' = [AtApi EXCEPT !.pc = IF connected THEN "connected" ELSE "unconnected"]
  /\ UNCHANGED <<engine, notice, watched, manager, flags, cached, startup, key, timeOut,
                 dispatcher, sets, early>>

DeleteDisconnects ==
  /\ app.pc \in {"connected", "unconnected"}
  /\ connected' = FALSE
  /\ app' = [AtApi EXCEPT !.pc = IF app.pc = "connected" THEN "unregister" ELSE "drop"]
  /\ UNCHANGED <<engine, notice, watched, manager, serverCrashed, quit, cached, startup, key,
                 timeOut, dispatcher, sets, early>>

Unregister ==
  /\ app.pc = "unregister"
  /\ watched' = 0 /\ notice' = FALSE
  /\ app' = [AtApi EXCEPT !.pc = "drop"]
  /\ UNCHANGED <<engine, manager, flags, cached, startup, key, timeOut, dispatcher, sets, early>>

DeleteDrop ==
  /\ app.pc = "drop"
  /\ manager' = 0
  /\ app' = [AtApi EXCEPT !.pc = "quit"]
  /\ UNCHANGED <<engine, notice, watched, flags, cached, startup, key, timeOut, dispatcher, sets,
                 early>>

\* ... and then stops the startup thread.
DeleteQuit ==
  /\ app.pc = "quit"
  /\ quit' = TRUE /\ Notify
  /\ app' = [AtApi EXCEPT !.pc = "join"]
  /\ UNCHANGED <<engine, notice, watched, manager, connected, serverCrashed, cached, key, timeOut,
                 dispatcher, sets, early>>

Join ==
  /\ app.pc = "join" /\ startup = "done"
  /\ app' = [AtApi EXCEPT !.pc = "gone"]
  /\ UNCHANGED <<engine, notice, watched, manager, flags, cached, startup, key, timeOut, dispatcher,
                 sets, early>>

AppReturns == Construct \/ CacheTest \/ CacheSetting \/ SendSetting \/ DeleteDisconnects
              \/ DeleteDrop \/ DeleteQuit \/ Join

-----------------------------------------------------------------------------
(* The engine's process (external).                                        *)

ClientUnchanged == UNCHANGED <<manager, flags, cached, startup, key, timeOut, dispatcher, appVars>>

\* At rest a crash hits a connection that is established and idle.
EngineCrash ==
  /\ engine.state # "down" /\ engine.start <= scene.crashes
  /\ scene.atRest => startup = "blocked" /\ connected /\ ~serverCrashed /\ dispatcher = "idle"
  /\ engine' = [engine EXCEPT !.state = "down", !.settings = Unset, !.listening = 0]
  /\ notice' = (notice \/ watched = engine.start)
  /\ watched' = IF watched = engine.start THEN 0 ELSE watched
  /\ ClientUnchanged

\* The process runs; at rest only once the client knows of the crash.
EngineStart ==
  /\ engine.state = "down"
  /\ scene.atRest => ~notice /\ dispatcher = "idle"
  /\ engine' = [engine EXCEPT !.state = "starting", !.start = @ + 1]
  /\ UNCHANGED <<notice, watched>> /\ ClientUnchanged

\* It has registered its manager object.
EngineReady ==
  /\ engine.state = "starting"
  /\ engine' = [engine EXCEPT !.state = "ready"]
  /\ UNCHANGED <<notice, watched>> /\ ClientUnchanged

EngineComesUp == EngineStart \/ EngineReady

-----------------------------------------------------------------------------
(* Properties.                                                             *)

ConnectionTypeOK ==
  /\ scene \in Scenes
  /\ engine \in [state : {"down", "starting", "ready"}, start : 0..(scene.crashes + 1),
                 settings : [Settings -> Values \cup {"none"}], listening : Nat]
  /\ notice \in BOOLEAN /\ watched \in 0..(scene.crashes + 1) /\ manager \in 0..(scene.crashes + 1)
  /\ connected \in BOOLEAN /\ serverCrashed \in BOOLEAN /\ quit \in BOOLEAN
  /\ cached \in [Settings -> Values \cup {"none", "raw", "freed"}]
  /\ startup \in {"none", "loop", "find", "install", "setConnected", "test", "send", "free",
                  "erase", "watch", "sleep", "blocked", "probe", "done"}
  /\ key \in Settings /\ timeOut \in 0..Patience
  /\ dispatcher \in {"idle", "connected", "unconnected", "mark", "drop"}
  /\ app \in [pc : {"construct", "ready", "cache", "write", "send", "connected", "unconnected",
                    "unregister", "drop", "quit", "join", "gone"},
              key : Settings, value : Values \cup {"none"}]
  /\ sets \in 0..scene.sets
  /\ early \in [Settings -> Values \cup {"none"}]

Deleting ==
  app.pc \in {"connected", "unconnected", "unregister", "drop", "quit", "join", "gone"}

\* However crashes, restarts and reconnections interleave, one start of the
\* engine holds the handlers of a client that is not being deleted at most
\* once: no event is delivered twice
\* (TTSClientPrivateRtRemote.cpp:200-218, 249-288, 382-410).
InstalledOnce == Deleting \/ engine.listening <= 1

\* As long as engine and client live, a setting that was cached before the
\* startup thread looked at the cache is the engine's when the thread waits,
\* unless the app made another (TTSClientPrivateRtRemote.cpp:221-239, 412-419).
EarlySettingsArrive ==
  /\ engine.start = 1 /\ engine.state = "ready" /\ ~Deleting
  /\ startup \in {"watch", "sleep", "blocked"}
  => \A k \in Settings : early[k] # "none" => engine.settings[k] = early[k]
=============================================================================
