------------------------- MODULE TextToSpeechService -------------------------
(***************************************************************************)
(* The connection of a process to the Thunder plugin org.rdk.TextToSpeech  *)
(* (ttsclient/Service.cpp and TextToSpeechService.cpp), a singleton.       *)
(* Three threads use its members, most of them without a lock:             *)
(*                                                                         *)
(*  - the app's thread constructs it and calls through it;                 *)
(*  - the callback thread handles the plugin's state changes and events,   *)
(*    in the order of `inbox`;                                             *)
(*  - the worker thread of AsyncWorker runs the tasks that must not be run *)
(*    on the callback thread: to subscribe to the state changes, and to    *)
(*    initialize after an activation.                                      *)
(*                                                                         *)
(* TTSClientJsonRPC adds the client, and with it the next-state relation.  *)
(* restartServiceOnCrash is only ever called with false, so the tasks that *)
(* revive a plugin are never posted.                                       *)
(***************************************************************************)
EXTENDS Naturals, Sequences, FiniteSets

CONSTANTS
  Polls,     \* how often onActivation asks for the plugin's status
  Scenes     \* the scenes a run covers: how often the plugin changes, whether it
             \* does only while the client is at rest, how many requests to it
             \* get no answer, and what the app does (see TTSClientJsonRPC)

ASSUME ServiceAssumption ==
  /\ Polls \in Nat \ {0}
  /\ Scenes \subseteq [changes : Nat, atRest : BOOLEAN, glitches : Nat, toggles : Nat,
                       calls : SUBSET {"create", "fetch", "speak", "abort", "destroy", "delete"},
                       made : Nat]

VARIABLES
  scene,           \* the scene of this behaviour, never changed
  plugin,          \* the plugin (external)
  listening,       \* the controller's state changes are subscribed to
  inbox,           \* what the callback thread has not handled yet
  active, queried, \* m_active, m_activeQuerySuccess
  remote,          \* m_remoteObject is there
  initialized,     \* m_initialized
  handlers,        \* m_registeredSpeechEventHandlers
  mutex,           \* holder of m_mutex: free, or a thread
  tasks, running,  \* AsyncWorker: m_tasklist, m_running
  pc, ret,         \* where each thread is, and where isActive() returns to
  answer,          \* the answer a thread has to store
  polls,           \* what is left of timeout_counter
  handled,         \* the event the callback thread is handling
  glitches, changes,  \* requests without an answer and changes of the plugin so far
  lost,            \* history: what the plugin that is active was asked in vain to send
  fault            \* undefined behaviour reached, if any

memberVars  == <<active, queried, remote, initialized, handlers>>
workerVars  == <<tasks, running>>
boundVars   == <<glitches, changes, lost>>
outsideVars == <<scene, plugin, listening, inbox>>
otherVars   == <<handled, boundVars, fault>>
askVars     == <<ret, answer, polls>>
serviceVars == <<outsideVars, memberVars, mutex, workerVars, pc, askVars, otherVars>>

Threads  == {"app", "worker", "callback"}
NoAnswer == [ok |-> FALSE, up |-> FALSE]
NoEvent  == [kind |-> "none", id |-> 0, on |-> FALSE]

\* The plugin may be active before the client is there.
ServiceInit ==
  /\ scene \in Scenes
  /\ plugin \in {[active |-> b, enabled |-> b, subscribed |-> {}, lastId |-> 0, pending |-> <<>>] :
                  b \in BOOLEAN}
  /\ listening = FALSE /\ inbox = <<>>
  /\ active = FALSE /\ queried = FALSE /\ remote = FALSE
  /\ initialized = FALSE /\ handlers = FALSE
  /\ mutex = "free"
  /\ tasks = <<>> /\ running = FALSE
  /\ pc = [app |-> "construct", worker |-> "dead", callback |-> "idle"]
  /\ ret = [t \in Threads |-> "none"] /\ answer = [t \in Threads |-> NoAnswer]
  /\ polls = 0 /\ handled = NoEvent
  /\ glitches = 0 /\ changes = 0 /\ lost = {} /\ fault = "none"

Goto(t, to) == pc' = [pc EXCEPT ![t] = to]

Event(kind) == [NoEvent EXCEPT !.kind = kind]

Arrives(events) == inbox' = inbox \o events

\* The plugin's ids begin anew.
ActivePlugin ==
  IF plugin.active THEN plugin ELSE [plugin EXCEPT !.active = TRUE, !.enabled = TRUE, !.lastId = 0]

\* initialized()
Initialized == remote /\ initialized

\* A step that only moves a thread leaves these alone.
Only == UNCHANGED <<outsideVars, memberVars, mutex, workerVars, otherVars>>

-----------------------------------------------------------------------------
(* AsyncWorker.                                                            *)

\* post() reads m_running in the same critical section as it adds the task;
\* without a running thread the old one is joined and a new one started.
Post(t, task, next) ==
  /\ tasks' = Append(tasks, task)
  /\ Goto(t, IF running THEN next ELSE "join")
  /\ UNCHANGED running

StartWorker(t, next) == pc.worker = "dead" /\ pc' = [pc EXCEPT ![t] = next, !.worker = "start"]

\* The constructor of the one instance posts the subscription.
Construct ==
  /\ pc.app = "construct"
  /\ Post("app", "install", "lock")
  /\ UNCHANGED <<outsideVars, memberVars, mutex, askVars, otherVars>>

Join(t) ==
  /\ pc[t] = "join"
  /\ StartWorker(t, IF t = "app" THEN "lock" ELSE "idle")
  /\ Only /\ UNCHANGED askVars

WorkerStarts ==
  /\ pc.worker = "start"
  /\ running' = TRUE
  /\ Goto("worker", "take")
  /\ UNCHANGED <<outsideVars, memberVars, mutex, tasks, askVars, otherVars>>

TakeTask ==
  /\ pc.worker = "take"
  /\ IF tasks = <<>>
       THEN Goto("worker", "dead") /\ running' = FALSE /\ UNCHANGED <<tasks, polls>>
       ELSE /\ tasks' = Tail(tasks) /\ polls' = Polls
            /\ Goto("worker", IF Head(tasks) = "install" THEN "install" ELSE "poll")
            /\ UNCHANGED running
  /\ UNCHANGED <<outsideVars, memberVars, mutex, ret, answer, otherVars>>

\* Subscribes to the state changes.  It tries three times; when every time fails,
\* here all the answers a scene can lose, it never will be.
InstallHandler ==
  /\ pc.worker = "install"
  /\ \/ listening' = TRUE /\ UNCHANGED glitches
     \/ glitches < scene.glitches /\ glitches' = scene.glitches /\ UNCHANGED listening
  /\ Goto("worker", "take")
  /\ UNCHANGED <<scene, plugin, inbox, memberVars, mutex, workerVars, askVars, handled,
                 changes, lost, fault>>

-----------------------------------------------------------------------------
(* isActive(): asked of the controller when forced, or when the last       *)
(* question failed; otherwise m_active.                                    *)

IsActive(t, force, next) ==
  IF force \/ ~queried
    THEN pc' = [pc EXCEPT ![t] = "ask"] /\ ret' = [ret EXCEPT ![t] = next]
    ELSE Goto(t, next) /\ UNCHANGED ret

Ask(t) ==
  /\ pc[t] = "ask"
  /\ \/ answer' = [answer EXCEPT ![t] = [ok |-> TRUE, up |-> plugin.active]] /\ UNCHANGED glitches
     \/ /\ glitches < scene.glitches /\ glitches' = glitches + 1
        /\ answer' = [answer EXCEPT ![t] = NoAnswer]
  /\ Goto(t, "store")
  /\ UNCHANGED <<outsideVars, memberVars, mutex, workerVars, ret, polls, handled, changes,
                 lost, fault>>

Store(t) ==
  /\ pc[t] = "store"
  /\ queried' = answer[t].ok /\ active' = answer[t].up
  /\ answer' = [answer EXCEPT ![t] = NoAnswer]
  /\ pc' = [pc EXCEPT ![t] = ret[t]] /\ ret' = [ret EXCEPT ![t] = "none"]
  /\ UNCHANGED <<outsideVars, remote, initialized, handlers, mutex, workerVars, polls,
                 otherVars>>

-----------------------------------------------------------------------------
(* The task of onActivation, on the worker thread, and initialize(), which *)
(* the constructor of a client also runs.                                  *)

Poll ==
  /\ pc.worker = "poll"
  /\ IsActive("worker", TRUE, "polled")
  /\ Only /\ UNCHANGED <<answer, polls>>

\* Mutant: asks once.
Again_Never == FALSE

\* timeout_counter is not used up.
Again == polls > 1

Polled ==
  /\ pc.worker = "polled"
  /\ IF ~active /\ Again
       THEN polls' = polls - 1 /\ Goto("worker", "poll") /\ UNCHANGED ret
       ELSE UNCHANGED polls /\ IsActive("worker", FALSE, "decide")
  /\ Only /\ UNCHANGED answer

Decide ==
  /\ pc.worker = "decide"
  /\ Goto("worker", IF active THEN "lock" ELSE "take")
  /\ Only /\ UNCHANGED askVars

After(t) == IF t = "app" THEN "register" ELSE "notify"

\* Mutant: the early return keeps the lock.
Lock_Keeps(t) ==
  /\ pc[t] = "lock" /\ mutex = "free" /\ mutex' = t
  /\ IF Initialized THEN Goto(t, After(t)) /\ UNCHANGED ret ELSE IsActive(t, FALSE, "first")
  /\ UNCHANGED <<outsideVars, memberVars, workerVars, answer, polls, otherVars>>

\* initialize(): nothing is done twice.
Lock(t) ==
  /\ pc[t] = "lock" /\ mutex = "free"
  /\ IF Initialized
       THEN Goto(t, After(t)) /\ UNCHANGED <<mutex, ret>>
       ELSE mutex' = t /\ IsActive(t, FALSE, "first")
  /\ UNCHANGED <<outsideVars, memberVars, workerVars, answer, polls, otherVars>>

First(t) ==
  /\ pc[t] = "first"
  /\ CASE active -> Goto(t, "connect") /\ UNCHANGED ret
       [] ~active /\ t = "app" -> Goto(t, "activate") /\ UNCHANGED ret
       [] OTHER -> IsActive(t, TRUE, "connect")
  /\ Only /\ UNCHANGED <<answer, polls>>

\* activate(), which the worker's task does not ask for: nothing when m_active
\* has been set since; its answer may be lost whether the plugin was activated
\* or not ...
Activates == /\ plugin' = ActivePlugin
             /\ Arrives(IF listening /\ ~plugin.active THEN <<Event("activated")>> ELSE <<>>)

Activate ==
  /\ pc.app = "activate"
  /\ IF active
       THEN IsActive("app", TRUE, "connect") /\ UNCHANGED <<plugin, inbox, answer, glitches>>
       ELSE /\ Goto("app", "activated") /\ UNCHANGED ret
            /\ \/ Activates /\ UNCHANGED glitches
                  /\ answer' = [answer EXCEPT !.app = [ok |-> TRUE, up |-> TRUE]]
               \/ /\ glitches < scene.glitches /\ glitches' = glitches + 1
                  /\ Activates \/ UNCHANGED <<plugin, inbox>>
                  /\ answer' = [answer EXCEPT !.app = NoAnswer]
  /\ UNCHANGED <<scene, listening, memberVars, mutex, workerVars, polls, handled, changes,
                 lost, fault>>

\* ... and m_active is overwritten with it; whoever called asks again.
Activated ==
  /\ pc.app = "activated"
  /\ active' = answer.app.ok
  /\ answer' = [answer EXCEPT !.app = NoAnswer]
  /\ IsActive("app", TRUE, "connect")
  /\ UNCHANGED <<outsideVars, queried, remote, initialized, handlers, mutex, workerVars, polls,
                 otherVars>>

Connect(t) ==
  /\ pc[t] = "connect"
  /\ remote' = (remote \/ active)
  /\ IsActive(t, FALSE, "subscribe")
  /\ UNCHANGED <<outsideVars, active, queried, initialized, handlers, mutex, workerVars,
                 answer, polls, otherVars>>

\* subscribe() tests m_remoteObject ...
Subscribe(t) ==
  /\ pc[t] = "subscribe"
  /\ Goto(t, IF active /\ remote THEN "subscribing" ELSE "finish")
  /\ Only /\ UNCHANGED askVars

\* ... and calls it; a plugin that is not active refuses.
Call(t, next, result) ==
  IF ~remote THEN fault' = "nullRemote" /\ UNCHANGED <<plugin, pc>>
             ELSE plugin' = result /\ Goto(t, next) /\ UNCHANGED fault

Subscribed(name) == IF plugin.active THEN [plugin EXCEPT !.subscribed = @ \cup {name}] ELSE plugin

\* A request that fails leaves nothing subscribed to, and goes unnoticed.
SubscribesTo(t, name, next) ==
  \/ Call(t, next, Subscribed(name)) /\ lost' = lost \ {name} /\ UNCHANGED glitches
  \/ /\ remote /\ glitches < scene.glitches /\ glitches' = glitches + 1
     /\ lost' = lost \cup {name}
     /\ Goto(t, next) /\ UNCHANGED <<plugin, fault>>

Subscribing(t) ==
  /\ pc[t] = "subscribing"
  /\ SubscribesTo(t, "state", "finish")
  /\ UNCHANGED <<scene, listening, inbox, memberVars, mutex, workerVars, askVars, handled,
                 changes>>

\* The clients are told that TTS is disabled: see TTSClientJsonRPC.
Finish(t) ==
  /\ pc[t] = "finish"
  /\ initialized' = TRUE
  /\ mutex' = "free"
  /\ Goto(t, After(t))
  /\ UNCHANGED <<outsideVars, active, queried, remote, handlers, workerVars, askVars,
                 otherVars>>

\* notifyClientsOfActivation()
NotifyUp ==
  /\ pc.worker = "notify" /\ mutex = "free"
  /\ Goto("worker", "take")
  /\ Only /\ UNCHANGED askVars

Worker == \/ WorkerStarts \/ TakeTask \/ InstallHandler \/ Poll \/ Polled \/ Decide
          \/ Ask("worker") \/ Store("worker")
          \/ Lock("worker") \/ First("worker") \/ Connect("worker") \/ Subscribe("worker")
          \/ Subscribing("worker")

AppConnects == \/ Construct \/ Join("app") \/ Ask("app") \/ Store("app")
               \/ Lock("app") \/ First("app") \/ Activate \/ Activated \/ Connect("app")
               \/ Subscribe("app") \/ Subscribing("app")

-----------------------------------------------------------------------------
(* The callback thread.                                                    *)

\* OnPluginStateChange, or dispatchEvent, which tests initialized() first.
TakeEvent ==
  /\ pc.callback = "idle" /\ inbox # <<>>
  /\ inbox' = Tail(inbox)
  /\ CASE Head(inbox).kind = "activated" -> Post("callback", "activate", "idle")
       [] Head(inbox).kind = "deactivated" -> Goto("callback", "down") /\ UNCHANGED workerVars
       [] OTHER -> Goto("callback", IF Initialized THEN "deliver" ELSE "idle")
                   /\ UNCHANGED workerVars
  /\ handled' = IF pc'.callback = "deliver" THEN Head(inbox) ELSE NoEvent
  /\ UNCHANGED <<scene, plugin, listening, memberVars, mutex, askVars, boundVars, fault>>

\* uninitialize(), without a lock: m_active, m_remoteObject and the two flags
\* one after the other.
Down ==
  /\ pc.callback = "down"
  /\ active' = FALSE
  /\ Goto("callback", "drop")
  /\ UNCHANGED <<outsideVars, queried, remote, initialized, handlers, mutex, workerVars,
                 askVars, otherVars>>

DropRemote ==
  /\ pc.callback = "drop"
  /\ remote' = FALSE
  /\ Goto("callback", "reset")
  /\ UNCHANGED <<outsideVars, active, queried, initialized, handlers, mutex, workerVars,
                 askVars, otherVars>>

Reset ==
  /\ pc.callback = "reset"
  /\ initialized' = FALSE /\ handlers' = FALSE
  /\ Goto("callback", "notify")
  /\ UNCHANGED <<outsideVars, active, queried, remote, mutex, workerVars, askVars, otherVars>>

\* notifyClientsOfDeactivation(): what the clients do is TTSClientJsonRPC's.
NotifyDown ==
  /\ pc.callback = "notify" /\ mutex = "free"
  /\ Goto("callback", "idle")
  /\ Only /\ UNCHANGED askVars

CallbackThread == TakeEvent \/ Join("callback") \/ Down \/ DropRemote \/ Reset

-----------------------------------------------------------------------------
(* The plugin (external).                                                  *)

\* Nothing is under way in the client, which knows of the plugin's changes.
AtRest == /\ listening /\ inbox = <<>> /\ mutex = "free" /\ fault = "none"
          /\ pc.callback = "idle" /\ pc.worker = "dead" /\ pc.app = "ready"

MemberUnchanged == UNCHANGED <<scene, listening, memberVars, mutex, workerVars, pc, askVars, handled,
                               fault>>

\* Deactivated, or crashed: subscriptions and speeches are gone.
PluginGoes ==
  /\ plugin.active
  /\ changes < scene.changes /\ changes' = changes + 1
  /\ scene.atRest => AtRest
  /\ plugin' = [plugin EXCEPT !.active = FALSE, !.enabled = FALSE, !.subscribed = {},
                              !.pending = <<>>]
  /\ Arrives(IF listening THEN <<Event("deactivated")>> ELSE <<>>)
  /\ lost' = {}
  /\ MemberUnchanged /\ UNCHANGED glitches

PluginComes ==
  /\ ~plugin.active
  /\ changes < scene.changes /\ changes' = changes + 1
  /\ scene.atRest => AtRest
  /\ plugin' = ActivePlugin
  /\ Arrives(IF listening THEN <<Event("activated")>> ELSE <<>>)
  /\ MemberUnchanged /\ UNCHANGED <<glitches, lost>>
=============================================================================
