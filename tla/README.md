# A verification of rdk-ttsengine

TLA+ models of the Text To Speech engine and of its client library, checked
with TLC, with theorems proved with TLAPS. Paths are relative to `src/`.

## The system

The **engine** is one process. Its main thread runs a glib main loop
(`ttsengine/TTSEngine.cpp`), and on it, one at a time, every remote call of a
client (rtRemote), every message of the GStreamer bus, every timer, and every
read and hang-up of a client's monitor connection. `TTSManager::MonitorClients`
is a second thread that only accepts connections and attaches them to the loop.
`TTSSpeaker::GStreamerThreadFunc` is the third: it builds the audio pipeline,
takes texts from a queue and speaks them.

The **client library** runs in each app: the app's own thread, a startup thread
that finds the engine and waits for its crash, and rtRemote's dispatcher. Where
the engine is a Thunder plugin, the same API is served by a second client: the
app's thread, Thunder's callback thread, and the thread of `AsyncWorker` for
what must not run on the callback thread.

| Component | State it keeps | Operations | Interacts with | Correct when |
|---|---|---|---|---|
| `TTSManager` | sessions by id and by app, reservation, claim, the active session, policy, connections | enableTTS, create/destroySession, reserve/release/claimPlayerResource, setConfiguration, the monitor callbacks | hands `TTSSpeaker` to sessions; called by clients | the player is with its owner and nobody else; the maps agree; a gone client leaves nothing |
| `TTSSession` | its configuration, one put away while speaking, the speaker it may use | speak, pause, resume, abort, shut, setConfiguration, the callbacks of the speaker | `TTSSpeaker` (calls), `TTSEventSource` (events) | the configuration of the manager reaches it and a speech is spoken with it |
| `TTSSpeaker` | the queue, flags of the speech in progress, the pipeline | speak, pause, resume, clear, cancel, ensurePipeline, bus messages, the thread's loop, delete | GStreamer; `TTSSession` as client | each accepted speech ends once, in order, and its session is told; the thread never gets stuck |
| `TTSEventSource` | queued events, a timer, listeners, deferred operations | on, del, sendEvent, the timer's callback | clients, by synchronous remote calls | listeners get every event once and in order |
| `TTSClientPrivateRtRemote`: connection | the manager found, flags, cached settings, the startup thread | constructor, enableTTS, setTTSConfiguration, crash callback, delete | the engine, over rtRemote | connected again after a crash; settings arrive |
| `TTSClientPrivateRtRemote`: sessions | SessionInfo objects by id, what the client believes of TTS and of the player, the wrappers events carry | createSession, destroySession, isActiveSession, isTTSEnabled, acquire/claim/releaseResource, speak, onEvent | the engine; the app's callbacks | the client refuses a speech exactly when the engine would; no session is left behind; late events are refused |
| `Service`, `AsyncWorker`, `TextToSpeechService` | the plugin's activation, the remote object, subscriptions, a task list and its thread | initialize, isActive, activation, deactivation, registerSpeechEventHandlers, dispatchEvent | the Thunder controller and plugin | connected and subscribed again when the plugin comes back; the callback thread is never kept |
| `TTSClientPrivateJsonRPC` | requested speeches, the last one, the enabled flag, the session's callback | createSession, isTTSEnabled, speak, abort, destroySession, delete, the events | `TextToSpeechService` | each request gets its end |
| facade, dispatch, logger, `docs/tts.ini`, `test/` | - | forwarding, printing, data | - | - |

Hard about it: most members are read and written by two threads without a
lock; flags are set and conditions notified outside the mutex of the wait;
listeners and events arrive inside a send; the engine crashes at any point of a
client's start; and the player is passed around by six calls that may come in
any order. `PROJECT.json` lists each of these hazards at its line.

## The modules

| Module | Code | State and actions |
|---|---|---|
| `TTSManager` | `TTSManager.cpp` | One action per handler, as handlers exclude each other on the main loop. `player` holds m_activeSession, the sessions with a speaker and m_ensurePipeline; `Released`, `MakeOwnerActive` are the internal calls, as functions of the player, so that a handler that makes several is still one step. |
| `Subsequence` | the loops of `TTSSpeaker.cpp` 204-218, `TTSEventSource.cpp` 83-96 | What is left of a list when elements are erased, said by the places that stay and not by recursion, so that it can be reasoned about. `MCTTSEventSource` has TLC compare it with the loops, as `SelectSeq` and `FoldLeft` (`LoopsReference`). |
| `*_proofs` | | The proofs, see below: `TTSManager_proofs`, `TTSSpeaker_proofs`, `TTSSession_proofs`, `TTSEventSource_proofs`, `TTSClientSessions_proofs` with `TTSClientPromises_proofs`, `TTSClientJsonRPC_proofs`, and the lemmas of `Subsequence_proofs`. |
| `TTSSpeaker` | `TTSSpeaker.cpp`, the speaker calls of `TTSSession.cpp` | `gst` is the program counter of the speaker's thread, `main` the call the main loop is in. One action is the code between two points at which the other thread can see a difference: a test and the assignment that follows it are two steps where no lock covers both, `m_queueMutex` and `m_stateMutex` are modelled where they are held. GStreamer is external: state changes complete, streams end or fail, in any order or never. |
| `SpeechService` | - | What the speaker promises: requests wait in order, one is served at a time, each ends once. `TTSSpeaker` implements it (`ImplementsService`). |
| `TTSSession` | `TTSSession::setConfiguration`, `spoke`, `TTSManager::setConfiguration`, the copy in the speaker's thread | A configuration is two fields, as it is updated field by field; a value is the number of the call that set it. |
| `TTSEventSource` | `TTSEventSource.cpp` | `pc`, `obj`, `itr` are the timer's callback and the loop of `Emit::Send`; other calls are served between callbacks and while a listener's answer is waited for. `client` is what became of the process behind a listener. |
| `TTSClientConnection` | `TTSClientPrivateRtRemote.cpp` 60-66, 168-506 | The three threads, each with its program counter; the engine's process is external and crashes and starts. It has no next-state relation of its own: |
| `TTSClientSessions` | the same, 394-405, 528-787, 912-1032; the header's SessionInfo and CallbackDataWrapper | extends it, and composes its actions with the sessions. A call that asks the engine is two steps, the answer and its storing (`CreateSession`, `StoreSession`; `AskActive`, `StoreAnswer`), between which the dispatcher handles events; an event is two steps, the test of its wrapper and the use of the object (`TakeSessionEvent`, `HandleSessionEvent`). `host` is the engine as one app sees it, with other clients that enable TTS and reserve the player. |
| `TextToSpeechService` | `Service.cpp`, `Service.h`, `TextToSpeechService.cpp` | `pc` has the app's thread, the worker's and the callback thread; each test of a member that another thread writes is a step. `isActive` is a subroutine (`IsActive`, `Ask`, `Store`, with `ret` where it returns to). `plugin` and the events in `inbox` are external; controller and plugin share one order of events, as they share one connection. |
| `TTSClientJsonRPC` | `TTSClientPrivateJsonRPC.cpp`, `.h` | extends it with the client: the steps of each call, and what it does with the events. `requested` is SpeechRequestMap. |

Both clients have no next-state relation below the module that composes them:
the properties are about the composition. `scene` is chosen in the initial
state and never changed: it says how often the environment may do what, so that
one run covers several situations without multiplying them.

`MC*` modules give TLC its values. Definitions named `Name_Something` are
mutated forms of `Name`: each property was shown to fail when one of them takes
its place, which says that it depends on the code it is about.

Undefined behaviour: `dequeueData` on an empty list and a read through a NULL
`m_currentSpeech` set `fault`, after which nothing is said; the uninitialised
`state` of `waitForStatus` is any value, so its loop ends or goes on. In the
clients `fault` is set when a deleted client, SessionInfo, wrapper or cached
setting is used, or a pointer another thread has set to null since it was tested.
A client that is deleted before it is connected keeps its crash callback
registered (`CrashCallbackLate`), and the startup thread deletes a cached setting
the app may be writing (`CacheGone`). TLC reaches each of these faults, and
nothing in the repository speaks of them.

## What TLC checks

| Run | Question | Bounds |
|---|---|---|
| ManagerPlayer | Do the maps, the claim, the active session, and the pipeline's wish stay together, under either policy and whatever connections hang up? | 2 apps, 3 sessions: two apps suffice for an owner and a rival, three sessions for one of them to come back |
| ManagerOnlyOwner (finds a violation) | `docs/tts.ini`: only the app the resource is reserved for can make use of the pipeline | same |
| SpeakerSafety | Is each speech in one place, does it end once and as interrupted when cancelled, does abort spare the others, with every failure of GStreamer? Do started, paused, resumed reach the session that asked, after willSpeak? Does the pair of threads implement `SpeechService`? | three scenes: cancels, clears, deletion, 1 bus message, 1 construction failure; pause with resume; and a wish for the pipeline that is taken back. 2 sessions, one preemptive, 2 speeches |
| SpeakerLive | Does every speech end, is an unwanted pipeline given up, does the destructor come back? | five scenes, 1 session, 2 speeches: failures of GStreamer with release and deletion; pause, resume and deletion; abort (clear, cancel) with release; pause with release; shut with deletion |
| SpeakerForce (violation) | "If force speak is set, clear old queued data & stop speaking" | 2 speeches |
| SessionConfig | Does the default reach each session, and is a speech spoken with nothing older? | 2 sessions, 2 settings, 2 speeches; sessions are symmetric |
| SessionDeferred (violation) | "will update configuration once speaking is done" | 1 session |
| EventDelivery | Are events delivered in order, to everyone, once, with removals taking effect, and are they all taken? | 2 listeners, 3 events of 2 names, 2 operations during a send |
| ClientSessions | Are handlers installed at most once per start of the engine; do early settings arrive; does the client let a session speak exactly when the engine does; is no session left behind by a deleted client; are a deleted session's events refused; is the client connected again after a crash at rest, and does its destructor return? | seven scenes: 1 crash at any point with 1 setting, no crash with 2 settings, 2 crashes at any point, 2 at rest with 1 setting; and three with sessions: 2 or 3 calls on 2 sessions with 1 or 2 moves of other clients and up to 1 crash at rest, under RESERVATION and OPEN; deletion at any point in each |
| ClientReconnect (violation) | "Wait till the connection breaks", "Wait 30 seconds for TTSEngine to start" | 1 crash |
| ClientOpen (violation) | "Apps can directly call the Speech APIs as if they own the resource" | 2 calls, 1 move |
| ThunderClient | Is the client of a plugin that comes back connected, subscribed and told; is an ended speech out of the client's map; does the callback thread always get free? | five scenes: 3 changes of the plugin at any point; 3 at rest with 2 requests that are lost or fail, subscriptions and the activation included; 2 at rest while the app asks; 3 calls of every kind and a state event; a plugin that goes while the app speaks and is deleted |

Two speeches are enough for one to be in the hands of the thread while another
waits or preempts; three settings or crashes would repeat what two do, since
nothing in the code counts them. `MaxFailures`, `Patience`, `MaxBus` and
`MaxOps` shorten the code's limits (failures in a row, seconds, queue lengths)
and keep the step that reaches them.

Deadlock is not checked: each model may stop legitimately, as an idle server
with no calls left within the bounds, after a deletion, or at undefined
behaviour.

**Fairness.** Threads are scheduled, so the steps of the speaker's thread, of
the main loop inside a call, of the startup thread, of the dispatcher, and of
the three threads of the Thunder client are weakly fair, and so is an attached timer. Remote calls return, by their timeout
at the latest. Nothing is assumed of clients, of GStreamer, of the start of the
engine's process (once started it gets ready), of the plugin or of an
uninitialised value. The speaker's thread gets a mutex it waits for though the
main loop takes it again and again (strong fairness of `TakesMutex`).

The liveness properties of the speaker say what they count on. `SpeechEnds`
assumes that the wish for a pipeline settles (`WishSettles`): switched on and off
for ever it keeps the thread at the top of its loop. All three assume that the
code does not hold the thread for good (`HoldsEnd`), and `Held` names the three
places where it does: a speech that is paused and never resumed; the wait for
NULL of `resetPipeline` after a pause that came too late (`pause` tests and acts
without a lock: the speech ends in between, the pipeline is told to go to NULL and
then to PAUSED, and the loop at `TTSSpeaker.cpp` 544 never ends); and the same
wait with a stale m_flushed, where an uninitialised value decides. The last one is not remote: a release of the player from a session that
speaks makes `TTSSession::setInactive` abort the speech before the pipeline is
released (`TTSManager.cpp` 628-631), and an abort that passes its test just before
the speech ends leaves m_flushed set.

### What the violations say

* **SpeakerForce**: a text between `dequeueData` and `setSpeakingState` is in
  neither place a preemptive request looks at; it is spoken to its end.
* **SessionDeferred**: the deferred configuration is stored only in `spoke()`;
  after an interrupted or failed speech it stays put away.
* **ManagerOnlyOwner**: claim, then reserve, then destroy returns from the claim
  branch of `releasePlayerResource` without deactivating the session.
* **ClientOpen**: `isActiveSession(id, true)` stores the engine's answer in
  m_gotResource, which under OPEN nothing sets again: asked while TTS is
  disabled, it makes the client decline every later speech.
* **ClientReconnect**: a crash reported before `m_connected` is set, or between
  the test of the flags and the sleep, is not noticed.

Passing properties that name their exception mark other windows of this kind:

* `EventsAreTaken`: an event of the speaker's thread after the queue was found
  empty waits for the next event;
* the two `DestructorReturns`: a notification between predicate and sleep is lost
  and the join never returns (for the client, the same loss after a crash is what
  ClientReconnect finds);
* the speaker's `SpeechEnds`, `PipelineReleased` and `DestructorReturns`: the
  thread is `Held`, see Fairness;
* `EarlySettingsArrive`: a setting that comes to the cache after the startup
  thread looked stays there;
* `RemovalsTakeEffect` says nothing of a listener that was taken back and added
  again during one send, which may be lost;
* `SpokenWithCurrent`: a speech may mix fields of two configurations, none older
  than the floor;
* `EmptiedByACall`: the thread dequeues from an empty list after a call emptied
  it, or when the wish for the pipeline ends its wait and is taken back before
  `needsPipelineUpdate` is tested again (`TTSSpeaker.cpp` 782-804; `undercut`);
* `SpeaksWhenActive`: a reply that was stored after a newer event overtook it is
  believed until the next event; and under OPEN a session whose m_gotResource
  was cleared, which is what ClientOpen finds;
* `LeavesNoSession`: a session whose creation was never answered;
* `EndIsTold`: an end that is handled before `speak` noted the request leaves the
  request in the map; ids begin anew with a reactivated plugin while the map
  keeps the old ones; and an answer of `isActive` that is lost makes
  `registerSpeechEventHandlers` skip the subscriptions while `speak` goes on, so
  that the end is never told;
* `Reconnected`: a plugin that goes while its activation is still being handled
  can leave the client connected but not subscribed, and so can more lost
  answers than onActivation asks times, or one lost to a call of the app, which
  is stored as "not active" whenever it comes (`Patient`). A subscription that
  failed is not noticed by `initialize()` (`TextToSpeechService.cpp` 52-57) and is
  not asked for again; everything else of the connection is right after it.

One window is in the model without a property over it: the engine learns the id of
a connection's session only when the client writes it, after it connected
(`TTSManager.cpp` 105). A client that is gone before that leaves its session, and
the player with it (`HangUp`, where `conn` becomes "leaked"); the manager's
invariants hold with that session still listed.

The exceptions of `EmptiedByACall`, the last one of `EndIsTold` and those of
`Patient` were met while proving: the invariant could not be made inductive, and
TLC has the behaviour.

## What is proved

**The manager** (`TTSManager_proofs`), for any set of apps, any number of
sessions and both policies, from `ManagerAssumption` alone (NoApp is not an app,
the bound is a natural number): `Invariance`, `Spec => []Inv`, and from it
`TypeCorrect`, `Allocation` (ActiveIsOwner), `OwnerServed` (OwnerIsServed),
`Exclusion` (LiveIsExclusive), `PipelineWanted` (PipelineFollowsPlayer),
`ClaimEnds` (ClaimerIsLive), `OpenPolicy` (OpenToAll), `MapsConsistent`
(MapsAgree). `PipelineFollowsPlayer` is two
implications and not an equivalence: the last destroy of a session that claimed and
reserved the player leaves it active with the pipeline no longer wanted; and
`ActiveIsOwner` does not say that the active session is still listed, for the same
reason (ManagerOnlyOwner).

No single property is inductive. That the owner is served after a release needs
the two maps to agree (`MapsAgree`), for `destroySession` goes through the app
of the session; that a claim ends needs the claimer to have a session; that the
active session is the owner's needs `Created` (ids are given in order, so a new
session is not already active), and that the pipeline is wanted when a listed
session may speak needs `LiveIsExclusive` when the active one is given up.
`Inv` is their conjunction. There is one lemma per handler (`EnableStep`,
`CreateStep`, `ReserveStep`, `ReleaseStep`, `ClaimStep`, `DestroyStep`,
`HangUpStep`; `ConnStep` and `LockStep` for steps that leave the player alone),
each with one step per conjunct, and `NextInv` puts them together.

**The session's configuration** (`TTSSession_proofs`), for any sessions and any
number of settings and speeches, from `SessionAssumption`: `TypeCorrect`,
`DefaultReaches` (DefaultReachesAll), `SpokenFresh` (SpokenWithCurrent). Halfway
through `setConfiguration` some sessions have the default before the last, so
`OneBehind` says of each field whether it is `Pending`, and that what is pending
is one behind at most. `OnlyDeferred` says that what the speaker's thread stores
is of a session that put a configuration away, so that it never undoes what the
main thread wrote for another; `Fresh` that neither the session of a speech nor
what was copied from it falls behind `floor`.

**The client over rtRemote** (`TTSClientSessions_proofs`), for any settings,
patience, scenes (any number of crashes, calls and moves of others) and bounds,
from `ConnectionAssumption` and `SessionsAssumption`: `HandlersOnce`
(InstalledOnce), `TypeCorrect` (TypeOK), `LateRefused` (LateEventsRefused).

* `HandlersOnce`: a second installation needs the startup thread to go round its
  loop while the start it installed its handlers with is alive, and it goes round
  only when told of a crash. `OneCrashAhead` says that the crash of the start
  m_manager points to is still to come, or about to be told, or being handled,
  one of the three; `WatchedIsUp` that a start which is pointed to and not
  watched is gone; `ToldWhenConnected` that a crash is told only to a thread that
  is past the installation. Together they give `InstalledAndPast`.
  `StepsOfConnection` reduces a step of the composition to one of the connection,
  and the destructor is the exception (`DeletingStays`), as `InstalledOnce` says.
* `LateRefused`: `Sound` says that a wrapper that is live belongs to an object
  that is not deleted, that the client's own is live until it is deleted
  (`WrapperLives`), and that no event is about an object that never was. There
  is a lemma for each way a table of objects changes (`AnnounceSound`,
  `DeletedSound`, `CreatedSound`, `FlagsSound`) and one per action.

**What the app may count on** (`TTSClientPromises_proofs`), from the same
assumptions:

* `EarlyArrives` (EarlySettingsArrive): as long as neither the first start of the
  engine nor the client ended (`Undisturbed`), the startup thread runs through
  once (`FirstConnection`), and each setting that was made early is in the cache
  until it is sent and the engine's from then on (`Travels`).
* `NoSessionLeft` (LeavesNoSession): a session in the engine is known to the
  client, by the map or by the call under way, and the connection it was created
  over is still there (`Kept`, `Reachable`), until the destructor asks for it to
  be destroyed.
* `SpeaksAsTold` (SpeaksWhenActive): `Informed` follows what the client is told
  along one chain, for "TTS is enabled" (`Believed`) and for "the session has the
  resource" (`Acquired`): the latest event under way is true; if none is, the one
  being handled is; if none is, what is believed or about to be stored is, or a
  newer event overtook it. It needs that events find the session's object
  (`Attached`, `Objects`, `HostNamed`), and that ids and objects are used once
  (`Numbered`).

**The speaker** (`TTSSpeaker_proofs`), for any sessions, scenes and bounds, from
`SpeakerAssumption`: `SpeakerInvariant`, and from it `TypesAreKept` (TypeOK),
`EventsReachTheirOwner`, `PlaysWhatWasAnnounced` (AnnouncedFirst),
`CancelledEndsInterrupted`, `ClearCancelsItsOwn`, `EmptyQueueHasACause`
(EmptiedByACall), `SpeechesAreAccounted`; and `SpeakerImplementsService`.

`Core` holds until a step reaches undefined behaviour. It says what each of the
members both threads use tells of the text in hand, by the place the speaker's
thread is at (`MembersFollow`, `Announced`, `CancelledStays`); that a speech is in
one place (`OnePlace`: the call, the queue, the hands, the ended, the dropped) and
told one end (`OneEnd`); who holds m_queueMutex (`Locks`); and that while a clear
is cancelling the thread takes no other text up (`ClearHolds`), which is why abort
spares the others: isSpeaking and cancelCurrentSpeech are two steps, and only the
mutex keeps the answer of the first true in the second. Most steps only move
a thread; `ThreadMoves` and `QuietMoves` name them, and two lemmas say of all of
them what matters. `SpeakerImplementsService` maps each of the others to a step of
`SpeechService` or a stutter: `OnePlace` makes a text that is taken the first of
the abstract queue, and erasing from the queue is an abstract discarding by
`WithoutFacts`.

**The event source** (`TTSEventSource_proofs`), for any listeners, threads and
bounds, from `EventSourceAssumption`: `TypesAreKept` (TypeOK), `EventsComeInOrder`
(InOrder), `NobodyIsSkipped` (NobodySkipped), `RemovalsAreDone`
(RemovalsTakeEffect). `Loop` is the invariant of `Emit::Send`: nobody among the
entries ahead was called with this event, and each of the audience is ahead, was
called, or is gone; it holds when the loop erases the entry it stands on since
entries are distinct (`Operations`), and that they are is what addIfMissing and
the deferral of operations during a send are for. `Taken` ties the number of an
event to its place in the queue, so that what is taken is newer than everything
received (`Received`).

**The client of the Thunder plugin** (`TTSClientJsonRPC_proofs`), for any scenes
and number of polls, from `ServiceAssumption`: `TypeCorrect` (TypeOK), `ComesBack`
(Reconnected), `EndsTold` (EndIsTold).

* `Types` has with the types who is inside `initialize()`: the thread that holds
  m_mutex, and no other (`Locks`), with isActive() as a subroutine that returns
  into the section it was called from.
* `ComesBack`: once the plugin changes at rest, the client is in one of seven
  phases (`Going`, `Dropping`, `Gone`, `Coming`, `Starting`, `Working`, `Back`),
  and each of the three threads' steps stays in it or goes to the next. `Working`
  counts the polls against the lost answers. `Work` says that a task that is
  posted has a thread, or one that is about to be joined and started;
  `Answered0`, `Untouched` and `Rested` that no answer from before the first
  change is still to be stored.
* `EndsTold`: for a plugin that stays, `Ends` says that the client is subscribed
  whenever it may ask for a speech and from then on (`Attached`, `Listening`),
  that ids are used once (`Fresh`), and that the end of a speech the client waits
  for is under way or being handled (`EndsReach`).

The lists that are erased from (the queue, the listeners, the plugin's speeches) are handled by the
lemmas of `Subsequence_proofs`, above all `WithoutFacts`: what is left keeps its
order, loses nothing else and repeats nothing.

Only model-checked:

* liveness (`SpeechEnds`, `PipelineReleased`, `EventsAreTaken`, the
  rtRemote client's `ComesBack`, the Thunder client's `CallbackReturns`, and the
  two `DestructorReturns`), which the prover cannot do;
* that `Subsequence` says what the loops compute, which goes by recursion over
  the list: TLC compares the two on every list of up to four of three elements.

Every invariant of a passing run, and every action property, is stated by a
theorem.

## What is not modelled

* of the rtRemote client: pause, resume, abort, requestExtendedEvents,
  getSpeechState, which pass a request on and keep nothing the properties need;
  of the JSON-RPC client: the calls that only ask the plugin, and the events that
  only pass an id on. One app thread calls a client at a time;
* the restart of a crashed plugin: `restartServiceOnCrash` is only called with
  false; that a synchronous call made while the callback thread waits may time
  out (`Service.h` 65-67 hints at it): a lost answer stands for it within its
  bound; that `post` assigns m_thread after the new thread has started;
* the facade, the logger, the message dispatcher's plumbing, the test programs,
  `docs/tts.ini`: no protocol of their own;
* the destructors of `TTSManager` and `TTSEventSource`, and
  `TTSEventSource::clear`, which nothing calls;
* URLs, the clean-up of a text (planned), voices, rates and volumes: data that no property tells apart;
* lifetimes of objects behind rtRemote references, beyond "a destroyed
  session's object lives while a client holds it";
* that `TTSManager::PRIORITY`, or a missing `tts.ini`, behaves as OPEN: the code
  only compares with RESERVATION, and so does the model.

In `TTSClientConnection` the app's event callback is set, the callback object
is assigned together with the manager, and a call on a dead or NULL manager
returns an error.

## Plan

Done: all the modules above, and a theorem for each safety property the runs
check. Next, in this order:

1. `SpeechText`: what `sanitizeString` does to classes of characters, against
   a definition of what its comments promise (`TTSSpeaker.cpp` 619-690).
2. A composition of `TTSManager` and `TTSSpeaker`: a speech is spoken only for
   a session that may speak.
3. Proofs: weaker forms of the hazards that no property covers yet, where the
   code promises something: what is left of a request when its plugin goes, and
   what a stored status answer may say.
