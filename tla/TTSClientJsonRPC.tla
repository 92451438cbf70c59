-------------------------- MODULE TTSClientJsonRPC --------------------------
(***************************************************************************)
(* A client of the Thunder plugin (ttsclient/TTSClientPrivateJsonRPC.cpp   *)
(* and .h) on top of TextToSpeechService: its members are written by the   *)
(* app's thread inside its calls and by the callback thread that handles   *)
(* the plugin's events, with no lock in common.  One client, one session   *)
(* (the code has no more).                                                 *)
(*                                                                         *)
(* Left out: the calls that only ask the plugin (listVoices, pause, resume,*)
(* isSpeaking, the configuration), and the events that only pass a client's*)
(* id on (start, pause, resume).                                           *)
(***************************************************************************)
EXTENDS TextToSpeechService, Functions, FiniteSetsExt, Subsequence

VARIABLES
  registered,    \* the client is in m_clients
  ttsEnabled,    \* m_ttsEnabled
  session,       \* m_sessionCallback is set
  lastSpeech,    \* m_lastSpeechId
  requested,     \* m_requestedSpeeches: client id -> the plugin's id
  call,          \* what the app's thread is in: the call, the client's id of the speech
                 \* it asks for, the plugin's id in hand
  made, toggles, \* calls made, state changes of the plugin
  told,          \* what the app was last told of the connection
  ended,         \* history: the speeches the plugin has ended
  unnoted        \* history: those whose end found no request of the client

clientVars == <<registered, ttsEnabled, session, lastSpeech, requested>>
historyVars == <<told, ended, unnoted>>
vars == <<serviceVars, clientVars, call, made, toggles, historyVars>>

NoCall == [op |-> "none", id |-> 0, got |-> 0]

Init ==
  /\ ServiceInit
  /\ registered = FALSE /\ ttsEnabled = FALSE /\ session = FALSE /\ lastSpeech = 0
  /\ requested = <<>>
  /\ call = NoCall /\ made = 0 /\ toggles = 0
  /\ told = "none" /\ ended = {} /\ unnoted = {}

ClientSame  == UNCHANGED <<clientVars, call, made, toggles, historyVars>>

\* What the steps of the app's calls and of the events leave alone.
ServiceSame == UNCHANGED <<scene, listening, active, queried, remote, initialized, mutex, workerVars,
                           polls, changes>>
Asking      == UNCHANGED <<answer, ret>>
CallOnly    == ServiceSame /\ UNCHANGED <<plugin, inbox, handlers, handled, glitches, lost, fault>>

-----------------------------------------------------------------------------
(* Connecting, and what the clients are told of it.                        *)

StateIs(on) == lastSpeech' = 0 /\ ttsEnabled' = on

\* The end of initialize(): the clients registered are told TTS is disabled.
Initializes(t) ==
  /\ Finish(t)
  /\ IF registered THEN StateIs(FALSE) ELSE UNCHANGED <<lastSpeech, ttsEnabled>>
  /\ UNCHANGED <<registered, session, requested, call, made, toggles, historyVars>>

\* onActivation()
ToldUp ==
  /\ NotifyUp
  /\ told' = IF registered THEN "connected" ELSE told
  /\ UNCHANGED <<clientVars, call, made, toggles, ended, unnoted>>

\* onDeactivation(): the requests stay in the map.
ToldDown ==
  /\ NotifyDown
  /\ IF registered THEN StateIs(FALSE) /\ told' = "closed"
                   ELSE UNCHANGED <<lastSpeech, ttsEnabled, told>>
  /\ UNCHANGED <<registered, session, requested, call, made, toggles, ended, unnoted>>

\* registerClient(), and the end of the constructor.
Register ==
  /\ pc.app = "register" /\ mutex = "free"
  /\ registered' = TRUE
  /\ IsActive("app", FALSE, "greet")
  /\ CallOnly /\ UNCHANGED answer
  /\ UNCHANGED <<ttsEnabled, session, lastSpeech, requested, call, made, toggles, historyVars>>

Greet ==
  /\ pc.app = "greet"
  /\ told' = IF active THEN "connected" ELSE told
  /\ Goto("app", "ready")
  /\ CallOnly /\ Asking
  /\ UNCHANGED <<clientVars, call, made, toggles, ended, unnoted>>

-----------------------------------------------------------------------------
(* The app's calls.                                                        *)

\* The return of a call; the destructor's last call is destroySession.
Return == pc' = [pc EXCEPT !.app = IF call.op = "delete" THEN "gone" ELSE "ready"] /\ call' = NoCall

Entry(op) == CASE op = "delete" -> "unregister" [] op = "destroy" -> "destroy" [] OTHER -> "check"

\* The app chooses the client's id of a speech, and may choose one again.
CallStarts(op) ==
  /\ pc.app = "ready" /\ call = NoCall
  /\ op \in scene.calls /\ made < scene.made
  /\ made' = made + 1
  /\ \E id \in IF op = "speak" THEN 1..(made + 1) ELSE {0} :
       call' = [op |-> op, id |-> id, got |-> 0]
  /\ Goto("app", Entry(op))
  /\ CallOnly /\ Asking
  /\ UNCHANGED <<clientVars, toggles, historyVars>>

\* CHECK_CONNECTION_RETURN_ON_FAIL, before any call but destroySession.
Check ==
  /\ pc.app = "check"
  /\ IsActive("app", FALSE, "checked")
  /\ CallOnly /\ UNCHANGED answer /\ ClientSame

\* abort() finds a speech to cancel.
InProgress == ttsEnabled /\ requested # <<>> /\ lastSpeech # 0

Checked ==
  /\ pc.app = "checked"
  /\ CASE active /\ call.op \in {"create", "fetch"} -> IsActive("app", FALSE, "query") /\ UNCHANGED call
       [] active /\ call.op = "speak" /\ ttsEnabled -> IsActive("app", FALSE, "events") /\ UNCHANGED call
       [] active /\ call.op \in {"abort", "delete"} /\ InProgress
            -> Goto("app", "cancel") /\ UNCHANGED <<call, ret>>
       [] call.op = "delete" /\ ~(active /\ InProgress)
            -> Goto("app", "destroy") /\ UNCHANGED <<call, ret>>
       [] OTHER -> Return /\ UNCHANGED ret
  /\ CallOnly /\ UNCHANGED answer
  /\ UNCHANGED <<clientVars, made, toggles, historyVars>>

\* invoke() tests m_remoteObject and then calls it.
Tests(next, otherwise) ==
  IF remote THEN Goto("app", next) /\ UNCHANGED call ELSE otherwise

\* isTTSEnabled(true), which createSession also calls and goes on after.
Unanswered == IF call.op = "create" THEN Goto("app", "created") /\ UNCHANGED call ELSE Return

Query ==
  /\ pc.app = "query"
  /\ IF active THEN Tests("querying", Unanswered) ELSE Unanswered
  /\ CallOnly /\ Asking
  /\ UNCHANGED <<clientVars, made, toggles, historyVars>>

\* The answer may be lost.
Querying ==
  /\ pc.app = "querying"
  /\ Call("app", "answered", plugin)
  /\ \/ /\ answer' = [answer EXCEPT !.app = [ok |-> plugin.active, up |-> plugin.enabled]]
        /\ UNCHANGED glitches
     \/ /\ remote /\ glitches < scene.glitches /\ glitches' = glitches + 1
        /\ answer' = [answer EXCEPT !.app = NoAnswer]
  /\ UNCHANGED <<ret, inbox, handlers, handled, lost>>
  /\ ClientSame
  /\ ServiceSame

\* A state event may have been handled since the plugin answered.
Answered ==
  /\ pc.app = "answered"
  /\ ttsEnabled' = IF answer.app.ok THEN answer.app.up ELSE ttsEnabled
  /\ answer' = [answer EXCEPT !.app = NoAnswer]
  /\ Unanswered
  /\ UNCHANGED <<ret, plugin, inbox, handlers, handled, glitches, lost, fault>>
  /\ UNCHANGED <<registered, session, lastSpeech, requested, made, toggles, historyVars>>
  /\ ServiceSame

Created ==
  /\ pc.app = "created"
  /\ session' = TRUE
  /\ Return
  /\ CallOnly /\ Asking
  /\ UNCHANGED <<registered, ttsEnabled, lastSpeech, requested, made, toggles, historyVars>>

-----------------------------------------------------------------------------
(* speak(), abort() and the destructor.                                    *)

\* registerSpeechEventHandlers(): the flag first, then the subscriptions (to
\* eight events, one here).
Handlers ==
  /\ pc.app = "events"
  /\ IF active /\ ~handlers /\ remote
       THEN handlers' = TRUE /\ Goto("app", "attach")
       ELSE Goto("app", "speak") /\ UNCHANGED handlers
  /\ UNCHANGED <<plugin, inbox, handled, glitches, lost, fault>>
  /\ ClientSame /\ ServiceSame /\ Asking

Attach ==
  /\ pc.app = "attach"
  /\ Goto("app", IF remote THEN "attaching" ELSE "speak")
  /\ CallOnly /\ Asking /\ ClientSame

\* Mutant: the flag is set but nothing is subscribed to.
Attaching_Nothing ==
  /\ pc.app = "attaching"
  /\ Call("app", "speak", plugin)
  /\ UNCHANGED <<inbox, handlers, handled, glitches, lost>>
  /\ ClientSame /\ ServiceSame /\ Asking

Attaching ==
  /\ pc.app = "attaching"
  /\ SubscribesTo("app", "speech", "speak")
  /\ UNCHANGED <<inbox, handlers, handled>>
  /\ ClientSame /\ ServiceSame /\ Asking

Speak ==
  /\ pc.app = "speak"
  /\ lastSpeech' = 0
  /\ Tests("speaking", Return)
  /\ CallOnly /\ Asking
  /\ UNCHANGED <<registered, ttsEnabled, session, requested, made, toggles, historyVars>>

\* The plugin speaks only while it is enabled; its answer may be lost.
Accepted == plugin.active /\ plugin.enabled

Speaking ==
  /\ pc.app = "speaking"
  /\ IF ~remote
       THEN fault' = "nullRemote" /\ UNCHANGED <<plugin, pc, call, glitches>>
       ELSE /\ plugin' = IF ~Accepted THEN plugin
                         ELSE [plugin EXCEPT !.lastId = @ + 1, !.pending = Append(@, plugin.lastId + 1)]
            /\ \/ /\ Accepted /\ Goto("app", "note") /\ UNCHANGED glitches
                  /\ call' = [call EXCEPT !.got = plugin.lastId + 1]
               \/ ~Accepted /\ Return /\ UNCHANGED glitches
               \/ Accepted /\ glitches < scene.glitches /\ glitches' = glitches + 1 /\ Return
            /\ UNCHANGED fault
  /\ UNCHANGED <<inbox, handlers, handled, lost>>
  /\ UNCHANGED <<clientVars, made, toggles, historyVars>>
  /\ ServiceSame /\ Asking

\* Its events may have been handled since it answered.  A client's id that is in
\* the map keeps its speech.
Note ==
  /\ pc.app = "note"
  /\ lastSpeech' = call.got
  /\ requested' = IF call.id \in DOMAIN requested THEN requested
                  ELSE [c \in DOMAIN requested \cup {call.id} |->
                          IF c = call.id THEN call.got ELSE requested[c]]
  /\ Return
  /\ CallOnly /\ Asking
  /\ UNCHANGED <<registered, ttsEnabled, session, made, toggles, historyVars>>

Uncancelled == IF call.op = "delete" THEN Goto("app", "destroy") /\ UNCHANGED call ELSE Return

Cancel ==
  /\ pc.app = "cancel"
  /\ IF remote THEN Goto("app", "cancelling") /\ call' = [call EXCEPT !.got = lastSpeech]
               ELSE Uncancelled
  /\ CallOnly /\ Asking
  /\ UNCHANGED <<clientVars, made, toggles, historyVars>>

\* The plugin is done with a speech, and says so to its subscriber.
Over(id) ==
  /\ plugin' = [plugin EXCEPT !.pending = Without(@, {id})]
  /\ ended' = ended \cup {id}
  /\ Arrives(IF "speech" \in plugin.subscribed THEN <<[Event("end") EXCEPT !.id = id]>> ELSE <<>>)

Cancelling ==
  /\ pc.app = "cancelling"
  /\ CASE ~remote -> fault' = "nullRemote" /\ UNCHANGED <<plugin, inbox, ended, pc, call>>
       [] remote /\ call.got \in Range(plugin.pending)
            -> Over(call.got) /\ Uncancelled /\ UNCHANGED fault
       [] OTHER -> Uncancelled /\ UNCHANGED <<plugin, inbox, ended, fault>>
  /\ UNCHANGED <<handlers, handled, glitches, lost>>
  /\ UNCHANGED <<clientVars, made, toggles, told, unnoted>>
  /\ ServiceSame /\ Asking

Unregister ==
  /\ pc.app = "unregister" /\ mutex = "free"
  /\ registered' = FALSE
  /\ IsActive("app", FALSE, "checked")
  /\ CallOnly /\ UNCHANGED answer
  /\ UNCHANGED <<ttsEnabled, session, lastSpeech, requested, call, made, toggles, historyVars>>

Destroy ==
  /\ pc.app = "destroy"
  /\ session' = FALSE
  /\ Return
  /\ CallOnly /\ Asking
  /\ UNCHANGED <<registered, ttsEnabled, lastSpeech, requested, made, toggles, historyVars>>

-----------------------------------------------------------------------------
(* The plugin's events, on the callback thread and with m_mutex.           *)

EventSame == UNCHANGED <<scene, plugin, listening, inbox, memberVars, workerVars, answer, ret, polls,
                         boundVars>>

StateEvent ==
  /\ pc.callback = "deliver" /\ handled.kind = "state" /\ mutex = "free"
  /\ IF registered THEN StateIs(handled.on) ELSE UNCHANGED <<lastSpeech, ttsEnabled>>
  /\ Goto("callback", "idle") /\ handled' = NoEvent
  /\ EventSame /\ UNCHANGED <<mutex, fault>>
  /\ UNCHANGED <<registered, session, requested, call, made, toggles, historyVars>>

\* removeServiceId() finds the first request with the plugin's id.
Asked(id) == {c \in DOMAIN requested : requested[c] = id}

\* The five handlers of a speech's end: they forget the request, and test the
\* session's callback ...
EndEvent ==
  /\ pc.callback = "deliver" /\ handled.kind = "end" /\ mutex = "free"
  /\ LET mine == IF registered THEN Asked(handled.id) ELSE {}
     IN  IF mine = {}
           THEN /\ unnoted' = unnoted \cup {handled.id}
                /\ Goto("callback", "idle") /\ handled' = NoEvent
                /\ UNCHANGED <<requested, mutex>>
           ELSE /\ requested' = Restrict(requested, DOMAIN requested \ {Min(mine)})
                /\ IF session THEN Goto("callback", "tell") /\ mutex' = "callback"
                              ELSE Goto("callback", "idle") /\ UNCHANGED mutex
                /\ handled' = NoEvent /\ UNCHANGED unnoted
  /\ EventSame /\ UNCHANGED fault
  /\ UNCHANGED <<registered, ttsEnabled, session, lastSpeech, call, made, toggles, told, ended>>

\* ... before they call it.
TellEnd ==
  /\ pc.callback = "tell"
  /\ IF session THEN mutex' = "free" /\ Goto("callback", "idle") /\ UNCHANGED fault
                ELSE fault' = "nullSession" /\ UNCHANGED <<mutex, pc>>
  /\ EventSame /\ UNCHANGED handled
  /\ ClientSame

-----------------------------------------------------------------------------
(* The plugin (external), and the next-state relation.                     *)

SpeechEnds ==
  /\ plugin.pending # <<>>
  /\ Over(Head(plugin.pending))
  /\ MemberUnchanged /\ UNCHANGED boundVars
  /\ UNCHANGED <<clientVars, call, made, toggles, told, unnoted>>

\* Some app enables or disables TTS.
Toggles ==
  /\ plugin.active /\ toggles < scene.toggles /\ toggles' = toggles + 1
  /\ plugin' = [plugin EXCEPT !.enabled = ~@]
  /\ Arrives(IF "state" \in plugin.subscribed
               THEN <<[Event("state") EXCEPT !.on = ~plugin.enabled]>> ELSE <<>>)
  /\ MemberUnchanged /\ UNCHANGED boundVars
  /\ UNCHANGED <<clientVars, call, made, historyVars>>

AppSteps ==
  \/ AppConnects /\ ClientSame
  \/ Initializes("app") \/ Register \/ Greet
  \/ Check \/ Checked \/ Query \/ Querying \/ Answered \/ Created
  \/ Handlers \/ Attach \/ Attaching \/ Speak \/ Speaking \/ Note
  \/ Cancel \/ Cancelling \/ Unregister \/ Destroy

WorkerSteps == (Worker /\ ClientSame) \/ Initializes("worker") \/ ToldUp

CallbackSteps ==
  (CallbackThread /\ ClientSame) \/ ToldDown \/ StateEvent \/ EndEvent \/ TellEnd

Plugin == SpeechEnds \/ Toggles \/ ((PluginGoes \/ PluginComes) /\ ClientSame)

\* A null pointer that is used ends the process.
Next ==
  /\ fault = "none"
  /\ AppSteps \/ WorkerSteps \/ CallbackSteps \/ Plugin \/ \E op \in scene.calls : CallStarts(op)

Spec == Init /\ [][Next]_vars

\* The threads run; the plugin changes, speaks and is asked as it likes.
FairSpec ==
  Spec /\ WF_vars(AppSteps /\ fault = "none") /\ WF_vars(WorkerSteps /\ fault = "none")
       /\ WF_vars(CallbackSteps /\ fault = "none")

-----------------------------------------------------------------------------
(* Properties.                                                             *)

\* Where a thread is while it holds m_mutex in initialize().
Initializing == {"ask", "store", "first", "activate", "activated", "connect", "subscribe",
                 "subscribing", "finish"}

\* Type invariant; the requests hold an id of the plugin each, and m_mutex is
\* held by a thread inside the function that takes it.
TypeOK ==
  /\ plugin \in [active : BOOLEAN, enabled : BOOLEAN, subscribed : SUBSET {"state", "speech"},
                 lastId : 0..made, pending : Seq(1..made)]
  /\ {active, queried, remote, initialized, handlers, listening, running} \subseteq BOOLEAN
  /\ {registered, ttsEnabled, session} \subseteq BOOLEAN
  /\ mutex \in {"free"} \cup Threads /\ lost \subseteq {"state", "speech"}
  /\ Range(tasks) \subseteq {"install", "activate"}
  /\ DOMAIN requested \subseteq 1..made /\ Range(requested) \subseteq 1..made
  /\ lastSpeech \in 0..made
  /\ told \in {"none", "connected", "closed"}
  /\ fault \in {"none", "nullRemote", "nullSession"}
  /\ mutex = "callback" <=> pc.callback = "tell"
  /\ mutex \in {"app", "worker"} => pc[mutex] \in Initializing

\* onActivation gets an answer: it asks more often than answers were lost, and no
\* answer to a call of the app was, which would be stored whenever it comes.
Patient == scene.atRest /\ (glitches = 0 \/ (scene.calls = {} /\ glitches <= Polls))

\* A plugin that comes back while nothing is under way in the client finds it
\* connected and subscribed again, whatever answers of its status were lost to
\* onActivation's polls, and the app told; one that goes leaves the app told so
\* (Service.cpp:156-170, and the early return of initialize()).  A subscription
\* that failed is the exception: initialize() takes no notice of it
\* (TextToSpeechService.cpp:53-57) and nothing asks for it again.
Reconnected ==
  Patient /\ changes > 0 /\ AtRest /\ registered =>
    IF plugin.active
      THEN Initialized /\ active /\ "state" \in plugin.subscribed \cup lost /\ told = "connected"
      ELSE ~remote /\ ~handlers /\ ~active /\ told = "closed"

\* A speech that has ended is out of the client's map when everything is
\* handled, so that isSpeaking() and abort() do not go on about it - unless its
\* end was handled before speak() had noted it (speak() and the end handlers).
\* The plugin's ids begin anew with it, so only until it goes; and speak() goes on
\* without its subscriptions when an answer of theirs, or of the plugin's status,
\* is lost.
EndIsTold ==
  scene.changes = 0 /\ glitches = 0 /\ AtRest =>
    \A c \in DOMAIN requested : requested[c] \in ended => requested[c] \in unnoted

\* The callback thread, which joins the worker's thread and waits for m_mutex,
\* gets free again, or no event of any kind would be handled any more.
CallbackReturns == pc.callback # "idle" ~> (pc.callback = "idle" \/ fault # "none")
=============================================================================
