------------------------ MODULE TTSClientJsonRPC_proofs ------------------------
(***************************************************************************)
(* Proofs about the client of the Thunder plugin, for any scenes and any   *)
(* number of polls: the types, the mutual exclusion of the threads inside  *)
(* initialize(), the reconnection to a plugin that comes back, and the end *)
(* of each speech.                                                         *)
(***************************************************************************)
EXTENDS TTSClientJsonRPC, Subsequence_proofs

-----------------------------------------------------------------------------
(* Types, and who is inside initialize().                                  *)

Clients == {"app", "worker"}

AppPlaces ==
  {"construct", "join", "lock", "ask", "store", "first", "activate", "activated", "connect",
   "subscribe", "subscribing", "finish", "register", "greet", "ready", "check", "checked", "query", "querying",
   "answered", "created", "events", "attach", "attaching", "speak", "speaking", "note", "cancel",
   "cancelling", "unregister", "destroy", "gone"}
WorkerPlaces ==
  {"dead", "start", "take", "install", "poll", "polled", "decide", "lock", "ask", "store", "first",
   "connect", "subscribe", "subscribing", "finish", "notify"}
CallbackPlaces == {"idle", "join", "deliver", "tell", "down", "drop", "reset", "notify"}

\* Where isActive() returns to.
AppReturns    == {"first", "connect", "subscribe", "greet", "checked", "query", "events"}
WorkerReturns == {"first", "connect", "subscribe", "polled", "decide"}

Answers == [ok : BOOLEAN, up : BOOLEAN]
Tasks   == {"install", "activate"}
Events  == [kind : {"activated", "deactivated", "state", "end"}, id : Nat, on : BOOLEAN]

PlaceTypes ==
  /\ pc \in [Threads -> AppPlaces \cup WorkerPlaces \cup CallbackPlaces]
  /\ pc.app \in AppPlaces /\ pc.worker \in WorkerPlaces /\ pc.callback \in CallbackPlaces
  /\ ret \in [Threads -> AppReturns \cup WorkerReturns \cup {"none"}]
  /\ pc.app \in {"ask", "store"} => ret.app \in AppReturns
  /\ pc.worker \in {"ask", "store"} => ret.worker \in WorkerReturns

\* Inside initialize(), with m_mutex.
Inside(t) ==
  \/ pc[t] \in {"first", "activate", "activated", "connect", "subscribe", "subscribing", "finish"}
  \/ pc[t] \in {"ask", "store"} /\ ret[t] \in {"first", "connect", "subscribe"}

\* m_mutex is held by the thread that is inside, if one is.
Locks ==
  /\ mutex \in {"free"} \cup Threads
  /\ mutex = "app" <=> Inside("app")
  /\ mutex = "worker" <=> Inside("worker")
  /\ mutex = "callback" <=> pc.callback = "tell"

FlagTypes ==
  /\ active \in BOOLEAN /\ queried \in BOOLEAN /\ remote \in BOOLEAN /\ initialized \in BOOLEAN
  /\ handlers \in BOOLEAN /\ listening \in BOOLEAN /\ running \in BOOLEAN
  /\ registered \in BOOLEAN /\ ttsEnabled \in BOOLEAN /\ session \in BOOLEAN

AskTypes == answer \in [Threads -> Answers] /\ polls \in Nat

EventTypes ==
  /\ lost \subseteq {"state", "speech"}
  /\ scene \in Scenes /\ glitches \in Nat /\ changes \in Nat /\ toggles \in Nat
  /\ tasks \in Seq(Tasks) /\ inbox \in Seq(Events) /\ handled \in Events \cup {NoEvent}
  /\ pc.callback = "deliver" => handled \in Events

\* The plugin's ids are numbers of calls: none is given out without a call.
SpeechTypes ==
  /\ made \in Nat
  /\ plugin \in [active : BOOLEAN, enabled : BOOLEAN, subscribed : SUBSET {"state", "speech"},
                 lastId : 0..made, pending : Seq(1..made)]
  /\ DOMAIN requested \subseteq 1..made /\ requested \in [DOMAIN requested -> 1..made]
  /\ ended \subseteq Nat /\ unnoted \subseteq Nat

\* The app is in speak().
InSpeak ==
  \/ pc.app \in {"events", "attach", "attaching", "speak", "speaking", "note"}
  \/ pc.app \in {"ask", "store"} /\ ret.app = "events"

\* A speech that is still to be asked for has no id yet.
CallTypes ==
  /\ lastSpeech \in 0..made
  /\ told \in {"none", "connected", "closed"}
  /\ fault \in {"none", "nullRemote", "nullSession"}
  /\ call \in [op : {"none", "create", "fetch", "speak", "abort", "destroy", "delete"},
               id : 0..made, got : 0..made]
  /\ InSpeak => call.op = "speak"
  /\ call.op = "speak" => call.id # 0
  /\ call.op = "speak" /\ pc.app # "note" => plugin.lastId < made
  /\ pc.app = "note" => call.got # 0

Types == PlaceTypes /\ Locks /\ FlagTypes /\ AskTypes /\ EventTypes /\ SpeechTypes /\ CallTypes

-----------------------------------------------------------------------------
(* The places of the threads, step by step.                                *)

LEMMA AppPlacesStep ==
  ASSUME PlaceTypes, Locks, AppSteps
  PROVE  PlaceTypes' /\ Locks'
<1> USE DEF PlaceTypes, Locks, Inside, Threads, AppPlaces, WorkerPlaces, CallbackPlaces, AppReturns,
            WorkerReturns, Goto, IsActive, Only, ClientSame, ServiceSame, CallOnly, Asking, askVars,
            outsideVars, otherVars, boundVars
<1>1. CASE Construct
  BY <1>1 DEF Construct, Post
<1>12. CASE Join("app")
  <2>1. /\ pc' = [pc EXCEPT !["app"] = "lock", !["worker"] = "start"]
        /\ pc.worker = "dead" /\ pc.app = "join" /\ UNCHANGED <<ret, mutex>>
    BY <1>12 DEF Join, StartWorker
  <2>2. QED
    BY <2>1
<1>10. CASE Ask("app") \/ Store("app")
  BY <1>10 DEF Ask, Store
<1>2. CASE Lock("app") \/ First("app") \/ Activate \/ Activated \/ Connect("app")
  BY <1>2 DEF Lock, First, Activate, Activated, Connect, After
<1>3. CASE Subscribe("app") \/ Subscribing("app")
  BY <1>3 DEF Subscribe, Subscribing, SubscribesTo, Call
<1>11. CASE Initializes("app")
  BY <1>11 DEF Initializes, Finish, After
<1>4. CASE Register \/ Greet \/ Check \/ Unregister
  BY <1>4 DEF Register, Greet, Check, Unregister
<1>5. CASE Checked \/ Query \/ Querying
  BY <1>5 DEF Checked, Query, Querying, Call, Tests, Unanswered, Return
<1>6. CASE Answered \/ Created \/ Destroy \/ Note
  BY <1>6 DEF Answered, Created, Destroy, Note, Unanswered, Return
<1>7. CASE Handlers \/ Attach \/ Attaching \/ Speak
  BY <1>7 DEF Handlers, Attach, Attaching, SubscribesTo, Speak, Call, Tests, Return
<1>8. CASE Speaking \/ Cancel \/ Cancelling
  BY <1>8 DEF Speaking, Cancel, Cancelling, Uncancelled, Return
<1>9. QED
  BY <1>1, <1>2, <1>3, <1>4, <1>5, <1>6, <1>7, <1>8, <1>10, <1>11, <1>12 DEF AppSteps, AppConnects

LEMMA WorkerPlacesStep ==
  ASSUME PlaceTypes, Locks, WorkerSteps
  PROVE  PlaceTypes' /\ Locks'
<1> USE DEF PlaceTypes, Locks, Inside, Threads, AppPlaces, WorkerPlaces, CallbackPlaces, AppReturns,
            WorkerReturns, Goto, IsActive, Only, askVars
<1>1. CASE WorkerStarts \/ TakeTask \/ InstallHandler \/ Poll \/ Polled
  BY <1>1 DEF WorkerStarts, TakeTask, InstallHandler, Poll, Polled
<1>2. CASE Decide \/ Ask("worker") \/ Store("worker") \/ Lock("worker")
  BY <1>2 DEF Decide, Ask, Store, Lock, After
<1>3. CASE First("worker") \/ Connect("worker") \/ Subscribe("worker") \/ Subscribing("worker")
  BY <1>3 DEF First, Connect, Subscribe, Subscribing, SubscribesTo, Call
<1>4. CASE Initializes("worker")
  BY <1>4 DEF Initializes, Finish, After
<1>5. CASE ToldUp
  BY <1>5 DEF ToldUp, NotifyUp
<1>6. QED
  BY <1>1, <1>2, <1>3, <1>4, <1>5 DEF WorkerSteps, Worker

LEMMA OtherPlacesStep ==
  ASSUME PlaceTypes, Locks, CallbackSteps \/ Plugin \/ \E op \in scene.calls : CallStarts(op)
  PROVE  PlaceTypes' /\ Locks'
<1> USE DEF PlaceTypes, Locks, Inside, Threads, AppPlaces, WorkerPlaces, CallbackPlaces, AppReturns,
            WorkerReturns, Goto, Only, askVars
<1>1. CASE TakeEvent
  BY <1>1 DEF TakeEvent, Post
<1>6. CASE Down \/ DropRemote \/ Reset
  BY <1>6 DEF Down, DropRemote, Reset
<1>9. CASE Join("callback")
  <2>1. /\ pc' = [pc EXCEPT !["callback"] = "idle", !["worker"] = "start"]
        /\ pc.worker = "dead" /\ pc.callback = "join" /\ UNCHANGED <<ret, mutex>>
    BY <1>9 DEF Join, StartWorker
  <2>2. QED
    BY <2>1
<1>2. CASE ToldDown
  BY <1>2 DEF ToldDown, NotifyDown
<1>10. CASE StateEvent
  BY <1>10 DEF StateEvent, EventSame
<1>7. CASE EndEvent
  BY <1>7 DEF EndEvent, EventSame
<1>8. CASE TellEnd
  BY <1>8 DEF TellEnd, EventSame, ClientSame
<1>3. CASE Plugin
  BY <1>3 DEF Plugin, SpeechEnds, Toggles, PluginGoes, PluginComes, MemberUnchanged
<1>4. ASSUME NEW op \in scene.calls, CallStarts(op)
      PROVE  PlaceTypes' /\ Locks'
  BY <1>4 DEF CallStarts, Entry, CallOnly, ServiceSame, Asking
<1>5. QED
  BY <1>1, <1>2, <1>3, <1>4, <1>6, <1>7, <1>8, <1>9, <1>10 DEF CallbackSteps, CallbackThread

LEMMA PlacesStep ==
  ASSUME PlaceTypes, Locks, Next
  PROVE  PlaceTypes' /\ Locks'
BY AppPlacesStep, WorkerPlacesStep, OtherPlacesStep DEF Next

\* What the steps of one thread leave of the others.
LEMMA AppApart ==
  ASSUME PlaceTypes, AppSteps
  PROVE  /\ pc'.callback = pc.callback /\ ret'.worker = ret.worker
         /\ pc'.worker = pc.worker \/ (pc.worker = "dead" /\ pc'.worker = "start")
<1> USE DEF PlaceTypes, Threads, Goto, IsActive, Only, ClientSame, ServiceSame, CallOnly, Asking,
        askVars
<1>1. CASE Construct
  BY <1>1 DEF Construct, Post
<1>12. CASE Join("app")
  <2>1. /\ pc' = [pc EXCEPT !["app"] = "lock", !["worker"] = "start"]
        /\ pc.worker = "dead" /\ pc.app = "join" /\ UNCHANGED <<ret, mutex>>
    BY <1>12 DEF Join, StartWorker
  <2>2. QED
    BY <2>1
<1>10. CASE Ask("app") \/ Store("app")
  BY <1>10 DEF Ask, Store
<1>2. CASE Lock("app") \/ First("app") \/ Activate \/ Activated \/ Connect("app")
  BY <1>2 DEF Lock, First, Activate, Activated, Connect, After
<1>3. CASE Subscribe("app") \/ Subscribing("app")
  BY <1>3 DEF Subscribe, Subscribing, SubscribesTo, Call
<1>11. CASE Initializes("app")
  BY <1>11 DEF Initializes, Finish, After
<1>4. CASE Register \/ Greet \/ Check \/ Unregister
  BY <1>4 DEF Register, Greet, Check, Unregister
<1>5. CASE Checked \/ Query \/ Querying
  BY <1>5 DEF Checked, Query, Querying, Call, Tests, Unanswered, Return
<1>6. CASE Answered \/ Created \/ Destroy \/ Note
  BY <1>6 DEF Answered, Created, Destroy, Note, Unanswered, Return
<1>7. CASE Handlers \/ Attach \/ Attaching \/ Speak
  BY <1>7 DEF Handlers, Attach, Attaching, SubscribesTo, Speak, Call, Tests, Return
<1>8. CASE Speaking \/ Cancel \/ Cancelling
  BY <1>8 DEF Speaking, Cancel, Cancelling, Uncancelled, Return
<1>9. QED
  BY <1>1, <1>2, <1>3, <1>4, <1>5, <1>6, <1>7, <1>8, <1>10, <1>11, <1>12 DEF AppSteps, AppConnects

LEMMA WorkerApart ==
  ASSUME PlaceTypes, WorkerSteps
  PROVE  pc'.app = pc.app /\ pc'.callback = pc.callback /\ ret'.app = ret.app
<1> USE DEF PlaceTypes, Threads, Goto, IsActive, Only, ClientSame, ServiceSame, CallOnly, Asking,
        askVars
<1>1. CASE WorkerStarts \/ TakeTask \/ InstallHandler \/ Poll \/ Polled
  BY <1>1 DEF WorkerStarts, TakeTask, InstallHandler, Poll, Polled
<1>2. CASE Decide \/ Ask("worker") \/ Store("worker") \/ Lock("worker")
  BY <1>2 DEF Decide, Ask, Store, Lock, After
<1>3. CASE First("worker") \/ Connect("worker") \/ Subscribe("worker") \/ Subscribing("worker")
  BY <1>3 DEF First, Connect, Subscribe, Subscribing, SubscribesTo, Call
<1>4. CASE Initializes("worker")
  BY <1>4 DEF Initializes, Finish, After
<1>5. CASE ToldUp
  BY <1>5 DEF ToldUp, NotifyUp
<1>6. QED
  BY <1>1, <1>2, <1>3, <1>4, <1>5 DEF WorkerSteps, Worker

LEMMA CallbackApart ==
  ASSUME PlaceTypes, CallbackSteps
  PROVE  /\ ret' = ret
         /\ pc'.app = pc.app
         /\ pc'.worker = pc.worker \/ (pc.worker = "dead" /\ pc'.worker = "start")
         /\ pc'.callback = "deliver" => pc.callback = "deliver" \/ TakeEvent
<1> USE DEF PlaceTypes, Threads, Goto, IsActive, Only, ClientSame, ServiceSame, CallOnly, Asking,
        askVars
<1>1. CASE TakeEvent
  BY <1>1 DEF TakeEvent, Post
<1>6. CASE Down \/ DropRemote \/ Reset
  BY <1>6 DEF Down, DropRemote, Reset
<1>9. CASE Join("callback")
  <2>1. /\ pc' = [pc EXCEPT !["callback"] = "idle", !["worker"] = "start"]
        /\ pc.worker = "dead" /\ pc.callback = "join" /\ UNCHANGED <<ret, mutex>>
    BY <1>9 DEF Join, StartWorker
  <2>2. QED
    BY <2>1
<1>2. CASE ToldDown
  BY <1>2 DEF ToldDown, NotifyDown
<1>10. CASE StateEvent
  BY <1>10 DEF StateEvent, EventSame
<1>7. CASE EndEvent
  BY <1>7 DEF EndEvent, EventSame
<1>8. CASE TellEnd
  BY <1>8 DEF TellEnd, EventSame, ClientSame
<1>5. QED
  BY <1>1, <1>2, <1>6, <1>7, <1>8, <1>9, <1>10 DEF CallbackSteps, CallbackThread

LEMMA PluginApart ==
  ASSUME Plugin
  PROVE  UNCHANGED <<pc, ret, mutex, answer, polls, memberVars, tasks, running, call>>
BY DEF Plugin, SpeechEnds, Toggles, PluginGoes, PluginComes, MemberUnchanged, askVars, workerVars,
   ClientSame

LEMMA CallApart ==
  ASSUME PlaceTypes, NEW op \in scene.calls, CallStarts(op)
  PROVE  /\ ret' = ret
         /\ pc.app = "ready" /\ pc'.app \in {"unregister", "destroy", "check"}
         /\ pc'.worker = pc.worker /\ pc'.callback = pc.callback
BY DEF PlaceTypes, Threads, CallStarts, Entry, Goto, CallOnly, ServiceSame, Asking

-----------------------------------------------------------------------------
(* Types.                                                                  *)

LEMMA HeadElement ==
  ASSUME NEW S, NEW s \in Seq(S), s # <<>>
  PROVE  /\ Head(s) \in S /\ Tail(s) \in Seq(S)
         /\ Elements(s) = {Head(s)} \cup Elements(Tail(s))
<1>1. Len(s) \in Nat \ {0} /\ Head(s) = s[1] /\ Head(s) \in S
  BY EmptySeq, HeadTailProperties
<1>2. /\ Tail(s) \in Seq(S) /\ Len(Tail(s)) = Len(s) - 1
      /\ \A i \in 1..(Len(s) - 1) : Tail(s)[i] = s[i + 1]
  BY <1>1, HeadTailProperties
<1>3. ASSUME NEW i \in 1..Len(s), i # 1
      PROVE  s[i] \in Elements(Tail(s))
  <2>1. i - 1 \in 1..(Len(s) - 1) /\ Tail(s)[i - 1] = s[i]
    BY <1>1, <1>2, <1>3
  <2>2. QED
    BY <1>2, <2>1 DEF Elements
<1>4. ASSUME NEW i \in 1..Len(Tail(s))
      PROVE  Tail(s)[i] \in Elements(s)
  <2>1. i + 1 \in 1..Len(s) /\ Tail(s)[i] = s[i + 1]
    BY <1>1, <1>2
  <2>2. QED
    BY <2>1 DEF Elements
<1>5. QED
  BY <1>1, <1>2, <1>3, <1>4 DEF Elements

LEMMA OneElement ==
  ASSUME NEW S, NEW x \in S
  PROVE  <<x>> \in Seq(S) /\ Elements(<<x>>) = {x} /\ Head(<<x>>) = x /\ Tail(<<x>>) = <<>>
BY DEF Elements

LEMMA NoElement == Elements(<<>>) = {}
BY DEF Elements

LEMMA FlagTypesStep ==
  ASSUME Types, Next
  PROVE  FlagTypes'
<1> DEFINE flags == <<memberVars, listening, running, registered, ttsEnabled, session>>
<1>0. FlagTypes /\ AskTypes /\ EventTypes
  BY DEF Types
<1>1. UNCHANGED flags => FlagTypes'
  BY <1>0 DEF FlagTypes, memberVars
<1>2. ASSUME NEW t \in Threads, Ask(t) \/ Lock(t) \/ Join(t), ClientSame
      PROVE  UNCHANGED flags
  BY <1>2 DEF Ask, Lock, Join, Only, ClientSame, outsideVars, workerVars, clientVars
<1>3. ASSUME NEW t \in Threads, First(t) \/ Subscribe(t) \/ Subscribing(t), ClientSame
      PROVE  UNCHANGED flags
  BY <1>3 DEF First, Subscribe, Subscribing, Only, ClientSame, outsideVars, workerVars, clientVars
<1>4. CASE (Construct \/ Poll \/ Polled \/ Decide) /\ ClientSame
  <2>1. UNCHANGED flags
    BY <1>4 DEF Construct, Post, Poll, Polled, Decide, Only, ClientSame, outsideVars, workerVars,
       clientVars
  <2>2. QED
    BY <1>1, <2>1
<1>5. CASE (Down \/ DropRemote \/ Reset \/ TakeEvent) /\ ClientSame
  <2>1. UNCHANGED <<queried, listening, running, registered, ttsEnabled, session>>
    BY <1>5 DEF Down, DropRemote, Reset, TakeEvent, Post, ClientSame, outsideVars, memberVars,
       workerVars, clientVars
  <2>2. CASE Down
    BY <1>0, <2>1, <2>2 DEF FlagTypes, Down
  <2>3. CASE DropRemote
    BY <1>0, <2>1, <2>3 DEF FlagTypes, DropRemote
  <2>4. CASE Reset
    BY <1>0, <2>1, <2>4 DEF FlagTypes, Reset
  <2>5. CASE TakeEvent
    BY <1>0, <2>1, <2>5 DEF FlagTypes, TakeEvent, memberVars
  <2>6. QED
    BY <1>5, <2>2, <2>3, <2>4, <2>5
<1> USE <1>0 DEF FlagTypes, memberVars, workerVars, outsideVars, otherVars, boundVars, clientVars
<1>6. ASSUME NEW t \in Clients, Store(t), ClientSame
      PROVE  FlagTypes'
  BY <1>6 DEF Store, AskTypes, Answers, Clients, Threads, ClientSame
<1>7. ASSUME NEW t \in Clients, Initializes(t)
      PROVE  FlagTypes'
  BY <1>7 DEF Initializes, Finish, StateIs, ClientSame, Only
<1>8. CASE (Activate \/ Activated) /\ ClientSame
  <2>1. answer.app.ok \in BOOLEAN
    BY DEF AskTypes, Answers, Threads
  <2>2. QED
    BY <1>8, <2>1 DEF Activate, Activated, ClientSame
<1>9. ASSUME NEW t \in Clients, Connect(t), ClientSame
      PROVE  FlagTypes'
  BY <1>9 DEF Connect, ClientSame
<1>10. CASE WorkerStarts /\ ClientSame
  BY <1>10 DEF WorkerStarts, ClientSame
<1>11. CASE TakeTask /\ ClientSame
  BY <1>11 DEF TakeTask, ClientSame
<1>12. CASE InstallHandler /\ ClientSame
  BY <1>12 DEF InstallHandler, ClientSame
<1> USE DEF ClientSame, ServiceSame, CallOnly, Only, MemberUnchanged, EventSame
<1>13. CASE Register
  BY <1>13 DEF Register
<1>14. CASE Greet
  BY <1>14 DEF Greet
<1>15. CASE Check
  BY <1>15 DEF Check
<1>16. CASE Checked
  BY <1>16 DEF Checked
<1>17. CASE Query
  BY <1>17 DEF Query
<1>18. CASE Querying
  BY <1>18 DEF Querying
<1>19. CASE Answered
  BY <1>19 DEF Answered, AskTypes, Answers, Threads
<1>20. CASE Created
  BY <1>20 DEF Created
<1>21. CASE Handlers
  BY <1>21 DEF Handlers
<1>22. CASE Attach
  BY <1>22 DEF Attach
<1>23. CASE Attaching
  BY <1>23 DEF Attaching
<1>24. CASE Speak
  BY <1>24 DEF Speak
<1>25. CASE Speaking
  BY <1>25 DEF Speaking
<1>26. CASE Note
  BY <1>26 DEF Note
<1>27. CASE Cancel
  BY <1>27 DEF Cancel
<1>28. CASE Cancelling
  BY <1>28 DEF Cancelling
<1>29. CASE Unregister
  BY <1>29 DEF Unregister
<1>30. CASE Destroy
  BY <1>30 DEF Destroy
<1>31. CASE ToldUp
  BY <1>31 DEF ToldUp, NotifyUp, StateIs
<1>32. CASE ToldDown
  BY <1>32 DEF ToldDown, NotifyDown, StateIs
<1>33. CASE EndEvent
  BY <1>33 DEF EndEvent
<1>34. CASE TellEnd
  BY <1>34 DEF TellEnd
<1>35. CASE StateEvent
  BY <1>35 DEF StateEvent, StateIs, EventTypes, Events
<1>36. CASE SpeechEnds
  BY <1>36 DEF SpeechEnds
<1>37. CASE Toggles
  BY <1>37 DEF Toggles
<1>38. CASE (PluginGoes \/ PluginComes) /\ ClientSame
  BY <1>38 DEF PluginGoes, PluginComes
<1>39. ASSUME NEW op \in scene.calls, CallStarts(op)
       PROVE  FlagTypes'
  BY <1>39 DEF CallStarts
<1>40. QED
  BY <1>1, <1>2, <1>3, <1>4, <1>5, <1>6, <1>7, <1>8, <1>9, <1>10, <1>11, <1>12, <1>13, <1>14,
     <1>15, <1>16, <1>17, <1>18, <1>19, <1>20, <1>21, <1>22, <1>23, <1>24, <1>25, <1>26, <1>27,
     <1>28, <1>29, <1>30, <1>31, <1>32, <1>33, <1>34, <1>35, <1>36, <1>37, <1>38, <1>39
     DEF Next, AppSteps, AppConnects, WorkerSteps, Worker, CallbackSteps, CallbackThread, Clients,
         Threads, Plugin

LEMMA AskTypesStep ==
  ASSUME Types, Next
  PROVE  AskTypes'
<1>1. Polls \in Nat /\ plugin.active \in BOOLEAN /\ plugin.enabled \in BOOLEAN
  BY ServiceAssumption DEF Types, SpeechTypes
<1>19. /\ NoAnswer \in Answers /\ [ok |-> TRUE, up |-> plugin.active] \in Answers
       /\ [ok |-> plugin.active, up |-> plugin.enabled] \in Answers
  BY <1>1 DEF Answers, NoAnswer
<1> USE <1>1, <1>19 DEF Types, FlagTypes, AskTypes, askVars, Asking, CallOnly, Only, ServiceSame,
            MemberUnchanged, EventSame
<1>2. CASE Construct \/ WorkerStarts \/ TakeTask
  BY <1>2 DEF Construct, WorkerStarts, TakeTask
<1>20. CASE Activate \/ Activated
  <2>1. /\ polls' = polls
        /\ \/ answer' = answer \/ answer' = [answer EXCEPT !.app = NoAnswer]
           \/ answer' = [answer EXCEPT !.app = [ok |-> TRUE, up |-> TRUE]]
    BY <1>20 DEF Activate, Activated
  <2>2. [ok |-> TRUE, up |-> TRUE] \in Answers
    BY DEF Answers
  <2>3. QED
    BY <2>1, <2>2 DEF Threads
<1>3. CASE InstallHandler \/ Poll \/ Decide
  BY <1>3 DEF InstallHandler, Poll, Decide
<1>18. CASE Polled
  <2>1. answer' = answer /\ (polls' = polls \/ (polls > 1 /\ polls' = polls - 1))
    BY <1>18 DEF Polled, Again
  <2>2. QED
    BY <2>1
<1>4. ASSUME NEW t \in Threads, Join(t) \/ Lock(t) \/ First(t)
      PROVE  AskTypes'
  BY <1>4 DEF Join, Lock, First
<1>5. ASSUME NEW t \in Threads, Connect(t) \/ Subscribe(t) \/ Subscribing(t)
      PROVE  AskTypes'
  BY <1>5 DEF Connect, Subscribe, Subscribing
<1>6. ASSUME NEW t \in Threads, Store(t)
      PROVE  AskTypes'
  BY <1>6 DEF Store
<1>7. ASSUME NEW t \in Threads, Ask(t)
      PROVE  AskTypes'
  BY <1>7 DEF Ask
<1>8. ASSUME NEW t \in Threads, Initializes(t)
      PROVE  AskTypes'
  BY <1>8 DEF Initializes, Finish
<1>9. CASE Register \/ Greet \/ Check \/ Checked \/ Query
  BY <1>9 DEF Register, Greet, Check, Checked, Query
<1>10. CASE Querying \/ Answered
  BY <1>10 DEF Querying, Answered, Threads
<1>11. CASE Created \/ Handlers \/ Attach \/ Attaching \/ Speak
  BY <1>11 DEF Created, Handlers, Attach, Attaching, Speak
<1>12. CASE Speaking \/ Note \/ Cancel \/ Cancelling \/ Unregister \/ Destroy
  BY <1>12 DEF Speaking, Note, Cancel, Cancelling, Unregister, Destroy
<1>13. CASE TakeEvent \/ Down \/ DropRemote \/ Reset
  BY <1>13 DEF TakeEvent, Down, DropRemote, Reset
<1>14. CASE ToldUp \/ ToldDown \/ StateEvent \/ EndEvent \/ TellEnd
  BY <1>14 DEF ToldUp, NotifyUp, ToldDown, NotifyDown, StateEvent, EndEvent, TellEnd
<1>15. CASE Plugin
  BY <1>15 DEF Plugin, SpeechEnds, Toggles, PluginGoes, PluginComes
<1>16. ASSUME NEW op \in scene.calls, CallStarts(op)
       PROVE  AskTypes'
  BY <1>16 DEF CallStarts
<1>17. QED
  BY <1>2, <1>3, <1>4, <1>5, <1>6, <1>7, <1>8, <1>9, <1>10, <1>11, <1>12, <1>13, <1>14, <1>15,
     <1>16, <1>18, <1>20
     DEF Next, AppSteps, AppConnects, WorkerSteps, Worker, CallbackSteps, CallbackThread, Threads

\* The steps that tell nobody anything: they leave the plugin, its events, the
\* tasks and the speeches alone.
dataVars == <<scene, plugin, inbox, handled, tasks, glitches, changes, toggles, made, requested, ended,
              unnoted>>

SilentConnecting(t) ==
  \/ (Join(t) \/ Store(t) \/ Lock(t) \/ First(t) \/ Connect(t) \/ Subscribe(t)) /\ ClientSame
  \/ Initializes(t)

SilentWorker == ToldUp \/ ((WorkerStarts \/ Poll \/ Polled \/ Decide) /\ ClientSame)

SilentCallback == ToldDown \/ TellEnd \/ ((Down \/ DropRemote \/ Reset) /\ ClientSame)

SilentApp ==
  \/ Activated /\ ClientSame
  \/ Register \/ Greet \/ Check \/ Checked \/ Query \/ Answered \/ Created \/ Handlers \/ Attach
  \/ Speak \/ Cancel \/ Unregister \/ Destroy

Silent == SilentApp \/ SilentWorker \/ SilentCallback \/ \E t \in Threads : SilentConnecting(t)

LEMMA SilentLeaves ==
  ASSUME Silent
  PROVE  UNCHANGED dataVars
<1> USE DEF dataVars, Only, ClientSame, CallOnly, ServiceSame, EventSame, outsideVars, otherVars,
        boundVars, workerVars, historyVars, clientVars
<1>1. CASE Register \/ Greet \/ Check \/ Checked
  BY <1>1 DEF Register, Greet, Check, Checked
<1>2. CASE Query \/ Answered \/ (Activated /\ ClientSame)
  BY <1>2 DEF Query, Answered, Activated
<1>3. CASE Created \/ Handlers \/ Attach \/ Speak
  BY <1>3 DEF Created, Handlers, Attach, Speak
<1>4. CASE Cancel \/ Unregister \/ Destroy
  BY <1>4 DEF Cancel, Unregister, Destroy
<1>5. CASE SilentWorker
  BY <1>5 DEF SilentWorker, ToldUp, NotifyUp, WorkerStarts, Poll, Polled, Decide
<1>6. CASE SilentCallback
  BY <1>6 DEF SilentCallback, ToldDown, NotifyDown, TellEnd, Down, DropRemote, Reset
<1>7. ASSUME NEW t \in Threads, (Join(t) \/ Store(t) \/ Lock(t) \/ First(t)) /\ ClientSame
      PROVE  UNCHANGED dataVars
  BY <1>7 DEF Join, Store, Lock, First
<1>8. ASSUME NEW t \in Threads, ((Connect(t) \/ Subscribe(t)) /\ ClientSame) \/ Initializes(t)
      PROVE  UNCHANGED dataVars
  BY <1>8 DEF Connect, Subscribe, Initializes, Finish
<1>9. QED
  BY <1>1, <1>2, <1>3, <1>4, <1>5, <1>6, <1>7, <1>8 DEF Silent, SilentApp, SilentConnecting

LEMMA StepKinds ==
  ASSUME Next
  PROVE  \/ Silent \/ Note
         \/ (Construct \/ Activate \/ TakeTask \/ InstallHandler \/ TakeEvent) /\ ClientSame
         \/ (Ask("app") \/ Ask("worker") \/ Subscribing("app") \/ Subscribing("worker")) /\ ClientSame
         \/ Querying \/ Attaching \/ Speaking \/ Cancelling \/ StateEvent \/ EndEvent
         \/ SpeechEnds \/ Toggles \/ ((PluginGoes \/ PluginComes) /\ ClientSame)
         \/ \E op \in scene.calls : CallStarts(op)
BY DEF Next, Silent, SilentApp, SilentWorker, SilentCallback, SilentConnecting, AppSteps,
   AppConnects, WorkerSteps, Worker, CallbackSteps, CallbackThread, Plugin, Threads

LEMMA DeliverStays ==
  ASSUME PlaceTypes, Next, ~TakeEvent, pc'.callback = "deliver"
  PROVE  pc.callback = "deliver"
BY AppApart, WorkerApart, CallbackApart, PluginApart, CallApart DEF Next

\* What is added to the events.
LEMMA Added ==
  ASSUME inbox \in Seq(Events), NEW e \in Events
  PROVE  /\ Arrives(<<e>>) => inbox' \in Seq(Events) /\ Elements(inbox') = Elements(inbox) \cup {e}
         /\ Arrives(<<e>>) /\ inbox = <<>> => inbox' = <<e>>
         /\ Arrives(<<>>) => inbox' = inbox
<1> DEFINE one == <<e>>
<1>1. one \in Seq(Events) /\ Elements(one) = {e}
  BY OneElement
<1> HIDE DEF one
<1>2. inbox \o one \in Seq(Events) /\ Elements(inbox \o one) = Elements(inbox) \cup {e}
  BY <1>1, JoinedFacts
<1>3. inbox \o <<>> = inbox
  BY ConcatEmptySeq
<1>4. <<>> \o one = one
  BY <1>1, ConcatEmptySeq
<1>5. QED
  BY <1>2, <1>3, <1>4 DEF Arrives, one

LEMMA EventKinds ==
  /\ Event("activated") \in Events /\ Event("deactivated") \in Events
  /\ \A b \in BOOLEAN : [Event("state") EXCEPT !.on = b] \in Events
  /\ \A id \in Nat : [Event("end") EXCEPT !.id = id] \in Events
BY DEF Event, NoEvent, Events

\* What an end or an answer of the plugin's does to the speeches.
LEMMA OverFacts ==
  ASSUME SpeechTypes, inbox \in Seq(Events), NEW id \in Nat, Over(id)
  PROVE  /\ plugin' = [plugin EXCEPT !.pending = Without(plugin.pending, {id})]
         /\ plugin'.pending \in Seq(1..made)
         /\ Elements(plugin'.pending) = Elements(plugin.pending) \ {id}
         /\ ended' = ended \cup {id}
         /\ inbox' \in Seq(Events)
         /\ "speech" \in plugin.subscribed =>
              Elements(inbox') = Elements(inbox) \cup {[Event("end") EXCEPT !.id = id]}
         /\ "speech" \notin plugin.subscribed => inbox' = inbox
<1> DEFINE end == [Event("end") EXCEPT !.id = id]
<1>1. plugin.pending \in Seq(1..made)
  BY DEF SpeechTypes
<1>2. /\ Without(plugin.pending, {id}) \in Seq(1..made)
      /\ Elements(Without(plugin.pending, {id})) = Elements(plugin.pending) \ {id}
  BY <1>1, WithoutFacts
<1>3. /\ plugin' = [plugin EXCEPT !.pending = Without(plugin.pending, {id})]
      /\ ended' = ended \cup {id}
      /\ Arrives(IF "speech" \in plugin.subscribed THEN <<end>> ELSE <<>>)
  BY DEF Over
<1>4. plugin'.pending = Without(plugin.pending, {id})
  BY <1>3 DEF SpeechTypes
<1>5. end \in Events
  BY EventKinds
<1> HIDE DEF end
<1>6. /\ "speech" \in plugin.subscribed => Arrives(<<end>>)
      /\ "speech" \notin plugin.subscribed => Arrives(<<>>)
  BY <1>3
<1>7. inbox' \in Seq(Events) /\ ("speech" \in plugin.subscribed => Elements(inbox') = Elements(inbox) \cup {end})
      /\ ("speech" \notin plugin.subscribed => inbox' = inbox)
  BY <1>5, <1>6, Added
<1>8. QED
  BY <1>2, <1>3, <1>4, <1>7 DEF end

LEMMA ActiveFacts ==
  ASSUME SpeechTypes
  PROVE  /\ ActivePlugin \in [active : BOOLEAN, enabled : BOOLEAN, subscribed : SUBSET {"state", "speech"},
                              lastId : 0..made, pending : Seq(1..made)]
         /\ ActivePlugin.active /\ ActivePlugin.subscribed = plugin.subscribed
         /\ ActivePlugin.pending = plugin.pending
         /\ ActivePlugin.lastId = IF plugin.active THEN plugin.lastId ELSE 0
<1>1. plugin \in [active : BOOLEAN, enabled : BOOLEAN, subscribed : SUBSET {"state", "speech"},
                  lastId : 0..made, pending : Seq(1..made)] /\ 0 \in 0..made
  BY DEF SpeechTypes
<1>2. CASE plugin.active
  BY <1>1, <1>2 DEF ActivePlugin
<1>3. CASE ~plugin.active
  <2>1. ActivePlugin = [plugin EXCEPT !.active = TRUE, !.enabled = TRUE, !.lastId = 0]
    BY <1>3 DEF ActivePlugin
  <2>2. QED
    BY <1>1, <1>3, <2>1
<1>4. QED
  BY <1>2, <1>3

\* Only TakeEvent takes one.
LEMMA SilentTakesNone ==
  ASSUME Silent, inbox \in Seq(Events)
  PROVE  ~TakeEvent
<1>1. inbox' = inbox
  BY SilentLeaves DEF dataVars
<1>2. inbox # <<>> => Len(inbox) \in Nat /\ Len(Tail(inbox)) = Len(inbox) - 1
  BY HeadTailProperties, LenProperties
<1>3. inbox # <<>> => Tail(inbox) # inbox
  BY <1>2
<1>4. QED
  BY <1>1, <1>3 DEF TakeEvent

\* What the other steps leave alone.
LEMMA LoudLeaves ==
  ASSUME Next
  PROVE  /\ (Construct \/ TakeTask) /\ ClientSame =>
              UNCHANGED <<scene, plugin, inbox, handled, glitches, changes, toggles, made, requested, ended,
                          unnoted>>
         /\ (InstallHandler \/ Ask("app") \/ Ask("worker")) /\ ClientSame =>
              UNCHANGED <<scene, plugin, inbox, handled, tasks, changes, toggles, made, requested, ended,
                          unnoted>>
         /\ Activate /\ ClientSame =>
              UNCHANGED <<scene, handled, tasks, changes, toggles, made, requested, ended, unnoted>>
         /\ ((Subscribing("app") \/ Subscribing("worker")) /\ ClientSame) \/ Attaching =>
              UNCHANGED <<scene, inbox, handled, tasks, changes, toggles, made, requested, ended, unnoted>>
         /\ Querying =>
              UNCHANGED <<scene, plugin, inbox, handled, tasks, changes, toggles, made, requested, ended,
                          unnoted>>
         /\ TakeEvent /\ ClientSame =>
              UNCHANGED <<scene, plugin, glitches, changes, toggles, made, requested, ended, unnoted>>
<1> USE DEF ClientSame, ServiceSame, outsideVars, otherVars, boundVars, workerVars, historyVars,
        clientVars
<1>1. (Construct \/ TakeTask) /\ ClientSame =>
        UNCHANGED <<scene, plugin, inbox, handled, glitches, changes, toggles, made, requested, ended, unnoted>>
  BY DEF Construct, TakeTask
<1>2. (InstallHandler \/ Ask("app") \/ Ask("worker")) /\ ClientSame =>
        UNCHANGED <<scene, plugin, inbox, handled, tasks, changes, toggles, made, requested, ended, unnoted>>
  BY DEF InstallHandler, Ask
<1>3. Activate /\ ClientSame =>
        UNCHANGED <<scene, handled, tasks, changes, toggles, made, requested, ended, unnoted>>
  BY DEF Activate
<1>4. ((Subscribing("app") \/ Subscribing("worker")) /\ ClientSame) \/ Attaching =>
        UNCHANGED <<scene, inbox, handled, tasks, changes, toggles, made, requested, ended, unnoted>>
  BY DEF Subscribing, Attaching
<1>7. Querying =>
        UNCHANGED <<scene, plugin, inbox, handled, tasks, changes, toggles, made, requested, ended, unnoted>>
  BY DEF Querying, Call
<1>5. TakeEvent /\ ClientSame =>
        UNCHANGED <<scene, plugin, glitches, changes, toggles, made, requested, ended, unnoted>>
  BY DEF TakeEvent
<1>6. QED
  BY <1>1, <1>2, <1>3, <1>4, <1>5, <1>7

LEMMA SpeechLeaves ==
  /\ Speaking => UNCHANGED <<scene, inbox, handled, tasks, changes, toggles, made, requested, ended, unnoted>>
  /\ Note => UNCHANGED <<scene, plugin, inbox, handled, tasks, glitches, changes, toggles, made, ended, unnoted>>
  /\ Cancelling =>
       UNCHANGED <<scene, handled, tasks, glitches, changes, toggles, made, requested, unnoted>>
  /\ SpeechEnds =>
       UNCHANGED <<scene, handled, tasks, glitches, changes, toggles, made, requested, unnoted>>
  /\ StateEvent => UNCHANGED <<scene, plugin, inbox, tasks, glitches, changes, toggles, made, requested, ended,
                               unnoted>>
  /\ EndEvent => UNCHANGED <<scene, plugin, inbox, tasks, glitches, changes, toggles, made, ended>>
<1> USE DEF ServiceSame, CallOnly, EventSame, MemberUnchanged, boundVars, workerVars, historyVars,
        clientVars
<1>1. Speaking => UNCHANGED <<scene, inbox, handled, tasks, changes, toggles, made, requested, ended, unnoted>>
  BY DEF Speaking
<1>2. Note => UNCHANGED <<scene, plugin, inbox, handled, tasks, glitches, changes, toggles, made, ended, unnoted>>
  BY DEF Note
<1>3. Cancelling =>
        UNCHANGED <<scene, handled, tasks, glitches, changes, toggles, made, requested, unnoted>>
  BY DEF Cancelling, Over, Uncancelled, Return
<1>4. SpeechEnds =>
        UNCHANGED <<scene, handled, tasks, glitches, changes, toggles, made, requested, unnoted>>
  BY DEF SpeechEnds
<1>5. StateEvent => UNCHANGED <<scene, plugin, inbox, tasks, glitches, changes, toggles, made, requested, ended,
                                unnoted>>
  BY DEF StateEvent
<1>6. EndEvent => UNCHANGED <<scene, plugin, inbox, tasks, glitches, changes, toggles, made, ended>>
  BY DEF EndEvent
<1>7. QED
  BY <1>1, <1>2, <1>3, <1>4, <1>5, <1>6

LEMMA PluginLeaves ==
  /\ Toggles => UNCHANGED <<scene, handled, tasks, glitches, changes, made, requested, ended, unnoted>>
  /\ (PluginGoes \/ PluginComes) /\ ClientSame =>
       UNCHANGED <<scene, handled, tasks, glitches, toggles, made, requested, ended, unnoted>>
  /\ \A op \in scene.calls : CallStarts(op) =>
       UNCHANGED <<scene, plugin, inbox, handled, tasks, glitches, changes, toggles, requested, ended, unnoted>>
<1> USE DEF CallOnly, ServiceSame, ClientSame, MemberUnchanged, boundVars, workerVars, historyVars,
        clientVars
<1>1. Toggles => UNCHANGED <<scene, handled, tasks, glitches, changes, made, requested, ended, unnoted>>
  BY DEF Toggles
<1>2. (PluginGoes \/ PluginComes) /\ ClientSame =>
        UNCHANGED <<scene, handled, tasks, glitches, toggles, made, requested, ended, unnoted>>
  BY DEF PluginGoes, PluginComes
<1>3. \A op \in scene.calls : CallStarts(op) =>
        UNCHANGED <<scene, plugin, inbox, handled, tasks, glitches, changes, toggles, requested, ended, unnoted>>
  BY DEF CallStarts
<1>4. QED
  BY <1>1, <1>2, <1>3

LEMMA TasksStep ==
  ASSUME tasks \in Seq(Tasks), Next
  PROVE  tasks' \in Seq(Tasks)
<1>1. \/ tasks' = tasks \/ (tasks # <<>> /\ tasks' = Tail(tasks))
      \/ tasks' = Append(tasks, "install") \/ tasks' = Append(tasks, "activate")
  BY StepKinds, SilentLeaves, LoudLeaves, SpeechLeaves, PluginLeaves
     DEF dataVars, Construct, TakeTask, TakeEvent, Post, workerVars
<1>2. tasks # <<>> => Tail(tasks) \in Seq(Tasks)
  BY HeadTailProperties
<1>3. "install" \in Tasks /\ "activate" \in Tasks
  BY DEF Tasks
<1>4. Append(tasks, "install") \in Seq(Tasks) /\ Append(tasks, "activate") \in Seq(Tasks)
  BY <1>3, AppendProperties
<1>5. QED
  BY <1>1, <1>2, <1>4

LEMMA InboxStep ==
  ASSUME Types, Next
  PROVE  inbox' \in Seq(Events)
<1>1. /\ inbox \in Seq(Events) /\ SpeechTypes
      /\ plugin.active \in BOOLEAN /\ plugin.enabled \in BOOLEAN
  BY DEF Types, EventTypes, SpeechTypes
<1>2. /\ Event("activated") \in Events /\ Event("deactivated") \in Events
      /\ [Event("state") EXCEPT !.on = ~plugin.enabled] \in Events
  BY <1>1, EventKinds
<1>3. ASSUME NEW e \in Events, NEW b \in BOOLEAN, Arrives(IF b THEN <<e>> ELSE <<>>)
      PROVE  inbox' \in Seq(Events)
  BY <1>1, <1>3, Added
<1>4. CASE TakeEvent
  BY <1>1, <1>4, HeadTailProperties DEF TakeEvent
<1>5. CASE Activate \/ PluginGoes \/ PluginComes
  <2>1. \/ inbox' = inbox \/ Arrives(<<Event("activated")>>) \/ Arrives(<<Event("deactivated")>>)
        \/ Arrives(<<>>)
    BY <1>5 DEF Activate, Activates, PluginGoes, PluginComes
  <2>2. QED
    BY <1>1, <1>2, <2>1, Added
<1>6. CASE Toggles
  <2>1. \/ Arrives(<<[Event("state") EXCEPT !.on = ~plugin.enabled]>>) \/ Arrives(<<>>)
    BY <1>6 DEF Toggles
  <2>2. QED
    BY <1>1, <1>2, <2>1, Added
<1>7. CASE Cancelling \/ SpeechEnds
  <2>1. plugin.pending \in Seq(1..made) /\ made \in Nat /\ call.got \in Nat
    BY <1>1 DEF Types, SpeechTypes, CallTypes
  <2>2. plugin.pending # <<>> => Head(plugin.pending) \in Nat
    BY <2>1, HeadTailProperties
  <2>3. inbox' = inbox \/ \E id \in Nat : Over(id)
    BY <1>7, <2>1, <2>2 DEF Cancelling, SpeechEnds
  <2>4. QED
    BY <1>1, <2>3, OverFacts
<1>8. QED
  BY <1>1, <1>4, <1>5, <1>6, <1>7, StepKinds, SilentLeaves, LoudLeaves, SpeechLeaves,
     PluginLeaves DEF dataVars

\* What the plugin was asked in vain.
LEMMA LostSteps ==
  ASSUME Next
  PROVE  /\ lost' \in {lost, {}} \cup UNION {{lost \ {s}, lost \cup {s}} : s \in {"state", "speech"}}
         /\ AppSteps => \/ lost' = lost \/ Subscribing("app")
                        \/ Attaching /\ lost' \in {lost \ {"speech"}, lost \cup {"speech"}}
         /\ WorkerSteps => lost' = lost \/ Subscribing("worker")
         /\ CallbackSteps \/ SpeechEnds \/ Toggles \/ PluginComes => lost' = lost
         /\ \A op \in scene.calls : CallStarts(op) => lost' = lost
<1> USE DEF Only, boundVars, otherVars, ClientSame, CallOnly, EventSame
<1>1. ASSUME NEW t \in Threads, Join(t) \/ Ask(t) \/ Store(t) \/ Lock(t)
      PROVE  lost' = lost
  BY <1>1 DEF Join, Ask, Store, Lock
<1>2. ASSUME NEW t \in Threads, First(t) \/ Connect(t) \/ Subscribe(t) \/ Initializes(t)
      PROVE  lost' = lost
  BY <1>2 DEF First, Connect, Subscribe, Initializes, Finish
<1>3. ASSUME NEW t \in Threads, Subscribing(t)
      PROVE  lost' \in {lost, lost \ {"state"}, lost \cup {"state"}}
  BY <1>3 DEF Subscribing, SubscribesTo
<1>4. CASE Construct \/ Activate \/ Activated \/ Register \/ Greet \/ Check \/ Checked \/ Query
  BY <1>4 DEF Construct, Activate, Activated, Register, Greet, Check, Checked, Query
<1>5. CASE Querying \/ Speaking \/ Cancelling
  BY <1>5 DEF Querying, Speaking, Cancelling
<1>6. CASE Answered \/ Created \/ Handlers \/ Attach \/ Speak \/ Note
  BY <1>6 DEF Answered, Created, Handlers, Attach, Speak, Note
<1>7. CASE Cancel \/ Unregister \/ Destroy
  BY <1>7 DEF Cancel, Unregister, Destroy
<1>8. CASE WorkerStarts \/ TakeTask \/ InstallHandler \/ Poll \/ Polled \/ Decide \/ ToldUp
  BY <1>8 DEF WorkerStarts, TakeTask, InstallHandler, Poll, Polled, Decide, ToldUp, NotifyUp
<1>9. CASE TakeEvent \/ Down \/ DropRemote \/ Reset \/ ToldDown
  BY <1>9 DEF TakeEvent, Down, DropRemote, Reset, ToldDown, NotifyDown
<1>10. CASE StateEvent \/ EndEvent \/ TellEnd
  BY <1>10 DEF StateEvent, EndEvent, TellEnd
<1>11. /\ SpeechEnds \/ Toggles \/ PluginComes => lost' = lost
       /\ PluginGoes => lost' = {}
  BY DEF SpeechEnds, Toggles, PluginGoes, PluginComes
<1>12. ASSUME NEW op \in scene.calls, CallStarts(op)
       PROVE  lost' = lost
  BY <1>12 DEF CallStarts
<1>17. Attaching => lost' \in {lost \ {"speech"}, lost \cup {"speech"}}
  BY DEF Attaching, SubscribesTo
<1>13. AppSteps => \/ lost' = lost \/ Subscribing("app")
                   \/ Attaching /\ lost' \in {lost \ {"speech"}, lost \cup {"speech"}}
  BY <1>1, <1>2, <1>4, <1>5, <1>6, <1>7, <1>17 DEF AppSteps, AppConnects, Threads
<1>14. WorkerSteps => lost' = lost \/ Subscribing("worker")
  BY <1>1, <1>2, <1>8 DEF WorkerSteps, Worker, Threads
<1>15. CallbackSteps => lost' = lost
  BY <1>1, <1>9, <1>10 DEF CallbackSteps, CallbackThread, Threads
<1>18. lost' \in {lost, {}} \cup UNION {{lost \ {s}, lost \cup {s}} : s \in {"state", "speech"}}
  <2>1. \/ lost' \in {lost, {}} \/ lost' \in {lost \ {"speech"}, lost \cup {"speech"}}
        \/ lost' \in {lost \ {"state"}, lost \cup {"state"}}
    BY <1>3, <1>11, <1>12, <1>13, <1>14, <1>15 DEF Next, Plugin, Threads
  <2>2. QED
    BY <2>1
<1>16. QED
  BY <1>11, <1>12, <1>13, <1>14, <1>15, <1>18

LEMMA EventTypesStep ==
  ASSUME Types, Next
  PROVE  EventTypes'
<1> USE DEF Types
<1>0. scene \in [changes : Nat, atRest : BOOLEAN, glitches : Nat, toggles : Nat,
                calls : SUBSET {"create", "fetch", "speak", "abort", "destroy", "delete"}, made : Nat]
  BY ServiceAssumption DEF EventTypes
<1>1. tasks' \in Seq(Tasks) /\ inbox' \in Seq(Events)
  BY TasksStep, InboxStep DEF EventTypes
<1>2. scene' = scene
  BY StepKinds, SilentLeaves, LoudLeaves, SpeechLeaves, PluginLeaves DEF dataVars
<1>3. glitches' \in Nat
  <2>1. \/ glitches' = glitches \/ glitches' = glitches + 1 \/ glitches' = scene.glitches
    BY StepKinds, SilentLeaves, LoudLeaves, SpeechLeaves, PluginLeaves
       DEF dataVars, Ask, Activate, Querying, Subscribing, Attaching, SubscribesTo, Speaking, InstallHandler
  <2>2. QED
    BY <1>0, <2>1 DEF EventTypes
<1>4. changes' \in Nat /\ toggles' \in Nat
  <2>1. /\ changes' = changes \/ changes' = changes + 1
        /\ toggles' = toggles \/ toggles' = toggles + 1
    BY StepKinds, SilentLeaves, LoudLeaves, SpeechLeaves, PluginLeaves
       DEF dataVars, PluginGoes, PluginComes, Toggles
  <2>2. QED
    BY <2>1 DEF EventTypes
<1>5. handled' \in Events \cup {NoEvent} /\ (pc'.callback = "deliver" => handled' \in Events)
  <2>1. CASE TakeEvent
    <3>1. Head(inbox) \in Events
      BY <2>1, HeadTailProperties DEF TakeEvent, EventTypes
    <3>2. QED
      BY <2>1, <3>1 DEF TakeEvent
  <2>2. CASE StateEvent \/ EndEvent
    BY <2>2 DEF StateEvent, EndEvent, Goto, EventTypes, PlaceTypes, Threads
  <2>3. CASE ~TakeEvent /\ ~StateEvent /\ ~EndEvent
    <3>1. handled' = handled
      BY <2>3, StepKinds, SilentLeaves, LoudLeaves, SpeechLeaves, PluginLeaves DEF dataVars
    <3>2. QED
      BY <2>3, <3>1, DeliverStays DEF EventTypes
  <2>4. QED
    BY <2>1, <2>2, <2>3
<1>7. lost' \subseteq {"state", "speech"}
  BY LostSteps DEF EventTypes
<1>6. QED
  BY <1>1, <1>2, <1>3, <1>4, <1>5, <1>7 DEF EventTypes

PluginType ==
  plugin \in [active : BOOLEAN, enabled : BOOLEAN, subscribed : SUBSET {"state", "speech"},
              lastId : 0..made, pending : Seq(1..made)]

LEMMA PluginTypeStep ==
  ASSUME Types, Next
  PROVE  PluginType'
<1>0. PluginType /\ made \in Nat /\ SpeechTypes
  BY DEF Types, SpeechTypes, PluginType
<1>1. CASE Activate /\ ClientSame
  <2>1. made' = made /\ (plugin' = plugin \/ plugin' = ActivePlugin)
    BY <1>1, LoudLeaves DEF Activate, Activates
  <2>2. QED
    BY <1>0, <2>1, ActiveFacts DEF PluginType
<1>2. CASE ((Subscribing("app") \/ Subscribing("worker")) /\ ClientSame) \/ Attaching
  <2>1. /\ made' = made
        /\ \/ plugin' = plugin
           \/ \E name \in {"state", "speech"} : plugin' = [plugin EXCEPT !.subscribed = @ \cup {name}]
    BY <1>2, LoudLeaves DEF Subscribing, Attaching, SubscribesTo, Call, Subscribed
  <2>2. QED
    BY <1>0, <2>1 DEF PluginType
<1>3. CASE Speaking
  <2>1. plugin.lastId < made
    BY <1>3 DEF Types, CallTypes, InSpeak, Speaking
  <2>2. /\ made' = made
        /\ \/ plugin' = plugin
           \/ plugin' = [plugin EXCEPT !.lastId = @ + 1, !.pending = Append(@, plugin.lastId + 1)]
    BY <1>3, SpeechLeaves DEF Speaking
  <2>3. plugin.lastId + 1 \in 1..made /\ plugin.pending \in Seq(1..made)
    BY <1>0, <2>1 DEF PluginType
  <2>4. Append(plugin.pending, plugin.lastId + 1) \in Seq(1..made) /\ plugin.lastId + 1 \in 0..made
    BY <1>0, <2>3, AppendProperties
  <2>5. QED
    BY <1>0, <2>2, <2>4 DEF PluginType
<1>4. CASE Cancelling \/ SpeechEnds
  <2>1. plugin.pending \in Seq(1..made) /\ call.got \in Nat /\ inbox \in Seq(Events)
    BY <1>0 DEF Types, PluginType, CallTypes, EventTypes
  <2>2. plugin.pending # <<>> => Head(plugin.pending) \in Nat
    BY <1>0, <2>1, HeadTailProperties
  <2>3. made' = made /\ (plugin' = plugin \/ \E id \in Nat : Over(id))
    BY <1>4, <2>1, <2>2, SpeechLeaves DEF Cancelling, SpeechEnds
  <2>4. \/ plugin' = plugin
        \/ plugin' = [plugin EXCEPT !.pending = plugin'.pending] /\ plugin'.pending \in Seq(1..made)
    <3>1. ASSUME NEW id \in Nat, Over(id)
          PROVE  plugin' = [plugin EXCEPT !.pending = plugin'.pending] /\ plugin'.pending \in Seq(1..made)
      <4>1. /\ plugin' = [plugin EXCEPT !.pending = Without(plugin.pending, {id})]
            /\ plugin'.pending \in Seq(1..made)
        BY <1>0, <2>1, <3>1, OverFacts
      <4>2. QED
        BY <1>0, <4>1 DEF PluginType
    <3>2. QED
      BY <2>3, <3>1
  <2>5. QED
    BY <1>0, <2>3, <2>4 DEF PluginType
<1>5. CASE Toggles
  <2>1. made' = made /\ plugin' = [plugin EXCEPT !.enabled = ~@]
    BY <1>5, PluginLeaves DEF Toggles
  <2>2. QED
    BY <1>0, <2>1 DEF PluginType
<1>6. CASE (PluginGoes \/ PluginComes) /\ ClientSame
  <2>1. /\ made' = made
        /\ \/ plugin' = ActivePlugin
           \/ plugin' = [plugin EXCEPT !.active = FALSE, !.enabled = FALSE, !.subscribed = {},
                                       !.pending = <<>>]
    BY <1>6, PluginLeaves DEF PluginGoes, PluginComes
  <2>2. <<>> \in Seq(1..made)
    BY EmptySeq
  <2>3. QED
    BY <1>0, <2>1, <2>2, ActiveFacts DEF PluginType
<1>7. ASSUME NEW op \in scene.calls, CallStarts(op)
      PROVE  PluginType'
  <2>1. made' = made + 1 /\ plugin' = plugin
    BY <1>7, PluginLeaves DEF CallStarts
  <2>2. 0..made \subseteq 0..made' /\ 1..made \subseteq 1..made'
    BY <1>0, <2>1
  <2>3. plugin.pending \in Seq(1..made')
    <3>1. plugin.pending \in Seq(1..made)
      BY <1>0 DEF PluginType
    <3>2. Seq(1..made) \subseteq Seq(1..made')
      BY <2>2, SeqMonotonic
    <3>3. QED
      BY <3>1, <3>2
  <2>4. QED
    BY <1>0, <2>1, <2>2, <2>3 DEF PluginType
<1>8. CASE UNCHANGED <<plugin, made>>
  BY <1>0, <1>8 DEF PluginType
<1>9. QED
  BY <1>1, <1>2, <1>3, <1>4, <1>5, <1>6, <1>7, <1>8, StepKinds, SilentLeaves, LoudLeaves,
     SpeechLeaves, PluginLeaves DEF dataVars

LEMMA SpeechTypesStep ==
  ASSUME Types, Next
  PROVE  SpeechTypes'
<1>0. SpeechTypes /\ made \in Nat
  BY DEF Types, SpeechTypes
<1>1. made' = made \/ made' = made + 1
  BY StepKinds, SilentLeaves, LoudLeaves, SpeechLeaves, PluginLeaves DEF dataVars, CallStarts
<1>2. made' \in Nat /\ 1..made \subseteq 1..made'
  BY <1>0, <1>1
<1>3. DOMAIN requested' \subseteq 1..made' /\ requested' \in [DOMAIN requested' -> 1..made']
  <2>1. CASE Note
    <3>1. call.id \in 1..made /\ call.got \in 1..made /\ made' = made
      BY <1>0, <2>1, SpeechLeaves DEF Types, CallTypes, InSpeak, Note
    <3>2. \/ requested' = requested
          \/ requested' = [c \in DOMAIN requested \cup {call.id} |->
                             IF c = call.id THEN call.got ELSE requested[c]]
      BY <2>1 DEF Note
    <3>3. QED
      BY <1>0, <3>1, <3>2 DEF SpeechTypes
  <2>2. CASE EndEvent
    <3>1. \/ requested' = requested
          \/ requested' = Restrict(requested, DOMAIN requested \ {Min(Asked(handled.id))})
      BY <2>2 DEF EndEvent
    <3>2. QED
      BY <1>0, <1>2, <3>1 DEF SpeechTypes, Restrict
  <2>3. CASE requested' = requested
    BY <1>0, <1>2, <2>3 DEF SpeechTypes
  <2>4. QED
    BY <2>1, <2>2, <2>3, StepKinds, SilentLeaves, LoudLeaves, SpeechLeaves, PluginLeaves
       DEF dataVars
<1>4. ended' \subseteq Nat
  <2>1. CASE Cancelling \/ SpeechEnds
    <3>1. plugin.pending \in Seq(1..made) /\ call.got \in Nat /\ inbox \in Seq(Events)
      BY <1>0 DEF Types, SpeechTypes, CallTypes, EventTypes
    <3>2. plugin.pending # <<>> => Head(plugin.pending) \in Nat
      BY <1>0, <3>1, HeadTailProperties
    <3>3. ended' = ended \/ \E id \in Nat : ended' = ended \cup {id}
      BY <2>1, <3>1, <3>2 DEF Cancelling, SpeechEnds, Over
    <3>4. QED
      BY <1>0, <3>3 DEF SpeechTypes
  <2>2. QED
    BY <1>0, <2>1, StepKinds, SilentLeaves, LoudLeaves, SpeechLeaves, PluginLeaves DEF dataVars,
       SpeechTypes
<1>5. unnoted' \subseteq Nat
  <2>1. CASE EndEvent
    <3>1. handled.id \in Nat
      BY <2>1 DEF EndEvent, Types, EventTypes, Events
    <3>2. QED
      BY <1>0, <2>1, <3>1 DEF SpeechTypes, EndEvent
  <2>2. QED
    BY <1>0, <2>1, StepKinds, SilentLeaves, LoudLeaves, SpeechLeaves, PluginLeaves DEF dataVars,
       SpeechTypes
<1>6. QED
  BY <1>2, <1>3, <1>4, <1>5, PluginTypeStep DEF SpeechTypes, PluginType

\* What a step of the app's makes of the call: only Speaking has an id to note.
CallMoves ==
  /\ InSpeak' => call'.op = "speak"
  /\ pc'.app # "note" /\ (pc.app = "note" => call' = NoCall)
  /\ call' \in {call, NoCall, [call EXCEPT !.got = lastSpeech]}

LEMMA AppCalls ==
  ASSUME PlaceTypes, CallTypes, AppSteps, ~Speaking
  PROVE  CallMoves
<1>0. call.op \in {"none", "create", "fetch", "speak", "abort", "destroy", "delete"}
  BY DEF CallTypes
<1>13. InSpeak => call.op = "speak"
  BY DEF CallTypes
<1> USE <1>0, <1>13 DEF CallMoves, InSpeak, PlaceTypes, Threads, AppPlaces, AppReturns, Goto,
        IsActive, ClientSame, CallOnly, ServiceSame, Asking, Only, askVars, NoCall
<1>1. CASE Construct /\ ClientSame
  BY <1>1 DEF Construct, Post
<1>31. CASE Join("app") /\ ClientSame
  BY <1>31 DEF Join, StartWorker
<1>2. CASE (Ask("app") \/ Store("app") \/ Lock("app")) /\ ClientSame
  BY <1>2 DEF Ask, Store, Lock, After
<1>3. CASE (First("app") \/ Activate \/ Activated \/ Connect("app")) /\ ClientSame
  BY <1>3 DEF First, Activate, Activated, Connect
<1>4. CASE (Subscribe("app") \/ Subscribing("app")) /\ ClientSame
  BY <1>4 DEF Subscribe, Subscribing, SubscribesTo, Call
<1>5. CASE Initializes("app")
  BY <1>5 DEF Initializes, Finish, After
<1>32. CASE Register
  BY <1>32 DEF Register
<1>33. CASE Greet
  BY <1>33 DEF Greet
<1>6. CASE Check
  BY <1>6 DEF Check
<1>7. CASE Checked
  BY <1>7 DEF Checked, Return
<1>8. CASE Query \/ Querying \/ Answered
  BY <1>8 DEF Query, Querying, Answered, Call, Tests, Unanswered, Return
<1>9. CASE Created \/ Note \/ Destroy \/ Unregister
  BY <1>9 DEF Created, Note, Destroy, Unregister, Return
<1>10. CASE Handlers \/ Attach \/ Attaching \/ Speak
  BY <1>10 DEF Handlers, Attach, Attaching, SubscribesTo, Call, Speak, Tests, Return
<1>11. CASE Cancel \/ Cancelling
  BY <1>11 DEF Cancel, Cancelling, Uncancelled, Return
<1>12. QED
  BY <1>1, <1>31, <1>32, <1>33, <1>2, <1>3, <1>4, <1>5, <1>6, <1>7, <1>8, <1>9, <1>10, <1>11
     DEF AppSteps, AppConnects

\* Nobody else has a say in it.
LEMMA OtherCalls ==
  ASSUME PlaceTypes, Next, ~AppSteps, \A op \in scene.calls : ~CallStarts(op)
  PROVE  call' = call /\ pc'.app = pc.app /\ ret'.app = ret.app /\ made' = made
<1>1. pc'.app = pc.app /\ ret'.app = ret.app
  BY WorkerApart, CallbackApart, PluginApart DEF Next
<1>2. call' = call /\ made' = made
  <2>1. CASE WorkerSteps
    BY <2>1 DEF WorkerSteps, ClientSame, Initializes, ToldUp
  <2>2. CASE CallbackSteps
    BY <2>2 DEF CallbackSteps, ClientSame, ToldDown, StateEvent, EndEvent, TellEnd
  <2>3. CASE Plugin
    BY <2>3 DEF Plugin, SpeechEnds, Toggles, ClientSame
  <2>4. QED
    BY <2>1, <2>2, <2>3 DEF Next
<1>3. QED
  BY <1>1, <1>2

\* How the plugin changes, but for a speech it accepts.
PluginMoves ==
  \/ plugin' = plugin
  \/ plugin' = ActivePlugin /\ (Activate \/ PluginComes)
  \/ (Subscribing("app") \/ Subscribing("worker")) /\ plugin' = Subscribed("state")
  \/ Attaching /\ plugin' = Subscribed("speech")
  \/ plugin' = [plugin EXCEPT !.pending = plugin'.pending]
       /\ \E id \in Elements(plugin.pending) : id \in Nat /\ Over(id)
  \/ Toggles /\ plugin' = [plugin EXCEPT !.enabled = ~@]
  \/ PluginGoes /\ plugin' = [plugin EXCEPT !.active = FALSE, !.enabled = FALSE, !.subscribed = {},
                                            !.pending = <<>>]

LEMMA PluginSteps ==
  ASSUME Types, Next, ~Speaking
  PROVE  PluginMoves
<1>0. SpeechTypes /\ inbox \in Seq(Events) /\ made \in Nat /\ plugin.pending \in Seq(1..made)
  BY DEF Types, SpeechTypes, EventTypes
<1>1. CASE Cancelling \/ SpeechEnds
  <2>1. plugin.pending # <<>> => Head(plugin.pending) \in Elements(plugin.pending)
    BY <1>0, HeadElement
  <2>2. Range(plugin.pending) = Elements(plugin.pending)
    <3>1. DOMAIN plugin.pending = 1..Len(plugin.pending)
      BY <1>0, LenProperties
    <3>2. QED
      BY <3>1 DEF Range, Elements
  <2>3. plugin' = plugin \/ \E id \in Elements(plugin.pending) : Over(id)
    BY <1>1, <2>1, <2>2 DEF Cancelling, SpeechEnds
  <2>4. ASSUME NEW id \in Elements(plugin.pending), Over(id)
        PROVE  id \in Nat /\ plugin' = [plugin EXCEPT !.pending = plugin'.pending]
    <3>1. id \in Nat
      BY <1>0, <2>4, ElementsFacts
    <3>2. plugin' = [plugin EXCEPT !.pending = Without(plugin.pending, {id})]
      BY <2>4 DEF Over
    <3>3. QED
      BY <1>0, <3>1, <3>2 DEF SpeechTypes
  <2>5. QED
    BY <2>3, <2>4 DEF PluginMoves
<1>2. CASE Activate \/ PluginGoes \/ PluginComes
  BY <1>2 DEF Activate, Activates, PluginGoes, PluginComes, PluginMoves
<1>3. CASE Subscribing("app") \/ Subscribing("worker") \/ Attaching
  BY <1>3 DEF Subscribing, Attaching, SubscribesTo, Call, PluginMoves
<1>4. CASE Toggles
  BY <1>4 DEF Toggles, PluginMoves
<1>5. CASE plugin' = plugin
  BY <1>5 DEF PluginMoves
<1>6. QED
  BY <1>1, <1>2, <1>3, <1>4, <1>5, StepKinds, SilentLeaves, LoudLeaves, SpeechLeaves, PluginLeaves
     DEF dataVars

LEMMA IdsStep ==
  ASSUME Types, Next, ~Speaking
  PROVE  plugin'.lastId = plugin.lastId \/ (plugin'.lastId = 0 /\ ~plugin.active /\ plugin'.active)
<1>1. SpeechTypes
  BY DEF Types
<1>2. CASE plugin' = ActivePlugin
  BY <1>1, <1>2, ActiveFacts
<1>3. QED
  BY <1>1, <1>2, PluginSteps DEF PluginMoves, SpeechTypes, Subscribed

\* What the steps write to the other members.
LEMMA FaultSteps ==
  ASSUME Next
  PROVE  fault' \in {fault, "nullRemote", "nullSession"}
<1> USE DEF Only, otherVars, ClientSame, CallOnly, EventSame, MemberUnchanged
<1>1. ASSUME NEW t \in Threads, Join(t) \/ Ask(t) \/ Store(t) \/ Lock(t)
      PROVE  fault' = fault
  BY <1>1 DEF Join, Ask, Store, Lock
<1>2. ASSUME NEW t \in Threads, First(t) \/ Connect(t) \/ Subscribe(t) \/ Initializes(t)
      PROVE  fault' = fault
  BY <1>2 DEF First, Connect, Subscribe, Initializes, Finish
<1>3. ASSUME NEW t \in Threads, Subscribing(t)
      PROVE  fault' \in {fault, "nullRemote"}
  BY <1>3 DEF Subscribing, SubscribesTo, Call
<1>4. CASE Construct \/ Activate \/ Activated \/ Register \/ Greet \/ Check \/ Checked \/ Query
  BY <1>4 DEF Construct, Activate, Activated, Register, Greet, Check, Checked, Query
<1>5. CASE Querying \/ Attaching \/ Speaking \/ Cancelling
  BY <1>5 DEF Querying, Attaching, SubscribesTo, Speaking, Cancelling, Call
<1>6. CASE Answered \/ Created \/ Handlers \/ Attach \/ Speak \/ Note
  BY <1>6 DEF Answered, Created, Handlers, Attach, Speak, Note
<1>7. CASE Cancel \/ Unregister \/ Destroy
  BY <1>7 DEF Cancel, Unregister, Destroy
<1>8. CASE WorkerStarts \/ TakeTask \/ InstallHandler \/ Poll \/ Polled \/ Decide \/ ToldUp
  BY <1>8 DEF WorkerStarts, TakeTask, InstallHandler, Poll, Polled, Decide, ToldUp, NotifyUp
<1>9. CASE TakeEvent \/ Down \/ DropRemote \/ Reset \/ ToldDown
  BY <1>9 DEF TakeEvent, Down, DropRemote, Reset, ToldDown, NotifyDown
<1>10. CASE StateEvent \/ EndEvent \/ TellEnd
  BY <1>10 DEF StateEvent, EndEvent, TellEnd
<1>11. CASE Plugin
  BY <1>11 DEF Plugin, SpeechEnds, Toggles, PluginGoes, PluginComes
<1>12. ASSUME NEW op \in scene.calls, CallStarts(op)
       PROVE  fault' = fault
  BY <1>12 DEF CallStarts
<1>13. CASE AppSteps
  BY <1>13, <1>1, <1>2, <1>3, <1>4, <1>5, <1>6, <1>7 DEF AppSteps, AppConnects, Threads
<1>14. CASE WorkerSteps
  BY <1>14, <1>1, <1>2, <1>3, <1>8 DEF WorkerSteps, Worker, Threads
<1>15. CASE CallbackSteps
  BY <1>15, <1>1, <1>9, <1>10 DEF CallbackSteps, CallbackThread, Threads
<1>16. QED
  BY <1>11, <1>12, <1>13, <1>14, <1>15 DEF Next

LEMMA ToldSteps ==
  ASSUME Next
  PROVE  told' \in {told, "connected", "closed"}
<1> USE DEF historyVars, ClientSame
<1>1. CASE AppSteps
  <2>1. CASE Register \/ Greet \/ Checked \/ Query \/ Answered \/ Created
    BY <2>1 DEF Register, Greet, Checked, Query, Answered, Created
  <2>2. CASE Speak \/ Speaking \/ Note \/ Cancel \/ Cancelling \/ Unregister \/ Destroy
    BY <2>2 DEF Speak, Speaking, Note, Cancel, Cancelling, Unregister, Destroy
  <2>3. CASE ClientSame \/ Initializes("app")
    BY <2>3 DEF Initializes
  <2>4. CASE Check \/ Querying \/ Handlers \/ Attach \/ Attaching
    BY <2>4 DEF Check, Querying, Handlers, Attach, Attaching
  <2>5. QED
    BY <1>1, <2>1, <2>2, <2>3, <2>4 DEF AppSteps
<1>2. CASE WorkerSteps
  BY <1>2 DEF WorkerSteps, Initializes, ToldUp
<1>3. CASE CallbackSteps
  BY <1>3 DEF CallbackSteps, ToldDown, StateEvent, EndEvent, TellEnd
<1>4. CASE Plugin
  BY <1>4 DEF Plugin, SpeechEnds, Toggles
<1>5. ASSUME NEW op \in scene.calls, CallStarts(op)
      PROVE  told' = told
  BY <1>5 DEF CallStarts
<1>6. QED
  BY <1>1, <1>2, <1>3, <1>4, <1>5 DEF Next

LEMMA LastSpeechSteps ==
  ASSUME Next
  PROVE  lastSpeech' \in {lastSpeech, 0, call.got}
<1> USE DEF clientVars, ClientSame, StateIs
<1>1. CASE AppSteps
  <2>1. CASE Register \/ Greet \/ Checked \/ Query \/ Answered \/ Created
    BY <2>1 DEF Register, Greet, Checked, Query, Answered, Created
  <2>2. CASE Speak \/ Speaking \/ Note \/ Cancel \/ Cancelling \/ Unregister \/ Destroy
    BY <2>2 DEF Speak, Speaking, Note, Cancel, Cancelling, Unregister, Destroy
  <2>3. CASE ClientSame \/ Initializes("app")
    BY <2>3 DEF Initializes
  <2>4. CASE Check \/ Querying \/ Handlers \/ Attach \/ Attaching
    BY <2>4 DEF Check, Querying, Handlers, Attach, Attaching
  <2>5. QED
    BY <1>1, <2>1, <2>2, <2>3, <2>4 DEF AppSteps
<1>2. CASE WorkerSteps
  BY <1>2 DEF WorkerSteps, Initializes, ToldUp
<1>3. CASE CallbackSteps
  BY <1>3 DEF CallbackSteps, ToldDown, StateEvent, EndEvent, TellEnd
<1>4. CASE Plugin
  BY <1>4 DEF Plugin, SpeechEnds, Toggles
<1>5. ASSUME NEW op \in scene.calls, CallStarts(op)
      PROVE  lastSpeech' = lastSpeech
  BY <1>5 DEF CallStarts
<1>6. QED
  BY <1>1, <1>2, <1>3, <1>4, <1>5 DEF Next

LEMMA AppMakesNone ==
  ASSUME AppSteps
  PROVE  made' = made
<1> USE DEF ClientSame
<1>1. CASE Register \/ Greet \/ Checked \/ Query \/ Answered \/ Created
  BY <1>1 DEF Register, Greet, Checked, Query, Answered, Created
<1>2. CASE Speak \/ Speaking \/ Note \/ Cancel \/ Cancelling \/ Unregister \/ Destroy
  BY <1>2 DEF Speak, Speaking, Note, Cancel, Cancelling, Unregister, Destroy
<1>3. CASE ClientSame \/ Initializes("app")
  BY <1>3 DEF Initializes
<1>4. CASE Check \/ Querying \/ Handlers \/ Attach \/ Attaching
  BY <1>4 DEF Check, Querying, Handlers, Attach, Attaching
<1>5. QED
  BY <1>1, <1>2, <1>3, <1>4 DEF AppSteps

LEMMA CallTypesStep ==
  ASSUME Types, Next
  PROVE  CallTypes'
<1>0. /\ CallTypes /\ SpeechTypes /\ PlaceTypes /\ made \in Nat /\ plugin.lastId \in 0..made
      /\ lastSpeech \in 0..made
  BY DEF Types, SpeechTypes, CallTypes
<1>1. made' = made \/ made' = made + 1
  BY StepKinds, SilentLeaves, LoudLeaves, SpeechLeaves, PluginLeaves DEF dataVars, CallStarts
<1>2. made' \in Nat /\ 0..made \subseteq 0..made'
  BY <1>0, <1>1
<1>3. fault' \in {"none", "nullRemote", "nullSession"} /\ told' \in {"none", "connected", "closed"}
  <2>1. fault' \in {fault, "nullRemote", "nullSession"}
    BY FaultSteps
  <2>2. told' \in {told, "connected", "closed"}
    BY ToldSteps
  <2>3. QED
    BY <1>0, <2>1, <2>2 DEF CallTypes
<1>4. lastSpeech' \in 0..made'
  <2>1. lastSpeech' \in {lastSpeech, 0, call.got} /\ (Note => lastSpeech' = call.got /\ made' = made)
    BY LastSpeechSteps, SpeechLeaves DEF Note
  <2>2. call.got \in 0..made
    BY <1>0 DEF CallTypes
  <2>3. QED
    BY <1>0, <1>2, <2>1, <2>2
<1>5. /\ call' \in [op : {"none", "create", "fetch", "speak", "abort", "destroy", "delete"},
                    id : 0..made', got : 0..made']
      /\ call'.op = "speak" => call'.id # 0
      /\ InSpeak' => call'.op = "speak"
      /\ call'.op = "speak" /\ pc'.app # "note" => plugin'.lastId < made'
      /\ pc'.app = "note" => call'.got # 0
  <2>1. CASE Speaking
    <3>1. call.op = "speak" /\ made' = made /\ plugin.lastId < made
      BY <1>0, <2>1, SpeechLeaves DEF CallTypes, InSpeak, Speaking
    <3>2. \/ call' = call /\ pc' = pc
          \/ call' = NoCall /\ pc'.app = "ready"
          \/ pc'.app = "note" /\ call' = [call EXCEPT !.got = plugin.lastId + 1]
      BY <1>0, <2>1, <3>1 DEF Speaking, Return, Goto, PlaceTypes, Threads
    <3>3. ret' = ret /\ (pc' = pc /\ call' = call => plugin' = plugin)
      BY <1>0, <2>1 DEF Speaking, Asking, Return, Goto, PlaceTypes, Threads
    <3>4. plugin.lastId + 1 \in 0..made /\ plugin.lastId + 1 # 0
      BY <1>0, <3>1
    <3>5. QED
      BY <1>0, <3>1, <3>2, <3>3, <3>4 DEF CallTypes, InSpeak, NoCall
  <2>2. CASE AppSteps /\ ~Speaking
    <3>1. CallMoves
      BY <1>0, <2>2, AppCalls
    <3>2. made' = made /\ (plugin'.lastId = plugin.lastId \/ plugin'.lastId = 0)
      BY <2>2, IdsStep, AppMakesNone
    <3>3. CASE call' = call
      <4>1. call'.op = "speak" => plugin.lastId < made
        BY <1>0, <3>1, <3>3 DEF CallTypes, CallMoves, NoCall
      <4>2. call'.op = "speak" => 0 < made
        BY <1>0, <4>1
      <4>3. QED
        BY <1>0, <3>1, <3>2, <3>3, <4>1, <4>2 DEF CallMoves, CallTypes
    <3>4. CASE call' = NoCall
      BY <1>0, <3>1, <3>2, <3>4 DEF CallMoves, NoCall
    <3>6. CASE call' = [call EXCEPT !.got = lastSpeech]
      <4>1. /\ call \in [op : {"none", "create", "fetch", "speak", "abort", "destroy", "delete"},
                         id : 0..made, got : 0..made]
            /\ call.op = "speak" => call.id # 0
            /\ call.op = "speak" => 0 < made
        BY <1>0 DEF CallTypes
      <4>2. /\ call' \in [op : {"none", "create", "fetch", "speak", "abort", "destroy", "delete"},
                          id : 0..made, got : 0..made]
            /\ call'.op = call.op /\ call'.id = call.id
        BY <1>0, <3>6, <4>1
      <4>3. call'.op = "speak" => plugin.lastId < made
        BY <1>0, <3>1, <4>2 DEF CallTypes, CallMoves, NoCall
      <4>4. QED
        BY <1>0, <3>1, <3>2, <4>1, <4>2, <4>3 DEF CallMoves
    <3>5. QED
      BY <3>1, <3>3, <3>4, <3>6 DEF CallMoves
  <2>3. ASSUME NEW op \in scene.calls, CallStarts(op)
        PROVE  /\ call' \in [op : {"none", "create", "fetch", "speak", "abort", "destroy", "delete"},
                             id : 0..made', got : 0..made']
               /\ call'.op = "speak" => call'.id # 0
               /\ InSpeak' => call'.op = "speak"
               /\ call'.op = "speak" /\ pc'.app # "note" => plugin'.lastId < made'
               /\ pc'.app = "note" => call'.got # 0
    <3>1. op \in {"create", "fetch", "speak", "abort", "destroy", "delete"}
      BY ServiceAssumption DEF Types, EventTypes
    <3>2. /\ made' = made + 1 /\ plugin' = plugin
          /\ \E id \in IF op = "speak" THEN 1..(made + 1) ELSE {0} :
               call' = [op |-> op, id |-> id, got |-> 0]
          /\ pc'.app \in {"unregister", "destroy", "check"}
      BY <1>0, <2>3, CallApart, PluginLeaves DEF CallStarts
    <3>3. QED
      BY <1>0, <1>2, <3>1, <3>2 DEF InSpeak
  <2>4. CASE ~AppSteps /\ \A op \in scene.calls : ~CallStarts(op)
    <3>1. call' = call /\ pc'.app = pc.app /\ ret'.app = ret.app /\ made' = made
      BY <1>0, <2>4, OtherCalls
    <3>2. plugin'.lastId = plugin.lastId \/ plugin'.lastId = 0
      BY <2>4, IdsStep DEF AppSteps
    <3>3. QED
      BY <1>0, <3>1, <3>2 DEF CallTypes, InSpeak
  <2>5. QED
    BY <2>1, <2>2, <2>3, <2>4
<1>6. QED
  BY <1>0, <1>3, <1>4, <1>5 DEF CallTypes

LEMMA InitTypes == Init => Types
<1> SUFFICES ASSUME Init PROVE Types
  OBVIOUS
<1> USE DEF Init, ServiceInit
<1>1. PlaceTypes /\ Locks
  BY DEF PlaceTypes, Locks, Inside, Threads, AppPlaces, WorkerPlaces, CallbackPlaces, AppReturns,
         WorkerReturns
<1>2. FlagTypes
  BY DEF FlagTypes
<1>3. AskTypes
  BY DEF AskTypes, Answers, NoAnswer, Threads
<1>4. EventTypes
  <2>1. <<>> \in Seq(Tasks) /\ <<>> \in Seq(Events)
    BY EmptySeq
  <2>2. QED
    BY <2>1 DEF EventTypes
<1>5. SpeechTypes
  <2>1. <<>> \in Seq(1..made)
    BY EmptySeq
  <2>2. PICK b \in BOOLEAN : plugin = [active |-> b, enabled |-> b, subscribed |-> {}, lastId |-> 0,
                                      pending |-> <<>>]
    OBVIOUS
  <2>3. made = 0 /\ 0 \in 0..made
    OBVIOUS
  <2>4. plugin \in [active : BOOLEAN, enabled : BOOLEAN, subscribed : SUBSET {"state", "speech"},
                   lastId : 0..made, pending : Seq(1..made)]
    BY <2>1, <2>2, <2>3
  <2>5. DOMAIN requested = {} /\ requested \in [DOMAIN requested -> 1..made]
    OBVIOUS
  <2>6. QED
    BY <2>3, <2>4, <2>5 DEF SpeechTypes
<1>6. CallTypes
  BY DEF CallTypes, InSpeak, NoCall
<1>7. QED
  BY <1>1, <1>2, <1>3, <1>4, <1>5, <1>6 DEF Types

LEMMA NextTypes == Types /\ Next => Types'
BY PlacesStep, FlagTypesStep, AskTypesStep, EventTypesStep, SpeechTypesStep, CallTypesStep DEF Types

LEMMA SameTypes == Types /\ UNCHANGED vars => Types'
<1> SUFFICES ASSUME Types, UNCHANGED vars PROVE Types'
  OBVIOUS
<1> USE DEF Types, vars, serviceVars, outsideVars, memberVars, workerVars, askVars, otherVars,
        boundVars, clientVars, historyVars
<1>1. PlaceTypes' /\ Locks'
  BY DEF PlaceTypes, Locks, Inside
<1>2. FlagTypes' /\ AskTypes'
  BY DEF FlagTypes, AskTypes
<1>3. EventTypes'
  BY DEF EventTypes
<1>4. SpeechTypes'
  BY DEF SpeechTypes
<1>5. CallTypes'
  BY DEF CallTypes, InSpeak
<1>6. QED
  BY <1>1, <1>2, <1>3, <1>4, <1>5

LEMMA TypesAlways == Spec => []Types
<1>1. Types /\ [Next]_vars => Types'
  BY NextTypes, SameTypes
<1>2. QED
  BY InitTypes, <1>1, PTL DEF Spec

LEMMA TypesGive ==
  ASSUME Types
  PROVE  TypeOK
<1>1. Range(tasks) \subseteq {"install", "activate"}
  <2>1. tasks \in Seq(Tasks)
    BY DEF Types, EventTypes
  <2>2. DOMAIN tasks = 1..Len(tasks) /\ tasks \in [1..Len(tasks) -> Tasks]
    BY <2>1, LenProperties
  <2>3. QED
    BY <2>2 DEF Range, Tasks
<1>2. DOMAIN requested \subseteq 1..made /\ Range(requested) \subseteq 1..made
  BY DEF Types, SpeechTypes, Range
<1>3. mutex \in {"app", "worker"} => pc[mutex] \in Initializing
  BY DEF Types, Locks, Inside, Initializing
<1>4. /\ {active, queried, remote, initialized, handlers, listening, running} \subseteq BOOLEAN
      /\ {registered, ttsEnabled, session} \subseteq BOOLEAN
  BY DEF Types, FlagTypes
<1>5. /\ plugin \in [active : BOOLEAN, enabled : BOOLEAN, subscribed : SUBSET {"state", "speech"},
                     lastId : 0..made, pending : Seq(1..made)]
      /\ mutex \in {"free"} \cup Threads /\ (mutex = "callback" <=> pc.callback = "tell")
      /\ lost \subseteq {"state", "speech"}
  BY DEF Types, SpeechTypes, Locks, EventTypes
<1>6. /\ lastSpeech \in 0..made /\ told \in {"none", "connected", "closed"}
      /\ fault \in {"none", "nullRemote", "nullSession"}
  BY DEF Types, CallTypes
<1>7. QED
  BY <1>1, <1>2, <1>3, <1>4, <1>5, <1>6 DEF TypeOK

\* The members have their types, the plugin's ids are numbers of calls, and
\* m_mutex is held exactly by the thread that is inside initialize() or is
\* telling the session of an end (TextToSpeechService.cpp:44-61, 119-136), for
\* any number of polls and any scenes.
THEOREM TypeCorrect == Spec => []TypeOK
BY TypesAlways, TypesGive, PTL

-----------------------------------------------------------------------------
(* Where each step is taken, and who writes what.                          *)

LEMMA AppAt ==
  /\ (Construct => pc.app = "construct") /\ (Join("app") => pc.app = "join")
  /\ (Lock("app") => pc.app = "lock") /\ (Ask("app") => pc.app = "ask")
  /\ (Store("app") => pc.app = "store") /\ (First("app") => pc.app = "first")
  /\ (Activate => pc.app = "activate") /\ (Activated => pc.app = "activated")
  /\ (Connect("app") => pc.app = "connect")
  /\ (Subscribe("app") => pc.app = "subscribe") /\ (Subscribing("app") => pc.app = "subscribing")
  /\ (Initializes("app") => pc.app = "finish")
  /\ (Register => pc.app = "register") /\ (Greet => pc.app = "greet")
  /\ (Check => pc.app = "check") /\ (Checked => pc.app = "checked")
  /\ (Query => pc.app = "query") /\ (Querying => pc.app = "querying")
  /\ (Answered => pc.app = "answered") /\ (Created => pc.app = "created")
  /\ (Handlers => pc.app = "events") /\ (Attach => pc.app = "attach")
  /\ (Attaching => pc.app = "attaching") /\ (Speak => pc.app = "speak")
  /\ (Speaking => pc.app = "speaking") /\ (Note => pc.app = "note")
  /\ (Cancel => pc.app = "cancel") /\ (Cancelling => pc.app = "cancelling")
  /\ (Unregister => pc.app = "unregister") /\ (Destroy => pc.app = "destroy")
<1>1. /\ (Construct => pc.app = "construct") /\ (Join("app") => pc.app = "join")
      /\ (Lock("app") => pc.app = "lock") /\ (Ask("app") => pc.app = "ask")
      /\ (Store("app") => pc.app = "store") /\ (First("app") => pc.app = "first")
  BY ZenonT(20) DEF Construct, Join, Lock, Ask, Store, First
<1>2. /\ (Activate => pc.app = "activate") /\ (Activated => pc.app = "activated")
  /\ (Connect("app") => pc.app = "connect")
      /\ (Subscribe("app") => pc.app = "subscribe") /\ (Subscribing("app") => pc.app = "subscribing")
      /\ (Initializes("app") => pc.app = "finish")
  BY ZenonT(20) DEF Activate, Activated, Connect, Subscribe, Subscribing, Initializes, Finish
<1>3. /\ (Register => pc.app = "register") /\ (Greet => pc.app = "greet")
      /\ (Check => pc.app = "check") /\ (Checked => pc.app = "checked")
      /\ (Query => pc.app = "query") /\ (Querying => pc.app = "querying")
      /\ (Answered => pc.app = "answered") /\ (Created => pc.app = "created")
  BY ZenonT(20) DEF Register, Greet, Check, Checked, Query, Querying, Answered, Created
<1>4. /\ (Handlers => pc.app = "events") /\ (Attach => pc.app = "attach")
      /\ (Attaching => pc.app = "attaching") /\ (Speak => pc.app = "speak")
      /\ (Speaking => pc.app = "speaking") /\ (Note => pc.app = "note")
      /\ (Cancel => pc.app = "cancel") /\ (Cancelling => pc.app = "cancelling")
      /\ (Unregister => pc.app = "unregister") /\ (Destroy => pc.app = "destroy")
  BY ZenonT(20) DEF Handlers, Attach, Attaching, Speak, Speaking, Note, Cancel, Cancelling,
     Unregister, Destroy
<1>5. QED
  BY <1>1, <1>2, <1>3, <1>4

LEMMA WorkerAt ==
  /\ (WorkerStarts => pc.worker = "start") /\ (TakeTask => pc.worker = "take")
  /\ (InstallHandler => pc.worker = "install") /\ (Poll => pc.worker = "poll")
  /\ (Polled => pc.worker = "polled") /\ (Decide => pc.worker = "decide")
  /\ (Ask("worker") => pc.worker = "ask") /\ (Store("worker") => pc.worker = "store")
  /\ (Lock("worker") => pc.worker = "lock") /\ (First("worker") => pc.worker = "first")
  /\ (Connect("worker") => pc.worker = "connect") /\ (Subscribe("worker") => pc.worker = "subscribe")
  /\ (Subscribing("worker") => pc.worker = "subscribing")
  /\ (Initializes("worker") => pc.worker = "finish") /\ (ToldUp => pc.worker = "notify")
<1>1. /\ (WorkerStarts => pc.worker = "start") /\ (TakeTask => pc.worker = "take")
      /\ (InstallHandler => pc.worker = "install") /\ (Poll => pc.worker = "poll")
      /\ (Polled => pc.worker = "polled") /\ (Decide => pc.worker = "decide")
  BY ZenonT(20) DEF WorkerStarts, TakeTask, InstallHandler, Poll, Polled, Decide
<1>2. /\ (Ask("worker") => pc.worker = "ask") /\ (Store("worker") => pc.worker = "store")
      /\ (Lock("worker") => pc.worker = "lock") /\ (First("worker") => pc.worker = "first")
  BY ZenonT(20) DEF Ask, Store, Lock, First
<1>3. /\ (Connect("worker") => pc.worker = "connect") /\ (Subscribe("worker") => pc.worker = "subscribe")
      /\ (Subscribing("worker") => pc.worker = "subscribing")
      /\ (Initializes("worker") => pc.worker = "finish") /\ (ToldUp => pc.worker = "notify")
  BY ZenonT(20) DEF Connect, Subscribe, Subscribing, Initializes, Finish, ToldUp, NotifyUp
<1>4. QED
  BY <1>1, <1>2, <1>3

LEMMA CallbackAt ==
  /\ (TakeEvent => pc.callback = "idle") /\ (Join("callback") => pc.callback = "join")
  /\ (Down => pc.callback = "down") /\ (DropRemote => pc.callback = "drop")
  /\ (Reset => pc.callback = "reset") /\ (ToldDown => pc.callback = "notify")
  /\ (StateEvent => pc.callback = "deliver") /\ (EndEvent => pc.callback = "deliver")
  /\ (TellEnd => pc.callback = "tell")
BY ZenonT(20) DEF TakeEvent, Join, Down, DropRemote, Reset, ToldDown, NotifyDown, StateEvent,
   EndEvent, TellEnd

LEMMA MemberSteps ==
  ASSUME Next
  PROVE  \/ UNCHANGED memberVars \/ Activated \/ Handlers \/ Down \/ DropRemote \/ Reset
         \/ \E t \in Clients : Store(t) \/ Connect(t) \/ Initializes(t)
<1> USE DEF Only, outsideVars, ClientSame, ServiceSame, CallOnly, EventSame, MemberUnchanged,
        memberVars
<1>1. ASSUME NEW t \in Threads, Join(t) \/ Ask(t) \/ Lock(t)
      PROVE  UNCHANGED memberVars
  BY <1>1 DEF Join, Ask, Lock
<1>2. ASSUME NEW t \in Threads, First(t) \/ Subscribe(t) \/ Subscribing(t)
      PROVE  UNCHANGED memberVars
  BY <1>2 DEF First, Subscribe, Subscribing
<1>3. CASE Construct \/ Activate \/ Register \/ Greet \/ Check \/ Checked \/ Query
  BY <1>3 DEF Construct, Activate, Register, Greet, Check, Checked, Query
<1>4. CASE Querying \/ Attaching \/ Speaking \/ Cancelling
  BY <1>4 DEF Querying, Attaching, Speaking, Cancelling
<1>5. CASE Answered \/ Created \/ Attach \/ Speak \/ Note
  BY <1>5 DEF Answered, Created, Attach, Speak, Note
<1>6. CASE Cancel \/ Unregister \/ Destroy
  BY <1>6 DEF Cancel, Unregister, Destroy
<1>7. CASE WorkerStarts \/ TakeTask \/ InstallHandler \/ Poll \/ Polled \/ Decide \/ ToldUp
  BY <1>7 DEF WorkerStarts, TakeTask, InstallHandler, Poll, Polled, Decide, ToldUp, NotifyUp
<1>8. CASE TakeEvent \/ ToldDown \/ StateEvent \/ EndEvent \/ TellEnd
  BY <1>8 DEF TakeEvent, ToldDown, NotifyDown, StateEvent, EndEvent, TellEnd
<1>9. CASE Plugin
  BY <1>9, PluginApart
<1>10. ASSUME NEW op \in scene.calls, CallStarts(op)
       PROVE  UNCHANGED memberVars
  BY <1>10 DEF CallStarts
<1> HIDE DEF memberVars
<1>11. CASE AppSteps
  BY <1>11, <1>1, <1>2, <1>3, <1>4, <1>5, <1>6 DEF AppSteps, AppConnects, Threads, Clients
<1>12. CASE WorkerSteps
  BY <1>12, <1>1, <1>2, <1>7 DEF WorkerSteps, Worker, Threads, Clients
<1>13. CASE CallbackSteps
  BY <1>13, <1>1, <1>8 DEF CallbackSteps, CallbackThread, Threads
<1>14. QED
  BY <1>9, <1>10, <1>11, <1>12, <1>13 DEF Next

LEMMA AnswerSteps ==
  ASSUME Next
  PROVE  answer' = answer \/ Activate \/ Activated \/ Querying \/ Answered \/ \E t \in Clients : Ask(t) \/ Store(t)
<1> USE DEF Asking, askVars, ClientSame, ServiceSame, CallOnly, EventSame, MemberUnchanged
<1>1. ASSUME NEW t \in Threads, Join(t) \/ Lock(t) \/ First(t)
      PROVE  answer' = answer
  BY <1>1 DEF Join, Lock, First
<1>2. ASSUME NEW t \in Threads, Connect(t) \/ Subscribe(t) \/ Subscribing(t) \/ Initializes(t)
      PROVE  answer' = answer
  BY <1>2 DEF Connect, Subscribe, Subscribing, Initializes, Finish
<1>3. CASE Construct \/ Register \/ Greet \/ Check \/ Checked \/ Query
  BY <1>3 DEF Construct, Register, Greet, Check, Checked, Query
<1>4. CASE Attaching \/ Speaking \/ Cancelling
  BY <1>4 DEF Attaching, Speaking, Cancelling
<1>5. CASE Created \/ Handlers \/ Attach \/ Speak \/ Note
  BY <1>5 DEF Created, Handlers, Attach, Speak, Note
<1>6. CASE Cancel \/ Unregister \/ Destroy
  BY <1>6 DEF Cancel, Unregister, Destroy
<1>7. CASE WorkerStarts \/ TakeTask \/ InstallHandler \/ Poll \/ Polled \/ Decide \/ ToldUp
  BY <1>7 DEF WorkerStarts, TakeTask, InstallHandler, Poll, Polled, Decide, ToldUp, NotifyUp
<1>8. CASE TakeEvent \/ Down \/ DropRemote \/ Reset
  BY <1>8 DEF TakeEvent, Down, DropRemote, Reset
<1>15. CASE ToldDown \/ StateEvent \/ EndEvent \/ TellEnd
  BY <1>15 DEF ToldDown, NotifyDown, StateEvent, EndEvent, TellEnd
<1>9. CASE Plugin
  BY <1>9, PluginApart
<1>10. ASSUME NEW op \in scene.calls, CallStarts(op)
       PROVE  answer' = answer
  BY <1>10 DEF CallStarts
<1>11. CASE AppSteps
  BY <1>11, <1>1, <1>2, <1>3, <1>4, <1>5, <1>6 DEF AppSteps, AppConnects, Threads, Clients
<1>12. CASE WorkerSteps
  BY <1>12, <1>1, <1>2, <1>7 DEF WorkerSteps, Worker, Threads, Clients
<1>13. CASE CallbackSteps
  BY <1>13, <1>1, <1>8, <1>15 DEF CallbackSteps, CallbackThread, Threads
<1>14. QED
  BY <1>9, <1>10, <1>11, <1>12, <1>13 DEF Next

LEMMA Grows ==
  ASSUME Types, Next
  PROVE  /\ scene' = scene
         /\ glitches \in Nat /\ glitches' \in Nat /\ glitches <= glitches'
         /\ changes \in Nat /\ changes' \in Nat
         /\ changes' = changes \/ ((PluginGoes \/ PluginComes) /\ ClientSame)
         /\ PluginGoes \/ PluginComes => changes' = changes + 1 /\ changes < scene.changes
<1>0. glitches \in Nat /\ changes \in Nat /\ glitches' \in Nat /\ changes' \in Nat /\ scene.glitches \in Nat
  BY EventTypesStep, ServiceAssumption DEF Types, EventTypes
<1>1. scene' = scene
  BY StepKinds, SilentLeaves, LoudLeaves, SpeechLeaves, PluginLeaves DEF dataVars
<1>2. glitches <= glitches'
  <2>1. \/ glitches' = glitches \/ glitches' = glitches + 1
        \/ glitches' = scene.glitches /\ glitches < scene.glitches
    BY StepKinds, SilentLeaves, LoudLeaves, SpeechLeaves, PluginLeaves
       DEF dataVars, Ask, Activate, Querying, Subscribing, Attaching, SubscribesTo, Speaking, InstallHandler
  <2>2. QED
    BY <1>0, <2>1
<1>3. changes' = changes \/ ((PluginGoes \/ PluginComes) /\ ClientSame)
  BY StepKinds, SilentLeaves, LoudLeaves, SpeechLeaves, PluginLeaves DEF dataVars
<1>4. PluginGoes \/ PluginComes => changes' = changes + 1 /\ changes < scene.changes
  BY DEF PluginGoes, PluginComes
<1>5. QED
  BY <1>0, <1>1, <1>2, <1>3, <1>4

-----------------------------------------------------------------------------
(* What a lost answer would spoil.                                         *)

\* The app's thread and the worker's before they know of the plugin.
AppUnasked    == {"construct", "join", "lock", "ask", "store"}
WorkerUnasked == {"dead", "start", "take", "install", "poll", "ask", "store"}

\* While no answer was lost, each is one, and a thread that got one, or found
\* the client connected, does not have to ask again.
Answered0 ==
  glitches = 0 =>
    /\ \A t \in Clients : pc[t] = "store" => answer[t].ok
    /\ pc.app = "activated" => answer.app.ok
    /\ remote \/ pc.app \notin AppUnasked \/ pc.worker \notin WorkerUnasked => queried

\* The worker's thread ends when it has no task, and is started for a new one.
Work ==
  /\ pc.worker \in {"dead", "start"} <=> ~running
  /\ pc.worker = "dead" /\ tasks # <<>> => pc.app = "join" \/ pc.callback = "join"

LEMMA RunningSteps ==
  ASSUME Next
  PROVE  UNCHANGED workerVars \/ Construct \/ WorkerStarts \/ TakeTask \/ TakeEvent
<1> USE DEF Only, ClientSame, ServiceSame, CallOnly, EventSame, MemberUnchanged
<1>1. ASSUME NEW t \in Threads, Join(t) \/ Ask(t) \/ Store(t) \/ Lock(t)
      PROVE  UNCHANGED workerVars
  BY <1>1 DEF Join, Ask, Store, Lock
<1>2. ASSUME NEW t \in Threads, First(t) \/ Subscribe(t) \/ Subscribing(t) \/ Connect(t) \/ Initializes(t)
      PROVE  UNCHANGED workerVars
  BY <1>2 DEF First, Subscribe, Subscribing, Connect, Initializes, Finish
<1>3. CASE Activate \/ Activated \/ Register \/ Greet \/ Check \/ Checked \/ Query
  BY <1>3 DEF Activate, Activated, Register, Greet, Check, Checked, Query
<1>4. CASE Querying \/ Attaching \/ Speaking \/ Cancelling
  BY <1>4 DEF Querying, Attaching, Speaking, Cancelling
<1>5. CASE Answered \/ Created \/ Handlers \/ Attach \/ Speak \/ Note
  BY <1>5 DEF Answered, Created, Handlers, Attach, Speak, Note
<1>6. CASE Cancel \/ Unregister \/ Destroy
  BY <1>6 DEF Cancel, Unregister, Destroy
<1>7. CASE InstallHandler \/ Poll \/ Polled \/ Decide \/ ToldUp
  BY <1>7 DEF InstallHandler, Poll, Polled, Decide, ToldUp, NotifyUp
<1>8. CASE Down \/ DropRemote \/ Reset \/ ToldDown \/ StateEvent \/ EndEvent \/ TellEnd
  BY <1>8 DEF Down, DropRemote, Reset, ToldDown, NotifyDown, StateEvent, EndEvent, TellEnd
<1>9. CASE Plugin
  BY <1>9, PluginApart DEF workerVars
<1>10. ASSUME NEW op \in scene.calls, CallStarts(op)
       PROVE  UNCHANGED workerVars
  BY <1>10 DEF CallStarts
<1>11. CASE AppSteps
  BY <1>11, <1>1, <1>2, <1>3, <1>4, <1>5, <1>6 DEF AppSteps, AppConnects, Threads
<1>12. CASE WorkerSteps
  BY <1>12, <1>1, <1>2, <1>7 DEF WorkerSteps, Worker, Threads
<1>13. CASE CallbackSteps
  BY <1>13, <1>1, <1>8 DEF CallbackSteps, CallbackThread, Threads
<1>14. QED
  BY <1>9, <1>10, <1>11, <1>12, <1>13 DEF Next

\* The worker's thread, from one place to the next.
LEMMA WorkerWalks ==
  ASSUME PlaceTypes, WorkerSteps
  PROVE  /\ pc.worker # "dead" /\ pc'.worker # "start"
         /\ pc'.worker = "dead" => TakeTask
         /\ pc.worker = "start" => WorkerStarts
         /\ pc.worker = "take" => TakeTask
<1>1. /\ pc.worker # "dead"
      /\ pc.worker = "start" => WorkerStarts
      /\ pc.worker = "take" => TakeTask
  BY WorkerAt DEF WorkerSteps, Worker
<1>2. pc'.worker # "start" /\ (pc'.worker = "dead" => TakeTask)
  <2> USE DEF PlaceTypes, Threads, Goto, IsActive, WorkerReturns
  <2>1. CASE WorkerStarts \/ TakeTask \/ InstallHandler \/ Poll \/ Polled
    BY <2>1 DEF WorkerStarts, TakeTask, InstallHandler, Poll, Polled
  <2>2. CASE Decide \/ Ask("worker") \/ Lock("worker")
    BY <2>2 DEF Decide, Ask, Lock, After
  <2>3. CASE Store("worker")
    BY <2>3 DEF Store
  <2>4. CASE First("worker") \/ Connect("worker") \/ Subscribe("worker") \/ Subscribing("worker")
    BY <2>4, WorkerAt DEF First, Connect, Subscribe, Subscribing, SubscribesTo, Call
  <2>5. CASE Initializes("worker") \/ ToldUp
    BY <2>5 DEF Initializes, Finish, After, ToldUp, NotifyUp
  <2>6. QED
    BY <2>1, <2>2, <2>3, <2>4, <2>5 DEF WorkerSteps, Worker
<1>3. QED
  BY <1>1, <1>2

LEMMA WorkStep ==
  ASSUME Types, Work, Next
  PROVE  Work'
<1>0. PlaceTypes /\ running \in BOOLEAN
  BY DEF Types, FlagTypes
<1>1. CASE Construct
  BY <1>0, <1>1 DEF Construct, Post, Goto, PlaceTypes, Threads, Work
<1>2. CASE TakeEvent
  BY <1>0, <1>2 DEF TakeEvent, Post, Goto, PlaceTypes, Threads, Work, workerVars
<1>3. CASE WorkerSteps
  <2>1. CASE WorkerStarts
    BY <1>0, <2>1 DEF WorkerStarts, Goto, PlaceTypes, Threads, Work
  <2>2. CASE TakeTask
    BY <1>0, <2>2 DEF TakeTask, Goto, PlaceTypes, Threads, Work
  <2>3. CASE ~WorkerStarts /\ ~TakeTask /\ UNCHANGED workerVars
    BY <1>0, <1>3, <2>3, WorkerWalks DEF Work, workerVars
  <2>4. QED
    BY <1>3, <1>1, <1>2, <2>1, <2>2, <2>3, RunningSteps
<1>4. CASE AppSteps /\ UNCHANGED workerVars
  <2>1. /\ pc'.callback = pc.callback
        /\ pc'.worker = pc.worker \/ (pc.worker = "dead" /\ pc'.worker = "start")
    BY <1>0, <1>4, AppApart
  <2>2. pc.app = "join" => Join("app")
    BY <1>4, AppAt DEF AppSteps, AppConnects
  <2>3. Join("app") => pc'.worker = "start"
    BY <1>0 DEF Join, StartWorker, PlaceTypes, Threads
  <2>4. QED
    BY <1>4, <2>1, <2>2, <2>3 DEF Work, workerVars
<1>5. CASE CallbackSteps /\ UNCHANGED workerVars
  <2>1. /\ pc'.app = pc.app
        /\ pc'.worker = pc.worker \/ (pc.worker = "dead" /\ pc'.worker = "start")
    BY <1>0, <1>5, CallbackApart
  <2>2. pc.callback = "join" => Join("callback")
    BY <1>5, CallbackAt DEF CallbackSteps, CallbackThread
  <2>3. Join("callback") => pc'.worker = "start"
    BY <1>0 DEF Join, StartWorker, PlaceTypes, Threads
  <2>4. QED
    BY <1>5, <2>1, <2>2, <2>3 DEF Work, workerVars
<1>6. CASE Plugin
  BY <1>6, PluginApart DEF Work
<1>7. ASSUME NEW op \in scene.calls, CallStarts(op)
      PROVE  Work'
  <2>1. /\ pc.app = "ready" /\ pc'.worker = pc.worker /\ pc'.callback = pc.callback
        /\ UNCHANGED <<tasks, running>>
    BY <1>0, <1>7, CallApart DEF CallStarts, CallOnly, ServiceSame, workerVars
  <2>2. QED
    BY <2>1 DEF Work
<1>8. WorkerStarts \/ TakeTask => pc.worker \in {"start", "take"}
  BY WorkerAt
<1>9. CASE (AppSteps \/ CallbackSteps) /\ (WorkerStarts \/ TakeTask)
  <2>1. CASE WorkerStarts
    BY <1>0, <2>1 DEF WorkerStarts, Goto, PlaceTypes, Threads, Work
  <2>2. CASE TakeTask
    BY <1>0, <2>2 DEF TakeTask, Goto, PlaceTypes, Threads, Work
  <2>3. QED
    BY <1>9, <2>1, <2>2
<1>10. QED
  BY <1>1, <1>2, <1>3, <1>4, <1>5, <1>6, <1>7, <1>9, RunningSteps DEF Next

\* The app's thread likewise: only a question has an answer to store, and it is
\* asked before it is connected.
LEMMA AppWalks ==
  ASSUME PlaceTypes, AppSteps
  PROVE  /\ pc'.app = "store" => Ask("app")
         /\ pc'.app = "activated" => Activate
         /\ pc.app \in AppUnasked => pc'.app \in AppUnasked \/ Store("app") \/ Lock("app")
<1> USE DEF PlaceTypes, Threads, AppReturns, Goto, IsActive, Only, ClientSame, ServiceSame,
        CallOnly, Asking, askVars
<1>1. CASE Construct
  BY <1>1, AppAt DEF Construct, Post, AppUnasked
<1>2. CASE Join("app")
  <2>1. pc' = [pc EXCEPT !["app"] = "lock", !["worker"] = "start"]
    BY <1>2 DEF Join, StartWorker
  <2>2. QED
    BY <2>1 DEF AppUnasked
<1>3. CASE Ask("app")
  BY <1>3 DEF Ask, AppUnasked
<1>4. CASE Store("app")
  BY <1>4 DEF Store
<1>5. CASE Lock("app")
  BY <1>5 DEF Lock, After
<1>6. CASE First("app") \/ Activate \/ Activated \/ Connect("app")
  BY <1>6, AppAt DEF First, Activate, Activated, Connect, AppUnasked
<1>7. CASE Subscribe("app") \/ Subscribing("app")
  BY <1>7, AppAt DEF Subscribe, Subscribing, SubscribesTo, Call, AppUnasked
<1>8. CASE Initializes("app")
  BY <1>8, AppAt DEF Initializes, Finish, After, AppUnasked
<1>9. CASE Register \/ Greet \/ Check \/ Unregister
  BY <1>9, AppAt DEF Register, Greet, Check, Unregister, AppUnasked
<1>10. CASE Checked \/ Query \/ Querying
  BY <1>10, AppAt DEF Checked, Query, Querying, Call, Tests, Unanswered, Return, AppUnasked
<1>11. CASE Answered \/ Created \/ Destroy \/ Note
  BY <1>11, AppAt DEF Answered, Created, Destroy, Note, Unanswered, Return, AppUnasked
<1>12. CASE Handlers \/ Attach \/ Attaching \/ Speak
  BY <1>12, AppAt DEF Handlers, Attach, Attaching, SubscribesTo, Speak, Call, Tests, Return, AppUnasked
<1>13. CASE Speaking \/ Cancel \/ Cancelling
  BY <1>13, AppAt DEF Speaking, Cancel, Cancelling, Uncancelled, Return, AppUnasked
<1>14. QED
  BY <1>1, <1>2, <1>3, <1>4, <1>5, <1>6, <1>7, <1>8, <1>9, <1>10, <1>11, <1>12, <1>13
     DEF AppSteps, AppConnects

LEMMA WorkerAsks ==
  ASSUME PlaceTypes, WorkerSteps
  PROVE  /\ pc'.worker = "store" => Ask("worker")
         /\ pc.worker \in WorkerUnasked => pc'.worker \in WorkerUnasked \/ Store("worker")
<1> USE WorkerAt DEF PlaceTypes, Threads, WorkerReturns, Goto, IsActive, WorkerUnasked
<1>1. CASE WorkerStarts \/ TakeTask \/ InstallHandler \/ Poll \/ Polled
  BY <1>1 DEF WorkerStarts, TakeTask, InstallHandler, Poll, Polled
<1>2. CASE Decide \/ Ask("worker") \/ Lock("worker")
  BY <1>2 DEF Decide, Ask, Lock, After
<1>3. CASE Store("worker")
  BY <1>3 DEF Store
<1>4. CASE First("worker") \/ Connect("worker") \/ Subscribe("worker") \/ Subscribing("worker")
  BY <1>4 DEF First, Connect, Subscribe, Subscribing, SubscribesTo, Call
<1>5. CASE Initializes("worker") \/ ToldUp
  BY <1>5 DEF Initializes, Finish, After, ToldUp, NotifyUp
<1>6. QED
  BY <1>1, <1>2, <1>3, <1>4, <1>5 DEF WorkerSteps, Worker

\* The same for any step.
LEMMA Walks ==
  ASSUME PlaceTypes, Next
  PROVE  /\ pc'.app = "store" => Ask("app") \/ pc.app = "store"
         /\ pc'.app = "activated" => Activate \/ pc.app = "activated"
         /\ pc'.worker = "store" => Ask("worker") \/ pc.worker = "store"
         /\ pc.app \in AppUnasked => pc'.app \in AppUnasked \/ Store("app") \/ Lock("app")
         /\ pc.worker \in WorkerUnasked => pc'.worker \in WorkerUnasked \/ Store("worker")
<1>0. "start" \in WorkerUnasked /\ "ready" \notin AppUnasked
  BY DEF WorkerUnasked, AppUnasked
<1>1. CASE AppSteps
  BY <1>0, <1>1, AppWalks, AppApart
<1>2. CASE WorkerSteps
  BY <1>2, WorkerAsks, WorkerApart
<1>3. CASE CallbackSteps
  BY <1>0, <1>3, CallbackApart
<1>4. CASE Plugin
  BY <1>4, PluginApart
<1>5. ASSUME NEW op \in scene.calls, CallStarts(op)
      PROVE  /\ pc'.app = "store" => Ask("app") \/ pc.app = "store"
             /\ pc'.app = "activated" => Activate \/ pc.app = "activated"
             /\ pc'.worker = "store" => Ask("worker") \/ pc.worker = "store"
             /\ pc.app \in AppUnasked => pc'.app \in AppUnasked \/ Store("app") \/ Lock("app")
             /\ pc.worker \in WorkerUnasked => pc'.worker \in WorkerUnasked \/ Store("worker")
  BY <1>0, <1>5, CallApart
<1>6. QED
  BY <1>1, <1>2, <1>3, <1>4, <1>5 DEF Next

\* The answer to activate() is stored at once.
LEMMA ActivatedKept ==
  ASSUME Types, Next, pc'.app = "activated"
  PROVE  Activate \/ (pc.app = "activated" /\ answer'.app = answer.app)
<1>0. PlaceTypes /\ AskTypes
  BY DEF Types
<1>1. Activate \/ pc.app = "activated"
  BY <1>0, Walks
<1>2. CASE pc.app = "activated"
  <2>4. Activated => pc'.app = "ask"
    BY <1>0 DEF Activated, IsActive, PlaceTypes, Threads
  <2>1. ~Activate /\ ~Activated /\ ~Querying /\ ~Answered /\ ~Ask("app") /\ ~Store("app")
    BY <1>2, <2>4, AppAt
  <2>2. answer' = answer \/ Ask("worker") \/ Store("worker")
    BY <2>1, AnswerSteps DEF Clients
  <2>3. QED
    BY <1>0, <1>2, <2>2 DEF Ask, Store, AskTypes, Threads
<1>3. QED
  BY <1>1, <1>2

\* An answer stays until it is stored.
LEMMA AnswerKept ==
  ASSUME Types, Next, NEW t \in Clients, pc'[t] = "store"
  PROVE  Ask(t) \/ (pc[t] = "store" /\ answer'[t] = answer[t])
<1>0. PlaceTypes /\ AskTypes
  BY DEF Types
<1>1. Ask(t) \/ pc[t] = "store"
  BY <1>0, Walks DEF Clients
<1>2. ASSUME NEW u \in Clients, u # t, Ask(u) \/ Store(u)
      PROVE  answer'[t] = answer[t]
  <2>1. \E a \in Answers : answer' = [answer EXCEPT ![u] = a]
    <3>1. NoAnswer \in Answers /\ [ok |-> TRUE, up |-> plugin.active] \in Answers
      BY DEF Types, SpeechTypes, NoAnswer, Answers
    <3>2. QED
      BY <1>2, <3>1 DEF Ask, Store
  <2>2. QED
    BY <1>0, <1>2, <2>1 DEF AskTypes, Clients, Threads
<1>3. CASE Store(t)
  <2>1. pc' = [pc EXCEPT ![t] = ret[t]] /\ pc[t] = "store"
    BY <1>3 DEF Store
  <2>2. ret[t] # "store"
    BY <1>0, <2>1 DEF PlaceTypes, AppReturns, WorkerReturns, Clients
  <2>3. QED
    BY <1>0, <2>1, <2>2 DEF PlaceTypes, Clients, Threads
<1>4. CASE Activate \/ Activated \/ Querying \/ Answered
  <2>1. answer'.worker = answer.worker
    BY <1>0, <1>4 DEF Activate, Activated, Querying, Answered, AskTypes, Threads
  <2>2. pc'.app # "store"
    BY <1>0, <1>4 DEF Activate, Activated, IsActive, Querying, Answered, PlaceTypes, Threads, Call, Goto, Unanswered, Return
  <2>3. QED
    BY <1>1, <2>1, <2>2 DEF Clients
<1>5. QED
  BY <1>1, <1>2, <1>3, <1>4, AnswerSteps

LEMMA Answered0Step ==
  ASSUME Types, Answered0, Next
  PROVE  Answered0'
<1>0. PlaceTypes /\ AskTypes /\ Locks
  BY DEF Types
<1> SUFFICES ASSUME glitches' = 0 PROVE Answered0'
  BY DEF Answered0
<1>1. glitches = 0
  BY Grows
<1>2. ASSUME NEW t \in Clients, pc'[t] = "store"
      PROVE  answer'[t].ok
  <2>1. Ask(t) => answer'[t].ok
    BY <1>0, <1>1 DEF Ask, AskTypes, Clients, Threads
  <2>2. QED
    BY <1>1, <1>2, <2>1, AnswerKept DEF Answered0
<1>3. ASSUME remote' \/ pc'.app \notin AppUnasked \/ pc'.worker \notin WorkerUnasked
      PROVE  queried'
  <2>1. CASE \E t \in Clients : Store(t)
    <3>1. PICK t \in Clients : Store(t)
      BY <2>1
    <3>2. queried' = answer[t].ok /\ pc[t] = "store"
      BY <3>1 DEF Store
    <3>3. QED
      BY <1>1, <3>1, <3>2 DEF Answered0
  <2>2. CASE ~\E t \in Clients : Store(t)
    <3>1. queried' = queried
      BY <2>2, MemberSteps DEF memberVars, Activated, Handlers, Down, DropRemote, Reset, Connect,
         Initializes, Finish, ServiceSame
    <3>2. remote' => remote \/ \E t \in Clients : Connect(t)
      BY <2>2, MemberSteps DEF memberVars, Activated, Handlers, Down, DropRemote, Reset, Initializes,
                               Finish, ServiceSame
    <3>3. \A t \in Clients : Connect(t) => pc.app \notin AppUnasked \/ pc.worker \notin WorkerUnasked
      BY AppAt, WorkerAt DEF Clients, AppUnasked, WorkerUnasked
    <3>4. Lock("app") /\ pc'.app \notin AppUnasked => remote \/ queried
      BY <1>0 DEF Lock, Initialized, IsActive, Goto, PlaceTypes, Threads, AppUnasked
    <3>5. ~Store("app") /\ ~Store("worker")
      BY <2>2 DEF Clients
    <3>6. QED
      BY <1>0, <1>1, <1>3, <3>1, <3>2, <3>3, <3>4, <3>5, Walks DEF Answered0
  <2>3. QED
    BY <2>1, <2>2
<1>5. ASSUME pc'.app = "activated"
      PROVE  answer'.app.ok
  <2>1. Activate => answer'.app.ok
    BY <1>0, <1>1, <1>5 DEF Activate, IsActive, PlaceTypes, AskTypes, Threads
  <2>2. QED
    BY <1>1, <1>5, <2>1, ActivatedKept DEF Answered0
<1>4. QED
  BY <1>2, <1>3, <1>5 DEF Answered0

\* The plugin while it is not made to go or come.
LEMMA PluginLasts ==
  ASSUME Types, Next, ~PluginGoes, ~PluginComes
  PROVE  /\ plugin.active => plugin'.active
         /\ plugin'.active => plugin.active \/ (Activate /\ plugin' = ActivePlugin)
         /\ \/ plugin'.subscribed = plugin.subscribed
            \/ /\ plugin.active /\ remote /\ Attaching
               /\ plugin'.subscribed = plugin.subscribed \cup {"speech"}
            \/ /\ plugin.active /\ remote /\ (Subscribing("app") \/ Subscribing("worker"))
               /\ plugin'.subscribed = plugin.subscribed \cup {"state"}
<1>0. SpeechTypes
  BY DEF Types
<1>1. CASE Speaking
  <2>1. plugin' = plugin \/ plugin' = [plugin EXCEPT !.lastId = @ + 1, !.pending = Append(@, plugin.lastId + 1)]
    BY <1>1 DEF Speaking
  <2>2. QED
    BY <1>0, <2>1 DEF SpeechTypes
<1>2. CASE Activate /\ plugin' = ActivePlugin
  BY <1>0, <1>2, ActiveFacts
<1>3. CASE Attaching \/ Subscribing("app") \/ Subscribing("worker")
  <2>1. plugin' = plugin \/ remote
    BY <1>3 DEF Attaching, Subscribing, SubscribesTo, Call
  <2>2. /\ Attaching => plugin' = plugin \/ plugin' = Subscribed("speech")
        /\ Subscribing("app") \/ Subscribing("worker") => plugin' = plugin \/ plugin' = Subscribed("state")
    BY DEF Attaching, Subscribing, SubscribesTo, Call
  <2>3. QED
    BY <1>0, <1>3, <2>1, <2>2 DEF SpeechTypes, Subscribed
<1>4. CASE ~Speaking /\ ~(Activate /\ plugin' = ActivePlugin) /\ ~Attaching
             /\ ~Subscribing("app") /\ ~Subscribing("worker")
  BY <1>0, <1>4, PluginSteps DEF PluginMoves, SpeechTypes
<1>5. QED
  BY <1>1, <1>2, <1>3, <1>4

-----------------------------------------------------------------------------
(* A plugin that changes while the client is at rest.                      *)

\* Before the first change nothing is believed of a plugin that was never there.
Untouched ==
  changes = 0 =>
    /\ ~plugin.active => ~active /\ ~remote /\ plugin.subscribed = {}
    /\ \A t \in Clients : pc[t] = "store" /\ answer[t].up => plugin.active
    /\ pc.app = "activated" /\ answer.app.ok => plugin.active

AtCalls ==
  {"ready", "check", "checked", "query", "querying", "answered", "created", "events", "attach", "attaching",
   "speak", "speaking", "note", "cancel", "cancelling", "unregister", "destroy", "gone"}

\* After it the app has long been connected and asks no more.
Rested ==
  Patient /\ changes > 0 =>
    /\ pc.app \in AtCalls
    /\ scene.calls = {} => pc.app = "ready"

LEMMA UntouchedStep ==
  ASSUME Types, Untouched, Next
  PROVE  Untouched'
<1>0. PlaceTypes /\ AskTypes
  BY DEF Types
<1> SUFFICES ASSUME changes' = 0 PROVE Untouched'
  BY DEF Untouched
<1>1. changes = 0 /\ ~PluginGoes /\ ~PluginComes
  BY Grows
<1>2. ASSUME ~plugin'.active
      PROVE  ~active' /\ ~remote' /\ plugin'.subscribed = {}
  <2>1. ~plugin.active /\ plugin'.subscribed = plugin.subscribed
    BY <1>1, <1>2, PluginLasts
  <2>2. ~active /\ ~remote /\ plugin.subscribed = {}
    BY <1>1, <2>1 DEF Untouched
  <2>3. ~active'
    <3>1. CASE Activated
      BY <1>1, <2>1, <3>1, AppAt DEF Activated, Untouched
    <3>2. ASSUME NEW t \in Clients, Store(t)
          PROVE  ~active'
      BY <1>1, <2>1, <3>2 DEF Store, Untouched, AskTypes
    <3>3. QED
      BY <2>2, <3>1, <3>2, MemberSteps DEF memberVars, Handlers, Down, DropRemote, Reset, Connect,
         Initializes, Finish, ServiceSame
  <2>4. ~remote'
    BY <2>2, MemberSteps DEF memberVars, Activated, Handlers, Down, DropRemote, Reset, Connect,
       Initializes, Finish, Store, ServiceSame
  <2>5. QED
    BY <2>1, <2>2, <2>3, <2>4
<1>3. ASSUME NEW t \in Clients, pc'[t] = "store", answer'[t].up
      PROVE  plugin'.active
  <2>1. plugin.active => plugin'.active
    BY <1>1, PluginLasts
  <2>2. CASE Ask(t)
    <3>1. answer'[t].up => plugin.active
      BY <1>0, <2>2 DEF Ask, AskTypes, NoAnswer, Clients, Threads
    <3>2. QED
      BY <1>3, <2>1, <3>1
  <2>3. CASE pc[t] = "store" /\ answer'[t] = answer[t]
    BY <1>1, <1>3, <2>1, <2>3 DEF Untouched
  <2>4. QED
    BY <1>3, <2>2, <2>3, AnswerKept
<1>5. ASSUME pc'.app = "activated", answer'.app.ok
      PROVE  plugin'.active
  <2>1. plugin.active => plugin'.active
    BY <1>1, PluginLasts
  <2>2. CASE Activate
    <3>1. Activates
      BY <1>0, <1>5, <2>2 DEF Activate, IsActive, NoAnswer, PlaceTypes, AskTypes, Threads
    <3>2. QED
      BY <3>1, ActiveFacts DEF Activates, Types
  <2>3. CASE pc.app = "activated" /\ answer'.app = answer.app
    BY <1>1, <1>5, <2>1, <2>3 DEF Untouched
  <2>4. QED
    BY <1>5, <2>2, <2>3, ActivatedKept
<1>4. QED
  BY <1>2, <1>3, <1>5 DEF Untouched

NoWork  == pc.worker = "dead" /\ tasks = <<>>
NoChange == \A e \in Elements(inbox) : e.kind \in {"state", "end"}
Up      == plugin.active /\ NoChange

\* The phases of a change: it is told, handled, and done.
Going  == ~plugin.active /\ NoWork /\ inbox = <<Event("deactivated")>> /\ pc.callback = "idle"

Dropping ==
  /\ ~plugin.active /\ NoWork /\ inbox = <<>>
  /\ \/ pc.callback = "down"
     \/ pc.callback = "drop" /\ ~active
     \/ pc.callback = "reset" /\ ~active /\ ~remote
     \/ pc.callback = "notify" /\ ~active /\ ~remote /\ ~handlers

Gone ==
  /\ ~plugin.active /\ NoWork /\ inbox = <<>> /\ pc.callback = "idle"
  /\ ~active /\ ~remote /\ ~handlers /\ (registered => told = "closed")

Coming ==
  /\ plugin.active /\ NoWork /\ inbox = <<Event("activated")>> /\ pc.callback = "idle"
  /\ ~active /\ ~remote

Quiet == pc.callback \in {"idle", "deliver", "tell"}

Starting ==
  /\ Up /\ tasks = <<"activate">> /\ ~active /\ ~remote
  /\ \/ pc.callback = "join" /\ pc.worker = "dead"
     \/ Quiet /\ pc.worker \in {"start", "take"}

\* So many of onActivation's questions were asked in vain.
Vain(n) == polls >= 1 /\ glitches + polls >= Polls + n

Up0 == [ok |-> TRUE, up |-> TRUE]

\* The subscription to the plugin's state was asked for.
Sought == "state" \in plugin.subscribed \cup lost

Working ==
  /\ Up /\ Quiet /\ tasks = <<>>
  /\ \/ pc.worker = "poll" /\ Vain(0) /\ ~active /\ ~remote
     \/ pc.worker = "ask" /\ ret.worker = "polled" /\ Vain(0) /\ ~active /\ ~remote
     \/ /\ pc.worker = "store" /\ ret.worker = "polled" /\ polls >= 1 /\ ~remote
        /\ answer.worker = Up0 \/ (answer.worker = NoAnswer /\ Vain(1))
     \/ pc.worker = "polled" /\ active /\ queried /\ ~remote
     \/ pc.worker = "polled" /\ Vain(1) /\ ~active /\ ~queried /\ ~remote
     \/ pc.worker = "ask" /\ ret.worker = "decide" /\ glitches >= Polls /\ ~remote
     \/ pc.worker = "store" /\ ret.worker = "decide" /\ answer.worker = Up0 /\ ~remote
     \/ pc.worker \in {"decide", "lock", "first", "connect"} /\ active /\ queried /\ ~remote
     \/ pc.worker \in {"subscribe", "subscribing"} /\ active /\ queried /\ remote
     \/ pc.worker = "finish" /\ active /\ remote /\ Sought
     \/ pc.worker = "notify" /\ active /\ Initialized /\ Sought

Back ==
  /\ Up /\ Quiet /\ tasks = <<>> /\ pc.worker \in {"take", "dead"}
  /\ active /\ Initialized /\ Sought
  /\ registered => told = "connected"

Phase ==
  /\ ~plugin.active \/ Coming => plugin.subscribed = {}
  /\ Going \/ Dropping \/ Gone \/ Coming \/ Starting \/ Working \/ Back

Phases == Patient /\ changes > 0 => Phase

Reconnects == Answered0 /\ Work /\ Untouched /\ Rested /\ Phases

\* The steps of the app's calls, when none has to ask whether the plugin is active.
LEMMA CallSteps ==
  ASSUME PlaceTypes, AskTypes, queried, AppSteps, pc.app \in AtCalls
  PROVE  /\ pc'.app \in AtCalls
         /\ UNCHANGED <<active, queried, remote, initialized, tasks, changes, told, polls>>
         /\ pc'.worker = pc.worker /\ ret'.worker = ret.worker /\ answer'.worker = answer.worker
         /\ pc'.callback = pc.callback
         /\ registered' => registered
         /\ handlers' => handlers \/ (active /\ remote)
         /\ UNCHANGED <<plugin, inbox>> \/ Attaching \/ Speaking \/ Cancelling
<1> DEFINE Kept == /\ UNCHANGED <<active, queried, remote, initialized, tasks, changes, told, polls>>
                   /\ answer'.worker = answer.worker /\ (registered' => registered)
                   /\ handlers' => handlers \/ (active /\ remote)
                   /\ UNCHANGED <<plugin, inbox>> \/ Attaching \/ Speaking \/ Cancelling
           Stays == /\ pc'.app \in AtCalls /\ pc'.worker = pc.worker /\ pc'.callback = pc.callback
                    /\ ret'.worker = ret.worker
<1>1. \/ Check \/ Checked \/ Query \/ Querying \/ Answered \/ Created \/ Handlers \/ Attach \/ Attaching
      \/ Speak \/ Speaking \/ Note \/ Cancel \/ Cancelling \/ Unregister \/ Destroy
  BY AppAt DEF AppSteps, AppConnects, AtCalls
<1>2. Stays
  <2> USE AppAt DEF PlaceTypes, Threads, Goto, IsActive, ClientSame, CallOnly, ServiceSame, Asking,
          AtCalls
  <2>1. CASE Check \/ Unregister
    BY <2>1 DEF Check, Unregister
  <2>2. CASE Checked
    BY <2>2 DEF Checked, Return
  <2>3. CASE Query \/ Querying
    BY <2>3 DEF Query, Querying, Call, Tests, Unanswered, Return
  <2>4. CASE Answered \/ Created \/ Destroy \/ Note
    BY <2>4 DEF Answered, Created, Destroy, Note, Unanswered, Return
  <2>5. CASE Handlers \/ Attach \/ Attaching \/ Speak
    BY <2>5 DEF Handlers, Attach, Attaching, SubscribesTo, Speak, Call, Tests, Return
  <2>6. CASE Speaking \/ Cancel \/ Cancelling
    BY <2>6 DEF Speaking, Cancel, Cancelling, Uncancelled, Return
  <2>7. QED
    BY ONLY <1>1, <2>1, <2>2, <2>3, <2>4, <2>5, <2>6
<1>3. Kept
  <2> USE DEF ClientSame, CallOnly, ServiceSame, Asking, workerVars, historyVars, clientVars
  <2>1. CASE Check
    BY <2>1 DEF Check
  <2>13. CASE Checked
    BY <2>13 DEF Checked
  <2>14. CASE Query
    BY <2>14 DEF Query
  <2>2. CASE Querying
    BY <2>2 DEF Querying, Call, AskTypes, Threads
  <2>3. CASE Answered
    BY <2>3 DEF Answered, AskTypes, Threads
  <2>4. CASE Created
    BY <2>4 DEF Created
  <2>15. CASE Destroy
    BY <2>15 DEF Destroy
  <2>16. CASE Note
    BY <2>16 DEF Note
  <2>5. CASE Handlers
    BY <2>5 DEF Handlers
  <2>6. CASE Attach
    BY <2>6 DEF Attach
  <2>17. CASE Speak
    BY <2>17 DEF Speak
  <2>18. CASE Cancel
    BY <2>18 DEF Cancel
  <2>7. CASE Unregister
    BY <2>7 DEF Unregister
  <2>8. CASE Attaching
    BY <2>8 DEF Attaching
  <2>9. CASE Speaking
    BY <2>9 DEF Speaking
  <2>10. CASE Cancelling
    BY <2>10 DEF Cancelling
  <2>12. QED
    BY ONLY <1>1, <2>1, <2>2, <2>3, <2>4, <2>5, <2>6, <2>7, <2>8, <2>9, <2>10, <2>13, <2>14, <2>15,
       <2>16,
            <2>17, <2>18
<1>4. QED
  BY ONLY <1>2, <1>3

\* The plugin's word of an end or of a state is all that is added to the events.
Tells ==
  \/ inbox' = inbox
  \/ /\ plugin.subscribed # {}
     /\ \A e \in Elements(inbox') : e \in Elements(inbox) \/ e.kind \in {"state", "end"}

LEMMA OverTells ==
  ASSUME Types, NEW id \in Nat, Over(id)
  PROVE  Tells
<1>1. SpeechTypes /\ inbox \in Seq(Events)
  BY DEF Types, EventTypes
<1> DEFINE end == [Event("end") EXCEPT !.id = id]
<1>2. end.kind = "end"
  BY DEF Event, NoEvent
<1>3. /\ "speech" \in plugin.subscribed => Elements(inbox') = Elements(inbox) \cup {end}
      /\ "speech" \notin plugin.subscribed => inbox' = inbox
  BY <1>1, OverFacts
<1> HIDE DEF end
<1>4. QED
  BY <1>2, <1>3 DEF Tells

LEMMA EndsTell ==
  ASSUME Types, Cancelling \/ SpeechEnds
  PROVE  Tells
<1>1. SpeechTypes /\ plugin.pending \in Seq(1..made) /\ made \in Nat /\ call.got \in Nat
  BY DEF Types, SpeechTypes, CallTypes
<1>2. plugin.pending # <<>> => Head(plugin.pending) \in Nat
  BY <1>1, HeadTailProperties
<1>3. inbox' = inbox \/ \E id \in Nat : Over(id)
  BY <1>1, <1>2 DEF Cancelling, SpeechEnds
<1>4. QED
  BY <1>3, OverTells DEF Tells

LEMMA TogglesTell ==
  ASSUME Types, Toggles
  PROVE  Tells
<1> DEFINE e == [Event("state") EXCEPT !.on = ~plugin.enabled]
<1>1. inbox \in Seq(Events) /\ plugin.enabled \in BOOLEAN
  BY DEF Types, EventTypes, SpeechTypes
<1>2. e \in Events /\ e.kind = "state"
  <2>1. e \in Events
    BY <1>1, EventKinds
  <2>2. QED
    BY <2>1 DEF Event, NoEvent
<1>3. Arrives(IF "state" \in plugin.subscribed THEN <<e>> ELSE <<>>)
  BY DEF Toggles
<1> HIDE DEF e
<1>4. CASE "state" \in plugin.subscribed
  BY <1>1, <1>2, <1>3, <1>4, Added DEF Tells
<1>5. CASE "state" \notin plugin.subscribed
  BY <1>1, <1>2, <1>3, <1>5, Added DEF Tells
<1>6. QED
  BY <1>4, <1>5

\* A step that has no say in whether the client is connected.
Aside ==
  /\ UNCHANGED <<active, queried, remote, initialized, tasks, glitches, changes, told, polls>>
  /\ pc'.worker = pc.worker /\ ret'.worker = ret.worker /\ answer'.worker = answer.worker
  /\ pc'.callback = pc.callback \/ (Up /\ Quiet /\ Quiet')
  /\ registered' => registered
  /\ handlers' => handlers \/ (active /\ remote)
  /\ plugin'.active = plugin.active
  /\ plugin'.subscribed = plugin.subscribed
       \/ (plugin.active /\ remote /\ plugin.subscribed \subseteq plugin'.subscribed)
  /\ "state" \in lost => "state" \in lost'
  /\ Tells \/ (Up /\ Elements(inbox') \subseteq Elements(inbox))

\* What holds while the plugin changes only at rest.
Resting == Types /\ Answered0 /\ Work /\ Untouched /\ Rested /\ Patient /\ changes > 0

LEMMA CallsAside ==
  ASSUME Resting, Next, Patient', AppSteps
  PROVE  Aside /\ Rested'
<1>1. pc.app \in AtCalls /\ (scene.calls = {} => pc.app = "ready") /\ PlaceTypes /\ AskTypes /\ Types
  BY DEF Resting, Rested, Types
<1>2. scene.calls # {} /\ scene' = scene
  <2>1. pc.app # "ready"
    BY AppAt DEF AppSteps, AppConnects
  <2>2. QED
    BY <1>1, <2>1, Grows
<1>3. glitches' = 0 /\ glitches = 0
  BY <1>1, <1>2, Grows DEF Patient
<1>4. queried
  BY <1>1, <1>3 DEF Resting, Answered0, AtCalls, AppUnasked
<1>5. /\ pc'.app \in AtCalls
      /\ UNCHANGED <<active, queried, remote, initialized, tasks, changes, told, polls>>
      /\ pc'.worker = pc.worker /\ ret'.worker = ret.worker /\ answer'.worker = answer.worker
      /\ pc'.callback = pc.callback
      /\ registered' => registered
      /\ handlers' => handlers \/ (active /\ remote)
      /\ UNCHANGED <<plugin, inbox>> \/ Attaching \/ Speaking \/ Cancelling
  BY <1>1, <1>4, CallSteps
<1>6. ~PluginGoes /\ ~PluginComes
  BY <1>1, <1>5, Grows
<1>7. /\ plugin'.active = plugin.active
      /\ plugin'.subscribed = plugin.subscribed
           \/ (plugin.active /\ remote /\ plugin.subscribed \subseteq plugin'.subscribed)
  <2>1. ~Activate
    BY <1>1, AppAt DEF AtCalls
  <2>2. plugin.active \in BOOLEAN /\ plugin'.active \in BOOLEAN
    BY <1>1, PluginTypeStep DEF Types, SpeechTypes, PluginType
  <2>3. QED
    BY <1>1, <1>6, <2>1, <2>2, PluginLasts
<1>8. Tells
  <2>1. Attaching \/ Speaking => inbox' = inbox
    BY LoudLeaves, SpeechLeaves
  <2>2. QED
    BY <1>1, <1>5, <2>1, EndsTell DEF Tells
<1>9. Rested'
  BY <1>2, <1>5 DEF Rested
<1>11. "state" \in lost => "state" \in lost'
  <2>1. ~Subscribing("app")
    BY <1>1, AppAt DEF AtCalls
  <2>2. QED
    BY <2>1, LostSteps
<1>10. QED
  BY <1>3, <1>5, <1>7, <1>8, <1>9, <1>11 DEF Aside

LEMMA CallAside ==
  ASSUME Resting, Next, NEW op \in scene.calls, CallStarts(op)
  PROVE  Aside /\ Rested'
<1>1. PlaceTypes /\ Types
  BY DEF Resting, Types
<1>2. /\ UNCHANGED <<active, queried, remote, initialized, tasks, glitches, changes, told, polls>>
      /\ UNCHANGED <<ret, answer, registered, handlers, plugin, inbox>>
  BY DEF CallStarts, CallOnly, ServiceSame, Asking, workerVars, clientVars, historyVars
<1>3. pc'.worker = pc.worker /\ pc'.callback = pc.callback /\ pc'.app \in AtCalls
  BY <1>1, CallApart DEF AtCalls
<1>4. scene' = scene /\ scene.calls # {}
  BY <1>1, Grows
<1>5. Rested'
  BY <1>3, <1>4 DEF Rested
<1>6. QED
  BY <1>2, <1>3, <1>5, LostSteps DEF Aside, Tells

LEMMA PluginAside ==
  ASSUME Resting, Next, SpeechEnds \/ Toggles
  PROVE  Aside /\ Rested'
<1>1. Types /\ Rested /\ Patient /\ changes > 0
  BY DEF Resting
<1>2. UNCHANGED <<pc, ret, answer, polls, memberVars, tasks, scene, glitches, changes, told, registered>>
  <2>1. UNCHANGED <<pc, ret, answer, polls, memberVars, tasks, call>>
    BY PluginApart DEF Plugin
  <2>2. UNCHANGED <<scene, glitches, changes>>
    BY SpeechLeaves, PluginLeaves
  <2>3. UNCHANGED <<told, registered>>
    BY DEF SpeechEnds, Toggles, clientVars, historyVars
  <2>4. QED
    BY <2>1, <2>2, <2>3
<1>3. /\ plugin'.active = plugin.active
      /\ plugin'.subscribed = plugin.subscribed
           \/ (plugin.active /\ remote /\ plugin.subscribed \subseteq plugin'.subscribed)
  <2>1. SpeechEnds => plugin' = [plugin EXCEPT !.pending = Without(@, {Head(plugin.pending)})]
    BY DEF SpeechEnds, Over
  <2>2. Toggles => plugin' = [plugin EXCEPT !.enabled = ~@]
    BY DEF Toggles
  <2>3. QED
    BY <1>1, <2>1, <2>2 DEF Types, SpeechTypes
<1>4. Tells
  BY <1>1, EndsTell, TogglesTell
<1>5. Rested'
  BY <1>1, <1>2 DEF Rested, Patient
<1>6. QED
  BY <1>2, <1>3, <1>4, <1>5, LostSteps DEF Aside, memberVars

\* An activation is not among the states and ends.
LEMMA ChangeShows ==
  ASSUME NEW q, \A e \in Elements(q) : e.kind \in {"state", "end"}
  PROVE  q # <<Event("activated")>>
<1>1. Elements(<<Event("activated")>>) = {Event("activated")}
  BY OneElement
<1>2. Event("activated").kind = "activated"
  BY DEF Event, NoEvent
<1>3. QED
  BY <1>1, <1>2

LEMMA AsideKeeps ==
  ASSUME Resting, Phase, Aside
  PROVE  Phase'
<1>0. Coming => ~Up
  BY ChangeShows DEF Coming, Up, NoChange
<1> USE <1>0 DEF Aside
<1>1. CASE Going
  <2>1. inbox' = inbox /\ plugin'.subscribed = {} /\ pc'.callback = pc.callback
    BY <1>1 DEF Phase, Going, Tells, Up
  <2>2. QED
    BY <1>1, <2>1 DEF Phase, Going, NoWork
<1>2. CASE Dropping
  <2>1. inbox' = inbox /\ plugin'.subscribed = {} /\ pc'.callback = pc.callback
    BY <1>2 DEF Phase, Dropping, Tells, Up
  <2>2. Dropping'
    BY <1>2, <2>1 DEF Dropping, NoWork
  <2>3. ~Coming'
    BY <1>2 DEF Dropping, Coming
  <2>4. QED
    BY <2>1, <2>2, <2>3 DEF Phase
<1>3. CASE Gone
  <2>1. inbox' = inbox /\ plugin'.subscribed = {} /\ pc'.callback = pc.callback
    BY <1>3 DEF Phase, Gone, Tells, Up
  <2>2. QED
    BY <1>3, <2>1 DEF Phase, Gone, NoWork
<1>4. CASE Coming
  <2>1. inbox' = inbox /\ plugin'.subscribed = {} /\ pc'.callback = pc.callback
    BY <1>4 DEF Phase, Coming, Tells
  <2>2. QED
    BY <1>4, <2>1 DEF Phase, Coming, NoWork
<1>5. CASE Up
  <2>1. Up'
    BY <1>5 DEF Up, NoChange, Tells
  <2>2. ~(Coming')
    BY <2>1, ChangeShows DEF Up, NoChange, Coming
  <2>3. Starting => Starting'
    BY <2>1 DEF Starting, Quiet
  <2>8. Sought => Sought'
    BY DEF Sought
  <2>4. Working => Working'
    BY <2>1, <2>8 DEF Working, Quiet, Vain, Initialized
  <2>5. Back => Back'
    BY <2>1, <2>8 DEF Back, Quiet, Initialized
  <2>6. Starting \/ Working \/ Back
    BY <1>5 DEF Phase, Going, Dropping, Gone, Up
  <2>7. QED
    BY <2>1, <2>2, <2>3, <2>4, <2>5, <2>6 DEF Phase, Up
<1>6. QED
  BY <1>1, <1>2, <1>3, <1>4, <1>5 DEF Phase, Starting, Working, Back

LEMMA EventsAside ==
  ASSUME Resting, Next, CallbackSteps, Up, Quiet
  PROVE  Aside
<1>1. PlaceTypes /\ inbox \in Seq(Events)
  BY DEF Resting, Types, EventTypes
<1>2. TakeEvent \/ StateEvent \/ EndEvent \/ TellEnd
  BY CallbackAt DEF CallbackSteps, CallbackThread, Quiet
<1>3. CASE TakeEvent
  <2>1. inbox # <<>> /\ inbox' = Tail(inbox)
    BY <1>3 DEF TakeEvent
  <2>2. Head(inbox) \in Elements(inbox) /\ Elements(inbox') \subseteq Elements(inbox)
    BY <1>1, <2>1, HeadElement
  <2>3. Head(inbox).kind \in {"state", "end"}
    BY <2>2 DEF Up, NoChange
  <2>4. /\ Goto("callback", IF Initialized THEN "deliver" ELSE "idle")
        /\ UNCHANGED workerVars
        /\ UNCHANGED <<scene, plugin, listening, memberVars, mutex, askVars, boundVars, fault>>
    BY <1>3, <2>3 DEF TakeEvent
  <2>5. UNCHANGED <<registered, told>>
    BY <1>3, <1>2, <2>2, CallbackAt DEF CallbackSteps, CallbackThread, ClientSame, clientVars,
       historyVars, ToldDown, NotifyDown, StateEvent, EndEvent, TellEnd
  <2>6. pc'.worker = pc.worker /\ pc'.callback \in {"deliver", "idle"}
    BY <1>1, <2>4 DEF Goto, PlaceTypes, Threads
  <2>7. QED
    BY <2>2, <2>4, <2>5, <2>6 DEF Aside, Quiet, workerVars, memberVars, askVars, boundVars
<1>4. CASE StateEvent \/ EndEvent \/ TellEnd
  <2>1. /\ EventSame /\ UNCHANGED <<registered, told>>
    BY <1>4 DEF StateEvent, EndEvent, TellEnd, ClientSame, clientVars, historyVars
  <2>2. pc'.worker = pc.worker /\ pc'.callback \in {"deliver", "idle", "tell"}
    <3>1. CASE StateEvent
      BY <1>1, <3>1 DEF StateEvent, Goto, PlaceTypes, Threads
    <3>2. CASE EndEvent
      BY <1>1, <3>2 DEF EndEvent, Goto, PlaceTypes, Threads
    <3>3. CASE TellEnd
      BY <1>1, <3>3 DEF TellEnd, Goto, PlaceTypes, Threads
    <3>4. QED
      BY <1>4, <3>1, <3>2, <3>3
  <2>3. QED
    BY <2>1, <2>2 DEF Aside, Tells, Quiet, EventSame, workerVars, memberVars, boundVars
<1>5. QED
  BY <1>2, <1>3, <1>4

\* The callback thread tells of a plugin that went, and starts the worker for one that came.
LEMMA CallbackMovesOn ==
  ASSUME Resting, Next, Phase, CallbackSteps, ~(Up /\ Quiet)
  PROVE  Phase'
<1>1. PlaceTypes /\ inbox \in Seq(Events) /\ running \in BOOLEAN /\ Work
  BY DEF Resting, Types, EventTypes, FlagTypes
<1> USE DEF PlaceTypes, Threads, Goto
<1>2. Event("deactivated").kind = "deactivated" /\ Event("activated").kind = "activated"
  BY DEF Event, NoEvent
<1>3. /\ Event("deactivated") \in Events /\ Event("activated") \in Events
  BY EventKinds
<1>4. CASE Going
  <2>1. TakeEvent
    BY <1>4, CallbackAt DEF CallbackSteps, CallbackThread, Going
  <2>2. Head(inbox) = Event("deactivated") /\ Tail(inbox) = <<>>
    BY <1>3, <1>4, OneElement DEF Going
  <2>3. /\ inbox' = <<>> /\ pc' = [pc EXCEPT !["callback"] = "down"] /\ UNCHANGED <<workerVars, plugin>>
    BY <1>2, <2>1, <2>2 DEF TakeEvent
  <2>4. QED
    BY <1>1, <1>4, <2>3 DEF Phase, Going, Dropping, Coming, NoWork, workerVars
<1>5. CASE Dropping
  <2>1. Down \/ DropRemote \/ Reset \/ ToldDown
    BY <1>5, CallbackAt DEF CallbackSteps, CallbackThread, Dropping
  <2>2. UNCHANGED <<plugin, inbox, tasks>> /\ pc'.worker = pc.worker
    BY <1>1, <2>1 DEF Down, DropRemote, Reset, ToldDown, NotifyDown, outsideVars, workerVars, Only
  <2>3. ~plugin.active /\ plugin.subscribed = {} /\ NoWork /\ inbox = <<>>
    BY <1>5 DEF Phase, Dropping
  <2>4. CASE Down
    BY <1>1, <1>5, <2>2, <2>3, <2>4 DEF Down, Phase, Dropping, Coming, NoWork
  <2>5. CASE DropRemote
    <3>1. ~active
      BY <1>5, <2>5, CallbackAt DEF Dropping
    <3>2. QED
      BY <1>1, <2>2, <2>3, <2>5, <3>1 DEF DropRemote, Phase, Dropping, Coming, NoWork
  <2>6. CASE Reset
    <3>1. ~active /\ ~remote
      BY <1>5, <2>6, CallbackAt DEF Dropping
    <3>2. QED
      BY <1>1, <2>2, <2>3, <2>6, <3>1 DEF Reset, Phase, Dropping, Coming, NoWork
  <2>7. CASE ToldDown
    <3>1. ~active /\ ~remote /\ ~handlers
      BY <1>5, <2>7, CallbackAt DEF Dropping
    <3>2. /\ pc'.callback = "idle" /\ UNCHANGED <<memberVars, registered>>
          /\ registered => told' = "closed"
      BY <1>1, <2>7 DEF ToldDown, NotifyDown, Only
    <3>3. QED
      BY <2>2, <2>3, <3>1, <3>2 DEF Phase, Gone, Coming, NoWork, memberVars
  <2>8. QED
    BY <2>1, <2>4, <2>5, <2>6, <2>7
<1>6. CASE Gone
  BY <1>6, CallbackAt DEF CallbackSteps, CallbackThread, Gone, TakeEvent
<1>7. CASE Coming
  <2>1. TakeEvent
    BY <1>7, CallbackAt DEF CallbackSteps, CallbackThread, Coming
  <2>2. Head(inbox) = Event("activated") /\ Tail(inbox) = <<>>
    BY <1>3, <1>7, OneElement DEF Coming
  <2>3. ~running
    BY <1>1, <1>7 DEF Work, Coming, NoWork
  <2>4. /\ inbox' = <<>> /\ pc' = [pc EXCEPT !["callback"] = "join"] /\ tasks' = Append(<<>>, "activate")
        /\ UNCHANGED <<plugin, memberVars>>
    BY <1>2, <1>7, <2>1, <2>2, <2>3 DEF TakeEvent, Post, Coming, NoWork
  <2>5. tasks' = <<"activate">> /\ NoChange'
    BY <2>4, NoElement DEF NoChange
  <2>6. Starting'
    BY <1>1, <1>7, <2>4, <2>5 DEF Coming, NoWork, Starting, Up, memberVars
  <2>7. QED
    BY <1>7, <2>4, <2>6 DEF Phase, Coming, Starting, Up
<1>8. CASE Starting /\ ~Quiet
  <2>1. Join("callback") /\ ClientSame
    BY <1>8, CallbackAt DEF CallbackSteps, CallbackThread, Starting
  <2>2. /\ pc' = [pc EXCEPT !["callback"] = "idle", !["worker"] = "start"]
        /\ UNCHANGED <<outsideVars, memberVars, workerVars>>
    BY <2>1 DEF Join, StartWorker, Only
  <2>3. Up' /\ Starting'
    BY <1>1, <1>8, <2>2 DEF Starting, Up, NoChange, Quiet, memberVars, workerVars, outsideVars
  <2>4. QED
    BY <2>3, ChangeShows DEF Phase, Up, NoChange, Coming
<1>9. QED
  BY <1>4, <1>5, <1>6, <1>7, <1>8 DEF Phase, Starting, Working, Back

LEMMA WorkerLeaves ==
  ASSUME WorkerSteps
  PROVE  /\ UNCHANGED <<scene, inbox, handlers, changes, registered>>
         /\ plugin' = plugin \/ (Subscribing("worker") /\ plugin' = Subscribed("state"))
         /\ lost' = lost \/ Subscribing("worker")
         /\ told' = told \/ ToldUp
<1> USE DEF Only, outsideVars, otherVars, boundVars, memberVars, ClientSame, clientVars, historyVars
<1>1. CASE (WorkerStarts \/ TakeTask \/ InstallHandler) /\ ClientSame
  BY <1>1 DEF WorkerStarts, TakeTask, InstallHandler
<1>2. CASE (Poll \/ Polled \/ Decide) /\ ClientSame
  BY <1>2 DEF Poll, Polled, Decide
<1>3. CASE (Ask("worker") \/ Store("worker") \/ Lock("worker") \/ First("worker")) /\ ClientSame
  BY <1>3 DEF Ask, Store, Lock, First
<1>4. CASE (Connect("worker") \/ Subscribe("worker")) /\ ClientSame
  BY <1>4 DEF Connect, Subscribe
<1>5. CASE Subscribing("worker") /\ ClientSame
  BY <1>5 DEF Subscribing, SubscribesTo, Call
<1>6. CASE Initializes("worker")
  BY <1>6 DEF Initializes, Finish
<1>7. CASE ToldUp
  BY <1>7 DEF ToldUp, NotifyUp
<1>8. QED
  BY <1>1, <1>2, <1>3, <1>4, <1>5, <1>6, <1>7 DEF WorkerSteps, Worker

\* The worker connects, initializes and tells the app, however many answers were lost.
LEMMA WorkerMovesOn ==
  ASSUME Resting, Next, Phase, WorkerSteps, Patient'
  PROVE  Phase'
<1>1. PlaceTypes /\ Polls \in Nat \ {0} /\ polls \in Nat /\ glitches \in Nat /\ SpeechTypes /\ AskTypes
  BY ServiceAssumption DEF Resting, Types, AskTypes, EventTypes
<1>2. pc.worker # "dead"
  BY <1>1, WorkerWalks
<1>3. Starting \/ Working \/ Back
  BY <1>2 DEF Phase, Going, Dropping, Gone, Coming, NoWork
<1>4. /\ pc'.callback = pc.callback /\ plugin.active /\ Quiet /\ NoChange
  BY <1>1, <1>2, <1>3, WorkerApart DEF Starting, Working, Back, Up
<1>5. inbox' = inbox /\ plugin'.active
  <2>1. inbox' = inbox /\ changes' = changes
    BY WorkerLeaves
  <2>2. ~PluginGoes /\ ~PluginComes
    BY <2>1, Grows DEF Resting
  <2>3. QED
    BY <1>4, <2>1, <2>2, PluginLasts DEF Resting
<1>6. Up' /\ Quiet' /\ ~(Coming')
  BY <1>4, <1>5, ChangeShows DEF Up, NoChange, Quiet, Coming
<1>7. SUFFICES Starting' \/ Working' \/ Back'
  BY <1>6 DEF Phase, Up
<1> USE DEF PlaceTypes, Threads, Goto, IsActive, Only
<1>8. CASE Starting
  <2>1. CASE pc.worker = "start"
    <3>1. WorkerStarts
      BY <1>1, <2>1, WorkerWalks
    <3>2. QED
      BY <1>1, <1>6, <1>8, <3>1 DEF WorkerStarts, Starting, memberVars
  <2>2. CASE pc.worker = "take"
    <3>1. TakeTask /\ Head(tasks) = "activate" /\ Tail(tasks) = <<>> /\ tasks # <<>>
      BY <1>1, <1>8, <2>2, WorkerWalks, OneElement DEF Starting
    <3>2. /\ tasks' = <<>> /\ polls' = Polls /\ pc' = [pc EXCEPT !["worker"] = "poll"]
          /\ UNCHANGED <<memberVars, glitches>>
      BY <3>1 DEF TakeTask, otherVars, boundVars
    <3>3. polls' >= 1 /\ glitches' + polls' >= Polls + 0
      BY <1>1, <3>2
    <3>4. Vain(0)'
      BY <3>3 DEF Vain
    <3>5. QED
      BY <1>1, <1>6, <1>8, <3>2, <3>4 DEF Starting, Working, memberVars
  <2>3. QED
    BY <1>2, <1>8, <2>1, <2>2 DEF Starting, Quiet
<1>9. CASE Back
  <2>1. pc.worker = "take" /\ TakeTask /\ tasks = <<>>
    BY <1>1, <1>2, <1>9, WorkerWalks DEF Back
  <2>2. /\ tasks' = <<>> /\ pc' = [pc EXCEPT !["worker"] = "dead"] /\ UNCHANGED <<plugin, memberVars>>
    BY <2>1 DEF TakeTask, outsideVars
  <2>3. UNCHANGED <<registered, told, lost>>
    BY <2>1, WorkerLeaves, WorkerAt
  <2>4. QED
    BY <1>1, <1>6, <1>9, <2>2, <2>3 DEF Back, Initialized, Sought, memberVars
<1>10. CASE Working
  <2>0. tasks = <<>> /\ UNCHANGED <<registered, handlers>>
    BY <1>10, WorkerLeaves DEF Working
  <2>1. CASE pc.worker = "poll"
    <3>1. Poll /\ Vain(0) /\ ~active /\ ~remote
      BY <1>10, <2>1, WorkerAt DEF WorkerSteps, Worker, Working
    <3>2. /\ pc'.worker = "ask" /\ ret'.worker = "polled"
          /\ UNCHANGED <<tasks, memberVars, polls, glitches>>
      BY <1>1, <3>1 DEF Poll, workerVars, otherVars, boundVars
    <3>3. QED
      BY <1>6, <2>0, <3>1, <3>2 DEF Working, Vain, memberVars
  <2>2. CASE pc.worker = "ask" /\ ret.worker = "polled"
    <3>1. Ask("worker") /\ Vain(0) /\ ~remote
      BY <1>10, <2>2, WorkerAt DEF WorkerSteps, Worker, Working
    <3>2. /\ pc'.worker = "store" /\ UNCHANGED <<ret, tasks, memberVars, polls>>
          /\ \/ answer'.worker = Up0 /\ glitches' = glitches
             \/ answer'.worker = NoAnswer /\ glitches' = glitches + 1
      BY <1>1, <1>4, <3>1 DEF Ask, workerVars, Up0, AskTypes
    <3>3. polls \in Nat /\ polls >= 1 /\ glitches + polls >= Polls
      BY <1>1, <3>1 DEF Vain
    <3>4. glitches' = glitches + 1 => Vain(1)'
      <4>1. glitches' = glitches + 1 => glitches' + polls >= Polls + 1
        BY <1>1, <3>3
      <4>2. QED
        BY <3>2, <3>3, <4>1 DEF Vain
    <3>5. QED
      BY <1>6, <2>0, <2>2, <3>1, <3>2, <3>3, <3>4 DEF Working, memberVars
  <2>3. CASE pc.worker = "store" /\ ret.worker = "polled"
    <3>1. /\ Store("worker") /\ polls >= 1 /\ ~remote
          /\ answer.worker = Up0 \/ (answer.worker = NoAnswer /\ Vain(1))
      BY <1>10, <2>3, WorkerAt DEF WorkerSteps, Worker, Working
    <3>2. /\ pc'.worker = "polled" /\ active' = answer.worker.up /\ queried' = answer.worker.ok
          /\ UNCHANGED <<remote, initialized, tasks, polls, glitches>>
      BY <1>1, <2>3, <3>1 DEF Store, workerVars, otherVars, boundVars
    <3>3. QED
      BY <1>6, <2>0, <3>1, <3>2 DEF Working, Vain, Up0, NoAnswer
  <2>4. CASE pc.worker = "polled"
    <3>1. Polled /\ ~remote /\ ((active /\ queried) \/ (Vain(1) /\ ~active /\ ~queried))
      BY <1>10, <2>4, WorkerAt DEF WorkerSteps, Worker, Working
    <3>2. UNCHANGED <<tasks, memberVars, glitches>>
      BY <3>1 DEF Polled, workerVars, otherVars, boundVars
    <3>3. CASE active /\ queried
      <4>1. pc'.worker = "decide"
        BY <1>1, <3>1, <3>3 DEF Polled
      <4>2. QED
        BY <1>6, <2>0, <3>1, <3>2, <3>3, <4>1 DEF Working, memberVars
    <3>4. CASE ~active /\ ~queried /\ Vain(1) /\ Again
      <4>1. pc'.worker = "poll" /\ polls' = polls - 1
        BY <1>1, <3>1, <3>4 DEF Polled
      <4>2. polls' >= 1 /\ glitches' + polls' >= Polls + 0
        BY <1>1, <3>2, <3>4, <4>1 DEF Again, Vain
      <4>3. QED
        BY <1>6, <2>0, <3>1, <3>2, <3>4, <4>1, <4>2 DEF Working, Vain, memberVars
    <3>5. CASE ~active /\ ~queried /\ Vain(1) /\ ~Again
      <4>1. pc'.worker = "ask" /\ ret'.worker = "decide"
        BY <1>1, <3>1, <3>5 DEF Polled
      <4>2. glitches' >= Polls
        BY <1>1, <3>2, <3>5 DEF Again, Vain
      <4>3. QED
        BY <1>6, <2>0, <3>1, <3>2, <4>1, <4>2 DEF Working, memberVars
    <3>6. QED
      BY <3>1, <3>3, <3>4, <3>5
  <2>5. CASE pc.worker = "ask" /\ ret.worker = "decide"
    <3>1. Ask("worker") /\ glitches >= Polls /\ ~remote
      BY <1>10, <2>5, WorkerAt DEF WorkerSteps, Worker, Working
    <3>2. glitches' <= Polls
      BY <1>1 DEF Patient
    <3>3. glitches' # glitches + 1
      BY <1>1, <3>1, <3>2
    <3>4. /\ pc'.worker = "store" /\ UNCHANGED <<ret, tasks, memberVars, polls>> /\ answer'.worker = Up0
      BY <1>1, <1>4, <3>1, <3>3 DEF Ask, workerVars, Up0, AskTypes
    <3>5. QED
      BY <1>6, <2>0, <2>5, <3>1, <3>4 DEF Working, memberVars
  <2>6. CASE pc.worker = "store" /\ ret.worker = "decide"
    <3>1. Store("worker") /\ ~remote /\ answer.worker = Up0
      BY <1>10, <2>6, WorkerAt DEF WorkerSteps, Worker, Working
    <3>2. /\ pc'.worker = "decide" /\ active' = answer.worker.up /\ queried' = answer.worker.ok
          /\ UNCHANGED <<remote, initialized, tasks>>
      BY <1>1, <2>6, <3>1 DEF Store, workerVars
    <3>3. QED
      BY <1>6, <2>0, <3>1, <3>2 DEF Working, Up0
  <2>7. CASE pc.worker \in {"decide", "lock", "first"}
    <3>1. (Decide \/ Lock("worker") \/ First("worker")) /\ active /\ queried /\ ~remote
      BY <1>10, <2>7, WorkerAt DEF WorkerSteps, Worker, Working
    <3>2. UNCHANGED <<tasks, memberVars>> /\ pc'.worker \in {"lock", "first", "connect"}
      BY <1>1, <3>1 DEF Decide, Lock, First, Initialized, workerVars, memberVars
    <3>3. QED
      BY <1>6, <2>0, <3>1, <3>2 DEF Working, memberVars
  <2>8. CASE pc.worker = "connect"
    <3>1. Connect("worker") /\ active /\ queried
      BY <1>10, <2>8, WorkerAt DEF WorkerSteps, Worker, Working
    <3>2. UNCHANGED <<tasks, active, queried>> /\ pc'.worker = "subscribe" /\ remote'
      BY <1>1, <3>1 DEF Connect, workerVars
    <3>3. QED
      BY <1>6, <2>0, <3>1, <3>2 DEF Working
  <2>9. CASE pc.worker = "subscribe"
    <3>1. Subscribe("worker") /\ active /\ queried /\ remote
      BY <1>10, <2>9, WorkerAt DEF WorkerSteps, Worker, Working
    <3>2. UNCHANGED <<tasks, memberVars>> /\ pc'.worker = "subscribing"
      BY <1>1, <3>1 DEF Subscribe, workerVars
    <3>3. QED
      BY <1>6, <2>0, <3>1, <3>2 DEF Working, memberVars
  <2>10. CASE pc.worker = "subscribing"
    <3>1. Subscribing("worker") /\ active /\ queried /\ remote
      BY <1>10, <2>10, WorkerAt DEF WorkerSteps, Worker, Working
    <3>2. /\ UNCHANGED <<tasks, memberVars>> /\ pc'.worker = "finish"
          /\ \/ plugin' = [plugin EXCEPT !.subscribed = @ \cup {"state"}]
             \/ lost' = lost \cup {"state"}
      BY <1>1, <1>4, <3>1 DEF Subscribing, SubscribesTo, Call, Subscribed, workerVars
    <3>3. Sought'
      BY <1>1, <3>2 DEF SpeechTypes, Sought
    <3>4. QED
      BY <1>6, <2>0, <3>1, <3>2, <3>3 DEF Working, memberVars
  <2>11. CASE pc.worker = "finish"
    <3>1. Initializes("worker") /\ active /\ remote /\ Sought
      BY <1>10, <2>11, WorkerAt DEF WorkerSteps, Worker, Working
    <3>2. /\ UNCHANGED <<tasks, active, remote, plugin, lost>> /\ pc'.worker = "notify" /\ initialized'
      BY <1>1, <3>1 DEF Initializes, Finish, After, workerVars, outsideVars, otherVars, boundVars
    <3>3. QED
      BY <1>6, <2>0, <3>1, <3>2 DEF Working, Initialized, Sought
  <2>12. CASE pc.worker = "notify"
    <3>1. ToldUp /\ active /\ Initialized /\ Sought
      BY <1>10, <2>12, WorkerAt DEF WorkerSteps, Worker, Working
    <3>2. /\ UNCHANGED <<tasks, memberVars, plugin, lost>> /\ pc'.worker = "take"
          /\ registered => told' = "connected"
      BY <1>1, <3>1 DEF ToldUp, NotifyUp, workerVars, outsideVars, otherVars, boundVars
    <3>3. QED
      BY <1>6, <2>0, <3>1, <3>2 DEF Back, Initialized, Sought, memberVars
  <2>13. QED
    BY <1>10, <2>1, <2>2, <2>3, <2>4, <2>5, <2>6, <2>7, <2>8, <2>9, <2>10, <2>11, <2>12 DEF Working
<1>11. QED
  BY <1>3, <1>8, <1>9, <1>10

\* A change of the plugin starts from rest, and so with nothing to do.
LEMMA ChangesMoveOn ==
  ASSUME Types, Work, Untouched, Phases, Next, Patient', PluginGoes \/ PluginComes
  PROVE  Phase' /\ Rested'
<1>1. /\ scene' = scene /\ glitches' = glitches /\ UNCHANGED <<pc, memberVars, tasks>>
      /\ changes \in Nat /\ SpeechTypes /\ inbox \in Seq(Events)
  BY Grows, PluginApart DEF PluginGoes, PluginComes, Plugin, MemberUnchanged, workerVars, Types,
     EventTypes
<1>2. AtRest
  BY <1>1 DEF Patient, PluginGoes, PluginComes
<1>3. NoWork /\ inbox = <<>> /\ listening /\ pc.app = "ready" /\ pc.callback = "idle"
  BY <1>2 DEF AtRest, Work, NoWork
<1>4. Rested'
  BY <1>1, <1>3 DEF Rested, AtCalls
<1>5. Patient
  BY <1>1 DEF Patient
<1>6. Event("activated") \in Events /\ Event("deactivated") \in Events
  BY EventKinds
<1>7. CASE PluginGoes
  <2>1. /\ plugin' = [plugin EXCEPT !.active = FALSE, !.enabled = FALSE, !.subscribed = {}, !.pending = <<>>]
        /\ Arrives(<<Event("deactivated")>>)
    BY <1>3, <1>7 DEF PluginGoes
  <2>2. ~plugin'.active /\ plugin'.subscribed = {}
    BY <1>1, <2>1 DEF SpeechTypes
  <2>3. inbox' = <<Event("deactivated")>>
    BY <1>1, <1>3, <1>6, <2>1, Added
  <2>4. QED
    BY <1>1, <1>3, <1>4, <2>2, <2>3 DEF Phase, Going, NoWork
<1>8. CASE PluginComes
  <2>1. ~plugin.active /\ plugin' = ActivePlugin /\ Arrives(<<Event("activated")>>)
    BY <1>3, <1>8 DEF PluginComes
  <2>2. ~active /\ ~remote /\ plugin.subscribed = {}
    <3>1. CASE changes = 0
      BY <2>1, <3>1 DEF Untouched
    <3>2. CASE changes > 0
      <4>1. Phase
        BY <1>5, <3>2 DEF Phases
      <4>2. QED
        BY <1>3, <2>1, <4>1 DEF Phase, Going, Dropping, Gone, Coming, Starting, Working, Back, Up
    <3>3. QED
      BY <1>1, <3>1, <3>2
  <2>3. plugin'.active /\ plugin'.subscribed = {}
    BY <1>1, <2>1, <2>2, ActiveFacts
  <2>4. inbox' = <<Event("activated")>>
    BY <1>1, <1>3, <1>6, <2>1, Added
  <2>5. QED
    BY <1>1, <1>3, <1>4, <2>2, <2>3, <2>4 DEF Phase, Coming, NoWork, memberVars
<1>9. QED
  BY <1>7, <1>8

LEMMA PhasesStep ==
  ASSUME Types, Reconnects, Next
  PROVE  Phases' /\ Rested'
<1> SUFFICES ASSUME Patient', changes' > 0 PROVE Phase' /\ Rested'
  BY DEF Phases, Rested
<1>1. CASE PluginGoes \/ PluginComes
  BY <1>1, ChangesMoveOn DEF Reconnects
<1>2. CASE ~PluginGoes /\ ~PluginComes
  <2>1. changes > 0 /\ Patient
    <3>1. /\ glitches \in Nat /\ glitches' \in Nat /\ glitches <= glitches' /\ Polls \in Nat
          /\ scene' = scene /\ changes' = changes
      BY <1>2, Grows, ServiceAssumption
    <3>2. (glitches' = 0 => glitches = 0) /\ (glitches' <= Polls => glitches <= Polls)
      BY <3>1
    <3>3. QED
      BY <3>1, <3>2 DEF Patient
  <2>2. Resting /\ Phase /\ Rested /\ PlaceTypes
    BY <2>1 DEF Reconnects, Resting, Phases, Types
  <2>3. CASE AppSteps
    BY <2>2, <2>3, CallsAside, AsideKeeps
  <2>4. ASSUME NEW op \in scene.calls, CallStarts(op)
        PROVE  Phase' /\ Rested'
    BY <2>2, <2>4, CallAside, AsideKeeps
  <2>5. CASE SpeechEnds \/ Toggles
    BY <2>2, <2>5, PluginAside, AsideKeeps
  <2>6. CASE WorkerSteps
    <3>1. pc'.app = pc.app /\ scene' = scene
      BY <2>2, <2>6, WorkerApart, WorkerLeaves
    <3>2. Rested'
      BY <2>1, <2>2, <3>1 DEF Rested
    <3>3. QED
      BY <2>2, <2>6, <3>2, WorkerMovesOn
  <2>7. CASE CallbackSteps
    <3>1. pc'.app = pc.app /\ scene' = scene
      BY <2>2, <2>7, CallbackApart, Grows
    <3>2. Rested'
      BY <2>1, <2>2, <3>1 DEF Rested
    <3>3. QED
      BY <2>2, <2>7, <3>2, EventsAside, AsideKeeps, CallbackMovesOn
  <2>8. QED
    BY <1>2, <2>3, <2>4, <2>5, <2>6, <2>7 DEF Next, Plugin
<1>3. QED
  BY <1>1, <1>2

LEMMA PhasesGive ==
  ASSUME Types, Phases
  PROVE  Reconnected
<1> SUFFICES ASSUME Patient, changes > 0, AtRest, registered
             PROVE  IF plugin.active
                      THEN Initialized /\ active /\ "state" \in plugin.subscribed \cup lost /\ told = "connected"
                      ELSE ~remote /\ ~handlers /\ ~active /\ told = "closed"
  BY DEF Reconnected
<1>1. Phase
  BY DEF Phases
<1>2. inbox = <<>> /\ pc.callback = "idle" /\ pc.worker = "dead"
  BY DEF AtRest
<1>3. Gone \/ Back
  BY <1>1, <1>2 DEF Phase, Going, Dropping, Coming, Starting, Quiet, Working
<1>4. QED
  BY <1>3 DEF Gone, Back, Up, Sought

LEMMA InitReconnects == Init => Reconnects
<1> SUFFICES ASSUME Init PROVE Reconnects
  OBVIOUS
<1>1. Answered0 /\ Work
  BY DEF Init, ServiceInit, Answered0, Work, Clients, AppUnasked, WorkerUnasked
<1>2. Untouched /\ Rested /\ Phases
  BY DEF Init, ServiceInit, Untouched, Rested, Phases, Clients
<1>3. QED
  BY <1>1, <1>2 DEF Reconnects

LEMMA SameReconnects == Reconnects /\ UNCHANGED vars => Reconnects'
<1> SUFFICES ASSUME Reconnects, UNCHANGED vars PROVE Reconnects'
  OBVIOUS
<1> USE DEF Reconnects, vars, serviceVars, outsideVars, memberVars, workerVars, askVars, otherVars,
        boundVars, clientVars, historyVars
<1>1. Answered0' /\ Work'
  BY DEF Answered0, Work
<1>2. Untouched' /\ Rested'
  BY DEF Untouched, Rested, Patient
<1>3. Phases'
  <2>1. Phase' <=> Phase
    BY DEF Phase, Going, Dropping, Gone, Coming, Starting, Working, Back, Up, Quiet, NoWork,
       NoChange, Initialized, Vain, Sought
  <2>2. QED
    BY <2>1 DEF Phases, Patient
<1>4. QED
  BY <1>1, <1>2, <1>3

\* A plugin that comes back to a client at rest finds it connected, subscribed
\* and told so, and one that goes leaves it told so: OnPluginStateChange with the
\* task it posts, initialize() and uninitialize() (Service.cpp:156-168, 185-190,
\* 220-242, 337-374), for any number of polls, with answers lost to them.  A
\* subscription that fails is the named exception: initialize() ignores it
\* (TextToSpeechService.cpp:53-57), and the client stays without.
THEOREM ComesBack == Spec => []Reconnected
<1>1. Types /\ Reconnects /\ [Next]_vars => Reconnects'
  <2>1. ASSUME Types, Reconnects, Next
        PROVE  Reconnects'
    BY <2>1, Answered0Step, WorkStep, UntouchedStep, PhasesStep DEF Reconnects
  <2>2. QED
    BY <2>1, SameReconnects
<1>2. Types /\ Reconnects => Reconnected
  BY PhasesGive DEF Reconnects
<1>3. QED
  BY <1>1, <1>2, InitReconnects, TypesAlways, PTL DEF Spec

-----------------------------------------------------------------------------
(* A plugin that stays.                                                    *)

Lasting == scene.changes = 0 /\ glitches = 0

AppStarts == AppUnasked \cup {"first", "activate", "activated"}

AppKnows ==
  \/ pc.app \notin AppStarts
  \/ pc.app \in {"ask", "store"} /\ ret.app # "first"

\* The app's thread has connected, and then initialized, the client.
AppConnected ==
  AppKnows /\ pc.app # "connect" /\ ~(pc.app \in {"ask", "store"} /\ ret.app = "connect")

AppInitialized ==
  /\ AppConnected /\ pc.app \notin {"subscribe", "subscribing", "finish"}
  /\ ~(pc.app \in {"ask", "store"} /\ ret.app = "subscribe")

Attached ==
  /\ \A e \in Elements(inbox) : e.kind # "deactivated"
  /\ pc.callback \in {"idle", "join", "deliver", "tell"}
  /\ \A t \in Clients : pc[t] = "store" => answer[t].up = plugin.active
  /\ pc.app = "activated" => answer.app.ok /\ plugin.active
  /\ \/ plugin.active
     \/ /\ \A e \in Elements(inbox) : e.kind # "activated"
        /\ "activate" \notin Elements(tasks)
        /\ pc.worker \in {"dead", "start", "take", "install"}
  /\ active => plugin.active
  /\ remote => active
  /\ AppKnows => active
  /\ AppConnected => remote
  /\ AppInitialized => initialized

\* Every speech the plugin accepts is one whose end is told.
Listening ==
  /\ handlers => pc.app \in {"attach", "attaching"} \/ "speech" \in plugin.subscribed
  /\ pc.app \in {"speak", "speaking", "note"} => "speech" \in plugin.subscribed
  /\ Elements(plugin.pending) \cup ended # {} => "speech" \in plugin.subscribed
  /\ "speech" \in plugin.subscribed => Initialized

\* Ids are used once.
Fresh ==
  /\ ~plugin.active => plugin.lastId = 0
  /\ Elements(plugin.pending) \cup ended \subseteq 1..plugin.lastId
  /\ \A c \in DOMAIN requested : requested[c] \in 1..plugin.lastId
  /\ \A b, c \in DOMAIN requested : requested[b] = requested[c] => b = c
  /\ pc.app = "note" => call.got = plugin.lastId /\ \A c \in DOMAIN requested : requested[c] # call.got

EndTold(id) ==
  \/ \E e \in Elements(inbox) : e.kind = "end" /\ e.id = id
  \/ pc.callback = "deliver" /\ handled.kind = "end" /\ handled.id = id
  \/ id \in unnoted

Wanted(id) == (\E c \in DOMAIN requested : requested[c] = id) \/ (pc.app = "note" /\ call.got = id)

EndsReach == \A id \in ended : Wanted(id) => EndTold(id)

Ends == Lasting => Attached /\ Listening /\ Fresh /\ EndsReach
-----------------------------------------------------------------------------

\* How the app's thread comes to know, to connect and to initialize.
LEMMA AppLearns ==
  ASSUME PlaceTypes, AppSteps
  PROVE  /\ AppKnows' => AppKnows \/ Lock("app") \/ First("app") \/ Activate \/ Activated
         /\ AppConnected' => AppConnected \/ Lock("app") \/ Connect("app")
         /\ AppInitialized' => AppInitialized \/ Lock("app") \/ Initializes("app")
<1> USE DEF AppKnows, AppConnected, AppInitialized, AppStarts, AppUnasked
<1>1. CASE pc.app \notin AppStarts \cup {"connect", "subscribe", "subscribing", "finish"}
  BY <1>1
<1>2. CASE Construct \/ Join("app") \/ Ask("app")
  <2>1. ret' = ret /\ (Ask("app") => pc.app = "ask" /\ pc'.app = "store")
        /\ (~Ask("app") => pc'.app \in {"join", "lock"})
    <3>1. CASE Construct
      BY <3>1, AppAt DEF Construct, Post, Goto, PlaceTypes, Threads, askVars
    <3>2. CASE Join("app")
      BY <3>2, AppAt DEF Join, StartWorker, PlaceTypes, Threads, askVars
    <3>3. CASE Ask("app")
      BY <3>3 DEF Ask, Goto, PlaceTypes, Threads
    <3>4. QED
      BY <1>2, <3>1, <3>2, <3>3
  <2>2. QED
    BY <2>1
<1>3. CASE Store("app")
  <2>1. pc.app = "store" /\ pc'.app = ret.app /\ ret.app \in AppReturns
    BY <1>3 DEF Store, PlaceTypes, Threads
  <2>2. QED
    BY <2>1 DEF AppReturns
<1>4. CASE First("app") \/ Activate \/ Activated
  <2>1. pc.app \in {"first", "activate", "activated"} /\ ret'.app \in {ret.app, "connect"}
        /\ pc'.app \in {"connect", "ask", "activate", "activated"}
        /\ (pc'.app = "ask" => ret'.app = "connect")
    <3>1. CASE First("app")
      BY <3>1, AppAt DEF First, IsActive, Goto, PlaceTypes, Threads
    <3>2. CASE Activate
      BY <3>2, AppAt DEF Activate, IsActive, Goto, PlaceTypes, Threads
    <3>3. CASE Activated
      BY <3>3, AppAt DEF Activated, IsActive, PlaceTypes, Threads
    <3>4. QED
      BY <1>4, <3>1, <3>2, <3>3
  <2>2. QED
    BY <1>4, <2>1
<1>5. CASE Connect("app") \/ Subscribe("app") \/ Subscribing("app")
  <2>1. /\ pc.app \in {"connect", "subscribe", "subscribing"}
        /\ pc'.app \in {"subscribe", "subscribing", "finish", "ask"}
        /\ pc'.app = "ask" => ret'.app = "subscribe"
        /\ Connect("app") \/ pc.app # "connect"
    BY <1>5, AppAt DEF Connect, Subscribe, Subscribing, SubscribesTo, Call, IsActive, Goto, PlaceTypes, Threads
  <2>2. QED
    BY <1>5, <2>1
<1>6. CASE Lock("app")
  BY <1>6
<1>7. CASE Initializes("app")
  BY <1>7, AppAt
<1>8. QED
  BY <1>1, <1>2, <1>3, <1>4, <1>5, <1>6, <1>7, AppAt DEF AppSteps, AppConnects

\* Where Lock and First lead to.
LEMMA LockLeads ==
  ASSUME PlaceTypes, Lock("app")
  PROVE  AppKnows' => Initialized
BY DEF Lock, IsActive, Goto, PlaceTypes, Threads, AppKnows, AppStarts, AppUnasked

LEMMA FirstLeads ==
  ASSUME PlaceTypes, First("app")
  PROVE  AppKnows' => active
BY DEF First, IsActive, Goto, PlaceTypes, Threads, AppKnows, AppStarts, AppUnasked

LEMMA ActivateLeads ==
  ASSUME PlaceTypes, Activate
  PROVE  AppKnows' => active
BY DEF Activate, IsActive, Goto, PlaceTypes, Threads, AppKnows, AppStarts, AppUnasked

LEMMA Learns ==
  ASSUME Types, Next
  PROVE  /\ AppKnows' => AppKnows \/ Lock("app") \/ ((First("app") \/ Activate) /\ active) \/ Activated
         /\ AppConnected' => AppConnected \/ Connect("app") \/ (Lock("app") /\ Initialized)
         /\ AppInitialized' => AppInitialized \/ Initializes("app") \/ (Lock("app") /\ Initialized)
         /\ Lock("app") => (AppKnows' => Initialized)
<1>0. PlaceTypes
  BY DEF Types
<1>1. AppConnected' => AppKnows'
  BY DEF AppConnected
<1>2. AppInitialized' => AppKnows'
  BY DEF AppInitialized, AppConnected
<1>3. CASE AppSteps
  BY <1>0, <1>1, <1>2, <1>3, AppLearns, LockLeads, FirstLeads, ActivateLeads
<1>4. CASE pc'.app = pc.app /\ ret'.app = ret.app
  BY <1>0, <1>1, <1>2, <1>4, LockLeads, FirstLeads DEF AppKnows, AppConnected, AppInitialized
<1>5. ASSUME NEW op \in scene.calls, CallStarts(op)
      PROVE  AppInitialized /\ AppConnected /\ AppKnows
  BY <1>0, <1>5, CallApart DEF AppKnows, AppConnected, AppInitialized, AppStarts, AppUnasked
<1>6. QED
  BY <1>0, <1>1, <1>2, <1>3, <1>4, <1>5, LockLeads, WorkerApart, CallbackApart, PluginApart DEF Next

\* What comes into the events, and into the tasks.
LEMMA InboxGrows ==
  ASSUME Types, Next, ~PluginGoes, ~PluginComes
  PROVE  \A e \in Elements(inbox') :
           \/ e \in Elements(inbox) \/ e.kind \in {"state", "end"}
           \/ e.kind = "activated" /\ plugin'.active
<1>0. inbox \in Seq(Events) /\ SpeechTypes
  BY DEF Types, EventTypes
<1>1. CASE TakeEvent
  <2>1. inbox # <<>> /\ inbox' = Tail(inbox)
    BY <1>1 DEF TakeEvent
  <2>2. QED
    BY <1>0, <2>1, HeadElement
<1>2. CASE Activate
  <2>1. inbox' = inbox \/ ((Arrives(<<Event("activated")>>) \/ Arrives(<<>>)) /\ plugin' = ActivePlugin)
    BY <1>2 DEF Activate, Activates
  <2>2. Event("activated") \in Events
    BY EventKinds
  <2>3. Event("activated").kind = "activated"
    BY DEF Event, NoEvent
  <2>4. QED
    BY <1>0, <2>1, <2>2, <2>3, Added, ActiveFacts
<1>3. CASE Cancelling \/ SpeechEnds \/ Toggles
  BY <1>3, EndsTell, TogglesTell DEF Tells
<1>4. CASE inbox' = inbox
  BY <1>4
<1>5. QED
  BY <1>1, <1>2, <1>3, <1>4, StepKinds, SilentLeaves, LoudLeaves, SpeechLeaves, PluginLeaves
     DEF dataVars

LEMMA TasksGrow ==
  ASSUME Types, Next
  PROVE  \/ Elements(tasks') \subseteq Elements(tasks) \cup {"install"}
         \/ inbox # <<>> /\ Head(inbox).kind = "activated"
<1>0. tasks \in Seq(Tasks) /\ "install" \in Tasks
  BY DEF Types, EventTypes, Tasks
<1>1. CASE TakeTask /\ tasks # <<>> /\ tasks' = Tail(tasks)
  BY <1>0, <1>1, HeadElement
<1>2. CASE tasks' = Append(tasks, "install")
  BY <1>0, <1>2, AddedLast
<1>3. CASE tasks' = tasks
  BY <1>3
<1>4. CASE TakeEvent
  BY <1>3, <1>4 DEF TakeEvent, Post, workerVars
<1>5. QED
  BY <1>1, <1>2, <1>3, <1>4, StepKinds, SilentLeaves, LoudLeaves, SpeechLeaves, PluginLeaves
     DEF dataVars, Construct, TakeTask, Post

\* The worker while it has only the subscription to do.
LEMMA WorkerInstalls ==
  ASSUME Types, Next, pc.worker \in {"dead", "start", "take", "install"}, "activate" \notin Elements(tasks)
  PROVE  pc'.worker \in {"dead", "start", "take", "install"}
<1>0. PlaceTypes /\ tasks \in Seq(Tasks)
  BY DEF Types, EventTypes
<1>1. CASE WorkerSteps
  <2>1. WorkerStarts \/ TakeTask \/ InstallHandler
    BY <1>1, WorkerAt DEF WorkerSteps, Worker
  <2>2. tasks # <<>> => Head(tasks) = "install"
    BY <1>0, HeadElement DEF Tasks
  <2>3. QED
    BY <1>0, <2>1, <2>2 DEF WorkerStarts, TakeTask, InstallHandler, Goto, PlaceTypes, Threads
<1>2. ASSUME NEW op \in scene.calls, CallStarts(op)
      PROVE  pc'.worker = pc.worker
  BY <1>0, <1>2, CallApart
<1>3. QED
  BY <1>0, <1>1, <1>2, AppApart, CallbackApart, PluginApart DEF Next

\* A plugin that stays: no step that lets go of it is taken.
Staying == Types /\ Lasting /\ Attached /\ Next /\ Lasting'

LEMMA StayingSteps ==
  ASSUME Staying
  PROVE  /\ ~PluginGoes /\ ~PluginComes
         /\ ~Down /\ ~DropRemote /\ ~Reset
         /\ glitches = 0 /\ glitches' = 0
         /\ Activated => active' /\ plugin'.active
         /\ \A t \in Clients : Store(t) => active' = plugin.active
         /\ plugin.active => plugin'.active
         /\ active => active'
         /\ remote => remote'
         /\ initialized => initialized'
<1>0. Types /\ Next /\ Attached /\ SpeechTypes /\ changes \in Nat
  BY DEF Staying, Types, EventTypes
<1>1. glitches = 0 /\ glitches' = 0
  BY DEF Staying, Lasting
<1>2. ~PluginGoes /\ ~PluginComes
  <2>1. scene.changes = 0
    BY DEF Staying, Lasting
  <2>2. ~(changes < 0)
    BY <1>0
  <2>3. QED
    BY <2>1, <2>2 DEF PluginGoes, PluginComes
<1>3. ~Down /\ ~DropRemote /\ ~Reset
  BY <1>0, CallbackAt DEF Attached
<1>4. Activated => active' /\ plugin'.active
  <2>1. Activated => active' = answer.app.ok /\ plugin' = plugin /\ pc.app = "activated"
    BY DEF Activated, outsideVars
  <2>2. QED
    BY <1>0, <2>1 DEF Attached
<1>5. \A t \in Clients : Store(t) => active' = plugin.active
  BY <1>0 DEF Store, Attached
<1>6. plugin.active => plugin'.active
  BY <1>0, <1>2, PluginLasts
<1>7. active => active'
  <2>1. active => plugin.active
    BY <1>0 DEF Attached
  <2>2. QED
    <3>1. UNCHANGED memberVars \/ Activated \/ Handlers
            \/ \E t \in Clients : Store(t) \/ Connect(t) \/ Initializes(t)
      BY <1>0, <1>3, MemberSteps
    <3>2. CASE UNCHANGED memberVars \/ Handlers
      BY <3>2 DEF memberVars, Handlers, ServiceSame
    <3>3. ASSUME NEW t \in Clients, Connect(t) \/ Initializes(t)
          PROVE  active' = active
      BY <3>3 DEF Connect, Initializes, Finish
    <3>4. QED
      BY <1>4, <1>5, <2>1, <3>1, <3>2, <3>3
<1>8. (remote => remote') /\ (initialized => initialized')
  <2>1. UNCHANGED memberVars \/ Activated \/ Handlers
          \/ \E t \in Clients : Store(t) \/ Connect(t) \/ Initializes(t)
    BY <1>0, <1>3, MemberSteps
  <2>2. CASE UNCHANGED memberVars \/ Handlers
    BY <2>2 DEF memberVars, Handlers, ServiceSame
  <2>6. CASE Activated
    BY <2>6 DEF Activated
  <2>3. ASSUME NEW t \in Clients, Store(t)
        PROVE  (remote => remote') /\ (initialized => initialized')
    BY <2>3 DEF Store
  <2>7. ASSUME NEW t \in Clients, Connect(t)
        PROVE  (remote => remote') /\ (initialized => initialized')
    BY <2>7 DEF Connect
  <2>4. ASSUME NEW t \in Clients, Initializes(t)
        PROVE  (remote => remote') /\ (initialized => initialized')
    BY <2>4 DEF Initializes, Finish
  <2>5. QED
    BY <2>1, <2>2, <2>3, <2>4, <2>6, <2>7
<1>9. QED
  BY <1>1, <1>2, <1>3, <1>4, <1>5, <1>6, <1>7, <1>8

LEMMA AttachedStep ==
  ASSUME Staying
  PROVE  Attached'
<1>0. Types /\ Next /\ Attached /\ PlaceTypes /\ AskTypes /\ inbox \in Seq(Events)
  BY DEF Staying, Types, EventTypes
<1>1. \A e \in Elements(inbox') : e.kind # "deactivated"
  BY <1>0, StayingSteps, InboxGrows DEF Attached
<1>2. pc'.callback \in {"idle", "join", "deliver", "tell"}
  <2>1. inbox # <<>> => Head(inbox).kind # "deactivated"
    BY <1>0, HeadElement DEF Attached
  <2>2. CASE CallbackSteps
    <3>1. TakeEvent \/ Join("callback") \/ StateEvent \/ EndEvent \/ TellEnd
      BY <1>0, <2>2, CallbackAt DEF CallbackSteps, CallbackThread, Attached
    <3>2. CASE TakeEvent
      BY <1>0, <2>1, <3>2 DEF TakeEvent, Post, Goto, PlaceTypes, Threads
    <3>3. CASE Join("callback")
      BY <1>0, <3>3 DEF Join, StartWorker, PlaceTypes, Threads
    <3>4. CASE StateEvent
      BY <1>0, <3>4 DEF StateEvent, Goto, PlaceTypes, Threads
    <3>5. CASE EndEvent
      BY <1>0, <3>5 DEF EndEvent, Goto, PlaceTypes, Threads
    <3>6. CASE TellEnd
      BY <1>0, <3>6 DEF TellEnd, Goto, PlaceTypes, Threads, Attached
    <3>7. QED
      BY <3>1, <3>2, <3>3, <3>4, <3>5, <3>6
  <2>3. ASSUME NEW op \in scene.calls, CallStarts(op)
        PROVE  pc'.callback = pc.callback
    BY <1>0, <2>3, CallApart
  <2>4. QED
    BY <1>0, <2>2, <2>3, AppApart, WorkerApart, PluginApart DEF Next, Attached
<1>3. ASSUME NEW t \in Clients, pc'[t] = "store"
      PROVE  answer'[t].up = plugin'.active
  <2>1. CASE Ask(t)
    <3>1. glitches' = glitches /\ glitches = 0
      BY StayingSteps
    <3>2. answer' = [answer EXCEPT ![t] = [ok |-> TRUE, up |-> plugin.active]] /\ plugin' = plugin
      BY <2>1, <3>1 DEF Ask, outsideVars
    <3>3. QED
      BY <1>0, <3>2 DEF AskTypes, Clients, Threads
  <2>2. CASE pc[t] = "store" /\ answer'[t] = answer[t]
    <3>1. answer[t].up = plugin.active
      BY <1>0, <2>2 DEF Attached
    <3>2. plugin'.active => plugin.active
      <4>1. SUFFICES ASSUME plugin'.active, ~plugin.active PROVE FALSE
        OBVIOUS
      <4>2. pc.app = "activate"
        BY <1>0, <4>1, StayingSteps, PluginLasts, AppAt
      <4>3. QED
        BY <1>0, <2>2, <4>1, <4>2 DEF Attached, Clients
    <3>3. plugin.active \in BOOLEAN /\ plugin'.active \in BOOLEAN
      BY <1>0, PluginTypeStep DEF Types, SpeechTypes, PluginType
    <3>4. QED
      BY <2>2, <3>1, <3>2, <3>3, StayingSteps
  <2>3. QED
    BY <1>0, <1>3, <2>1, <2>2, AnswerKept
<1>4. \/ plugin'.active
      \/ /\ \A e \in Elements(inbox') : e.kind # "activated"
         /\ "activate" \notin Elements(tasks')
         /\ pc'.worker \in {"dead", "start", "take", "install"}
  <2>1. SUFFICES ASSUME ~plugin'.active
                 PROVE  /\ \A e \in Elements(inbox') : e.kind # "activated"
                        /\ "activate" \notin Elements(tasks')
                        /\ pc'.worker \in {"dead", "start", "take", "install"}
    OBVIOUS
  <2>2. /\ ~plugin.active /\ \A e \in Elements(inbox) : e.kind # "activated"
        /\ "activate" \notin Elements(tasks) /\ pc.worker \in {"dead", "start", "take", "install"}
    BY <1>0, <2>1, StayingSteps DEF Attached
  <2>3. inbox # <<>> => Head(inbox).kind # "activated"
    BY <1>0, <2>2, HeadElement
  <2>4. QED
    BY <1>0, <2>1, <2>2, <2>3, StayingSteps, InboxGrows, TasksGrow, WorkerInstalls
<1>5. active' => plugin'.active
  <2>1. active => plugin.active
    BY <1>0 DEF Attached
  <2>2. QED
    BY <1>0, <2>1, StayingSteps, MemberSteps DEF memberVars, Handlers, Connect, Initializes,
       Finish, ServiceSame
<1>6. remote' => active'
  <2>1. remote' => remote \/ active
    BY <1>0, StayingSteps, MemberSteps DEF memberVars, Handlers, Connect, Initializes, Finish,
       ServiceSame, Activated, Store
  <2>2. QED
    BY <1>0, <2>1, StayingSteps DEF Attached
<1>7. AppKnows' => active'
  BY <1>0, Learns, StayingSteps DEF Attached, Initialized
<1>8. AppConnected' => remote'
  <2>1. Connect("app") => AppKnows /\ remote' = (remote \/ active)
    BY AppAt DEF Connect, AppKnows, AppStarts, AppUnasked
  <2>2. QED
    BY <1>0, <2>1, Learns, StayingSteps DEF Attached, Initialized
<1>9. AppInitialized' => initialized'
  <2>1. Initializes("app") => initialized'
    BY DEF Initializes, Finish
  <2>2. QED
    BY <1>0, <2>1, Learns, StayingSteps DEF Attached, Initialized
<1>11. pc'.app = "activated" => answer'.app.ok /\ plugin'.active
  <2>1. CASE Activate /\ pc'.app = "activated"
    <3>1. ~active /\ pc.app = "activate"
      BY <1>0, <2>1 DEF Activate, IsActive, Goto, PlaceTypes, Threads
    <3>2. Activates /\ answer' = [answer EXCEPT !.app = [ok |-> TRUE, up |-> TRUE]]
      <4>1. glitches' = glitches /\ glitches = 0
        BY StayingSteps
      <4>2. QED
        BY <2>1, <3>1, <4>1 DEF Activate
    <3>3. plugin'.active
      BY <1>0, <3>2, ActiveFacts DEF Activates, Types
    <3>4. QED
      BY <1>0, <3>2, <3>3 DEF AskTypes, Threads
  <2>2. CASE pc.app = "activated" /\ answer'.app = answer.app
    BY <1>0, <2>2, StayingSteps DEF Attached
  <2>3. QED
    BY <1>0, <2>1, <2>2, ActivatedKept
<1>10. QED
  BY <1>1, <1>2, <1>3, <1>4, <1>5, <1>6, <1>7, <1>8, <1>9, <1>11 DEF Attached

\* Where the app's thread comes to the subscription of the speech's events, and past it.
LEMMA AppListens ==
  ASSUME PlaceTypes, Next
  PROVE  /\ pc'.app \in {"attach", "attaching", "speak", "speaking", "note"} =>
              \/ pc.app \in {"attach", "attaching", "speak", "speaking", "note"}
              \/ pc.app = "events" /\ Handlers
         /\ pc.app \in {"attach", "attaching"} =>
              pc'.app \in {"attach", "attaching"} \/ Attaching \/ (Attach /\ ~remote)
         /\ pc'.app \in {"speak", "speaking", "note"} =>
              \/ pc.app \in {"speak", "speaking", "note"} \/ Attaching \/ (Attach /\ ~remote)
              \/ Handlers /\ ~(active /\ ~handlers /\ remote)
<1> DEFINE Near == {"attach", "attaching", "speak", "speaking", "note"}
<1>1. CASE AppSteps
  <2>1. CASE pc'.app \in Near
    <3> USE AppAt DEF PlaceTypes, Threads, AppReturns, Goto, IsActive, Only, ClientSame,
            ServiceSame, CallOnly, Asking, askVars
    <3>1. CASE Construct
      BY <2>1, <3>1 DEF Construct, Post
    <3>2. CASE Join("app")
      <4>1. pc' = [pc EXCEPT !["app"] = "lock", !["worker"] = "start"]
        BY <3>2 DEF Join, StartWorker
      <4>2. QED
        BY <2>1, <4>1
    <3>3. CASE Ask("app") \/ Store("app") \/ Lock("app")
      BY <2>1, <3>3 DEF Ask, Store, Lock, After
    <3>4. CASE First("app") \/ Activate \/ Activated \/ Connect("app")
      BY <2>1, <3>4 DEF First, Activate, Activated, Connect
    <3>5. CASE Subscribe("app") \/ Subscribing("app")
      BY <2>1, <3>5 DEF Subscribe, Subscribing, SubscribesTo, Call
    <3>6. CASE Initializes("app")
      BY <2>1, <3>6 DEF Initializes, Finish, After
    <3>7. CASE Register \/ Greet \/ Check \/ Unregister
      BY <2>1, <3>7 DEF Register, Greet, Check, Unregister
    <3>8. CASE Checked \/ Query \/ Querying
      BY <2>1, <3>8 DEF Checked, Query, Querying, Call, Tests, Unanswered, Return
    <3>9. CASE Answered \/ Created \/ Destroy \/ Note
      BY <2>1, <3>9 DEF Answered, Created, Destroy, Note, Unanswered, Return
    <3>10. CASE Handlers
      BY <2>1, <3>10 DEF Handlers
    <3>13. CASE Attach \/ Speak
      BY <2>1, <3>13 DEF Attach, Speak, Tests, Return
    <3>14. CASE Attaching
      BY <2>1, <3>14
    <3>11. CASE Speaking \/ Cancel \/ Cancelling
      BY <2>1, <3>11 DEF Speaking, Cancel, Cancelling, Uncancelled, Return
    <3>12. QED
      BY <1>1, <3>1, <3>2, <3>3, <3>4, <3>5, <3>6, <3>7, <3>8, <3>9, <3>10, <3>11, <3>13, <3>14
         DEF AppSteps, AppConnects
  <2>2. CASE pc.app \in {"attach", "attaching"}
    <3>1. Attach \/ Attaching
      BY <1>1, <2>2, AppAt DEF AppSteps, AppConnects
    <3>2. Attach => pc'.app = IF remote THEN "attaching" ELSE "speak"
      BY DEF Attach, Goto, PlaceTypes, Threads
    <3>3. QED
      BY <2>2, <3>1, <3>2, AppAt
  <2>3. QED
    BY <2>1, <2>2
<1>2. CASE pc'.app = pc.app
  BY <1>2
<1>3. ASSUME NEW op \in scene.calls, CallStarts(op)
      PROVE  pc.app = "ready" /\ pc'.app \in {"unregister", "destroy", "check"}
  BY <1>3, CallApart
<1>4. QED
  BY <1>1, <1>2, <1>3, WorkerApart, CallbackApart, PluginApart DEF Next

\* The speeches the plugin has: one more, one less, or the same.
Accepts ==
  /\ Speaking /\ Accepted
  /\ plugin' = [plugin EXCEPT !.lastId = @ + 1, !.pending = Append(@, plugin.lastId + 1)]

EndOf(id) == id \in Elements(plugin.pending) /\ id \in Nat /\ Over(id)

SameSpeeches ==
  /\ plugin'.pending = plugin.pending /\ ended' = ended
  /\ plugin'.lastId = plugin.lastId \/ (plugin'.lastId = 0 /\ ~plugin.active /\ plugin'.active)

LEMMA SpeechMoves ==
  ASSUME Types, Next, ~PluginGoes, ~PluginComes
  PROVE  Accepts \/ (\E id \in Nat : EndOf(id)) \/ SameSpeeches
<1>0. SpeechTypes /\ made \in Nat /\ plugin.pending \in Seq(1..made)
  BY DEF Types, SpeechTypes
<1>1. CASE Speaking
  <2>1. ended' = ended
    BY <1>1, SpeechLeaves
  <2>2. Accepts \/ plugin' = plugin
    BY <1>1 DEF Speaking, Accepts
  <2>3. QED
    BY <2>1, <2>2 DEF SameSpeeches
<1>2. CASE Cancelling \/ SpeechEnds
  <2>1. plugin.pending # <<>> => Head(plugin.pending) \in Elements(plugin.pending)
    BY <1>0, HeadElement
  <2>2. Range(plugin.pending) = Elements(plugin.pending)
    <3>1. DOMAIN plugin.pending = 1..Len(plugin.pending)
      BY <1>0, LenProperties
    <3>2. QED
      BY <3>1 DEF Range, Elements
  <2>3. UNCHANGED <<plugin, ended>> \/ \E id \in Elements(plugin.pending) : Over(id)
    BY <1>2, <2>1, <2>2 DEF Cancelling, SpeechEnds
  <2>4. Elements(plugin.pending) \subseteq Nat
    BY <1>0, ElementsFacts
  <2>5. QED
    BY <2>3, <2>4 DEF SameSpeeches, EndOf
<1>3. CASE ~Speaking /\ ~(Cancelling \/ SpeechEnds)
  <2>1. ended' = ended
    BY <1>3, StepKinds, SilentLeaves, LoudLeaves, SpeechLeaves, PluginLeaves DEF dataVars
  <2>2. plugin'.lastId = plugin.lastId \/ (plugin'.lastId = 0 /\ ~plugin.active /\ plugin'.active)
    BY <1>3, IdsStep
  <2>3. plugin'.pending = plugin.pending \/ \E id \in Nat : EndOf(id)
    <3>1. CASE plugin' = ActivePlugin
      BY <1>0, <3>1, ActiveFacts
    <3>2. QED
      BY <1>0, <1>3, <3>1, PluginSteps DEF PluginMoves, SpeechTypes, Subscribed, EndOf
  <2>4. QED
    BY <2>1, <2>2, <2>3 DEF SameSpeeches
<1>4. QED
  BY <1>1, <1>2, <1>3

LEMMA AttachingListens ==
  ASSUME Staying, Attaching
  PROVE  plugin.active /\ plugin'.subscribed = plugin.subscribed \cup {"speech"} /\ Initialized
<1>0. Attached /\ SpeechTypes
  BY DEF Staying, Types
<1>1. AppKnows /\ AppConnected /\ AppInitialized
  BY AppAt DEF AppKnows, AppConnected, AppInitialized, AppStarts, AppUnasked
<1>2. active /\ remote /\ initialized /\ plugin.active
  BY <1>0, <1>1 DEF Attached
<1>3. plugin' = [plugin EXCEPT !.subscribed = @ \cup {"speech"}]
  <2>1. glitches' = glitches /\ glitches = 0
    BY StayingSteps
  <2>2. Call("app", "speak", Subscribed("speech"))
    BY <2>1 DEF Attaching, SubscribesTo
  <2>3. QED
    BY <1>2, <2>2 DEF Call, Subscribed
<1>4. QED
  BY <1>0, <1>2, <1>3 DEF SpeechTypes, Initialized

LEMMA ListeningStep ==
  ASSUME Staying, Listening
  PROVE  Listening'
<1>0. Types /\ Next /\ Attached /\ PlaceTypes /\ SpeechTypes
  BY DEF Staying, Types
<1>1. "speech" \in plugin.subscribed => "speech" \in plugin'.subscribed
  BY <1>0, StayingSteps, PluginLasts
<1>2. pc.app \in {"events", "attach", "attaching", "speak", "speaking", "note"} => active /\ remote /\ initialized
  BY <1>0 DEF Attached, AppKnows, AppConnected, AppInitialized, AppStarts, AppUnasked
<1>3. Attach => remote
  BY <1>2, AppAt
<1>4. Attaching => "speech" \in plugin'.subscribed
  BY AttachingListens
<1>5. handlers' => pc'.app \in {"attach", "attaching"} \/ "speech" \in plugin'.subscribed
  <2>1. handlers' => handlers \/ (Handlers /\ pc'.app = "attach")
    <3>1. Handlers => handlers' = handlers \/ pc'.app = "attach"
      BY <1>0 DEF Handlers, Goto, PlaceTypes, Threads
    <3>2. QED
      BY <1>0, <3>1, StayingSteps, MemberSteps DEF memberVars, Activated, Store, Connect,
         Initializes, Finish
  <2>2. QED
    BY <1>0, <1>1, <1>3, <1>4, <2>1, AppListens DEF Listening
<1>6. pc'.app \in {"speak", "speaking", "note"} => "speech" \in plugin'.subscribed
  <2>1. Handlers /\ ~(active /\ ~handlers /\ remote) => handlers /\ pc.app = "events"
    BY <1>2, AppAt
  <2>2. QED
    BY <1>0, <1>1, <1>3, <1>4, <2>1, AppListens DEF Listening
<1>7. Elements(plugin'.pending) \cup ended' # {} => "speech" \in plugin'.subscribed
  <2>1. CASE Accepts
    BY <1>1, <2>1, AppAt DEF Accepts, Listening
  <2>2. ASSUME NEW id \in Nat, EndOf(id)
        PROVE  "speech" \in plugin'.subscribed
    BY <1>1, <2>2 DEF EndOf, Listening
  <2>3. CASE SameSpeeches
    BY <1>1, <2>3 DEF SameSpeeches, Listening
  <2>4. QED
    BY <1>0, <2>1, <2>2, <2>3, StayingSteps, SpeechMoves
<1>8. "speech" \in plugin'.subscribed => Initialized'
  <2>1. "speech" \in plugin'.subscribed => "speech" \in plugin.subscribed \/ Attaching
    BY <1>0, StayingSteps, PluginLasts
  <2>2. QED
    BY <2>1, StayingSteps, AttachingListens DEF Listening, Initialized
<1>9. QED
  BY <1>5, <1>6, <1>7, <1>8 DEF Listening

\* Who changes the requests, and who has an id to note.
LEMMA RequestedSteps ==
  ASSUME Next
  PROVE  requested' = requested \/ Note \/ EndEvent
BY StepKinds, SilentLeaves, LoudLeaves, SpeechLeaves, PluginLeaves DEF dataVars

LEMMA EndForgets ==
  ASSUME EndEvent
  PROVE  DOMAIN requested' \subseteq DOMAIN requested /\ \A c \in DOMAIN requested' : requested'[c] = requested[c]
<1>1. \/ requested' = requested
      \/ requested' = Restrict(requested, DOMAIN requested \ {Min(Asked(handled.id))})
  BY DEF EndEvent
<1>2. QED
  BY <1>1 DEF Restrict

LEMMA NoteKept ==
  ASSUME Types, Next, pc'.app = "note"
  PROVE  \/ Speaking /\ Accepts /\ call'.got = plugin.lastId + 1
         \/ ~AppSteps /\ pc.app = "note" /\ call' = call
<1>0. PlaceTypes /\ CallTypes
  BY DEF Types
<1>1. CASE Speaking
  <2>1. pc.app = "speaking"
    BY <1>1, AppAt
  <2>2. /\ Accepted /\ call' = [call EXCEPT !.got = plugin.lastId + 1]
        /\ plugin' = [plugin EXCEPT !.lastId = @ + 1, !.pending = Append(@, plugin.lastId + 1)]
    BY <1>0, <1>1, <2>1 DEF Speaking, Return, Goto, PlaceTypes, Threads
  <2>3. call'.got = plugin.lastId + 1
    BY <1>0, <2>2 DEF CallTypes
  <2>4. QED
    BY <1>1, <2>2, <2>3 DEF Accepts
<1>2. CASE AppSteps /\ ~Speaking
  BY <1>0, <1>2, AppCalls DEF CallMoves
<1>3. ASSUME NEW op \in scene.calls, CallStarts(op)
      PROVE  FALSE
  BY <1>0, <1>3, CallApart
<1>4. CASE ~AppSteps
  BY <1>0, <1>3, <1>4, OtherCalls
<1>5. QED
  BY <1>1, <1>2, <1>4

LEMMA FreshStep ==
  ASSUME Staying, Fresh
  PROVE  Fresh'
<1>0. Types /\ Next /\ PlaceTypes /\ SpeechTypes /\ made \in Nat /\ plugin.lastId \in Nat
      /\ plugin.pending \in Seq(1..made) /\ inbox \in Seq(Events)
  BY DEF Staying, Types, SpeechTypes, EventTypes
<1>1. ~PluginGoes /\ ~PluginComes /\ (plugin.active => plugin'.active)
  BY StayingSteps
<1>2. /\ ~plugin'.active => plugin'.lastId = 0
      /\ Elements(plugin'.pending) \cup ended' \subseteq 1..plugin'.lastId
      /\ 1..plugin.lastId \subseteq 1..plugin'.lastId
  <2>1. CASE Accepts
    <3>1. /\ plugin'.lastId = plugin.lastId + 1 /\ plugin'.active
          /\ plugin'.pending = Append(plugin.pending, plugin.lastId + 1) /\ ended' = ended
      BY <1>0, <2>1, SpeechLeaves DEF Accepts, Accepted, SpeechTypes
    <3>2. plugin.lastId + 1 \in Nat /\ plugin.pending \in Seq(Nat)
      <4>1. 1..made \subseteq Nat
        BY <1>0
      <4>2. QED
        BY <1>0, <4>1, SeqMonotonic
    <3>3. Elements(plugin'.pending) = Elements(plugin.pending) \cup {plugin.lastId + 1}
      BY <3>1, <3>2, AddedLast
    <3>4. 1..(plugin.lastId + 1) = 1..plugin.lastId \cup {plugin.lastId + 1}
      BY <1>0
    <3>5. QED
      BY <3>1, <3>3, <3>4 DEF Fresh
  <2>2. ASSUME NEW id \in Nat, EndOf(id)
        PROVE  /\ ~plugin'.active => plugin'.lastId = 0
               /\ Elements(plugin'.pending) \cup ended' \subseteq 1..plugin'.lastId
               /\ 1..plugin.lastId \subseteq 1..plugin'.lastId
    <3>1. /\ plugin' = [plugin EXCEPT !.pending = Without(plugin.pending, {id})]
          /\ Elements(plugin'.pending) = Elements(plugin.pending) \ {id}
          /\ ended' = ended \cup {id} /\ id \in Elements(plugin.pending)
      BY <1>0, <2>2, OverFacts DEF EndOf
    <3>2. plugin'.lastId = plugin.lastId /\ plugin'.active = plugin.active
      BY <1>0, <3>1 DEF SpeechTypes
    <3>3. QED
      BY <3>1, <3>2 DEF Fresh
  <2>3. CASE SameSpeeches
    <3>1. plugin'.lastId = plugin.lastId \/ (plugin'.lastId = 0 /\ plugin.lastId = 0 /\ plugin'.active)
      BY <2>3 DEF SameSpeeches, Fresh
    <3>2. QED
      BY <1>1, <2>3, <3>1 DEF SameSpeeches, Fresh
  <2>4. QED
    BY <1>0, <1>1, <2>1, <2>2, <2>3, SpeechMoves
<1>3. /\ \A c \in DOMAIN requested' : requested'[c] \in 1..plugin'.lastId
      /\ \A b, c \in DOMAIN requested' : requested'[b] = requested'[c] => b = c
  <2>1. CASE Note
    <3>1. /\ call.got = plugin.lastId /\ call.got # 0 /\ \A c \in DOMAIN requested : requested[c] # call.got
      BY <2>1, <1>0, AppAt DEF Fresh, Types, CallTypes
    <3>2. \/ requested' = requested
          \/ requested' = [c \in DOMAIN requested \cup {call.id} |->
                             IF c = call.id THEN call.got ELSE requested[c]]
      BY <2>1 DEF Note
    <3>3. call.got \in 1..plugin.lastId
      BY <1>0, <3>1
    <3>4. CASE requested' = requested
      BY <1>2, <3>4 DEF Fresh
    <3>5. QED
      BY <1>2, <3>1, <3>2, <3>3, <3>4 DEF Fresh
  <2>2. CASE EndEvent
    BY <1>2, <2>2, EndForgets DEF Fresh
  <2>3. CASE requested' = requested
    BY <1>2, <2>3 DEF Fresh
  <2>4. QED
    BY <1>0, <2>1, <2>2, <2>3, RequestedSteps
<1>4. ASSUME pc'.app = "note"
      PROVE  call'.got = plugin'.lastId /\ \A c \in DOMAIN requested' : requested'[c] # call'.got
  <2>1. CASE Speaking /\ Accepts /\ call'.got = plugin.lastId + 1
    <3>1. plugin'.lastId = plugin.lastId + 1 /\ requested' = requested
      BY <1>0, <2>1, SpeechLeaves DEF Accepts, SpeechTypes
    <3>2. plugin.lastId + 1 \notin 1..plugin.lastId
      BY <1>0
    <3>3. QED
      BY <2>1, <3>1, <3>2 DEF Fresh
  <2>2. CASE ~AppSteps /\ pc.app = "note" /\ call' = call
    <3>1. plugin.active
      BY <2>2 DEF Staying, Attached, AppKnows, AppStarts, AppUnasked
    <3>2. plugin'.lastId = plugin.lastId
      <4>1. ~Accepts
        BY <2>2 DEF Accepts, AppSteps
      <4>2. \A id \in Nat : EndOf(id) => plugin'.lastId = plugin.lastId
        <5>1. \A id \in Nat : EndOf(id) => plugin' = [plugin EXCEPT !.pending = Without(plugin.pending, {id})]
          BY <1>0, OverFacts DEF EndOf
        <5>2. QED
          BY <1>0, <5>1 DEF SpeechTypes
      <4>3. QED
        BY <1>0, <1>1, <3>1, <4>1, <4>2, SpeechMoves DEF SameSpeeches
    <3>3. requested' = requested \/ EndEvent
      BY <1>0, <2>2, RequestedSteps DEF AppSteps
    <3>4. DOMAIN requested' \subseteq DOMAIN requested /\ \A c \in DOMAIN requested' : requested'[c] = requested[c]
      BY <3>3, EndForgets
    <3>5. QED
      BY <2>2, <3>2, <3>4 DEF Fresh
  <2>3. QED
    BY <1>0, <1>4, <2>1, <2>2, NoteKept
<1>5. QED
  BY <1>2, <1>3, <1>4 DEF Fresh

LEMMA InboxKeeps ==
  ASSUME Types, Next, ~TakeEvent, ~PluginGoes, ~PluginComes
  PROVE  Elements(inbox) \subseteq Elements(inbox')
<1>0. inbox \in Seq(Events) /\ SpeechTypes /\ plugin.enabled \in BOOLEAN
  BY DEF Types, EventTypes, SpeechTypes
<1>1. CASE Activate
  <2>1. inbox' = inbox \/ Arrives(<<Event("activated")>>) \/ Arrives(<<>>)
    BY <1>1 DEF Activate, Activates
  <2>2. Event("activated") \in Events
    BY EventKinds
  <2>3. QED
    BY <1>0, <2>1, <2>2, Added
<1>2. CASE Cancelling \/ SpeechEnds
  <2>1. plugin.pending \in Seq(1..made) /\ made \in Nat /\ call.got \in Nat
    BY DEF Types, SpeechTypes, CallTypes
  <2>2. plugin.pending # <<>> => Head(plugin.pending) \in Nat
    BY <2>1, HeadTailProperties
  <2>3. inbox' = inbox \/ \E id \in Nat : Over(id)
    BY <1>2, <2>1, <2>2 DEF Cancelling, SpeechEnds
  <2>4. \A id \in Nat : Over(id) => Elements(inbox) \subseteq Elements(inbox')
    BY <1>0, OverFacts
  <2>5. QED
    BY <2>3, <2>4
<1>3. CASE Toggles
  <2>1. [Event("state") EXCEPT !.on = ~plugin.enabled] \in Events
    BY <1>0, EventKinds
  <2>2. Arrives(<<[Event("state") EXCEPT !.on = ~plugin.enabled]>>) \/ Arrives(<<>>)
    BY <1>3 DEF Toggles
  <2>3. QED
    BY <1>0, <2>1, <2>2, Added
<1>4. CASE inbox' = inbox
  BY <1>4
<1>5. QED
  BY <1>1, <1>2, <1>3, <1>4, StepKinds, SilentLeaves, LoudLeaves, SpeechLeaves, PluginLeaves
     DEF dataVars

\* The handler of an end forgets the one request with its id, or finds none.
LEMMA EndHandled ==
  ASSUME Staying, Fresh, EndEvent, NEW id, handled.id = id
  PROVE  id \in unnoted' \/ ~Wanted(id)'
<1>0. PlaceTypes /\ SpeechTypes
  BY DEF Staying, Types
<1> DEFINE mine == IF registered THEN Asked(id) ELSE {}
<1>1. CASE mine = {}
  <2>1. unnoted' = unnoted \cup {id}
    BY <1>1 DEF EndEvent
  <2>2. QED
    BY <2>1
<1>2. CASE mine # {}
  <2>1. requested' = Restrict(requested, DOMAIN requested \ {Min(mine)})
    BY <1>2 DEF EndEvent
  <2>2. mine = {c \in DOMAIN requested : requested[c] = id}
    BY <1>2 DEF Asked
  <2>3. Min(mine) \in mine
    <3>1. mine \subseteq Nat
      BY <1>0, <2>2 DEF SpeechTypes
    <3>2. \E k \in mine : \A n \in mine : k <= n
      BY <1>2, <3>1, LeastNatural
    <3> HIDE DEF mine
    <3>3. QED
      BY <3>2 DEF Min
  <2>4. \A c \in mine : c = Min(mine)
    BY <2>2, <2>3 DEF Fresh
  <2> HIDE DEF mine
  <2>5. ~\E c \in DOMAIN requested' : requested'[c] = id
    <3>1. requested' = [c \in DOMAIN requested \ {Min(mine)} |-> requested[c]]
      BY <2>1 DEF Restrict
    <3>2. DOMAIN requested' = DOMAIN requested \ {Min(mine)}
      BY <3>1
    <3>3. \A c \in DOMAIN requested' : requested'[c] = requested[c] /\ c \in DOMAIN requested
      BY <3>1, <3>2
    <3>4. QED
      BY <2>2, <2>4, <3>2, <3>3
  <2>6. ~(pc'.app = "note" /\ call'.got = id)
    <3>1. pc'.app = pc.app /\ call' = call
      BY <1>0 DEF EndEvent, Goto, PlaceTypes, Threads
    <3>2. QED
      BY <1>2, <2>2, <3>1 DEF Fresh
  <2>7. QED
    BY <2>5, <2>6 DEF Wanted
<1>3. QED
  BY <1>1, <1>2

\* An end that was told stays on its way until its handler has had it.
LEMMA ToldStays ==
  ASSUME Staying, Listening, Fresh, NEW id \in ended, EndTold(id), Wanted(id)'
  PROVE  EndTold(id)'
<1>0. Types /\ Next /\ PlaceTypes /\ inbox \in Seq(Events)
  BY DEF Staying, Types, EventTypes
<1>1. Initialized
  BY DEF Listening
<1>2. CASE TakeEvent
  <2>1. inbox # <<>> /\ inbox' = Tail(inbox) /\ pc.callback = "idle"
    BY <1>2 DEF TakeEvent
  <2>2. Elements(inbox) = {Head(inbox)} \cup Elements(inbox')
    BY <1>0, <2>1, HeadElement
  <2>3. unnoted' = unnoted
    <3>1. ~Silent /\ ~StateEvent /\ ~EndEvent
      BY <1>0, <1>2, <2>1, SilentTakesNone, CallbackAt
    <3>2. CASE ClientSame
      BY <3>2 DEF ClientSame, historyVars
    <3>3. CASE ~ClientSame
      <4>1. \/ Note \/ Attaching \/ Speaking \/ Querying \/ Cancelling \/ SpeechEnds \/ Toggles
            \/ \E op \in scene.calls : CallStarts(op)
        BY <1>0, <3>1, <3>3, StepKinds
      <4>2. QED
        <5>1. CASE Note \/ Attaching \/ Speaking \/ Querying
          BY <5>1 DEF Note, Attaching, Speaking, Querying, ClientSame, historyVars
        <5>2. CASE Cancelling \/ SpeechEnds \/ Toggles
          BY <5>2 DEF Cancelling, SpeechEnds, Toggles, historyVars
        <5>3. ASSUME NEW op \in scene.calls, CallStarts(op)
              PROVE  unnoted' = unnoted
          BY <5>3 DEF CallStarts, historyVars
        <5>4. QED
          BY <4>1, <5>1, <5>2, <5>3
    <3>4. QED
      BY <3>2, <3>3
  <2>4. Head(inbox).kind = "end" => pc'.callback = "deliver" /\ handled' = Head(inbox)
    BY <1>0, <1>1, <1>2 DEF TakeEvent, Goto, PlaceTypes, Threads
  <2>5. QED
    BY <2>1, <2>2, <2>3, <2>4 DEF EndTold
<1>3. CASE EndEvent /\ handled.id = id
  BY <1>3, EndHandled DEF EndTold
<1>4. CASE (EndEvent /\ handled.id # id) \/ StateEvent
  <2>1. inbox' = inbox /\ unnoted \subseteq unnoted'
    BY <1>4, SpeechLeaves DEF EndEvent
  <2>2. ~(handled.kind = "end" /\ handled.id = id)
    BY <1>4 DEF StateEvent
  <2>3. QED
    BY <2>1, <2>2 DEF EndTold
<1>5. CASE ~TakeEvent /\ ~EndEvent /\ ~StateEvent
  <2>1. Elements(inbox) \subseteq Elements(inbox')
    BY <1>0, <1>5, StayingSteps, InboxKeeps
  <2>2. unnoted' = unnoted /\ handled' = handled
    BY <1>0, <1>5, StepKinds, SilentLeaves, LoudLeaves, SpeechLeaves, PluginLeaves DEF dataVars
  <2>3. pc.callback = "deliver" => pc'.callback = "deliver"
    <3>1. CASE CallbackSteps
      BY <1>5, <3>1, CallbackAt DEF CallbackSteps, CallbackThread
    <3>2. ASSUME NEW op \in scene.calls, CallStarts(op)
          PROVE  pc'.callback = pc.callback
      BY <1>0, <3>2, CallApart
    <3>3. QED
      BY <1>0, <3>1, <3>2, AppApart, WorkerApart, PluginApart DEF Next
  <2>4. QED
    BY <2>1, <2>2, <2>3 DEF EndTold
<1>6. QED
  BY <1>2, <1>3, <1>4, <1>5

LEMMA EndsReachStep ==
  ASSUME Staying, Listening, Fresh, EndsReach
  PROVE  EndsReach'
<1>0. Types /\ Next /\ SpeechTypes /\ inbox \in Seq(Events) /\ plugin.lastId \in Nat
  BY DEF Staying, Types, EventTypes, SpeechTypes
<1> SUFFICES ASSUME NEW id \in ended', Wanted(id)' PROVE EndTold(id)'
  BY DEF EndsReach
<1>1. CASE EndOf(id)
  <2>1. "speech" \in plugin.subscribed
    BY <1>1 DEF EndOf, Listening
  <2>2. [Event("end") EXCEPT !.id = id] \in Elements(inbox')
    BY <1>0, <1>1, <2>1, OverFacts DEF EndOf
  <2>3. [Event("end") EXCEPT !.id = id].kind = "end" /\ [Event("end") EXCEPT !.id = id].id = id
    BY DEF Event, NoEvent
  <2>4. QED
    BY <2>2, <2>3 DEF EndTold
<1>2. CASE id \in ended
  <2>1. Wanted(id)
    <3>1. CASE \E c \in DOMAIN requested' : requested'[c] = id
      <4>1. CASE Note
        <5>1. \/ requested' = requested
              \/ requested' = [c \in DOMAIN requested \cup {call.id} |->
                                 IF c = call.id THEN call.got ELSE requested[c]]
          BY <4>1 DEF Note
        <5>2. QED
          BY <3>1, <4>1, <5>1, AppAt DEF Wanted
      <4>2. QED
        BY <1>0, <3>1, <4>1, RequestedSteps, EndForgets DEF Wanted
    <3>2. CASE pc'.app = "note" /\ call'.got = id
      <4>1. plugin.lastId + 1 \notin 1..plugin.lastId
        BY <1>0
      <4>2. call'.got # plugin.lastId + 1
        BY <1>2, <3>2, <4>1 DEF Fresh
      <4>3. QED
        BY <1>0, <3>2, <4>2, NoteKept DEF Wanted
    <3>3. QED
      BY <3>1, <3>2 DEF Wanted
  <2>2. EndTold(id)
    BY <1>2, <2>1 DEF EndsReach
  <2>3. QED
    BY <1>2, <2>2, ToldStays
<1>3. id \in ended \/ EndOf(id)
  <2>1. Accepts => ended' = ended
    BY SpeechLeaves DEF Accepts
  <2>2. \A i \in Nat : EndOf(i) => ended' = ended \cup {i}
    BY DEF EndOf, Over
  <2>3. QED
    BY <1>0, <2>1, <2>2, StayingSteps, SpeechMoves DEF SameSpeeches
<1>4. QED
  BY <1>1, <1>2, <1>3

LEMMA EndsStep ==
  ASSUME Types, Ends, Next
  PROVE  Ends'
<1> SUFFICES ASSUME Lasting' PROVE (Attached /\ Listening /\ Fresh /\ EndsReach)'
  BY DEF Ends
<1>1. Lasting
  BY Grows DEF Lasting
<1>2. Staying /\ Listening /\ Fresh /\ EndsReach
  BY <1>1 DEF Ends, Staying
<1>3. QED
  BY <1>2, AttachedStep, ListeningStep, FreshStep, EndsReachStep

LEMMA InitEnds == Init => Ends
<1> SUFFICES ASSUME Init PROVE Ends
  OBVIOUS
<1> USE DEF Init, ServiceInit
<1>1. Elements(inbox) = {} /\ Elements(tasks) = {} /\ Elements(plugin.pending) = {}
  BY NoElement
<1>2. Attached
  BY <1>1 DEF Attached, Clients, AppKnows, AppConnected, AppInitialized, AppStarts, AppUnasked
<1>3. Listening /\ EndsReach
  BY <1>1 DEF Listening, EndsReach
<1>4. Fresh
  BY <1>1 DEF Fresh
<1>5. QED
  BY <1>2, <1>3, <1>4 DEF Ends

LEMMA SameEnds == Ends /\ UNCHANGED vars => Ends'
<1> SUFFICES ASSUME Ends, UNCHANGED vars PROVE Ends'
  OBVIOUS
<1> USE DEF vars, serviceVars, outsideVars, memberVars, workerVars, askVars, otherVars, boundVars,
            clientVars, historyVars
<1>1. (Lasting' <=> Lasting) /\ (Attached' <=> Attached)
  BY DEF Lasting, Attached, AppKnows, AppConnected, AppInitialized
<1>2. (Listening' <=> Listening) /\ (Fresh' <=> Fresh)
  BY DEF Listening, Fresh, Initialized
<1>3. EndsReach' <=> EndsReach
  BY DEF EndsReach, Wanted, EndTold
<1>4. QED
  BY <1>1, <1>2, <1>3 DEF Ends

LEMMA EndsGive ==
  ASSUME Ends
  PROVE  EndIsTold
<1> SUFFICES ASSUME scene.changes = 0, glitches = 0, AtRest, NEW c \in DOMAIN requested, requested[c] \in ended
             PROVE  requested[c] \in unnoted
  BY DEF EndIsTold
<1>1. EndTold(requested[c])
  BY DEF Ends, Lasting, EndsReach, Wanted
<1>2. Elements(inbox) = {} /\ pc.callback = "idle"
  BY NoElement DEF AtRest
<1>3. QED
  BY <1>1, <1>2 DEF EndTold

\* When everything is handled, a speech that has ended is out of the client's
\* map of requests - or its end was handled before speak() had noted it: speak(),
\* registerSpeechEventHandlers() and the handlers of the five ends
\* (TTSClientPrivateJsonRPC.cpp:183-212, 392-436; TextToSpeechService.cpp:75-88),
\* for any speeches, calls and states of a plugin that stays.
THEOREM EndsTold == Spec => []EndIsTold
<1>1. Types /\ Ends /\ [Next]_vars => Ends'
  BY EndsStep, SameEnds
<1>2. QED
  BY <1>1, InitEnds, EndsGive, TypesAlways, PTL DEF Spec

=============
