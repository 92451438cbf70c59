---------------------------- MODULE TTSEventSource ----------------------------
(***************************************************************************)
(* TTSEventSource and its Emit (ttsengine/TTSEventSource.cpp): how an      *)
(* event of the manager or of a session reaches the listeners that clients *)
(* install with "on" and remove with "del".                                *)
(*                                                                         *)
(* sendEvent queues the event and arms a timer; the timer's callback runs  *)
(* on the main loop and sends one event to every listener, waiting for the *)
(* answer of each.  While it waits, the main loop thread dispatches other  *)
(* remote calls, so listeners come and go, and events are sent, inside a   *)
(* Send.  A session's events are sent by the speaker thread as well, at    *)
(* any time; the manager's only by the main loop thread.                   *)
(*                                                                         *)
(* An event is its number, a listener a callback installed for one event   *)
(* name.                                                                   *)
(***************************************************************************)
EXTENDS Naturals, Sequences, FiniteSets, SequencesExt, Subsequence

CONSTANTS
  Listeners,   \* (event name, callback) pairs
  Names,       \* event names
  NameOf,      \* the name a listener is installed for
  Threads,     \* the threads that call sendEvent: "main", "speaker"
  MaxEvents,   \* bound: events sent in a behaviour
  MaxOps       \* bound: listener operations waiting for the end of a Send

ASSUME EventSourceAssumption ==
  /\ IsFiniteSet(Listeners) /\ NameOf \in [Listeners -> Names]
  /\ Threads \subseteq {"main", "speaker"}
  /\ MaxEvents \in Nat /\ MaxOps \in Nat

VARIABLES
  sent,             \* names of the events sent so far; an event is its index
  eventQueue,       \* m_eventQueue
  armed,            \* m_timeoutId # 0: a source of the main loop is attached
  pc, obj, itr,     \* the callback: where it is, its event, the entry it is at
  error,            \* Emit::Send's error
  entries,          \* mEntries
  sendingEvents,    \* m_sendingEvents
  addQueue, delQueue,   \* m_addListenerQueue, m_delListenerQueue
  hanging,          \* m_isRemoteClientHanging
  client,           \* what became of the process and object behind a listener
  wanted,           \* listeners whose last call was "on"
  received,         \* the events each listener was called with
  audience          \* history: the listeners installed when obj was taken

callbackVars == <<pc, obj, itr, error, audience>>
listenerVars == <<entries, addQueue, delQueue, wanted>>
vars == <<sent, eventQueue, armed, callbackVars, listenerVars, sendingEvents,
          hanging, client, received>>

Init ==
  /\ sent = <<>> /\ eventQueue = <<>> /\ armed = FALSE
  /\ pc = "idle" /\ obj = 0 /\ itr = 1 /\ error = "ok" /\ audience = {}
  /\ entries = <<>> /\ addQueue = <<>> /\ delQueue = <<>> /\ wanted = {}
  /\ sendingEvents = FALSE /\ hanging = FALSE
  /\ client = [l \in Listeners |-> "live"]
  /\ received = [l \in Listeners |-> <<>>]

\* The main loop thread serves remote calls between callbacks and while it
\* waits for a listener's answer.
MainServes == pc \in {"idle", "reply"}

-----------------------------------------------------------------------------
\* sendEvent(): queue and arm under m_mutex.
SendEvent(thread, name) ==
  /\ thread = "main" => MainServes
  /\ Len(sent) < MaxEvents
  /\ sent' = Append(sent, name)
  /\ eventQueue' = Append(eventQueue, Len(sent) + 1)
  /\ armed' = TRUE
  /\ UNCHANGED <<callbackVars, listenerVars, sendingEvents, hanging, client, received>>

\* rtEmit::addListener and delListener.
Added(es, l) == IF l \in Elements(es) THEN es ELSE Append(es, l)
Removed(es, l) == Without(es, {l})

AddListenerOrQueue(l) ==
  IF sendingEvents
    THEN /\ Len(addQueue) + Len(delQueue) < MaxOps
         /\ addQueue' = Append(addQueue, l) /\ UNCHANGED entries
    ELSE entries' = Added(entries, l) /\ UNCHANGED addQueue

DelListenerOrQueue(l) ==
  IF sendingEvents
    THEN /\ Len(addQueue) + Len(delQueue) < MaxOps
         /\ delQueue' = Append(delQueue, l) /\ UNCHANGED entries
    ELSE entries' = Removed(entries, l) /\ UNCHANGED delQueue

\* setListener(), the method "on".
SetListener(l) ==
  /\ MainServes /\ l \notin wanted /\ client[l] = "live"
  /\ wanted' = wanted \cup {l}
  /\ AddListenerOrQueue(l)
  /\ UNCHANGED <<sent, eventQueue, armed, callbackVars, delQueue,
                 sendingEvents, hanging, client, received>>

\* delListener(), the method "del".
DelListener(l) ==
  /\ MainServes /\ l \in wanted /\ client[l] = "live"
  /\ wanted' = wanted \ {l}
  /\ DelListenerOrQueue(l)
  /\ UNCHANGED <<sent, eventQueue, armed, callbackVars, addQueue,
                 sendingEvents, hanging, client, received>>

-----------------------------------------------------------------------------
\* handleEvent: take the oldest event, if any, and begin Emit::Send.
Listening(l, name) == NameOf[l] = name

TakeEvent ==
  /\ pc = "idle" /\ armed
  /\ IF eventQueue = <<>>
       THEN pc' = "disarm" /\ UNCHANGED <<eventQueue, obj, itr, error, audience, sendingEvents>>
       ELSE /\ obj' = Head(eventQueue) /\ eventQueue' = Tail(eventQueue)
            /\ sendingEvents' = TRUE /\ error' = "ok" /\ itr' = 1
            /\ audience' = {l \in Elements(entries) : Listening(l, sent[Head(eventQueue)])}
            /\ pc' = "send"
  /\ UNCHANGED <<sent, armed, listenerVars, hanging, client, received>>

\* The loop over mEntries: pass over an entry for another event ...
PassOver ==
  /\ pc = "send" /\ itr <= Len(entries)
  /\ ~Listening(entries[itr], sent[obj])
  /\ itr' = itr + 1
  /\ UNCHANGED <<sent, eventQueue, armed, pc, obj, error, audience, listenerVars,
                 sendingEvents, hanging, client, received>>

\* ... or call the listener, and wait: "SYNC EVENTS".
CallListener ==
  /\ pc = "send" /\ itr <= Len(entries)
  /\ Listening(entries[itr], sent[obj])
  /\ pc' = "reply"
  /\ received' = IF client[entries[itr]] = "live"
                   THEN [received EXCEPT ![entries[itr]] = Append(@, obj)]
                   ELSE received
  /\ UNCHANGED <<sent, eventQueue, armed, obj, itr, error, audience, listenerVars,
                 sendingEvents, hanging, client>>

\* How the call of a listener may come back, and what becomes of its entry.
Outcomes(l) == CASE client[l] = "live"      -> {"ok", "timeout"}
                 [] client[l] = "destroyed" -> {"destroyed"}
                 [] client[l] = "dead"      -> {"closed"}

Keeps(outcome) == outcome \in {"ok", "timeout"}

\* Mutants: the entry after an erased one is skipped; the iterator goes back;
\* a call that timed out is tried again.
NextEntry_Skips(outcome) == itr + 1
NextEntry_Back(outcome) == IF Keeps(outcome) THEN itr + 1 ELSE itr - 1
NextEntry_Retries(outcome) == IF outcome = "ok" THEN itr + 1 ELSE itr

NextEntry(outcome) == IF Keeps(outcome) THEN itr + 1 ELSE itr

\* TTS_OBJECT_DESTROYED comes back with RT_OK.
Reply ==
  /\ pc = "reply"
  /\ \E outcome \in Outcomes(entries[itr]) :
       /\ error' = IF outcome = "destroyed" THEN "ok" ELSE outcome
       /\ entries' = IF Keeps(outcome) THEN entries ELSE RemoveAt(entries, itr)
       /\ itr' = NextEntry(outcome)
  /\ pc' = "send"
  /\ UNCHANGED <<sent, eventQueue, armed, obj, audience, addQueue, delQueue,
                 wanted, sendingEvents, hanging, client, received>>

\* Mutant: the removals are forgotten.
Settled_KeepsRemoved == entries \o Unknown(addQueue, Elements(entries))

\* The listeners after the queued operations, additions first: what is not
\* installed yet is added, once, and then all that was removed is taken out.
Settled ==
  Without(entries \o Unknown(addQueue, Elements(entries)), Elements(delQueue))

\* The end of Send and what handleEvent makes of its error, that of the last
\* listener called: clearListeners() drops every entry.
EndSend ==
  /\ pc = "send" /\ itr > Len(entries)
  /\ sendingEvents' = FALSE
  /\ entries' = IF error = "closed" THEN <<>> ELSE Settled
  /\ addQueue' = <<>> /\ delQueue' = <<>>
  /\ hanging' = (error # "ok")
  /\ pc' = "more"
  /\ UNCHANGED <<sent, eventQueue, armed, obj, itr, error, audience, wanted, client, received>>

\* Mutant: one event, one timer.
AfterEvent_OneShot == "disarm"

\* The queue is tested without m_mutex: come back for more, or ...
AfterEvent == IF eventQueue # <<>> THEN "idle" ELSE "disarm"

More ==
  /\ pc = "more"
  /\ pc' = AfterEvent
  /\ UNCHANGED <<sent, eventQueue, armed, obj, itr, error, audience, listenerVars,
                 sendingEvents, hanging, client, received>>

\* ... m_timeoutId = 0, under m_mutex, and the source is removed.
Disarm ==
  /\ pc = "disarm"
  /\ pc' = "idle" /\ armed' = FALSE
  /\ UNCHANGED <<sent, eventQueue, obj, itr, error, audience, listenerVars,
                 sendingEvents, hanging, client, received>>

\* A client destroys the object its callback belongs to, or dies (external).
ClientGoes(l) ==
  /\ client[l] = "live"
  /\ client' \in {[client EXCEPT ![l] = fate] : fate \in {"destroyed", "dead"}}
  /\ UNCHANGED <<sent, eventQueue, armed, callbackVars, listenerVars,
                 sendingEvents, hanging, received>>

Callback == TakeEvent \/ PassOver \/ CallListener \/ Reply \/ EndSend \/ More \/ Disarm

Next ==
  \/ \E t \in Threads : \E n \in Names : SendEvent(t, n)
  \/ \E l \in Listeners : SetListener(l) \/ DelListener(l) \/ ClientGoes(l)
  \/ Callback

Spec == Init /\ [][Next]_vars

\* An attached source is dispatched, and every remote call comes back, if only
\* by its timeout.
FairSpec == Spec /\ WF_vars(Callback)

-----------------------------------------------------------------------------
(* Properties.                                                             *)

Events == 1..MaxEvents

TypeOK ==
  /\ sent \in Seq(Names) /\ Len(sent) <= MaxEvents
  /\ eventQueue \in Seq(Events) /\ armed \in BOOLEAN
  /\ pc \in {"idle", "send", "reply", "more", "disarm"}
  /\ obj \in 0..MaxEvents /\ itr \in 1..(Cardinality(Listeners) + 1)
  /\ error \in {"ok", "timeout", "closed"}
  /\ entries \in Seq(Listeners)
  /\ addQueue \in Seq(Listeners) /\ delQueue \in Seq(Listeners)
  /\ sendingEvents \in BOOLEAN /\ hanging \in BOOLEAN
  /\ client \in [Listeners -> {"live", "destroyed", "dead"}]
  /\ wanted \subseteq Listeners /\ audience \subseteq Listeners
  /\ received \in [Listeners -> Seq(Events)]

\* A listener is called with the events of its name in the order they were
\* sent, none of them twice (TTSEventSource.cpp:57-81, 122-127).
InOrder ==
  \A l \in Listeners :
    /\ \A i \in 1..Len(received[l]) : Listening(l, sent[received[l][i]])
    /\ \A i \in 1..(Len(received[l]) - 1) : received[l][i] < received[l][i + 1]

\* When the loop over mEntries ends, every listener that was installed for the
\* event when it was taken, and is still alive, was called with it, whatever
\* entries were erased and whatever listeners came and went meanwhile
\* (TTSEventSource.cpp:30-48, 57-81).
NobodySkipped ==
  pc = "send" /\ itr > Len(entries) =>
    \A l \in audience : client[l] = "live" => obj \in Elements(received[l])

\* Once a Send is over nothing is left in the queues of operations, and no
\* listener that was taken back is still installed (TTSEventSource.cpp:83-96).
RemovalsTakeEffect ==
  ~sendingEvents =>
    /\ addQueue = <<>> /\ delQueue = <<>>
    /\ Elements(entries) \subseteq wanted

\* An event that is queued before the callback has found the queue empty is
\* taken up, and with it every event before it.  This is so of all the events
\* the main loop thread sends; an event of the speaker thread that comes
\* between the test of the queue and m_timeoutId = 0 waits for the next event
\* (TTSEventSource.cpp:117-130, 153-173).
EventsAreTaken ==
  \A e \in Events :
    (Len(sent) >= e /\ armed /\ pc # "disarm") ~> (obj >= e)
=============================================================================
