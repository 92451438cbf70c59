------------------------- MODULE TTSEventSource_proofs -------------------------
(***************************************************************************)
(* Proofs about TTSEventSource, for any listeners, threads and bounds:     *)
(* events reach a listener in their order, no listener that stays is       *)
(* passed over, and removals take effect.                                  *)
(*                                                                         *)
(* The loop over mEntries erases entries it stands on while its audience   *)
(* waits.  Loop says of the entries still ahead of it that none was called *)
(* with this event, and of the audience that each is ahead or was called.  *)
(* Taken ties the number of an event to its place in the queue, so that an *)
(* event that is taken is newer than everything received.                  *)
(***************************************************************************)
EXTENDS TTSEventSource, Subsequence_proofs

\* The event queue holds the events that were sent and not taken, in order.
Taken ==
  /\ Len(sent) = obj + Len(eventQueue)
  /\ \A i \in 1..Len(eventQueue) : eventQueue[i] = obj + i

\* Sending goes on from the taking of an event to the end of the loop; only
\* then are operations queued.
Operations ==
  /\ sendingEvents <=> pc \in {"send", "reply"}
  /\ sendingEvents => obj # 0
  /\ ~sendingEvents => addQueue = <<>> /\ delQueue = <<>>
  /\ Distinct(entries)
  /\ (Elements(entries) \cup Elements(addQueue)) \ Elements(delQueue) \subseteq wanted

\* Nothing is received that was not taken.
Received ==
  \A l \in Listeners : \A i \in 1..Len(received[l]) : received[l][i] <= obj

\* The entries the loop still has to visit.
Ahead == (IF pc = "reply" THEN itr + 1 ELSE itr)..Len(entries)

\* The entries ahead were not called with this event; the audience listens for
\* its name and was called, or is ahead, or is gone.
Loop ==
  sendingEvents =>
    /\ itr <= Len(entries) + 1 /\ (pc = "reply" => itr <= Len(entries))
    /\ \A i \in Ahead : obj \notin Elements(received[entries[i]])
    /\ \A l \in audience : Listening(l, sent[obj])
    /\ \A l \in audience :
         \/ client[l] # "live"
         \/ obj \in Elements(received[l])
         \/ \E i \in Ahead : entries[i] = l

Inv == TypeOK /\ Taken /\ Operations /\ Received /\ InOrder /\ Loop

-----------------------------------------------------------------------------
(* Lists of listeners.                                                     *)

LEMMA AddedFacts ==
  ASSUME NEW S, NEW s \in Seq(S), NEW x \in S
  PROVE  /\ Added(s, x) \in Seq(S)
         /\ Elements(Added(s, x)) = Elements(s) \cup {x}
         /\ Distinct(s) => Distinct(Added(s, x))
BY AddedLast DEF Added

LEMMA RemovedFacts ==
  ASSUME NEW S, NEW s \in Seq(S), NEW x \in S
  PROVE  /\ Removed(s, x) \in Seq(S)
         /\ Elements(Removed(s, x)) = Elements(s) \ {x}
         /\ Distinct(s) => Distinct(Removed(s, x))
BY WithoutFacts DEF Removed

\* The operations that were queued leave what was installed or added and not
\* removed, each listener once.
LEMMA SettledFacts ==
  ASSUME entries \in Seq(Listeners), addQueue \in Seq(Listeners), Distinct(entries)
  PROVE  /\ Settled \in Seq(Listeners) /\ Distinct(Settled)
         /\ Elements(Settled) = (Elements(entries) \cup Elements(addQueue)) \ Elements(delQueue)
<1> DEFINE new == Unknown(addQueue, Elements(entries))
           all == entries \o new
<1>1. new \in Seq(Listeners) /\ Elements(new) = Elements(addQueue) \ Elements(entries) /\ Distinct(new)
  BY UnknownFacts
<1> HIDE DEF new
<1>2. /\ all \in Seq(Listeners) /\ Elements(all) = Elements(entries) \cup Elements(new)
      /\ Distinct(all)
  BY <1>1, JoinedFacts
<1> HIDE DEF all
<1>3. /\ Without(all, Elements(delQueue)) \in Seq(Listeners)
      /\ Elements(Without(all, Elements(delQueue))) = Elements(all) \ Elements(delQueue)
      /\ Distinct(Without(all, Elements(delQueue)))
  BY <1>2, WithoutFacts
<1>4. Settled = Without(all, Elements(delQueue))
  BY DEF Settled, all, new
<1>5. QED
  BY <1>1, <1>2, <1>3, <1>4

\* What a listener was called with are numbers.
LEMMA ReceivedNumbers ==
  ASSUME TypeOK, NEW l \in Listeners
  PROVE  /\ received[l] \in Seq(Events) /\ Len(received[l]) \in Nat
         /\ \A i \in 1..Len(received[l]) : received[l][i] \in Nat
<1>1. received[l] \in Seq(Events)
  BY DEF TypeOK
<1>2. Events \subseteq Nat
  BY EventSourceAssumption DEF Events
<1>3. \A i \in 1..Len(received[l]) : received[l][i] \in Events
  BY <1>1, ElementOfSeq
<1>4. QED
  BY <1>1, <1>2, <1>3, LenProperties

-----------------------------------------------------------------------------
(* The invariant.                                                          *)

LEMMA InitInv == Init => Inv
<1> SUFFICES ASSUME Init PROVE Inv
  OBVIOUS
<1> USE EventSourceAssumption DEF Init
<1>1. /\ <<>> \in Seq(Names) /\ <<>> \in Seq(Events) /\ <<>> \in Seq(Listeners) /\ Len(<<>>) = 0
      /\ Cardinality(Listeners) \in Nat
  BY EmptySeq, FS_CardinalityType
<1>2. TypeOK
  <2>1. received \in [Listeners -> Seq(Events)]
    BY <1>1
  <2>2. obj \in 0..MaxEvents /\ itr \in 1..(Cardinality(Listeners) + 1) /\ Len(sent) <= MaxEvents
    BY <1>1
  <2>3. client \in [Listeners -> {"live", "destroyed", "dead"}]
    OBVIOUS
  <2>4. QED
    BY <1>1, <2>1, <2>2, <2>3 DEF TypeOK
<1>3. Taken /\ Received /\ InOrder /\ Loop
  BY <1>1 DEF Taken, Received, InOrder, Loop
<1>4. Operations
  BY <1>1 DEF Operations, Distinct, Elements
<1>5. QED
  BY <1>2, <1>3, <1>4 DEF Inv

\* An event is sent.
LEMMA SendEventStep ==
  ASSUME Inv, NEW thread \in Threads, NEW name \in Names, SendEvent(thread, name)
  PROVE  Inv'
<1> USE DEF callbackVars, listenerVars
<1>1. /\ Len(sent) < MaxEvents /\ sent' = Append(sent, name)
      /\ eventQueue' = Append(eventQueue, Len(sent) + 1) /\ armed' = TRUE
      /\ UNCHANGED <<pc, obj, itr, error, audience, entries, addQueue, delQueue, wanted,
                     sendingEvents, hanging, client, received>>
  BY DEF SendEvent
<1>2. TypeOK /\ Taken /\ Operations /\ Received /\ InOrder /\ Loop
  BY DEF Inv
<1>3. /\ Len(sent) \in Nat /\ Len(eventQueue) \in Nat /\ MaxEvents \in Nat
      /\ Len(sent) + 1 \in Events /\ obj \in Nat
  BY <1>1, <1>2, LenProperties, EventSourceAssumption DEF TypeOK, Events
<1>4. /\ sent' \in Seq(Names) /\ Len(sent') = Len(sent) + 1
      /\ \A i \in 1..Len(sent) : sent'[i] = sent[i]
  BY <1>1, <1>2, AppendProperties DEF TypeOK
<1>5. /\ eventQueue' \in Seq(Events) /\ Len(eventQueue') = Len(eventQueue) + 1
      /\ eventQueue'[Len(eventQueue) + 1] = Len(sent) + 1
      /\ \A i \in 1..Len(eventQueue) : eventQueue'[i] = eventQueue[i]
  BY <1>1, <1>2, <1>3, AppendProperties DEF TypeOK
<1>6. TypeOK'
  BY <1>1, <1>2, <1>3, <1>4, <1>5 DEF TypeOK
<1>7. Taken'
  <2>1. Len(sent) = obj + Len(eventQueue) /\ \A i \in 1..Len(eventQueue) : eventQueue[i] = obj + i
    BY <1>2 DEF Taken
  <2>2. ASSUME NEW i \in 1..(Len(eventQueue) + 1)
        PROVE  eventQueue'[i] = obj + i
    <3>1. i \in 1..Len(eventQueue) \/ i = Len(eventQueue) + 1
      BY <1>3
    <3>2. Len(sent) + 1 = obj + (Len(eventQueue) + 1)
      BY <1>3, <2>1
    <3>3. QED
      BY <1>5, <2>1, <3>1, <3>2
  <2>3. Len(sent') = obj + Len(eventQueue')
    BY <1>3, <1>4, <1>5, <2>1
  <2>4. QED
    BY <1>1, <1>5, <2>2, <2>3 DEF Taken
<1>8. Operations' /\ Received' /\ Loop'
  <2>1. Operations' /\ Received'
    <3>1. Operations'
      BY <1>1, <1>2 DEF Operations
    <3>2. Received'
      BY <1>1, <1>2 DEF Received
    <3>3. QED
      BY <3>1, <3>2
  <2>2. sendingEvents => sent'[obj] = sent[obj]
    <3>1. sendingEvents => obj \in 1..Len(sent)
      BY <1>2, <1>3 DEF Taken, Operations
    <3>2. QED
      BY <1>4, <3>1
  <2>3. Loop'
    <3>1. sendingEvents => \A l \in audience : Listening(l, sent'[obj])
      BY <1>2, <2>2 DEF Loop
    <3>2. Ahead' = Ahead
      BY <1>1 DEF Ahead
    <3>3. ASSUME sendingEvents
          PROVE  /\ itr <= Len(entries) + 1 /\ (pc = "reply" => itr <= Len(entries))
                 /\ \A i \in Ahead : obj \notin Elements(received[entries[i]])
                 /\ \A l \in audience : client[l] # "live" \/ obj \in Elements(received[l])
                                         \/ \E i \in Ahead : entries[i] = l
      BY <1>2, <3>3 DEF Loop
    <3>4. CASE ~sendingEvents
      BY <1>1, <3>4 DEF Loop
    <3>5. CASE sendingEvents
      BY <1>1, <3>1, <3>2, <3>3, <3>5 DEF Loop, Listening
    <3>6. QED
      BY <3>4, <3>5
  <2>4. QED
    BY <2>1, <2>3
<1>9. InOrder'
  <2>1. \A l \in Listeners : \A i \in 1..Len(received[l]) : received[l][i] \in 1..Len(sent)
    <3>1. \A l \in Listeners : received[l] \in Seq(Events)
      BY <1>2 DEF TypeOK
    <3>2. \A l \in Listeners : \A i \in 1..Len(received[l]) : received[l][i] \in Events
      BY <3>1, ElementOfSeq
    <3>3. obj <= Len(sent)
      BY <1>2, <1>3 DEF Taken
    <3>4. QED
      BY <1>2, <1>3, <3>2, <3>3 DEF Received, Events
  <2>2. QED
    BY <1>1, <1>2, <1>4, <2>1 DEF InOrder, Listening
<1>10. QED
  BY <1>6, <1>7, <1>8, <1>9 DEF Inv

\* A listener is installed or taken back, at once or at the end of the Send.
LEMMA ListenerStep ==
  ASSUME Inv, NEW l \in Listeners, SetListener(l) \/ DelListener(l)
  PROVE  Inv'
<1> USE DEF callbackVars, listenerVars
<1>1. /\ \/ wanted' = wanted \cup {l} /\ delQueue' = delQueue
            /\ \/ sendingEvents /\ addQueue' = Append(addQueue, l) /\ entries' = entries
               \/ ~sendingEvents /\ addQueue' = addQueue /\ entries' = Added(entries, l)
         \/ wanted' = wanted \ {l} /\ addQueue' = addQueue
            /\ \/ sendingEvents /\ delQueue' = Append(delQueue, l) /\ entries' = entries
               \/ ~sendingEvents /\ delQueue' = delQueue /\ entries' = Removed(entries, l)
      /\ UNCHANGED <<sent, eventQueue, armed, pc, obj, itr, error, audience, sendingEvents, hanging,
                     client, received>>
  BY DEF SetListener, DelListener, AddListenerOrQueue, DelListenerOrQueue
<1>2. TypeOK /\ Taken /\ Operations /\ Received /\ InOrder /\ Loop
  BY DEF Inv
<1>3. entries \in Seq(Listeners) /\ addQueue \in Seq(Listeners) /\ delQueue \in Seq(Listeners)
      /\ Distinct(entries)
  BY <1>2 DEF TypeOK, Operations
<1>4. /\ Append(addQueue, l) \in Seq(Listeners) /\ Append(delQueue, l) \in Seq(Listeners)
      /\ Elements(Append(addQueue, l)) = Elements(addQueue) \cup {l}
      /\ Elements(Append(delQueue, l)) = Elements(delQueue) \cup {l}
  BY <1>3, AddedLast
<1>5. /\ Added(entries, l) \in Seq(Listeners) /\ Distinct(Added(entries, l))
      /\ Elements(Added(entries, l)) = Elements(entries) \cup {l}
  BY <1>3, AddedFacts
<1>6. /\ Removed(entries, l) \in Seq(Listeners) /\ Distinct(Removed(entries, l))
      /\ Elements(Removed(entries, l)) = Elements(entries) \ {l}
  BY <1>3, RemovedFacts
<1>7. TypeOK'
  BY <1>1, <1>2, <1>4, <1>5, <1>6 DEF TypeOK
<1>8. Taken' /\ Received' /\ InOrder'
  BY <1>1, <1>2 DEF Taken, Received, InOrder, Listening
<1>9. Operations'
  <2>1. ~sendingEvents => Elements(addQueue) = {} /\ Elements(delQueue) = {}
    BY <1>2, <1>3, ElementsFacts DEF Operations
  <2>2. Distinct(entries')
    BY <1>1, <1>3, <1>5, <1>6
  <2>3. (Elements(entries') \cup Elements(addQueue')) \ Elements(delQueue') \subseteq wanted'
    BY <1>1, <1>2, <1>4, <1>5, <1>6, <2>1 DEF Operations
  <2>4. QED
    BY <1>1, <1>2, <2>2, <2>3 DEF Operations
<1>10. Loop'
  BY <1>1, <1>2 DEF Loop, Ahead, Elements, Listening
<1>11. QED
  BY <1>7, <1>8, <1>9, <1>10 DEF Inv

\* The callback takes the oldest event, or finds none.
LEMMA TakeEventStep ==
  ASSUME Inv, TakeEvent
  PROVE  Inv'
<1> USE DEF listenerVars
<1>1. TypeOK /\ Taken /\ Operations /\ Received /\ InOrder
  BY DEF Inv
<1>2. pc = "idle" /\ ~sendingEvents /\ UNCHANGED <<sent, entries, addQueue, delQueue, wanted, client, received, hanging, armed>>
  BY <1>1 DEF TakeEvent, Operations
<1>3. CASE eventQueue = <<>>
  <2>1. pc' = "disarm" /\ UNCHANGED <<eventQueue, obj, itr, error, audience, sendingEvents>>
    BY <1>3 DEF TakeEvent
  <2>2. TypeOK'
    BY <1>1, <1>2, <2>1 DEF TypeOK
  <2>3. Taken' /\ Received' /\ InOrder' /\ Loop'
    BY <1>1, <1>2, <2>1 DEF Taken, Received, InOrder, Listening, Loop
  <2>4. Operations'
    BY <1>1, <1>2, <2>1 DEF Operations, Elements, Distinct
  <2>5. QED
    BY <2>2, <2>3, <2>4 DEF Inv
<1>4. CASE eventQueue # <<>>
  <2>1. /\ obj' = Head(eventQueue) /\ eventQueue' = Tail(eventQueue)
        /\ sendingEvents' = TRUE /\ error' = "ok" /\ itr' = 1 /\ pc' = "send"
        /\ audience' \subseteq Elements(entries)
        /\ \A l \in audience' : Listening(l, sent[Head(eventQueue)])
    BY <1>4 DEF TakeEvent
  <2>2. /\ Len(eventQueue) \in Nat \ {0} /\ Head(eventQueue) = eventQueue[1]
        /\ Head(eventQueue) \in Events /\ obj \in Nat /\ Len(sent) \in Nat
    <3>1. eventQueue \in Seq(Events) /\ obj \in Nat /\ sent \in Seq(Names)
      BY <1>1, EventSourceAssumption DEF TypeOK
    <3>2. QED
      BY <1>4, <3>1, EmptySeq, HeadTailProperties, ElementOfSeq, LenProperties
  <2>3. obj' = obj + 1
    BY <1>1, <2>1, <2>2 DEF Taken
  <2>4. /\ Tail(eventQueue) \in Seq(Events) /\ Len(Tail(eventQueue)) = Len(eventQueue) - 1
        /\ \A i \in 1..(Len(eventQueue) - 1) : Tail(eventQueue)[i] = eventQueue[i + 1]
    BY <1>1, <1>4, HeadTailProperties DEF TypeOK
  <2>5. Taken'
    <3>1. ASSUME NEW i \in 1..(Len(eventQueue) - 1)
          PROVE  Tail(eventQueue)[i] = obj + 1 + i
      <4>1. i + 1 \in 1..Len(eventQueue)
        BY <2>2
      <4>2. QED
        BY <1>1, <2>2, <2>4, <4>1 DEF Taken
    <3>2. Len(sent) = obj + 1 + (Len(eventQueue) - 1)
      BY <1>1, <2>2 DEF Taken
    <3>3. \A i \in 1..Len(Tail(eventQueue)) : Tail(eventQueue)[i] = obj + 1 + i
      BY <2>4, <3>1
    <3>4. QED
      BY <1>2, <2>1, <2>3, <2>4, <3>2, <3>3 DEF Taken
  <2>6. TypeOK'
    <3>1. Elements(entries) \subseteq Listeners /\ Cardinality(Listeners) \in Nat
      BY <1>1, ElementsFacts, FS_CardinalityType, EventSourceAssumption DEF TypeOK
    <3>2. obj' \in 0..MaxEvents /\ eventQueue' \in Seq(Events)
      BY <2>1, <2>2, <2>4, EventSourceAssumption DEF Events
    <3>3. QED
      BY <1>1, <1>2, <2>1, <3>1, <3>2 DEF TypeOK
  <2>7. ASSUME NEW l \in Listeners, NEW i \in 1..Len(received[l])
        PROVE  received[l][i] \in Nat /\ received[l][i] <= obj /\ received[l][i] # obj + 1
    <3>1. PICK r \in Nat : received[l][i] = r
      BY <1>1, ReceivedNumbers
    <3>2. r <= obj
      BY <1>1, <3>1 DEF Received
    <3>3. QED
      BY <2>2, <3>1, <3>2
  <2>8. Received' /\ InOrder'
    <3>1. \A l \in Listeners : \A i \in 1..Len(received[l]) : received[l][i] <= obj + 1
      BY <2>2, <2>7
    <3>2. Received'
      BY <1>2, <2>3, <3>1 DEF Received
    <3>3. InOrder'
      BY <1>1, <1>2 DEF InOrder, Listening
    <3>4. QED
      BY <3>2, <3>3
  <2>9. Operations'
    BY <1>1, <1>2, <2>1, <2>2, <2>3 DEF Operations, Elements, Distinct
  <2>10. Loop'
    <3>1. Len(entries) \in Nat /\ \A i \in 1..Len(entries) : entries[i] \in Listeners
      BY <1>1, LenProperties, ElementOfSeq DEF TypeOK
    <3>2. \A i \in 1..Len(entries) : obj + 1 \notin Elements(received[entries[i]])
      BY <2>7, <3>1 DEF Elements
    <3>3. Ahead' = 1..Len(entries)
      BY <1>2, <2>1 DEF Ahead
    <3>4. \A l \in audience' : \E i \in 1..Len(entries) : entries[i] = l
      BY <2>1 DEF Elements
    <3>5. \A i \in Ahead' : obj' \notin Elements(received'[entries'[i]])
      BY <1>2, <2>3, <3>2, <3>3
    <3>6. \A l \in audience' : \E i \in Ahead' : entries'[i] = l
      BY <1>2, <3>3, <3>4
    <3>7. itr' <= Len(entries') + 1 /\ pc' # "reply"
      BY <1>2, <2>1, <3>1
    <3>8. \A l \in audience' : Listening(l, sent'[obj'])
      BY <1>2, <2>1
    <3>9. QED
      BY <3>5, <3>6, <3>7, <3>8 DEF Loop, Listening
  <2>11. QED
    BY <2>5, <2>6, <2>8, <2>9, <2>10 DEF Inv
<1>5. QED
  BY <1>3, <1>4

\* The loop passes over the entry of another event: none of the audience.
LEMMA PassOverStep ==
  ASSUME Inv, PassOver
  PROVE  Inv'
<1> USE DEF listenerVars
<1>1. TypeOK /\ Taken /\ Operations /\ Received /\ InOrder /\ Loop
  BY DEF Inv
<1>2. /\ pc = "send" /\ sendingEvents /\ itr <= Len(entries) /\ itr' = itr + 1
      /\ ~Listening(entries[itr], sent[obj])
      /\ UNCHANGED <<sent, eventQueue, armed, pc, obj, error, audience, entries, addQueue, delQueue,
                     wanted, sendingEvents, hanging, client, received>>
  BY <1>1 DEF PassOver, Operations
<1>3. itr \in Nat \ {0} /\ Len(entries) \in Nat /\ Cardinality(Listeners) \in Nat
      /\ Len(entries) <= Cardinality(Listeners)
  <2>1. entries \in Seq(Listeners) /\ Distinct(entries) /\ IsFiniteSet(Listeners)
    BY <1>1, EventSourceAssumption DEF TypeOK, Operations
  <2>2. Len(entries) \in Nat /\ Cardinality(Listeners) \in Nat /\ Len(entries) <= Cardinality(Listeners)
    BY <2>1, DistinctLength
  <2>3. QED
    BY <1>1, <2>2 DEF TypeOK
<1>4. TypeOK'
  <2>1. itr' \in 1..(Cardinality(Listeners) + 1)
    BY <1>2, <1>3
  <2>2. QED
    BY <1>1, <1>2, <2>1 DEF TypeOK
<1>5. Taken' /\ Received' /\ InOrder'
  BY <1>1, <1>2 DEF Taken, Received, InOrder, Listening
<1>6. Operations'
  BY <1>1, <1>2 DEF Operations, Elements, Distinct
<1>7. Loop'
  <2>1. Ahead = itr..Len(entries) /\ Ahead' = (itr + 1)..Len(entries)
    BY <1>2 DEF Ahead
  <2>2. \A i \in Ahead : i = itr \/ i \in Ahead'
    BY <1>3, <2>1
  <2>3. \A i \in Ahead' : i \in Ahead
    BY <1>3, <2>1
  <2>4. ASSUME NEW l \in audience, NEW i \in Ahead, entries[i] = l
        PROVE  i \in Ahead'
    BY <1>1, <1>2, <2>2, <2>4 DEF Loop
  <2>5. itr' <= Len(entries) + 1
    BY <1>2, <1>3
  <2>6. QED
    BY <1>1, <1>2, <2>3, <2>4, <2>5 DEF Loop, Listening
<1>8. QED
  BY <1>4, <1>5, <1>6, <1>7 DEF Inv

\* The places of the loop, once for all the steps that move it.
LEMMA LoopPlaces ==
  ASSUME Inv, sendingEvents
  PROVE  /\ itr \in Nat \ {0} /\ Len(entries) \in Nat /\ Cardinality(Listeners) \in Nat
         /\ Len(entries) <= Cardinality(Listeners)
         /\ \A i \in 1..Len(entries) : entries[i] \in Listeners
<1>1. entries \in Seq(Listeners) /\ Distinct(entries) /\ IsFiniteSet(Listeners)
  BY EventSourceAssumption DEF Inv, TypeOK, Operations
<1>2. Len(entries) \in Nat /\ Cardinality(Listeners) \in Nat /\ Len(entries) <= Cardinality(Listeners)
  BY <1>1, DistinctLength
<1>3. \A i \in 1..Len(entries) : entries[i] \in Listeners
  BY <1>1, ElementOfSeq
<1>4. QED
  BY <1>2, <1>3 DEF Inv, TypeOK

\* A listener is called, if it is still there.
LEMMA CallListenerStep ==
  ASSUME Inv, CallListener
  PROVE  Inv'
<1> USE DEF listenerVars
<1> DEFINE e == entries[itr]
<1>1. TypeOK /\ Taken /\ Operations /\ Received /\ InOrder /\ Loop
  BY DEF Inv
<1>2. /\ pc = "send" /\ sendingEvents /\ itr <= Len(entries) /\ pc' = "reply"
      /\ Listening(e, sent[obj])
      /\ received' = IF client[e] = "live" THEN [received EXCEPT ![e] = Append(@, obj)] ELSE received
      /\ UNCHANGED <<sent, eventQueue, armed, obj, itr, error, audience, entries, addQueue, delQueue,
                     wanted, sendingEvents, hanging, client>>
  BY <1>1 DEF CallListener, Operations
<1>3. /\ itr \in Nat \ {0} /\ Len(entries) \in Nat /\ e \in Listeners /\ itr \in 1..Len(entries)
      /\ \A i \in 1..Len(entries) : entries[i] \in Listeners
  BY <1>2, LoopPlaces
<1>4. obj \in Events /\ obj \in Nat
  BY <1>1, <1>2, EventSourceAssumption DEF TypeOK, Operations, Events
<1>5. obj \notin Elements(received[e])
  BY <1>1, <1>2, <1>3 DEF Loop, Ahead
<1>6. /\ received[e] \in Seq(Events) /\ Len(received[e]) \in Nat
      /\ \A i \in 1..Len(received[e]) : received[e][i] \in Nat
  BY <1>1, <1>3, ReceivedNumbers
<1> DEFINE new == Append(received[e], obj)
<1>7. /\ new \in Seq(Events) /\ Len(new) = Len(received[e]) + 1 /\ new[Len(received[e]) + 1] = obj
      /\ \A i \in 1..Len(received[e]) : new[i] = received[e][i]
  BY <1>4, <1>6, AppendProperties
<1>8. obj \in Elements(new)
  <2>1. Len(received[e]) + 1 \in 1..Len(new)
    BY <1>6, <1>7
  <2>2. QED
    BY <1>7, <2>1 DEF Elements
<1>9. ASSUME NEW i \in 1..Len(new)
      PROVE  \/ i \in 1..Len(received[e]) /\ new[i] = received[e][i]
             \/ i = Len(received[e]) + 1 /\ new[i] = obj
  BY <1>6, <1>7
<1> HIDE DEF new, e
<1>10. /\ \A l \in Listeners : l # e => received'[l] = received[l]
       /\ received'[e] = IF client[e] = "live" THEN new ELSE received[e]
  BY <1>1, <1>2, <1>3 DEF TypeOK, new
<1>11. TypeOK'
  <2>1. received' \in [Listeners -> Seq(Events)]
    BY <1>1, <1>2, <1>7 DEF TypeOK, new
  <2>2. QED
    BY <1>1, <1>2, <2>1 DEF TypeOK
<1>12. Taken' /\ Operations'
  BY <1>1, <1>2 DEF Taken, Operations, Elements, Distinct
<1>13. Received'
  <2>1. \A i \in 1..Len(new) : new[i] <= obj
    <3>1. \A i \in 1..Len(received[e]) : received[e][i] <= obj
      BY <1>1, <1>3 DEF Received
    <3>2. obj <= obj
      BY <1>4
    <3>3. QED
      BY <1>9, <3>1, <3>2
  <2>2. QED
    BY <1>1, <1>2, <1>3, <1>10, <2>1 DEF Received
<1>14. InOrder'
  <2>1. ASSUME NEW i \in 1..Len(new) PROVE Listening(e, sent[new[i]])
    BY <1>1, <1>2, <1>3, <1>9 DEF InOrder
  <2>2. ASSUME NEW i \in 1..(Len(new) - 1) PROVE new[i] < new[i + 1]
    <3>1. i \in 1..Len(received[e]) /\ new[i] = received[e][i]
      BY <1>6, <1>7
    <3>2. CASE i = Len(received[e])
      <4>1. new[i + 1] = obj
        BY <1>7, <3>2
      <4>2. received[e][i] <= obj /\ received[e][i] # obj /\ received[e][i] \in Nat
        BY <1>1, <1>3, <1>5, <1>6, <3>1 DEF Received, Elements
      <4>3. QED
        BY <1>4, <3>1, <4>1, <4>2
    <3>3. CASE i # Len(received[e])
      <4>1. i \in 1..(Len(received[e]) - 1) /\ i + 1 \in 1..Len(received[e])
        BY <1>6, <3>1, <3>3
      <4>2. new[i + 1] = received[e][i + 1]
        BY <1>7, <4>1
      <4>3. received[e][i] < received[e][i + 1]
        BY <1>1, <1>3, <4>1 DEF InOrder
      <4>4. QED
        BY <3>1, <4>2, <4>3
    <3>4. QED
      BY <3>2, <3>3
  <2>3. ASSUME NEW l \in Listeners
        PROVE  /\ \A i \in 1..Len(received'[l]) : Listening(l, sent[received'[l][i]])
               /\ \A i \in 1..(Len(received'[l]) - 1) : received'[l][i] < received'[l][i + 1]
    <3>1. CASE received'[l] = received[l]
      BY <1>1, <3>1 DEF InOrder
    <3>2. CASE l = e /\ received'[l] = new
      BY <2>1, <2>2, <3>2
    <3>3. QED
      BY <1>10, <3>1, <3>2
  <2>4. QED
    BY <1>2, <2>3 DEF InOrder, Listening
<1>15. Loop'
  <2>1. Ahead = itr..Len(entries) /\ Ahead' = (itr + 1)..Len(entries)
    BY <1>2 DEF Ahead
  <2>2. \A i \in Ahead : i = itr \/ i \in Ahead'
    BY <1>3, <2>1
  <2>3. \A i \in Ahead' : i \in Ahead /\ i # itr /\ i \in 1..Len(entries)
    BY <1>3, <2>1
  <2>4. ASSUME NEW i \in Ahead' PROVE obj \notin Elements(received'[entries[i]])
    <3>1. entries[i] # e /\ entries[i] \in Listeners
      BY <1>1, <1>3, <2>3 DEF Operations, Distinct, e
    <3>2. obj \notin Elements(received[entries[i]])
      BY <1>1, <1>2, <2>3 DEF Loop
    <3>3. QED
      BY <1>10, <3>1, <3>2
  <2>5. ASSUME NEW l \in audience
        PROVE  \/ client[l] # "live"
               \/ obj \in Elements(received'[l])
               \/ \E i \in Ahead' : entries[i] = l
    <3>1. l \in Listeners
      BY <1>1 DEF TypeOK
    <3>2. CASE l = e
      BY <1>8, <1>10, <3>2
    <3>3. CASE l # e
      <4>1. received'[l] = received[l]
        BY <1>10, <3>1, <3>3
      <4>2. client[l] # "live" \/ obj \in Elements(received[l]) \/ \E i \in Ahead : entries[i] = l
        BY <1>1, <1>2 DEF Loop
      <4>3. ASSUME NEW i \in Ahead, entries[i] = l PROVE i \in Ahead'
        BY <2>2, <3>3, <4>3 DEF e
      <4>4. QED
        BY <4>1, <4>2, <4>3
    <3>4. QED
      BY <3>2, <3>3
  <2>6. \A l \in audience : Listening(l, sent[obj])
    BY <1>1, <1>2 DEF Loop
  <2>7. QED
    BY <1>2, <1>3, <2>4, <2>5, <2>6 DEF Loop, Listening
<1>16. QED
  BY <1>11, <1>12, <1>13, <1>14, <1>15 DEF Inv

\* An answer comes, and the loop goes on behind the entry or in its place.
LEMMA ReplyStep ==
  ASSUME Inv, Reply
  PROVE  Inv'
<1> USE DEF listenerVars
<1>1. TypeOK /\ Taken /\ Operations /\ Received /\ InOrder /\ Loop
  BY DEF Inv
<1>2. /\ pc = "reply" /\ sendingEvents /\ pc' = "send"
      /\ UNCHANGED <<sent, eventQueue, armed, obj, audience, addQueue, delQueue, wanted,
                     sendingEvents, hanging, client, received>>
  BY <1>1 DEF Reply, Operations
<1>3. itr <= Len(entries)
  BY <1>1, <1>2 DEF Loop
<1>4. /\ itr \in Nat \ {0} /\ Len(entries) \in Nat /\ Cardinality(Listeners) \in Nat
      /\ Len(entries) <= Cardinality(Listeners) /\ itr \in 1..Len(entries)
  BY <1>2, <1>3, LoopPlaces
<1>5. PICK outcome \in Outcomes(entries[itr]) :
        /\ error' = IF outcome = "destroyed" THEN "ok" ELSE outcome
        /\ entries' = IF Keeps(outcome) THEN entries ELSE RemoveAt(entries, itr)
        /\ itr' = NextEntry(outcome)
  BY DEF Reply
<1>6. outcome \in {"ok", "timeout", "destroyed", "closed"}
  <2>1. entries[itr] \in Listeners
    BY <1>2, <1>4, LoopPlaces
  <2>2. client[entries[itr]] \in {"live", "destroyed", "dead"}
    BY <1>1, <2>1 DEF TypeOK
  <2>3. QED
    BY <1>5, <2>2 DEF Outcomes
<1>7. error' \in {"ok", "timeout", "closed"}
  BY <1>5, <1>6
<1> DEFINE rest == RemoveAt(entries, itr)
<1>8. /\ rest \in Seq(Listeners) /\ Len(rest) = Len(entries) - 1
      /\ \A j \in itr..(Len(entries) - 1) : rest[j] = entries[j + 1]
      /\ Elements(rest) \subseteq Elements(entries) /\ Distinct(rest)
  <2>1. entries \in Seq(Listeners) /\ Distinct(entries)
    BY <1>1 DEF TypeOK, Operations
  <2>2. rest = SubSeq(entries, 1, itr - 1) \o SubSeq(entries, itr + 1, Len(entries))
    BY DEF RemoveAt
  <2>3. QED
    BY <1>4, <2>1, <2>2, ErasedFacts
<1> HIDE DEF rest
<1>9. \/ entries' = entries /\ itr' = itr + 1
      \/ entries' = rest /\ itr' = itr
  BY <1>5 DEF rest, NextEntry
<1>10. TypeOK'
  <2>1. itr' \in 1..(Cardinality(Listeners) + 1)
    BY <1>4, <1>9
  <2>2. entries' \in Seq(Listeners)
    BY <1>1, <1>8, <1>9 DEF TypeOK
  <2>3. QED
    BY <1>1, <1>2, <1>7, <2>1, <2>2 DEF TypeOK
<1>11. Taken' /\ Received' /\ InOrder'
  BY <1>1, <1>2 DEF Taken, Received, InOrder, Listening
<1>12. Operations'
  <2>1. Distinct(entries') /\ Elements(entries') \subseteq Elements(entries)
    <3>1. Distinct(entries)
      BY <1>1 DEF Operations
    <3>2. QED
      BY <1>8, <1>9, <3>1
  <2>2. Elements(addQueue') = Elements(addQueue) /\ Elements(delQueue') = Elements(delQueue)
    BY <1>2
  <2>3. QED
    BY <1>1, <1>2, <2>1, <2>2 DEF Operations
<1>13. Loop'
  <2>1. Ahead = (itr + 1)..Len(entries) /\ Ahead' = itr'..Len(entries')
    BY <1>2 DEF Ahead
  \* What is ahead now was ahead, and what was ahead still is.
  <2>2. ASSUME NEW i \in Ahead' PROVE \E j \in Ahead : entries'[i] = entries[j]
    <3>1. CASE entries' = entries /\ itr' = itr + 1
      BY <2>1, <3>1
    <3>2. CASE entries' = rest /\ itr' = itr
      <4>1. i \in itr..(Len(entries) - 1) /\ i + 1 \in Ahead
        BY <1>4, <1>8, <2>1, <3>2
      <4>2. QED
        BY <1>8, <3>2, <4>1
    <3>3. QED
      BY <1>9, <3>1, <3>2
  <2>3. ASSUME NEW j \in Ahead PROVE \E i \in Ahead' : entries'[i] = entries[j]
    <3>1. CASE entries' = entries /\ itr' = itr + 1
      BY <2>1, <3>1
    <3>2. CASE entries' = rest /\ itr' = itr
      <4>1. j - 1 \in itr..(Len(entries) - 1) /\ j - 1 \in Ahead' /\ (j - 1) + 1 = j
        BY <1>4, <1>8, <2>1, <3>2
      <4>2. rest[j - 1] = entries[(j - 1) + 1]
        BY <1>8, <4>1
      <4>3. QED
        BY <3>2, <4>1, <4>2
    <3>3. QED
      BY <1>9, <3>1, <3>2
  <2>4. itr' <= Len(entries') + 1
    BY <1>4, <1>8, <1>9
  <2>5. \A i \in Ahead' : obj \notin Elements(received[entries'[i]])
    BY <1>1, <1>2, <2>2 DEF Loop
  <2>6. \A l \in audience :
          client[l] # "live" \/ obj \in Elements(received[l]) \/ \E i \in Ahead' : entries'[i] = l
    BY <1>1, <1>2, <2>3 DEF Loop
  <2>7. \A l \in audience : Listening(l, sent[obj])
    BY <1>1, <1>2 DEF Loop
  <2>8. QED
    BY <1>2, <2>4, <2>5, <2>6, <2>7 DEF Loop, Listening
<1>14. QED
  BY <1>10, <1>11, <1>12, <1>13 DEF Inv

\* The Send ends, and the operations that waited for it are done.
LEMMA EndSendStep ==
  ASSUME Inv, EndSend
  PROVE  Inv'
<1>1. TypeOK /\ Taken /\ Operations /\ Received /\ InOrder
  BY DEF Inv
<1>2. /\ ~sendingEvents' /\ addQueue' = <<>> /\ delQueue' = <<>> /\ pc' = "more"
      /\ hanging' \in BOOLEAN
      /\ entries' = <<>> \/ entries' = Settled
      /\ UNCHANGED <<sent, eventQueue, armed, obj, itr, error, audience, wanted, client, received>>
  BY DEF EndSend
<1>3. /\ Settled \in Seq(Listeners) /\ Distinct(Settled)
      /\ Elements(Settled) \subseteq wanted
  BY <1>1, SettledFacts DEF TypeOK, Operations
<1>4. <<>> \in Seq(Listeners) /\ Distinct(<<>>) /\ Elements(<<>>) = {}
  BY EmptySeq DEF Distinct, Elements
<1>5. /\ entries' \in Seq(Listeners) /\ Distinct(entries') /\ Elements(entries') \subseteq wanted
  BY <1>2, <1>3, <1>4
<1>6. TypeOK'
  <2>1. addQueue' \in Seq(Listeners) /\ delQueue' \in Seq(Listeners)
    BY <1>2, <1>4
  <2>2. pc' \in {"idle", "send", "reply", "more", "disarm"} /\ sendingEvents' \in BOOLEAN
    BY <1>2 DEF EndSend
  <2>3. QED
    BY <1>1, <1>2, <1>5, <2>1, <2>2 DEF TypeOK
<1>7. Taken' /\ Received' /\ InOrder' /\ Loop'
  BY <1>1, <1>2 DEF Taken, Received, InOrder, Listening, Loop
<1>8. Operations'
  <2>1. Elements(addQueue') = {} /\ Elements(delQueue') = {}
    BY <1>2, <1>4
  <2>2. QED
    BY <1>1, <1>2, <1>5, <2>1 DEF Operations
<1>9. QED
  BY <1>6, <1>7, <1>8 DEF Inv

\* Between two Sends; and the end of a client, at any time.
LEMMA BetweenSteps ==
  ASSUME Inv, More \/ Disarm \/ (\E l \in Listeners : ClientGoes(l)) \/ UNCHANGED vars
  PROVE  Inv'
<1> USE DEF listenerVars, callbackVars, vars
<1>1. TypeOK /\ Taken /\ Operations /\ Received /\ InOrder /\ Loop
  BY DEF Inv
<1>2. UNCHANGED <<sent, eventQueue, obj, itr, error, audience, entries, addQueue, delQueue, wanted,
                  sendingEvents, hanging, received>>
  BY DEF More, Disarm, ClientGoes
<1>3. /\ armed' = FALSE \/ armed' = armed
      /\ pc' = pc \/ (~sendingEvents /\ pc' \in {"idle", "disarm"})
      /\ client' \in [Listeners -> {"live", "destroyed", "dead"}]
      /\ \A l \in Listeners : client'[l] = client[l] \/ client'[l] # "live"
  <2>1. CASE More \/ Disarm \/ UNCHANGED vars
    BY <1>1, <2>1 DEF More, Disarm, AfterEvent, TypeOK, Operations
  <2>2. ASSUME NEW l \in Listeners, ClientGoes(l)
        PROVE  <1>3!1 /\ <1>3!2 /\ <1>3!3 /\ <1>3!4
    <3>1. PICK fate \in {"destroyed", "dead"} : client' = [client EXCEPT ![l] = fate]
      BY <2>2 DEF ClientGoes
    <3>2. armed' = armed /\ pc' = pc
      BY <2>2 DEF ClientGoes
    <3>3. QED
      BY <1>1, <3>1, <3>2 DEF TypeOK
  <2>3. QED
    BY <2>1, <2>2
<1>4. TypeOK'
  BY <1>1, <1>2, <1>3 DEF TypeOK
<1>5. Taken' /\ Received' /\ InOrder'
  BY <1>1, <1>2 DEF Taken, Received, InOrder, Listening
<1>6. Operations'
  BY <1>1, <1>2, <1>3 DEF Operations, Elements, Distinct
<1>7. Loop'
  <2>1. CASE ~sendingEvents
    BY <1>2, <2>1 DEF Loop
  <2>2. CASE sendingEvents
    <3>1. pc' = pc /\ Ahead' = Ahead
      BY <1>2, <1>3, <2>2 DEF Ahead
    <3>2. audience \subseteq Listeners
      BY <1>1 DEF TypeOK
    <3>3. QED
      BY <1>1, <1>2, <1>3, <2>2, <3>1, <3>2 DEF Loop, Listening, Elements
  <2>3. QED
    BY <2>1, <2>2
<1>8. QED
  BY <1>4, <1>5, <1>6, <1>7 DEF Inv

LEMMA StepInv ==
  ASSUME Inv, [Next]_vars
  PROVE  Inv'
<1>1. CASE \E t \in Threads : \E n \in Names : SendEvent(t, n)
  BY <1>1, SendEventStep
<1>2. CASE \E l \in Listeners : SetListener(l) \/ DelListener(l)
  BY <1>2, ListenerStep
<1>3. CASE TakeEvent \/ PassOver \/ CallListener \/ Reply \/ EndSend
  BY <1>3, TakeEventStep, PassOverStep, CallListenerStep, ReplyStep, EndSendStep
<1>4. CASE More \/ Disarm \/ (\E l \in Listeners : ClientGoes(l)) \/ UNCHANGED vars
  BY <1>4, BetweenSteps
<1>5. QED
  BY <1>1, <1>2, <1>3, <1>4 DEF Next, Callback

\* The invariant holds of every behaviour, whatever the fairness.
LEMMA EventSourceInvariant == Spec => []Inv
<1>1. QED
  BY InitInv, StepInv, PTL DEF Spec

-----------------------------------------------------------------------------
(* What the run EventDelivery checks on three listeners.                   *)

\* Every variable has its type; the number of events sent bounds what is
\* queued, taken and received, the number of listeners the loop.
THEOREM TypesAreKept == Spec => []TypeOK
<1>1. Inv => TypeOK
  BY DEF Inv
<1>2. QED
  BY <1>1, EventSourceInvariant, PTL

\* Each listener is called with the events of its name in the order they were
\* sent, none of them twice, whatever its client and the other listeners do
\* while the callback waits (TTSEventSource.cpp:57-81, 122-127).
THEOREM EventsComeInOrder == Spec => []InOrder
<1>1. Inv => InOrder
  BY DEF Inv
<1>2. QED
  BY <1>1, EventSourceInvariant, PTL

\* At the end of the loop nothing is ahead, so that the audience that is alive
\* was called, whatever entries were erased (TTSEventSource.cpp:30-48, 57-81).
THEOREM NobodyIsSkipped == Spec => []NobodySkipped
<1>1. ASSUME Inv PROVE NobodySkipped
  <2>1. SUFFICES ASSUME pc = "send", itr > Len(entries), NEW l \in audience, client[l] = "live"
                 PROVE  obj \in Elements(received[l])
    BY DEF NobodySkipped
  <2>2. sendingEvents /\ Loop
    BY <1>1, <2>1 DEF Inv, Operations
  <2>3. Ahead = {}
    BY <1>1, <2>1, <2>2, LoopPlaces DEF Ahead
  <2>4. QED
    BY <2>1, <2>2, <2>3 DEF Loop
<1>2. QED
  BY <1>1, EventSourceInvariant, PTL

\* No operation is left waiting when the Send is over, and no listener is
\* installed that was taken back (TTSEventSource.cpp:83-96).
THEOREM RemovalsAreDone == Spec => []RemovalsTakeEffect
<1>1. ASSUME Inv PROVE RemovalsTakeEffect
  <2>1. SUFFICES ASSUME ~sendingEvents
                 PROVE  addQueue = <<>> /\ delQueue = <<>> /\ Elements(entries) \subseteq wanted
    BY DEF RemovalsTakeEffect
  <2>2. /\ addQueue = <<>> /\ delQueue = <<>>
        /\ (Elements(entries) \cup Elements(addQueue)) \ Elements(delQueue) \subseteq wanted
    BY <1>1, <2>1 DEF Inv, Operations
  <2>3. Elements(<<>>) = {}
    BY EmptySeq DEF Elements
  <2>4. QED
    BY <2>2, <2>3
<1>2. QED
  BY <1>1, EventSourceInvariant, PTL
=============================================================================
