-------------------------- MODULE TTSSession_proofs --------------------------
(***************************************************************************)
(* Proofs about TTSSession for any set of sessions and any number of       *)
(* setConfiguration calls and speeches.                                    *)
(*                                                                         *)
(* Neither property is inductive.  Halfway through setConfiguration some   *)
(* sessions still have the configuration before the last; a session stays  *)
(* out of the speaker's way because what the speaker's thread stores is    *)
(* always that of a session in deferred; and what a speech copies is fresh *)
(* because the session it is for never falls behind floor.                 *)
(***************************************************************************)
EXTENDS TTSSession, TLAPS

MainPCs    == {"wait", "next", "test", "putAway", "remember"} \cup Fields
SpeakerPCs == {"idle", "taken", "speak", "storeEndPoint", "storeVoice", "forget", "end"} \cup Fields

\* The two threads' records, and that a thread at rest has nothing left.
Shape ==
  /\ main \in [pc : MainPCs, session : Sessions \cup {"none"}, todo : SUBSET Sessions]
  /\ speaker \in [pc : SpeakerPCs, session : Sessions \cup {"none"}, cancelled : BOOLEAN,
                  copy : Configurations]
  /\ main.pc = "wait" => main = Waiting
  /\ main.pc # "wait" => default >= 1

\* setConfiguration has yet to store field f in session s.
Pending(s, f) ==
  \/ s \in main.todo
  \/ s = main.session /\ (main.pc \in {"test", "endPoint"} \/ (main.pc = "voice" /\ f = "voice"))

\* A session that never put a configuration away is at most one behind, and
\* only as long as setConfiguration has yet to reach it.
OneBehind ==
  \A s \in created \ deferred : \A f \in Fields :
    /\ config[s][f] = default \/ config[s][f] + 1 = default
    /\ ~Pending(s, f) => config[s][f] = default

\* What is put away, and what is stored by the speaker's thread, is of a
\* session that has put a configuration away.
OnlyDeferred ==
  /\ \A s \in Sessions : having[s] => s \in deferred
  /\ main.pc \in {"putAway", "remember"} => main.session \in deferred
  /\ speaker.pc \in {"storeEndPoint", "storeVoice"} => speaker.session \in deferred

\* The fields of the configuration that the speech has copied.
CopiedFields ==
  {f \in Fields : speaker.pc = "speak" \/ (speaker.pc = "voice" /\ f = "endPoint")}

\* The session of a speech does not fall behind floor, and neither does what
\* the speech has copied.
Fresh ==
  /\ floor <= default
  /\ speaker.pc # "idle" /\ speaker.session \notin deferred =>
       /\ \A f \in Fields : config[speaker.session][f] >= floor
       /\ \A f \in CopiedFields : speaker.copy[f] \in floor..default

Inv == TypeOK /\ Shape /\ OneBehind /\ OnlyDeferred /\ Fresh

\* The initial state satisfies the invariant.
LEMMA InitInv == Init => Inv
BY SessionAssumption
   DEF Init, Inv, TypeOK, Shape, OneBehind, OnlyDeferred, Fresh, MainPCs, SpeakerPCs, Pending,
       CopiedFields, Waiting, Idle, Whole, Fields, Configurations

-----------------------------------------------------------------------------
(* The calls of the app, handled by the main thread.                       *)

\* createSession keeps the invariant: the new session has the default.
LEMMA CreateStep ==
  ASSUME Inv, NEW s \in Sessions, CreateSession(s)
  PROVE  Inv'
<1> USE SessionAssumption DEF Inv, CreateSession, Fields, Whole
<1>1. TypeOK'
  BY DEF TypeOK, Configurations, Waiting, Idle
<1>2. Shape'
  BY DEF TypeOK, Shape
<1>3. OneBehind'
  BY DEF TypeOK, Shape, OneBehind, Pending, Waiting, Configurations
<1>4. OnlyDeferred'
  BY DEF OnlyDeferred
<1>5. Fresh'
  BY DEF TypeOK, Fresh, CopiedFields, Idle
<1>6. QED
  BY <1>1, <1>2, <1>3, <1>4, <1>5

\* setActive and setInactive keep the invariant: they leave the
\* configurations alone.
LEMMA ActiveStep ==
  ASSUME Inv, NEW s \in Sessions, SetActive(s) \/ SetInactive(s)
  PROVE  Inv'
<1> USE SessionAssumption DEF Inv, SetActive, SetInactive, IsSpeaking, Fields, Whole
<1>1. /\ UNCHANGED <<default, created, config, tmp, having, main, speeches, deferred, floor>>
      /\ speaker' \in [pc : SpeakerPCs, session : Sessions \cup {"none"}, cancelled : BOOLEAN,
                       copy : Configurations]
      /\ speaker'.pc = speaker.pc /\ speaker'.session = speaker.session
      /\ speaker'.copy = speaker.copy
      /\ speaker.pc = "idle" => speaker' = speaker
  BY DEF Shape, TypeOK, Idle
<1>2. active' \subseteq created
  BY DEF TypeOK
<1>3. TypeOK'
  BY <1>1, <1>2 DEF TypeOK, Shape, SpeakerPCs, Idle
<1>4. Shape'
  BY <1>1 DEF Shape
<1>5. OneBehind'
  BY <1>1 DEF OneBehind, Pending
<1>6. OnlyDeferred'
  BY <1>1 DEF OnlyDeferred
<1>7. Fresh'
  BY <1>1 DEF Fresh, CopiedFields
<1>8. QED
  BY <1>3, <1>4, <1>5, <1>6, <1>7

\* setConfiguration keeps the invariant: every session is pending.
LEMMA ConfigureStep ==
  ASSUME Inv, SetConfiguration
  PROVE  Inv'
<1> USE SessionAssumption DEF Inv, SetConfiguration, Fields, Whole, Waiting
<1>1. TypeOK'
  BY DEF TypeOK, Configurations, Idle
<1>2. Shape'
  BY DEF TypeOK, Shape, MainPCs
<1>3. OneBehind'
  BY DEF TypeOK, Shape, OneBehind, Pending, Configurations
<1>4. OnlyDeferred'
  BY DEF OnlyDeferred
<1>5. Fresh'
  BY DEF TypeOK, Fresh, CopiedFields, Idle, Shape, Configurations
<1>6. QED
  BY <1>1, <1>2, <1>3, <1>4, <1>5

-----------------------------------------------------------------------------
(* setConfiguration, session by session.                                   *)

\* The steps of setConfiguration keep the invariant up to what they write to
\* a configuration: they only move the main thread on.
LEMMA MainTypes ==
  ASSUME Inv, Main
  PROVE  TypeOK' /\ Shape'
<1> USE SessionAssumption DEF Inv, Fields, Whole, Waiting, MainGoto
<1>1. CASE NextSession
  BY <1>1 DEF NextSession, TypeOK, Shape, Configurations, MainPCs, SpeakerPCs, Idle
<1>2. CASE TestSpeaking
  BY <1>2 DEF TestSpeaking, TypeOK, Shape, Configurations, MainPCs, SpeakerPCs, Idle
<1>3. CASE PutAway
  BY <1>3 DEF PutAway, TypeOK, Shape, Configurations, MainPCs, SpeakerPCs, Idle
<1>4. CASE Remember
  BY <1>4 DEF Remember, TypeOK, Shape, Configurations, MainPCs, SpeakerPCs, Idle
<1>5. CASE UpdateWith
  BY <1>5 DEF UpdateWith, TypeOK, Shape, Configurations, MainPCs, SpeakerPCs, Idle
<1>6. QED
  BY <1>1, <1>2, <1>3, <1>4, <1>5 DEF Main

\* The steps of setConfiguration keep the invariant.
LEMMA MainStep ==
  ASSUME Inv, Main
  PROVE  Inv'
<1> USE SessionAssumption DEF Inv, Fields, Whole, Waiting, MainGoto
<1>1. TypeOK' /\ Shape'
  BY MainTypes
<1>2. CASE NextSession
  BY <1>1, <1>2 DEF NextSession, TypeOK, Shape, OneBehind, Pending, OnlyDeferred, Fresh,
                    CopiedFields, MainPCs
<1>3. CASE TestSpeaking
  BY <1>1, <1>3 DEF TestSpeaking, TypeOK, Shape, OneBehind, Pending, OnlyDeferred, Fresh,
                    CopiedFields, MainPCs
<1>4. CASE PutAway
  BY <1>1, <1>4 DEF PutAway, TypeOK, Shape, OneBehind, Pending, OnlyDeferred, Fresh,
                    CopiedFields, MainPCs
<1>5. CASE Remember
  BY <1>1, <1>5 DEF Remember, TypeOK, Shape, OneBehind, Pending, OnlyDeferred, Fresh,
                    CopiedFields, MainPCs
<1>6. CASE UpdateWith
  <2> USE <1>1, <1>6 DEF UpdateWith
  <2>1. OneBehind'
    BY DEF TypeOK, Shape, OneBehind, Pending, Configurations, MainPCs
  <2>2. OnlyDeferred'
    BY DEF OnlyDeferred, MainPCs
  <2>3. Fresh'
    BY DEF TypeOK, Fresh, CopiedFields, Configurations
  <2>4. QED
    BY <2>1, <2>2, <2>3
<1>7. QED
  BY <1>2, <1>3, <1>4, <1>5, <1>6 DEF Main

-----------------------------------------------------------------------------
(* The speaker's thread.                                                   *)

\* A speech is taken from the queue: its session is not behind floor, for
\* outside setConfiguration it is not behind at all.
LEMMA DequeueStep ==
  ASSUME Inv, NEW s \in Sessions, Dequeue(s)
  PROVE  Inv'
<1> USE SessionAssumption DEF Inv, Dequeue, Fields, Whole
<1>1. TypeOK'
  BY DEF TypeOK, Shape, Configurations, Idle
<1>2. Shape'
  BY DEF TypeOK, Shape, SpeakerPCs, Configurations, Idle
<1>3. OneBehind' /\ OnlyDeferred'
  BY DEF OneBehind, Pending, OnlyDeferred, Idle
<1>4. Fresh'
  <2>1. s \in created
    BY DEF TypeOK
  <2>2. floor' <= default /\ floor' \in Nat
    BY DEF TypeOK, Shape
  <2>3. ASSUME s \notin deferred, NEW f \in Fields PROVE config[s][f] >= floor'
    <3>1. config[s][f] \in Nat
      BY <2>1 DEF TypeOK, Configurations
    <3>2. CASE main = Waiting
      BY <2>1, <2>3, <3>1, <3>2 DEF TypeOK, Waiting, OneBehind, Pending
    <3>3. CASE main # Waiting
      BY <2>1, <2>3, <3>1, <3>3 DEF TypeOK, OneBehind
    <3>4. QED
      BY <3>2, <3>3
  <2>4. QED
    BY <2>2, <2>3 DEF Fresh, CopiedFields, Idle
<1>5. QED
  BY <1>1, <1>2, <1>3, <1>4

\* The steps that speak keep the invariant: what is copied is of the session,
\* what is stored is stored in one that has put a configuration away.
LEMMA SpeakerStep ==
  ASSUME Inv, Speaker
  PROVE  Inv'
<1> USE SessionAssumption DEF Inv, Fields, Whole, SpeakerGoto
<1>1. CASE SetSpeaking
  BY <1>1 DEF SetSpeaking, TypeOK, Shape, OneBehind, Pending, OnlyDeferred, Fresh, CopiedFields,
              SpeakerPCs, Configurations, Idle
<1>2. CASE CopyField
  <2> USE <1>2 DEF CopyField
  <2>1. speaker.session \in created
    BY DEF TypeOK, Idle
  <2>2. TypeOK' /\ Shape'
    <3>1. config[speaker.session][speaker.pc] \in 0..MaxSets
      BY <2>1 DEF TypeOK, Configurations
    <3>2. speaker' \in [pc : SpeakerPCs, session : Sessions \cup {"none"}, cancelled : BOOLEAN,
                        copy : Configurations]
      BY <3>1 DEF Shape, SpeakerPCs, Configurations
    <3>3. speaker'.session = speaker.session /\ speaker'.pc \in {"voice", "speak"}
      BY DEF Shape
    <3>4. QED
      BY <2>1, <3>2, <3>3 DEF TypeOK, Shape, SpeakerPCs
  <2>3. OneBehind'
    BY DEF OneBehind, Pending
  <2>4. OnlyDeferred'
    <3>1. speaker'.pc \in {"voice", "speak"}
      BY DEF Shape
    <3>2. QED
      BY <3>1 DEF OnlyDeferred
  <2>5. Fresh'
    <3>1. speaker'.session = speaker.session /\ speaker'.pc # "idle" /\ floor' = floor
      BY DEF Shape, SpeakerPCs
    <3>2. ASSUME speaker.session \notin deferred, NEW f \in CopiedFields'
          PROVE  speaker'.copy[f] \in floor..default
      <4>1. CASE speaker.pc = f
        <5>1. speaker'.copy[f] = config[speaker.session][f]
          BY <4>1 DEF Shape, Configurations
        <5>2. config[speaker.session][f] \in 0..default
          BY <2>1, <3>2, <4>1 DEF TypeOK, OneBehind, Configurations
        <5>3. config[speaker.session][f] >= floor
          BY <3>2, <4>1 DEF Fresh
        <5>4. QED
          BY <5>1, <5>2, <5>3 DEF TypeOK
      <4>2. CASE speaker.pc # f
        BY <3>2, <4>2 DEF Shape, SpeakerPCs, Fresh, CopiedFields, Configurations
      <4>3. QED
        BY <4>1, <4>2
    <3>3. QED
      BY <3>1, <3>2 DEF Fresh
  <2>6. QED
    BY <2>2, <2>3, <2>4, <2>5
<1>3. ASSUME NEW outcome \in Outcomes, Report(outcome) PROVE Inv'
  BY <1>3 DEF Report, TypeOK, Shape, OneBehind, Pending, OnlyDeferred, Fresh, CopiedFields,
              SpeakerPCs, Configurations, Idle
<1>4. CASE StoreField
  <2> USE <1>4 DEF StoreField, StoredField
  <2>1. speaker.session \in deferred /\ speaker.session \in created
    BY DEF OnlyDeferred, TypeOK
  <2>2. TypeOK' /\ Shape'
    BY <2>1 DEF TypeOK, Shape, SpeakerPCs, Configurations, Idle
  <2>3. OneBehind' /\ OnlyDeferred'
    BY <2>1 DEF TypeOK, Shape, SpeakerPCs, OneBehind, Pending, OnlyDeferred
  <2>4. Fresh'
    BY <2>1 DEF Shape, SpeakerPCs, Fresh
  <2>5. QED
    BY <2>2, <2>3, <2>4
<1>5. CASE Forget
  <2> USE <1>5 DEF Forget
  <2>1. TypeOK' /\ Shape'
    BY DEF TypeOK, Shape, SpeakerPCs, Configurations, Idle
  <2>2. OneBehind' /\ OnlyDeferred'
    BY DEF TypeOK, Shape, SpeakerPCs, OneBehind, Pending, OnlyDeferred
  <2>3. Fresh'
    BY DEF Shape, SpeakerPCs, Fresh, CopiedFields
  <2>4. QED
    BY <2>1, <2>2, <2>3
<1>6. CASE EndSpeaking
  BY <1>6 DEF EndSpeaking, TypeOK, Shape, OneBehind, Pending, OnlyDeferred, Fresh, CopiedFields,
              SpeakerPCs, Configurations, Idle
<1>7. QED
  BY <1>1, <1>2, <1>3, <1>4, <1>5, <1>6 DEF Speaker

-----------------------------------------------------------------------------
(* The theorems.                                                           *)

\* Every step keeps the invariant.
LEMMA NextInv == Inv /\ [Next]_vars => Inv'
<1> SUFFICES ASSUME Inv, [Next]_vars PROVE Inv'
  OBVIOUS
<1>1. ASSUME NEW s \in Sessions, CreateSession(s) \/ SetActive(s) \/ SetInactive(s) \/ Dequeue(s)
      PROVE  Inv'
  BY <1>1, CreateStep, ActiveStep, DequeueStep
<1>2. CASE SetConfiguration
  BY <1>2, ConfigureStep
<1>3. CASE Main
  BY <1>3, MainStep
<1>4. CASE Speaker
  BY <1>4, SpeakerStep
<1>5. CASE UNCHANGED vars
  BY <1>5 DEF vars, Inv, TypeOK, Shape, OneBehind, Pending, OnlyDeferred, Fresh, CopiedFields
<1>6. QED
  BY <1>1, <1>2, <1>3, <1>4, <1>5 DEF Next

\* The invariant holds of every behaviour, for any sessions and bounds.
THEOREM Invariance == Spec => []Inv
<1>1. QED
  BY InitInv, NextInv, PTL DEF Spec

\* The variables of the session keep their types.
THEOREM TypeCorrect == Spec => []TypeOK
<1>1. Inv => TypeOK
  BY DEF Inv
<1>2. QED
  BY Invariance, <1>1, PTL

\* Between calls of setConfiguration every session that never put one away
\* has the default.
THEOREM DefaultReaches == Spec => []DefaultReachesAll
<1>1. Inv => DefaultReachesAll
  BY DEF Inv, TypeOK, Configurations, OneBehind, Pending, Waiting, Whole, Fields,
         DefaultReachesAll
<1>2. QED
  BY Invariance, <1>1, PTL

\* A speech of such a session is spoken with what setConfiguration had handed
\* out when the speech was taken, or later.
THEOREM SpokenFresh == Spec => []SpokenWithCurrent
<1>1. Inv => SpokenWithCurrent
  BY DEF Inv, Fresh, CopiedFields, SpokenWithCurrent
<1>2. QED
  BY Invariance, <1>1, PTL
=============================================================================
