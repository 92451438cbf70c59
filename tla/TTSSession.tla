------------------------------ MODULE TTSSession ------------------------------
(***************************************************************************)
(* The configuration of a session (ttsengine/TTSSession.cpp) as the main   *)
(* thread, in TTSManager::setConfiguration, and the speaker's thread, when *)
(* it speaks, read and write it.  The manager keeps the default; a new one *)
(* goes to every session, which stores it at once or, when it is speaking, *)
(* puts it away to be stored when the speech has been spoken.              *)
(*                                                                         *)
(* A configuration is a function from its fields to versions, the number   *)
(* of the setConfiguration call the field's value is from: two fields are  *)
(* enough to see a copy that is taken halfway through an update.  An       *)
(* update never takes the value of a field away (TTSSpeaker.cpp:45-83), so *)
(* that the versions of the default and of the session are those of the    *)
(* last call that set the field.                                           *)
(***************************************************************************)
EXTENDS Naturals

CONSTANTS
  Sessions,     \* the sessions a client may have created
  Outcomes,     \* how a speech ends: "spoke", "other"
  MaxSets,      \* bound: calls of setConfiguration
  MaxSpeeches   \* bound: speeches taken by the speaker

ASSUME SessionAssumption ==
  /\ Outcomes \subseteq {"spoke", "other"}
  /\ MaxSets \in Nat /\ MaxSpeeches \in Nat

VARIABLES
  default,      \* m_defaultConfiguration of the manager, as a version
  created,      \* the sessions in m_sessionMap
  active,       \* the sessions with m_speaker # NULL
  config,       \* m_configuration of each session
  tmp, having,  \* m_tmpConfiguration, m_havingConfigToUpdate
  main,         \* the main thread: [pc, session, todo]
  speaker,      \* the speaker's thread: [pc, session, cancelled, copy]
  speeches,     \* speeches taken so far
  deferred,     \* history: the sessions that have put a configuration away
  floor         \* history: the least version the current speech may use

vars == <<default, created, active, config, tmp, having, main, speaker, speeches, deferred, floor>>

Fields     == {"endPoint", "voice"}
Whole(v)   == [f \in Fields |-> v]
Waiting    == [pc |-> "wait", session |-> "none", todo |-> {}]
Idle       == [pc |-> "idle", session |-> "none", cancelled |-> FALSE,
               copy |-> Whole(0)]

Init ==
  /\ default = 0 /\ created = {} /\ active = {}
  /\ config = [s \in Sessions |-> Whole(0)]
  /\ tmp = [s \in Sessions |-> Whole(0)]
  /\ having = [s \in Sessions |-> FALSE]
  /\ main = Waiting /\ speaker = Idle /\ speeches = 0
  /\ deferred = {} /\ floor = 0

\* m_speaker && m_speaker->isSpeaking(this): the flag and the session that is
\* set with it.
IsSpeaking(s) == s \in active /\ speaker.session = s /\ speaker.pc \notin {"idle", "taken"}

-----------------------------------------------------------------------------
(* The main thread.                                                        *)

MainGoto(pc) == main' = [main EXCEPT !.pc = pc]

\* TTSManager::createSession: a copy of the default.
CreateSession(s) ==
  /\ main = Waiting /\ s \notin created
  /\ created' = created \cup {s}
  /\ config' = [config EXCEPT ![s] = Whole(default)]
  /\ UNCHANGED <<default, active, tmp, having, main, speaker, speeches, deferred, floor>>

\* setActive
SetActive(s) ==
  /\ main = Waiting /\ s \in created \ active
  /\ active' = active \cup {s}
  /\ UNCHANGED <<default, created, config, tmp, having, main, speaker, speeches, deferred, floor>>

\* setInactive: clears the queue of s and cancels what is spoken for it.
SetInactive(s) ==
  /\ main = Waiting /\ s \in active
  /\ speaker' = [speaker EXCEPT !.cancelled = IF IsSpeaking(s) THEN TRUE ELSE @]
  /\ active' = active \ {s}
  /\ UNCHANGED <<default, created, config, tmp, having, main, speeches, deferred, floor>>

\* TTSManager::setConfiguration: a new default, for all the sessions.
SetConfiguration ==
  /\ main = Waiting /\ default < MaxSets
  /\ default' = default + 1
  /\ main' = [pc |-> "next", session |-> "none", todo |-> created]
  /\ UNCHANGED <<created, active, config, tmp, having, speaker, speeches, deferred, floor>>

\* Mutant: ends with the first session that is speaking.
NextSession_Stops ==
  /\ main.pc = "next"
  /\ IF main.todo = {} \/ \E s \in main.todo : IsSpeaking(s)
     THEN main' = Waiting
     ELSE \E s \in main.todo : main' = [pc |-> "test", session |-> s, todo |-> main.todo \ {s}]
  /\ UNCHANGED <<default, created, active, config, tmp, having, speaker, speeches, deferred, floor>>

\* it->second->setConfiguration(m_defaultConfiguration)
NextSession ==
  /\ main.pc = "next"
  /\ IF main.todo = {}
     THEN main' = Waiting
     ELSE \E s \in main.todo : main' = [pc |-> "test", session |-> s, todo |-> main.todo \ {s}]
  /\ UNCHANGED <<default, created, active, config, tmp, having, speaker, speeches, deferred, floor>>

\* IsSpeaking is tested; the answer may be out of
\* date when it is acted upon.
TestSpeaking ==
  /\ main.pc = "test"
  /\ MainGoto(IF IsSpeaking(main.session) THEN "putAway" ELSE "endPoint")
  /\ deferred' = IF IsSpeaking(main.session) THEN deferred \cup {main.session} ELSE deferred
  /\ UNCHANGED <<default, created, active, config, tmp, having, speaker, speeches, floor>>

\* m_tmpConfiguration = config ...
PutAway ==
  /\ main.pc = "putAway"
  /\ tmp' = [tmp EXCEPT ![main.session] = Whole(default)]
  /\ MainGoto("remember")
  /\ UNCHANGED <<default, created, active, config, having, speaker, speeches, deferred, floor>>

\* ... m_havingConfigToUpdate = true
Remember ==
  /\ main.pc = "remember"
  /\ having' = [having EXCEPT ![main.session] = TRUE]
  /\ MainGoto("next")
  /\ UNCHANGED <<default, created, active, config, tmp, speaker, speeches, deferred, floor>>

\* m_configuration.updateWith(config), field by field.
UpdateWith ==
  /\ main.pc \in Fields
  /\ config' = [config EXCEPT ![main.session][main.pc] = default]
  /\ MainGoto(IF main.pc = "endPoint" THEN "voice" ELSE "next")
  /\ UNCHANGED <<default, created, active, tmp, having, speaker, speeches, deferred, floor>>

Main == NextSession \/ TestSpeaking \/ PutAway \/ Remember \/ UpdateWith

-----------------------------------------------------------------------------
(* The speaker's thread.                                                   *)

SpeakerGoto(from, to) == speaker.pc = from /\ speaker' = [speaker EXCEPT !.pc = to]

\* dequeueData(): the speech is not yet the one being spoken.  The history:
\* what setConfiguration had handed to all the sessions by then.
Dequeue(s) ==
  /\ speaker = Idle /\ s \in active /\ speeches < MaxSpeeches
  /\ speaker' = [Idle EXCEPT !.pc = "taken", !.session = s]
  /\ speeches' = speeches + 1
  /\ floor' = IF main = Waiting THEN default ELSE default - 1
  /\ UNCHANGED <<default, created, active, config, tmp, having, main, deferred>>

SetSpeaking ==
  /\ SpeakerGoto("taken", "endPoint")
  /\ UNCHANGED <<default, created, active, config, tmp, having, main, speeches, deferred, floor>>

\* Mutant: the configuration put away is used for the speech.
CopyField_Tmp ==
  /\ speaker.pc \in Fields
  /\ speaker' = [speaker EXCEPT !.copy[speaker.pc] = tmp[speaker.session][speaker.pc],
                                !.pc = IF @ = "endPoint" THEN "voice" ELSE "speak"]
  /\ UNCHANGED <<default, created, active, config, tmp, having, main, speeches, deferred, floor>>

\* speakText(*data.client->configuration(), data): configuration() returns
\* after its lock, a pointer, and the argument is copied from it.
CopyField ==
  /\ speaker.pc \in Fields
  /\ speaker' = [speaker EXCEPT !.copy[speaker.pc] = config[speaker.session][speaker.pc],
                                !.pc = IF @ = "endPoint" THEN "voice" ELSE "speak"]
  /\ UNCHANGED <<default, created, active, config, tmp, having, main, speeches, deferred, floor>>

\* The speech ends: spoke() is one of the four calls, and looks at the flag.
Report(outcome) ==
  /\ speaker.cancelled => outcome = "other"
  /\ SpeakerGoto("speak", IF outcome = "spoke" /\ having[speaker.session] THEN "storeEndPoint" ELSE "end")
  /\ UNCHANGED <<default, created, active, config, tmp, having, main, speeches, deferred, floor>>

StoredField == IF speaker.pc = "storeEndPoint" THEN "endPoint" ELSE "voice"

\* m_configuration.updateWith(m_tmpConfiguration), with no lock.
StoreField ==
  /\ speaker.pc \in {"storeEndPoint", "storeVoice"}
  /\ config' = [config EXCEPT ![speaker.session][StoredField] = tmp[speaker.session][StoredField]]
  /\ speaker' = [speaker EXCEPT !.pc = IF @ = "storeEndPoint" THEN "storeVoice" ELSE "forget"]
  /\ UNCHANGED <<default, created, active, tmp, having, main, speeches, deferred, floor>>

\* m_havingConfigToUpdate = false
Forget ==
  /\ SpeakerGoto("forget", "end")
  /\ having' = [having EXCEPT ![speaker.session] = FALSE]
  /\ UNCHANGED <<default, created, active, config, tmp, main, speeches, deferred, floor>>

\* Mutant: the flag of speaking is left on, with its session.
EndSpeaking_StillSpeaking ==
  /\ speaker.pc = "end"
  /\ speaker' = [Idle EXCEPT !.session = speaker.session]
  /\ UNCHANGED <<default, created, active, config, tmp, having, main, speeches, deferred, floor>>

EndSpeaking ==
  /\ speaker.pc = "end"
  /\ speaker' = Idle
  /\ UNCHANGED <<default, created, active, config, tmp, having, main, speeches, deferred, floor>>

Speaker == \/ SetSpeaking \/ CopyField \/ StoreField \/ Forget \/ EndSpeaking
           \/ \E outcome \in Outcomes : Report(outcome)

Next ==
  \/ \E s \in Sessions : CreateSession(s) \/ SetActive(s) \/ SetInactive(s) \/ Dequeue(s)
  \/ SetConfiguration \/ Main \/ Speaker

Spec == Init /\ [][Next]_vars

\* Both threads run, and a speech ends: see SpeechEnds of TTSSpeaker.
FairSpec == Spec /\ WF_vars(Main) /\ WF_vars(Speaker)

-----------------------------------------------------------------------------
(* Properties.                                                             *)

Configurations == [Fields -> 0..MaxSets]

TypeOK ==
  /\ default \in 0..MaxSets /\ created \subseteq Sessions /\ active \subseteq created
  /\ config \in [Sessions -> Configurations] /\ tmp \in [Sessions -> Configurations]
  /\ having \in [Sessions -> BOOLEAN]
  /\ main.session \in created \/ main.pc \in {"wait", "next"}
  /\ main.pc \in {"wait", "next", "test", "putAway", "remember"} \cup Fields
  /\ main.todo \subseteq created
  /\ speaker = Idle \/ (speaker.session \in created /\ speaker.pc # "idle")
  /\ speaker.pc \in {"idle", "taken", "speak", "storeEndPoint", "storeVoice", "forget", "end"}
                    \cup Fields
  /\ speaker.copy \in Configurations /\ speaker.cancelled \in BOOLEAN
  /\ speeches \in 0..MaxSpeeches
  /\ deferred \subseteq created /\ floor \in 0..MaxSets

\* Between calls of setConfiguration every session that never had to put a
\* configuration away has the default, both fields of it: whatever the
\* speaker's thread did meanwhile (TTSManager.cpp:439-446, TTSSession.cpp:186-210).
DefaultReachesAll ==
  main = Waiting => \A s \in created \ deferred : config[s] = Whole(default)

\* A speech of such a session is spoken with nothing older than what
\* setConfiguration had handed out when the speech was taken from the queue,
\* and with nothing but what was set (TTSSpeaker.cpp:804-814).
SpokenWithCurrent ==
  speaker.pc = "speak" /\ speaker.session \notin deferred =>
    \A f \in Fields : speaker.copy[f] \in floor..default

-----------------------------------------------------------------------------
(* What comments and messages of the source say and the code does not keep. *)

\* "Session is speaking now, will update configuration once speaking is done"
\* (TTSSession.cpp:190): a configuration put away is stored some time after.
DeferredIsStored == \A s \in Sessions : having[s] ~> ~having[s]
=============================================================================
