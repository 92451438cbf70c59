--------------------------- MODULE TTSSpeaker_proofs ---------------------------
(***************************************************************************)
(* Proofs about TTSSpeaker, for any sessions, scenes and bounds: what the  *)
(* runs check of the safety of the speaker, and that it implements         *)
(* SpeechService.                                                          *)
(*                                                                         *)
(* The two threads share m_isSpeaking, m_clientSpeaking, m_currentSpeech   *)
(* and m_flushed without one lock for all of them.  Core says what each of *)
(* them says of the speech the speaker's thread has in hand, by the place  *)
(* the thread is at (MembersFollow, Announced, CancelledStays), which of   *)
(* the queue, the hands of the thread and the history a speech is in       *)
(* (OnePlace, OneEnd), and what m_queueMutex keeps from happening while a  *)
(* clear is cancelling (Locks, ClearHolds).  It is kept until a step       *)
(* reaches undefined behaviour; nothing is said of what follows.           *)
(*                                                                         *)
(* Most steps only move one of the threads: ThreadMoves and QuietMoves     *)
(* name them and MovesOfThread and MovesOfMain say all that matters of     *)
(* them.  What is left are the steps that take, tell or drop a speech.     *)
(***************************************************************************)
EXTENDS TTSSpeaker, Subsequence_proofs

\* Where the speaker's thread is while it has a text in hand, while the text is
\* the speech m_clientSpeaking is about, and while m_currentSpeech points to it.
Published == {"play", "waitAudio", "stopAudio", "clearCurrent"}
Talking   == BeforeReport \cup {"endSpeaking"}
Holding   == Talking \cup {"tellDropped", "setSpeaking"}

\* The members the bus callback and the sessions read say what the thread has
\* in hand.
MembersFollow ==
  /\ data # None <=> gst \in Holding
  /\ isSpeaking <=> gst \in Talking
  /\ clientSpeaking = IF gst \in Talking THEN owner[data] ELSE NoClient
  /\ currentSpeech = IF gst \in Published THEN data ELSE None

\* The call the main loop is in, by where it is.
CallShape ==
  /\ main.pc = "idle" => main = Idle
  /\ main.pc \in {"isSpeaking", "unlock"} => main.op = "clear"
  /\ main.pc \in {"cancelTest", "cancelSet"} => main.op \in {"speak", "clear", "shut"}
  /\ main.pc \in {"flush", "enqueue"} => main.op = "speak"
  /\ main.pc \in {"pauseTest", "resumeTest", "apply"} => main.op \in {"pause", "resume"}
  /\ main.pc \in {"deleteFlush", "stop", "join", "gone"} => main.op = "delete"
  /\ main.pc \in {"handle", "failed", "tellStarted", "tellResumed", "tellPaused"} => main.op = "message"
  /\ main.op = "clear" => main.client \in Clients

\* Who holds m_queueMutex, and what m_stateMutex protects.
Locks ==
  /\ queueMutex = "main" <=> main.op = "clear"
  /\ queueMutex = "gst" <=> gst = "sleep"
  /\ ~StateMutexFree => clientSpeaking # NoClient

\* The speech speak() was called with, until it is queued.
InCall == IF main.op = "speak" THEN {main.speech} ELSE {}

\* Every accepted speech is in one place, its owner is known, and it was told
\* one end at most.
OnePlace ==
  /\ Distinct(queue)
  /\ InCall \cup Elements(queue) \cup InHand \cup Ended \cup dropped = 1..lastSpeech
  /\ InCall \cap Elements(queue) = {} /\ InCall \cap InHand = {} /\ InCall \cap Ended = {}
  /\ InCall \cap dropped = {} /\ Elements(queue) \cap InHand = {}
  /\ Elements(queue) \cap Ended = {} /\ Elements(queue) \cap dropped = {}
  /\ InHand \cap Ended = {} /\ InHand \cap dropped = {} /\ Ended \cap dropped = {}
  /\ gst = "endSpeaking" => data \in Ended

OneEnd ==
  \A t, u \in told : t[1] \in Terminal /\ u[1] \in Terminal /\ t[2] = u[2] => t = u

\* Every speech that was accepted has a session, and nothing else is heard of.
Accepted ==
  /\ \A s \in 1..lastSpeech : owner[s] \in Clients
  /\ \A t \in told : t[2] \in 1..lastSpeech

\* A speech that is played was announced to its session.
Announced ==
  /\ gst = "speakTest" => flushed \/ HasHeard(data, {"willSpeak"})
  /\ gst \in {"speakText"} \cup Published => HasHeard(data, {"willSpeak"})

\* A cancelled speech is still in hand, with m_flushed set, or has ended.
CancelledStays ==
  \A s \in cancelled :
    \/ data = s /\ gst \in BeforeReport /\ flushed
    \/ s \in Ended

\* While a clear is cancelling, the thread takes no other text up.
ClearHolds ==
  main.op = "clear" /\ main.pc \in {"cancelTest", "cancelSet"} =>
    clientSpeaking \in {main.client, NoClient} /\ gst # "setSpeaking"

\* There is a text to take, or the thread goes for one in vain because of a call.
SomethingToTake ==
  /\ gst \in {"dropOne", "dequeue"} => queue # <<>> \/ undercut
  /\ gst = "awake" => ~runThread \/ queue # <<>> \/ NeedsUpdate \/ undercut

Core ==
  /\ MembersFollow /\ CallShape /\ Locks /\ OnePlace /\ OneEnd /\ Accepted /\ Announced
  /\ CancelledStays /\ ClearHolds /\ SomethingToTake

Heard == EventsReachOwner /\ AnnouncedFirst /\ CancelledIsInterrupted

Inv ==
  /\ TypeOK /\ Heard /\ ClearCancelsOwnSpeech /\ EmptiedByACall
  /\ fault = "none" => Core

-----------------------------------------------------------------------------
(* The steps that move a thread and touch no speech.                       *)

ThreadMoves ==
  \/ Top \/ UpdatePipeline \/ CreatePipeline \/ ResetPipeline \/ ResetFlags
  \/ WaitForNull \/ SpinEnds
  \/ CreateCheck \/ WaitTest \/ WaitPredicate \/ FallAsleep \/ Awake \/ Play
  \/ WaitForAudio \/ StopAudio \/ Final

MainMoves ==
  \/ ClearIsSpeaking \/ Unlock \/ CancelTest \/ PauseTest \/ ApplyPause \/ ApplyResume
  \/ DeleteFlush \/ DeleteStop \/ Join \/ PopMessage \/ HandleError \/ PipelineFails
  \/ HandleEos \/ HandleStateChange \/ DeleteCall
  \/ \E c \in Clients : \/ SessionCall("shut", c, "cancelTest")
                        \/ SessionCall("pause", c, "pauseTest")
                        \/ SessionCall("resume", c, "resumeTest")
  \/ \E flag \in BOOLEAN : EnsurePipeline(flag)

QuietMoves == MainMoves \/ Gstreamer

\* The steps about a speech, of the thread and of the main loop.
ThreadActs ==
  \/ DropOne \/ TellDropped \/ TakeSpeech \/ StartSpeaking \/ WillSpeak \/ SpeakTest
  \/ SpeakText \/ ClearCurrent \/ Report \/ EndSpeaking

MainActs ==
  \/ CancelSet \/ FlushQueue \/ Enqueue \/ TellStateChange
  \/ \E c \in Clients : SpeakCall(c) \/ ClearCall(c)

\* These are all the steps.
LEMMA StepKinds ==
  ASSUME Next
  PROVE  ThreadMoves \/ QuietMoves \/ ThreadActs \/ MainActs
BY DEF Next, GstStep, MainContinues, MainCalls, ThreadMoves, QuietMoves, MainMoves, ThreadActs,
       MainActs

\* What both threads leave alone when they only move.
SpeechVars == <<data, queue, speakingVars, currentSpeech, fault, acceptVars, told, dropped,
                cancelled>>

\* What a move of the thread may do.
ThreadMoved ==
  /\ UNCHANGED <<SpeechVars, main, flushed, ensured, runThread, preempted>>
  /\ \/ gst \in Published /\ gst' \in Published
     \/ gst \notin Holding /\ gst' \notin Holding
  /\ gst' = "dropOne" => queue # <<>>
  /\ gst' = "awake" => ~runThread \/ queue # <<>> \/ NeedsUpdate'
  /\ gst' = "dequeue" => gst = "awake" /\ runThread /\ ~NeedsUpdate /\ undercut' = undercut
  /\ \/ queueMutex' = queueMutex /\ gst # "sleep" /\ gst' # "sleep"
     \/ queueMutex = "free" /\ queueMutex' = "gst" /\ gst' = "sleep"
     \/ gst = "sleep" /\ queueMutex' = "free" /\ gst' # "sleep"

\* A move of the thread.
LEMMA MovesOfThread ==
  ASSUME ThreadMoves, ret \in {"top", "createCheck"}
  PROVE  ThreadMoved
<1> USE DEF ThreadMoved, SpeechVars, threadVars, speakingVars, errorVars, pipeVars, acceptVars,
            historyVars, Published, Holding, Talking, BeforeReport
<1>1. CASE Top
  BY <1>1 DEF Top, GstGoto
<1>2. CASE UpdatePipeline
  BY <1>2 DEF UpdatePipeline, DestroyPipeline
<1>3. CASE CreatePipeline
  BY <1>3 DEF CreatePipeline
<1>4. CASE ResetPipeline \/ ResetFlags
  <2>1. CASE ResetPipeline
    BY <2>1 DEF ResetPipeline, DestroyPipeline, GstGoto
  <2>2. CASE ResetFlags
    BY <2>2 DEF ResetFlags, GstGoto
  <2>3. QED
    BY <1>4, <2>1, <2>2
<1>5. CASE WaitForNull
  BY <1>5 DEF WaitForNull
<1>6. CASE SpinEnds
  BY <1>6 DEF SpinEnds, GstGoto
<1>7. CASE CreateCheck
  BY <1>7 DEF CreateCheck, GstGoto
<1>8. CASE WaitTest
  BY <1>8 DEF WaitTest, GstGoto, NothingToDo, NeedsUpdate, HasPipeline
<1>9. CASE WaitPredicate
  BY <1>9 DEF WaitPredicate, NothingToDo
<1>10. CASE FallAsleep
  BY <1>10 DEF FallAsleep, GstGoto
<1>11. CASE Awake
  BY <1>11 DEF Awake
<1>12. CASE Play
  BY <1>12 DEF Play, GstGoto
<1>13. CASE WaitForAudio
  BY <1>13 DEF WaitForAudio, GstGoto
<1>14. CASE StopAudio
  BY <1>14 DEF StopAudio, GstGoto
<1>15. CASE Final
  BY <1>15 DEF Final, GstGoto, DestroyPipeline
<1>16. QED
  BY <1>1, <1>2, <1>3, <1>4, <1>5, <1>6, <1>7, <1>8, <1>9, <1>10, <1>11, <1>12, <1>13, <1>14, <1>15 DEF ThreadMoves

\* What a move of the main loop or of GStreamer leaves alone.
MainLeaves ==
  /\ UNCHANGED <<SpeechVars, failures, preempted>> /\ HasPipeline' = HasPipeline
  /\ gst' = gst \/ (gst = "blocked" /\ gst' = "waitPred")
  /\ (flushed => flushed') /\ (runThread' => runThread) /\ (undercut => undercut')
  /\ gst = "awake" => ensured' = ensured \/ undercut'

LEMMA QuietMovesLeave ==
  ASSUME QuietMoves
  PROVE  MainLeaves
<1> USE DEF MainLeaves, SpeechVars, threadVars, speakingVars, errorVars, pipeVars, acceptVars,
            historyVars, HasPipeline, Notify
<1>1. CASE ClearIsSpeaking
  BY <1>1 DEF ClearIsSpeaking
<1>2. CASE Unlock
  BY <1>2 DEF Unlock
<1>3. CASE CancelTest
  BY <1>3 DEF CancelTest
<1>4. CASE PauseTest
  BY <1>4 DEF PauseTest
<1>5. CASE ApplyPause
  BY <1>5 DEF ApplyPause
<1>6. CASE ApplyResume
  BY <1>6 DEF ApplyResume
<1>7. CASE DeleteFlush \/ DeleteStop
  BY <1>7 DEF DeleteFlush, DeleteStop
<1>8. CASE Join
  BY <1>8 DEF Join
<1>9. CASE PopMessage
  BY <1>9 DEF PopMessage
<1>10. CASE HandleError \/ PipelineFails
  BY <1>10 DEF HandleError, PipelineFails
<1>11. CASE HandleEos
  BY <1>11 DEF HandleEos
<1>12. CASE HandleStateChange
  BY <1>12 DEF HandleStateChange
<1>13. CASE DeleteCall
  BY <1>13 DEF DeleteCall
<1>14. ASSUME NEW c, NEW op, NEW pc, SessionCall(op, c, pc)
      PROVE  MainLeaves
  BY <1>14 DEF SessionCall
<1>15. ASSUME NEW flag \in BOOLEAN, EnsurePipeline(flag)
      PROVE  MainLeaves
  BY <1>15 DEF EnsurePipeline
<1>16. CASE Gstreamer
  BY <1>16 DEF Gstreamer, ReachPlaying, ReachPaused, PostEos, PostError, Post, GstreamerUnchanged, Exists
<1>17. QED
  BY <1>1, <1>2, <1>3, <1>4, <1>5, <1>6, <1>7, <1>8, <1>9, <1>10, <1>11, <1>12, <1>13, <1>14, <1>15, <1>16 DEF QuietMoves, MainMoves

\* How a move of the main loop or of GStreamer changes the call, and m_queueMutex.
MainMoved ==
  /\ CallShape' /\ UNCHANGED InCall
  /\ \/ queueMutex' = queueMutex /\ (main'.op = "clear" <=> main.op = "clear")
     \/ main.op = "clear" /\ queueMutex' = "free" /\ main'.op # "clear"
  /\ main'.op = "clear" =>
       /\ main.op = "clear" /\ main'.client = main.client
       /\ main'.pc \in {"cancelTest", "cancelSet"} =>
            main.pc \in {"cancelTest", "cancelSet"} \/ clientSpeaking = main.client
  /\ StateMutexFree' \/ clientSpeaking # NoClient

LEMMA MovesOfMain ==
  ASSUME TypeOK, CallShape, Locks, QuietMoves
  PROVE  MainMoved
<1> USE DEF MainMoved, Idle, CallShape, InCall, StateMutexFree, NoClient, None
<1> DEFINE Ops == scene.calls \cup {"none", "message"}
           Pcs == {"idle", "isSpeaking", "unlock", "cancelTest", "cancelSet",
                     "flush", "enqueue", "pauseTest", "resumeTest", "apply",
                     "deleteFlush", "stop", "join", "gone", "handle", "failed", "tellStarted",
                     "tellResumed", "tellPaused"}
<1>0. /\ main \in [op : Ops, pc : Pcs, speech : Speeches \cup {None},
                   client : Clients \cup {NoClient}, message : Messages \cup {"none"}]
      /\ "none" \notin Clients
      /\ (~StateMutexFree => clientSpeaking # NoClient)
      /\ (queueMutex = "main" <=> main.op = "clear")
  BY SpeakerAssumption DEF TypeOK, Locks
<1> HIDE DEF Ops, Pcs
<1>1. CASE ClearIsSpeaking
  BY <1>0, <1>1 DEF ClearIsSpeaking
<1>2. CASE Unlock
  BY <1>0, <1>2 DEF Unlock
<1>3. CASE CancelTest
  BY <1>0, <1>3 DEF CancelTest, AfterCancel
<1>4. CASE PauseTest
  BY <1>0, <1>4 DEF PauseTest
<1>5. CASE ApplyPause
  BY <1>0, <1>5 DEF ApplyPause
<1>6. CASE ApplyResume
  BY <1>0, <1>6 DEF ApplyResume
<1>7. CASE DeleteFlush \/ DeleteStop
  BY <1>0, <1>7 DEF DeleteFlush, DeleteStop
<1>8. CASE Join
  BY <1>0, <1>8 DEF Join
<1>9. CASE PopMessage
  BY <1>0, <1>9 DEF PopMessage, MainIdle
<1>10. CASE HandleError \/ PipelineFails
  BY <1>0, <1>10 DEF HandleError, PipelineFails, Handle
<1>11. CASE HandleEos
  BY <1>0, <1>11 DEF HandleEos, Handle
<1>12. CASE HandleStateChange
  BY <1>0, <1>12 DEF HandleStateChange, Handle
<1>13. CASE DeleteCall
  BY <1>0, <1>13 DEF DeleteCall, Called, MainIdle
<1>14. ASSUME NEW c \in Clients, NEW op \in {"shut", "pause", "resume"},
             NEW pc \in {"cancelTest", "pauseTest", "resumeTest"}, op = "shut" <=> pc = "cancelTest",
             SessionCall(op, c, pc)
      PROVE  MainMoved
  BY <1>0, <1>14 DEF SessionCall, Called, MainIdle
<1>15. ASSUME NEW flag \in BOOLEAN, EnsurePipeline(flag)
      PROVE  MainMoved
  BY <1>0, <1>15 DEF EnsurePipeline
<1>16. CASE Gstreamer
  BY <1>0, <1>16 DEF Gstreamer, ReachPlaying, ReachPaused, PostEos, PostError, GstreamerUnchanged
<1>17. QED
  BY <1>1, <1>2, <1>3, <1>4, <1>5, <1>6, <1>7, <1>8, <1>9, <1>10, <1>11, <1>12, <1>13, <1>14, <1>15, <1>16 DEF QuietMoves, MainMoves

-----------------------------------------------------------------------------
(* Types.                                                                  *)

\* The parts of TypeOK: the call, the speeches, and the rest.
MainType ==
  main \in [op : scene.calls \cup {"none", "message"},
            pc : {"idle", "isSpeaking", "unlock", "cancelTest", "cancelSet",
                  "flush", "enqueue", "pauseTest", "resumeTest", "apply",
                  "deleteFlush", "stop", "join", "gone", "handle", "failed", "tellStarted",
                  "tellResumed", "tellPaused"},
            speech : Speeches \cup {None}, client : Clients \cup {NoClient},
            message : Messages \cup {"none"}]

SpeechType ==
  /\ data \in Speeches \cup {None} /\ currentSpeech \in Speeches \cup {None}
  /\ queue \in Seq(Speeches) /\ clientSpeaking \in Clients \cup {NoClient}
  /\ lastSpeech \in 0..MaxSpeeches /\ owner \in [Speeches -> Clients \cup {NoClient}]
  /\ told \subseteq (Events \X Speeches \X Clients)
  /\ dropped \subseteq Speeches /\ cancelled \subseteq Speeches
  /\ preempted \subseteq Speeches

FlagType ==
  /\ isSpeaking \in BOOLEAN /\ isPaused \in BOOLEAN /\ flushed \in BOOLEAN
  /\ isEOS \in BOOLEAN /\ pipelineError \in BOOLEAN /\ networkError \in BOOLEAN
  /\ ensured \in BOOLEAN /\ runThread \in BOOLEAN /\ undercut \in BOOLEAN

ThreadType ==
  /\ gst \in GstPcs /\ ret \in {"top", "createCheck"}
  /\ queueMutex \in {"free", "main", "gst"}
  /\ fault \in {"none", "emptyDequeue", "nullSpeech"}

PipeType ==
  /\ failures \in 0..MaxFailures
  /\ pipeline \in Exists \cup {"none"} /\ bus \in Seq(Messages)

RestType == FlagType /\ ThreadType /\ PipeType

LEMMA TypeParts == TypeOK <=> scene \in Scenes /\ MainType /\ SpeechType /\ RestType
BY DEF TypeOK, MainType, SpeechType, RestType, FlagType, ThreadType, PipeType

\* The flags stay Booleans.
LEMMA FlagTypeStep ==
  ASSUME FlagType, Next
  PROVE  FlagType'
<1> USE SpeakerAssumption DEF FlagType, errorVars, speakingVars, historyVars
<1>1. CASE \/ Top \/ UpdatePipeline \/ CreatePipeline \/ WaitForNull \/ ResetPipeline
           \/ ResetFlags \/ SpinEnds \/ CreateCheck \/ WaitTest \/ WaitPredicate \/ FallAsleep \/ Awake
           \/ Play \/ WaitForAudio \/ StopAudio \/ Final
  <2>1. CASE Top
    BY <2>1 DEF Top, GstGoto
  <2>2. CASE UpdatePipeline
    BY <2>2 DEF UpdatePipeline, DestroyPipeline
  <2>3. CASE CreatePipeline
    BY <2>3 DEF CreatePipeline
  <2>4. CASE WaitForNull
    BY <2>4 DEF WaitForNull
  <2>5. CASE ResetPipeline \/ ResetFlags
    BY <2>5 DEF ResetPipeline, ResetFlags, GstGoto
  <2>6. CASE SpinEnds
    BY <2>6 DEF SpinEnds, GstGoto
  <2>7. CASE CreateCheck
    BY <2>7 DEF CreateCheck
  <2>8. CASE WaitTest
    BY <2>8 DEF WaitTest
  <2>9. CASE WaitPredicate
    BY <2>9 DEF WaitPredicate
  <2>10. CASE FallAsleep
    BY <2>10 DEF FallAsleep
  <2>11. CASE Awake
    BY <2>11 DEF Awake
  <2>12. CASE Play
    BY <2>12 DEF Play, GstGoto
  <2>13. CASE WaitForAudio
    BY <2>13 DEF WaitForAudio, GstGoto
  <2>14. CASE StopAudio
    BY <2>14 DEF StopAudio, GstGoto
  <2>15. CASE Final
    BY <2>15 DEF Final, DestroyPipeline
  <2>16. QED
    BY <1>1, <2>1, <2>2, <2>3, <2>4, <2>5, <2>6, <2>7, <2>8, <2>9, <2>10, <2>11, <2>12, <2>13, <2>14, <2>15
<1>2. CASE \/ DropOne \/ TellDropped \/ TakeSpeech \/ StartSpeaking \/ WillSpeak
           \/ SpeakTest \/ SpeakText \/ ClearCurrent \/ Report \/ EndSpeaking
           \/ ClearIsSpeaking
  <2>1. CASE DropOne
    BY <2>1 DEF DropOne, GstGoto, Dequeue
  <2>2. CASE TellDropped
    BY <2>2 DEF TellDropped, GstGoto
  <2>3. CASE TakeSpeech
    BY <2>3 DEF TakeSpeech, GstGoto, Dequeue
  <2>4. CASE StartSpeaking
    BY <2>4 DEF StartSpeaking, GstGoto
  <2>5. CASE WillSpeak
    BY <2>5 DEF WillSpeak, GstGoto
  <2>6. CASE SpeakTest
    BY <2>6 DEF SpeakTest, GstGoto
  <2>7. CASE SpeakText
    BY <2>7 DEF SpeakText, GstGoto
  <2>8. CASE ClearCurrent
    BY <2>8 DEF ClearCurrent, GstGoto
  <2>9. CASE Report
    BY <2>9 DEF Report, GstGoto
  <2>10. CASE EndSpeaking
    BY <2>10 DEF EndSpeaking, GstGoto
  <2>11. CASE ClearIsSpeaking
    BY <2>11 DEF ClearIsSpeaking, GstGoto
  <2>12. QED
    BY <1>2, <2>1, <2>2, <2>3, <2>4, <2>5, <2>6, <2>7, <2>8, <2>9, <2>10, <2>11
<1>3. CASE \/ Unlock \/ CancelTest \/ PauseTest \/ ApplyPause \/ ApplyResume \/ DeleteStop
           \/ DeleteFlush \/ Join \/ HandleError \/ PipelineFails \/ HandleEos \/ HandleStateChange \/ DeleteCall
  <2>1. CASE Unlock
    BY <2>1 DEF Unlock
  <2>2. CASE CancelTest
    BY <2>2 DEF CancelTest
  <2>3. CASE PauseTest
    BY <2>3 DEF PauseTest
  <2>4. CASE ApplyPause
    BY <2>4 DEF ApplyPause
  <2>5. CASE ApplyResume
    BY <2>5 DEF ApplyResume
  <2>6. CASE DeleteFlush \/ DeleteStop
    BY <2>6 DEF DeleteFlush, DeleteStop
  <2>7. CASE Join
    BY <2>7 DEF Join
  <2>8. CASE HandleError \/ PipelineFails
    BY <2>8 DEF HandleError, PipelineFails
  <2>9. CASE HandleEos
    BY <2>9 DEF HandleEos
  <2>10. CASE HandleStateChange
    BY <2>10 DEF HandleStateChange
  <2>11. CASE DeleteCall
    BY <2>11 DEF DeleteCall
  <2>12. QED
    BY <1>3, <2>1, <2>2, <2>3, <2>4, <2>5, <2>6, <2>7, <2>8, <2>9, <2>10, <2>11
<1>4. CASE CancelSet \/ FlushQueue \/ Enqueue \/ TellStateChange \/ PopMessage
  <2>1. CASE CancelSet
    BY <2>1 DEF CancelSet
  <2>2. CASE FlushQueue
    BY <2>2 DEF FlushQueue
  <2>3. CASE Enqueue
    BY <2>3 DEF Enqueue
  <2>4. CASE TellStateChange
    BY <2>4 DEF TellStateChange
  <2>5. CASE PopMessage
    BY <2>5 DEF PopMessage
  <2>6. QED
    BY <1>4, <2>1, <2>2, <2>3, <2>4, <2>5
<1>5. ASSUME NEW c, SpeakCall(c) \/ ClearCall(c)
      PROVE  FlagType'
  BY <1>5 DEF SpeakCall, ClearCall
<1>6. ASSUME NEW c, NEW op, NEW pc, SessionCall(op, c, pc)
      PROVE  FlagType'
  BY <1>6 DEF SessionCall
<1>7. ASSUME NEW flag \in BOOLEAN, EnsurePipeline(flag)
      PROVE  FlagType'
  BY <1>7 DEF EnsurePipeline
<1>8. CASE Gstreamer
  BY <1>8 DEF Gstreamer, ReachPlaying, ReachPaused, PostEos, PostError, GstreamerUnchanged
<1>9. QED
  BY <1>1, <1>2, <1>3, <1>4, <1>5, <1>6, <1>7, <1>8
     DEF Next, GstStep, MainContinues, MainCalls

\* The thread and the lock keep their types.
LEMMA ThreadTypeStep ==
  ASSUME ThreadType, Next
  PROVE  ThreadType'
<1> USE SpeakerAssumption DEF ThreadType, GstPcs, threadVars, Notify
<1>1. CASE Top \/ UpdatePipeline \/ CreatePipeline \/ WaitForNull
           \/ ResetPipeline \/ ResetFlags
  BY <1>1 DEF Top, GstGoto, UpdatePipeline, DestroyPipeline, CreatePipeline, WaitForNull,
     ResetPipeline, ResetFlags
<1>2. CASE SpinEnds \/ CreateCheck \/ WaitTest \/ WaitPredicate \/ FallAsleep
  BY <1>2 DEF SpinEnds, GstGoto, CreateCheck, WaitTest, WaitPredicate, FallAsleep
<1>3. CASE Awake \/ Play \/ WaitForAudio \/ StopAudio \/ Final
  BY <1>3 DEF Awake, Play, GstGoto, WaitForAudio, StopAudio, Final, DestroyPipeline
<1>4. CASE DropOne \/ TellDropped \/ TakeSpeech \/ StartSpeaking \/ WillSpeak
  BY <1>4 DEF DropOne, GstGoto, Dequeue, TellDropped, TakeSpeech, StartSpeaking, WillSpeak
<1>5. CASE SpeakTest \/ SpeakText \/ ClearCurrent \/ Report \/ EndSpeaking
  BY <1>5 DEF SpeakTest, GstGoto, SpeakText, ClearCurrent, Report, EndSpeaking
<1>6. CASE ClearIsSpeaking \/ Unlock \/ CancelTest \/ PauseTest \/ ApplyPause
  BY <1>6 DEF ClearIsSpeaking, Unlock, CancelTest, PauseTest, ApplyPause
<1>7. CASE \/ ApplyResume \/ DeleteFlush \/ DeleteStop \/ Join \/ HandleError
           \/ PipelineFails \/ HandleEos
  BY <1>7 DEF ApplyResume, DeleteFlush, DeleteStop, Join, HandleError, PipelineFails, HandleEos
<1>8. CASE HandleStateChange \/ DeleteCall
  BY <1>8 DEF HandleStateChange, DeleteCall
<1>9. CASE CancelSet \/ FlushQueue \/ Enqueue \/ TellStateChange \/ PopMessage
  BY <1>9 DEF CancelSet, FlushQueue, Enqueue, TellStateChange, PopMessage
<1>10. ASSUME NEW c, SpeakCall(c) \/ ClearCall(c)
      PROVE  ThreadType'
  BY <1>10 DEF SpeakCall, ClearCall
<1>11. ASSUME NEW c, NEW op, NEW pc, SessionCall(op, c, pc)
      PROVE  ThreadType'
  BY <1>11 DEF SessionCall
<1>12. ASSUME NEW flag \in BOOLEAN, EnsurePipeline(flag)
      PROVE  ThreadType'
  BY <1>12 DEF EnsurePipeline
<1>13. CASE Gstreamer
  BY <1>13 DEF Gstreamer, ReachPlaying, ReachPaused, PostEos, PostError, GstreamerUnchanged
<1>14. QED
  BY <1>1, <1>2, <1>3, <1>4, <1>5, <1>6, <1>7, <1>8, <1>9, <1>10, <1>11, <1>12, <1>13
     DEF Next, GstStep, MainContinues, MainCalls

\* The pipeline and its bus keep their types.
LEMMA PipeTypeStep ==
  ASSUME PipeType, Next
  PROVE  PipeType'
<1> USE SpeakerAssumption DEF PipeType, Exists, pipeVars
<1>0. <<>> \in Seq(Messages) /\ 0 \in 0..MaxFailures
  BY EmptySeq
<1>1. CASE Top \/ UpdatePipeline
  BY <1>0, <1>1 DEF Top, GstGoto, UpdatePipeline, DestroyPipeline
<1>2. CASE CreatePipeline \/ WaitForNull
  BY <1>0, <1>2 DEF CreatePipeline, WaitForNull
<1>3. CASE ResetPipeline \/ ResetFlags \/ SpinEnds
  BY <1>0, <1>3 DEF ResetPipeline, DestroyPipeline, ResetFlags, SpinEnds, GstGoto
<1>4. CASE CreateCheck \/ WaitTest
  BY <1>0, <1>4 DEF CreateCheck, GstGoto, WaitTest
<1>5. CASE WaitPredicate \/ FallAsleep
  BY <1>0, <1>5 DEF WaitPredicate, FallAsleep, GstGoto
<1>6. CASE Awake \/ Play
  BY <1>0, <1>6 DEF Awake, Play, GstGoto
<1>7. CASE WaitForAudio \/ StopAudio
  BY <1>0, <1>7 DEF WaitForAudio, GstGoto, StopAudio
<1>8. CASE Final
  BY <1>0, <1>8 DEF Final, GstGoto, DestroyPipeline
<1>9. CASE DropOne \/ TellDropped
  BY <1>0, <1>9 DEF DropOne, GstGoto, Dequeue, TellDropped
<1>10. CASE TakeSpeech \/ StartSpeaking
  BY <1>0, <1>10 DEF TakeSpeech, GstGoto, Dequeue, StartSpeaking
<1>11. CASE WillSpeak \/ SpeakTest
  BY <1>0, <1>11 DEF WillSpeak, GstGoto, SpeakTest
<1>12. CASE SpeakText \/ ClearCurrent
  BY <1>0, <1>12 DEF SpeakText, ClearCurrent, GstGoto
<1>13. CASE Report \/ EndSpeaking
  BY <1>0, <1>13 DEF Report, GstGoto, EndSpeaking
<1>14. CASE ClearIsSpeaking \/ Unlock
  BY <1>0, <1>14 DEF ClearIsSpeaking, Unlock
<1>15. CASE CancelTest \/ PauseTest
  BY <1>0, <1>15 DEF CancelTest, PauseTest
<1>16. CASE ApplyPause \/ ApplyResume
  BY <1>0, <1>16 DEF ApplyPause, ApplyResume
<1>17. CASE DeleteFlush \/ DeleteStop \/ Join
  BY <1>0, <1>17 DEF DeleteFlush, DeleteStop, Join
<1>18. CASE HandleError \/ PipelineFails \/ HandleEos
  BY <1>0, <1>18 DEF HandleError, PipelineFails, HandleEos
<1>19. CASE HandleStateChange \/ DeleteCall
  BY <1>0, <1>19 DEF HandleStateChange, DeleteCall
<1>20. CASE CancelSet \/ FlushQueue
  BY <1>0, <1>20 DEF CancelSet, FlushQueue
<1>21. CASE Enqueue \/ TellStateChange
  BY <1>0, <1>21 DEF Enqueue, TellStateChange
<1>22. CASE PopMessage
  <2>1. bus # <<>> /\ bus' = Tail(bus)
    BY <1>22 DEF PopMessage
  <2>2. Tail(bus) \in Seq(Messages)
    BY <2>1, HeadTailProperties
  <2>3. QED
    BY <1>22, <2>1, <2>2 DEF PopMessage
<1>23. ASSUME NEW c, SpeakCall(c) \/ ClearCall(c)
      PROVE  PipeType'
  BY <1>23 DEF SpeakCall, ClearCall
<1>24. ASSUME NEW c, NEW op, NEW pc, SessionCall(op, c, pc)
      PROVE  PipeType'
  BY <1>24 DEF SessionCall
<1>25. ASSUME NEW flag \in BOOLEAN, EnsurePipeline(flag)
      PROVE  PipeType'
  BY <1>25 DEF EnsurePipeline
<1>26. CASE Gstreamer
  <2>1. \A m \in Messages : Append(bus, m) \in Seq(Messages)
    BY AppendProperties
  <2>2. {"playing", "paused", "eos", "error", "neterror"} \subseteq Messages
    BY DEF Messages
  <2>3. QED
    BY <1>26, <2>1, <2>2 DEF Gstreamer, ReachPlaying, ReachPaused, PostEos, PostError, Post,
       GstreamerUnchanged
<1>27. QED
  BY <1>1, <1>2, <1>3, <1>4, <1>5, <1>6, <1>7, <1>8, <1>9, <1>10, <1>11, <1>12, <1>13
     , <1>14, <1>15, <1>16, <1>17, <1>18, <1>19, <1>20, <1>21, <1>22, <1>23, <1>24, <1>25, <1>26
     DEF Next, GstStep, MainContinues, MainCalls

\* The steps about a speech leave the call alone when the thread takes them.
LEMMA ThreadActsLeave ==
  ASSUME ThreadActs
  PROVE  UNCHANGED <<main, queueMutex, runThread, ensured, pipeline, lastSpeech, owner, dropped,
                     cancelled, preempted, undercut>>
<1> USE DEF acceptVars, historyVars, pipeVars
<1>1. CASE DropOne \/ TellDropped \/ TakeSpeech \/ StartSpeaking \/ WillSpeak
  BY <1>1 DEF DropOne, TellDropped, TakeSpeech, StartSpeaking, WillSpeak
<1>2. CASE SpeakTest \/ SpeakText \/ ClearCurrent \/ Report \/ EndSpeaking
  BY <1>2 DEF SpeakTest, SpeakText, ClearCurrent, Report, EndSpeaking
<1>3. QED
  BY <1>1, <1>2 DEF ThreadActs

\* The call keeps its type.
LEMMA MainTypeStep ==
  ASSUME TypeOK, Core, Next
  PROVE  MainType'
<1> DEFINE Ops == scene.calls \cup {"none", "message"}
           Pcs == {"idle", "isSpeaking", "unlock", "cancelTest", "cancelSet",
                   "flush", "enqueue", "pauseTest", "resumeTest", "apply",
                   "deleteFlush", "stop", "join", "gone", "handle", "failed", "tellStarted",
                   "tellResumed", "tellPaused"}
           Calls == [op : Ops, pc : Pcs, speech : Speeches \cup {None},
                     client : Clients \cup {NoClient}, message : Messages \cup {"none"}]
<1>1. main \in Calls /\ CallShape
  BY DEF TypeOK, Core
<1>2. scene' = scene
  BY DEF Next
<1>3. SUFFICES main' \in Calls
  BY <1>2 DEF MainType
<1>4. Idle \in Calls
  BY DEF Idle
<1>5. \A pc \in Pcs : [main EXCEPT !.pc = pc] \in Calls
  BY <1>1
<1>6. \A op \in Ops, pc \in Pcs : [Idle EXCEPT !.op = op, !.pc = pc] \in Calls
  BY DEF Idle
<1> HIDE DEF Calls
<1>7. CASE ThreadMoves \/ ThreadActs
  <2>1. main' = main
    BY <1>7, MovesOfThread, ThreadActsLeave DEF ThreadMoved, TypeOK
  <2>2. QED
    BY <1>1, <2>1
<1>8. CASE ClearIsSpeaking \/ Unlock \/ CancelTest \/ PauseTest \/ ApplyPause \/ ApplyResume
  BY <1>1, <1>4, <1>5, <1>8 DEF ClearIsSpeaking, Unlock, CancelTest, AfterCancel, CallShape, PauseTest,
     ApplyPause, ApplyResume
<1>9. CASE \/ DeleteFlush \/ DeleteStop \/ Join \/ HandleError \/ PipelineFails
           \/ HandleEos \/ HandleStateChange
  BY <1>1, <1>4, <1>5, <1>9 DEF DeleteFlush, DeleteStop, Join, HandleError, PipelineFails,
     HandleEos, HandleStateChange
<1>10. CASE DeleteCall
  BY <1>6, <1>10 DEF DeleteCall, Called
<1>11. ASSUME NEW c \in Clients, NEW op, NEW pc \in Pcs, SessionCall(op, c, pc)
       PROVE  main' \in Calls
  BY <1>6, <1>11 DEF SessionCall, Called
<1>12. ASSUME NEW flag \in BOOLEAN, EnsurePipeline(flag)
       PROVE  main' \in Calls
  BY <1>1, <1>12 DEF EnsurePipeline
<1>13. CASE PopMessage
  <2>1. bus # <<>> /\ bus \in Seq(Messages)
    BY <1>13 DEF PopMessage, TypeOK
  <2>2. Head(bus) \in Messages
    BY <2>1, HeadTailProperties
  <2>3. [Idle EXCEPT !.op = "message", !.pc = "handle", !.message = Head(bus)] \in Calls
    BY <2>2 DEF Idle, Calls
  <2>4. QED
    BY <1>13, <2>3 DEF PopMessage
<1>14. CASE Gstreamer
  BY <1>1, <1>14 DEF Gstreamer, ReachPlaying, ReachPaused, PostEos, PostError, GstreamerUnchanged
<1>15. CASE CancelSet \/ FlushQueue \/ Enqueue \/ TellStateChange
  BY <1>1, <1>4, <1>5, <1>15 DEF CancelSet, AfterCancel, CallShape, FlushQueue, Enqueue, TellStateChange
<1>16. ASSUME NEW c \in Clients, SpeakCall(c)
       PROVE  main' \in Calls
  <2>1. lastSpeech + 1 \in Speeches /\ "speak" \in scene.calls
    BY <1>16, SpeakerAssumption DEF SpeakCall, Called, TypeOK, Speeches
  <2>2. \A pc \in Pcs :
          [Idle EXCEPT !.op = "speak", !.speech = lastSpeech + 1, !.pc = pc] \in Calls
    BY <2>1 DEF Idle, Calls
  <2>3. QED
    BY <1>16, <2>2 DEF SpeakCall
<1>17. ASSUME NEW c \in Clients, ClearCall(c)
       PROVE  main' \in Calls
  <2>1. "clear" \in scene.calls
    BY <1>17 DEF ClearCall, Called
  <2>2. [Idle EXCEPT !.op = "clear", !.pc = "isSpeaking", !.client = c] \in Calls
    BY <2>1 DEF Idle, Calls
  <2>3. QED
    BY <1>17, <2>2 DEF ClearCall
<1>18. QED
  BY <1>7, <1>8, <1>9, <1>10, <1>11, <1>12, <1>13, <1>14, <1>15, <1>16, <1>17, StepKinds
     DEF QuietMoves, MainMoves, MainActs

-----------------------------------------------------------------------------
(* What the sessions are told.                                             *)

\* What is kept of the events told: one end each, to the owner, in order.
ToldInv == OneEnd /\ Accepted /\ Heard

\* A speech that has ended was told of, with a terminal event.
LEMMA EndedIsTold ==
  ASSUME TypeOK, NEW s \in Speeches
  PROVE  s \in Ended <=> \E t \in told : t[1] \in Terminal /\ t[2] = s
<1>1. \A t \in told : t = <<t[1], t[2], t[3]>> /\ t[3] \in Clients
  BY DEF TypeOK
<1>2. s \in Ended <=> \E e \in Terminal : \E c \in Clients : <<e, s, c>> \in told
  BY DEF Ended, HasHeard
<1>3. ASSUME NEW t \in told, t[1] \in Terminal, t[2] = s
      PROVE  s \in Ended
  <2>1. <<t[1], s, t[3]>> \in told /\ t[3] \in Clients
    BY <1>1, <1>3
  <2>2. QED
    BY <1>2, <1>3, <2>1
<1>4. ASSUME NEW e \in Terminal, NEW c \in Clients, <<e, s, c>> \in told
      PROVE  \E t \in told : t[1] \in Terminal /\ t[2] = s
  <2>1. <<e, s, c>>[1] = e /\ <<e, s, c>>[2] = s
    OBVIOUS
  <2>2. QED
    BY <1>4, <2>1
<1>5. QED
  BY <1>2, <1>3, <1>4

\* Telling the owner of a speech an event that may come now keeps all of it.
LEMMA TellKeeps ==
  ASSUME TypeOK, ToldInv, UNCHANGED <<lastSpeech, owner, cancelled>>,
         NEW e \in Events, NEW s \in 1..lastSpeech, NEW c, c = owner[s], Tell(e, s, c),
         e \in Terminal => s \notin Ended,
         e \in {"started", "paused", "resumed"} => HasHeard(s, {"willSpeak"}),
         e \in Terminal \ {"interrupted"} => s \notin cancelled
  PROVE  /\ ToldInv' /\ told' \subseteq Events \X Speeches \X Clients
         /\ Ended' = IF e \in Terminal THEN Ended \cup {s} ELSE Ended
         /\ \A r : \A events : HasHeard(r, events) => HasHeard(r, events)'
         /\ e = "willSpeak" => HasHeard(s, {"willSpeak"})'
<1>1. /\ told' = told \cup {<<e, s, c>>} /\ told \subseteq Events \X Speeches \X Clients
      /\ c \in Clients /\ s \in Speeches
  BY SpeakerAssumption DEF Tell, TypeOK, ToldInv, Accepted, Speeches
<1>2. \A t \in told : t = <<t[1], t[2], t[3]>> /\ t[1] \in Events /\ t[2] \in Speeches /\ t[3] \in Clients
  BY <1>1
<1>3. \A r : \A events : HasHeard(r, events) => HasHeard(r, events)'
  BY <1>1 DEF HasHeard
<1>4. e = "willSpeak" => HasHeard(s, {"willSpeak"})'
  BY <1>1 DEF HasHeard
<1>5. Ended' = IF e \in Terminal THEN Ended \cup {s} ELSE Ended
  BY <1>1 DEF Ended, HasHeard
<1>6. OneEnd'
  <2>1. e \in Terminal => \A t \in told : t[1] \in Terminal => t[2] # s
    BY <1>1, EndedIsTold
  <2>2. QED
    BY <1>1, <1>2, <2>1 DEF ToldInv, OneEnd
<1>7. Accepted' /\ EventsReachOwner'
  BY <1>1 DEF ToldInv, Heard, Accepted, EventsReachOwner
<1>8. AnnouncedFirst'
  <2>1. \A t \in told : t[1] \in {"started", "paused", "resumed"} => HasHeard(t[2], {"willSpeak"})'
    BY <1>3 DEF ToldInv, Heard, AnnouncedFirst
  <2>2. e \in {"started", "paused", "resumed"} => HasHeard(s, {"willSpeak"})'
    BY <1>3
  <2>3. \A t \in told' : t[1] \in {"started", "paused", "resumed"} => HasHeard(t[2], {"willSpeak"})'
    BY <1>1, <2>1, <2>2
  <2>4. QED
    BY <2>3 DEF AnnouncedFirst
<1>9. CancelledIsInterrupted'
  BY <1>1 DEF ToldInv, Heard, CancelledIsInterrupted, HasHeard
<1>10. QED
  BY <1>1, <1>3, <1>4, <1>5, <1>6, <1>7, <1>8, <1>9 DEF ToldInv, Heard

\* A step that tells nothing keeps it.
LEMMA SilentKeeps ==
  ASSUME ToldInv, UNCHANGED <<told, lastSpeech, owner, cancelled>>
  PROVE  /\ ToldInv' /\ Ended' = Ended
         /\ \A r : \A events : HasHeard(r, events) <=> HasHeard(r, events)'
BY DEF ToldInv, OneEnd, Accepted, Heard, EventsReachOwner, AnnouncedFirst, CancelledIsInterrupted,
       Ended, HasHeard

-----------------------------------------------------------------------------
(* The steps keep Core and what was told, up to undefined behaviour.       *)

\* The speech in hand was accepted and has not ended.
LEMMA InHandFacts ==
  ASSUME TypeOK, Core
  PROVE  /\ data # None =>
              /\ data \in 1..lastSpeech /\ data \in Speeches /\ owner[data] \in Clients
              /\ gst # "endSpeaking" => data \notin Ended /\ InHand = {data}
         /\ gst \notin Holding => data = None /\ InHand = {}
         /\ gst = "endSpeaking" => InHand = {}
<1>1. data # None /\ gst # "endSpeaking" => InHand = {data}
  BY DEF InHand
<1>2. data # None => data \in 1..lastSpeech
  BY <1>1 DEF Core, OnePlace, MembersFollow, Holding, Talking
<1>3. data # None /\ gst # "endSpeaking" => data \notin Ended
  BY <1>1 DEF Core, OnePlace
<1>4. gst \notin Holding => data = None
  BY DEF Core, MembersFollow
<1>5. QED
  BY <1>1, <1>2, <1>3, <1>4 DEF Core, Accepted, InHand, TypeOK

\* A move of the thread.
LEMMA ThreadMovesStep ==
  ASSUME TypeOK, Core, Heard, ThreadMoves
  PROVE  Core' /\ Heard'
<1>1. ThreadMoved
  BY MovesOfThread DEF TypeOK
<1>2. /\ UNCHANGED <<data, queue, isSpeaking, clientSpeaking, currentSpeech, fault, lastSpeech,
                     owner, told, dropped, cancelled, main, flushed, ensured, runThread>>
      /\ \/ gst \in Published /\ gst' \in Published
         \/ gst \notin Holding /\ gst' \notin Holding
  BY <1>1 DEF ThreadMoved, SpeechVars, speakingVars, acceptVars
<1>3. /\ "endSpeaking" \in Holding /\ "endSpeaking" \notin Published
      /\ "speakTest" \in Holding \ Published /\ "speakText" \in Holding \ Published
      /\ "setSpeaking" \in Holding \ Published /\ Published \subseteq Talking
      /\ BeforeReport \subseteq Holding /\ Published \subseteq BeforeReport
      /\ Talking \subseteq Holding
      /\ {"dropOne", "dequeue", "awake", "sleep"} \cap Holding = {}
  BY DEF Holding, Published, Talking, BeforeReport
<1>4. ToldInv' /\ Ended' = Ended /\ \A r : \A events : HasHeard(r, events) => HasHeard(r, events)'
  BY <1>2, SilentKeeps DEF ToldInv, Core
<1>5. MembersFollow' /\ CallShape'
  BY <1>2, <1>3 DEF Core, MembersFollow, CallShape
<1>6. Locks'
  BY <1>1, <1>2 DEF ThreadMoved, Core, Locks, StateMutexFree
<1>7. OnePlace'
  <2>1. InHand' = InHand /\ InCall' = InCall
    BY <1>2, <1>3 DEF InHand, InCall
  <2>2. QED
    BY <1>2, <1>3, <1>4, <2>1 DEF Core, OnePlace, Elements, Distinct
<1>8. Announced' /\ CancelledStays'
  BY <1>2, <1>3, <1>4 DEF Core, Announced, CancelledStays
<1>9. ClearHolds'
  BY <1>2, <1>3 DEF Core, ClearHolds
<1>10. SomethingToTake'
  BY <1>1, <1>2 DEF ThreadMoved, Core, SomethingToTake
<1>11. QED
  BY <1>4, <1>5, <1>6, <1>7, <1>8, <1>9, <1>10 DEF Core, ToldInv

\* A move of the main loop or of GStreamer.
LEMMA QuietMovesStep ==
  ASSUME TypeOK, Core, Heard, QuietMoves
  PROVE  Core' /\ Heard'
<1>1. MainLeaves /\ MainMoved
  BY QuietMovesLeave, MovesOfMain DEF Core
<1>2. /\ UNCHANGED <<data, queue, isSpeaking, clientSpeaking, currentSpeech, fault, lastSpeech,
                     owner, told, dropped, cancelled>>
      /\ gst' = gst \/ (gst = "blocked" /\ gst' = "waitPred")
  BY <1>1 DEF MainLeaves, SpeechVars, speakingVars, acceptVars
<1>3. /\ {"blocked", "waitPred", "awake", "dequeue", "dropOne", "sleep"} \cap Holding = {}
      /\ {"endSpeaking", "setSpeaking", "speakTest", "speakText"} \subseteq Holding
      /\ Published \subseteq Talking /\ Talking \subseteq Holding /\ BeforeReport \subseteq Holding
  BY DEF Holding, Published, Talking, BeforeReport
<1>4. ToldInv' /\ Ended' = Ended /\ \A r : \A events : HasHeard(r, events) => HasHeard(r, events)'
  BY <1>2, SilentKeeps DEF ToldInv, Core
<1>5. MembersFollow'
  BY <1>2, <1>3 DEF Core, MembersFollow
<1>6. CallShape' /\ Locks'
  BY <1>1, <1>2 DEF MainMoved, Core, Locks
<1>7. OnePlace'
  <2>1. InHand' = InHand /\ InCall' = InCall
    BY <1>1, <1>2, <1>3 DEF InHand, MainMoved
  <2>2. QED
    BY <1>2, <1>4, <2>1 DEF Core, OnePlace, Elements, Distinct
<1>8. Announced' /\ CancelledStays'
  BY <1>1, <1>2, <1>3, <1>4 DEF MainLeaves, Core, Announced, CancelledStays
<1>9. ClearHolds'
  <2>1. main'.op = "clear" /\ main'.pc \in {"cancelTest", "cancelSet"} =>
          clientSpeaking \in {main.client, NoClient} /\ gst # "setSpeaking" /\ main'.client = main.client
    <3>1. clientSpeaking # NoClient => gst \in Talking
      BY DEF Core, MembersFollow
    <3>2. main.op = "clear" => main.client # NoClient
      BY SpeakerAssumption DEF Core, CallShape, NoClient
    <3>3. QED
      BY <1>1, <3>1, <3>2 DEF MainMoved, Core, ClearHolds, Talking, BeforeReport
  <2>2. QED
    BY <1>2, <2>1 DEF ClearHolds
<1>10. SomethingToTake'
  BY <1>1, <1>2 DEF MainLeaves, Core, SomethingToTake, NeedsUpdate
<1>11. QED
  BY <1>4, <1>5, <1>6, <1>7, <1>8, <1>9, <1>10 DEF Core, ToldInv

\* The thread takes the first text of the queue.
LEMMA DequeueStep ==
  ASSUME TypeOK, Core, Heard, fault = "none", fault' = "none", DropOne \/ TakeSpeech
  PROVE  SpeechType' /\ Core' /\ Heard'
<1>1. /\ gst \in {"dropOne", "dequeue"} /\ gst' = IF gst = "dropOne" THEN "tellDropped" ELSE "setSpeaking"
      /\ queueMutex = "free" /\ queue # <<>>
      /\ data' = Head(queue) /\ queue' = Tail(queue)
      /\ UNCHANGED <<isSpeaking, clientSpeaking, currentSpeech, lastSpeech, owner, told, dropped,
                     cancelled, preempted, main, queueMutex, runThread, undercut>>
  BY DEF DropOne, TakeSpeech, GstGoto, Dequeue, speakingVars, acceptVars, historyVars
<1>2. data = None /\ InHand = {} /\ isSpeaking = FALSE /\ clientSpeaking = NoClient /\ currentSpeech = None
  BY <1>1 DEF Core, MembersFollow, InHand, Holding, Talking, BeforeReport, Published, TypeOK
<1>3. /\ Head(queue) \in Speeches /\ Tail(queue) \in Seq(Speeches)
      /\ Head(queue) \in Elements(queue)
      /\ Elements(Tail(queue)) = Elements(queue) \ {Head(queue)}
      /\ Distinct(Tail(queue))
  BY <1>1, TakenFirst DEF TypeOK, Core, OnePlace
<1>4. Head(queue) # None
  BY <1>3 DEF Speeches, None
<1>5. ToldInv' /\ Ended' = Ended
  BY <1>1, SilentKeeps DEF ToldInv, Core
<1>6. SpeechType'
  BY <1>1, <1>3 DEF SpeechType, TypeOK
<1>7. MembersFollow' /\ CallShape' /\ Locks'
  BY <1>1, <1>2, <1>4 DEF Core, MembersFollow, CallShape, Locks, StateMutexFree, Holding, Talking,
     BeforeReport, Published
<1>8. OnePlace'
  <2>1. InHand' = {Head(queue)} /\ InCall' = InCall
    BY <1>1, <1>4 DEF InHand, InCall
  <2>2. QED
    BY <1>1, <1>2, <1>3, <1>5, <2>1 DEF Core, OnePlace
<1>9. Announced' /\ CancelledStays'
  BY <1>1, <1>2, <1>5 DEF Core, Announced, CancelledStays, Published, BeforeReport
<1>10. ClearHolds' /\ SomethingToTake'
  BY <1>1, <1>2 DEF Core, ClearHolds, SomethingToTake, Locks
<1>11. QED
  BY <1>5, <1>6, <1>7, <1>8, <1>9, <1>10 DEF Core, ToldInv

\* The thread gives the text it dropped its playbackerror.
LEMMA TellDroppedStep ==
  ASSUME TypeOK, Core, Heard, TellDropped
  PROVE  SpeechType' /\ Core' /\ Heard'
<1>1. /\ gst = "tellDropped" /\ gst' = "waitTest" /\ data' = None
      /\ Tell("playbackerror", data, owner[data])
      /\ UNCHANGED <<queue, isSpeaking, clientSpeaking, currentSpeech, lastSpeech, owner, dropped,
                     cancelled, preempted, main, queueMutex, runThread, undercut>>
  BY DEF TellDropped, GstGoto, speakingVars, acceptVars
<1>2. /\ data # None /\ isSpeaking = FALSE /\ clientSpeaking = NoClient /\ currentSpeech = None
      /\ data \in 1..lastSpeech /\ data \notin Ended /\ InHand = {data}
  BY <1>1, InHandFacts DEF Core, MembersFollow, Holding, Talking, BeforeReport, Published, TypeOK
<1>3. data \notin cancelled
  BY <1>1, <1>2 DEF Core, CancelledStays, BeforeReport
<1>4. /\ ToldInv' /\ told' \subseteq Events \X Speeches \X Clients /\ Ended' = Ended \cup {data}
  <2>1. "playbackerror" \in Terminal /\ Terminal \subseteq Events
        /\ "playbackerror" \notin {"started", "paused", "resumed"}
    BY DEF Terminal, Events
  <2>2. ToldInv
    BY DEF ToldInv, Core
  <2>3. QED
    BY <1>1, <1>2, <1>3, <2>1, <2>2, TellKeeps
<1>5. SpeechType'
  BY <1>1, <1>4 DEF SpeechType, TypeOK
<1>6. MembersFollow' /\ CallShape' /\ Locks'
  BY <1>1, <1>2 DEF Core, MembersFollow, CallShape, Locks, StateMutexFree, Holding, Talking,
     BeforeReport, Published
<1>7. OnePlace'
  <2>1. InHand' = {} /\ InCall' = InCall
    BY <1>1 DEF InHand, InCall
  <2>2. QED
    BY <1>1, <1>2, <1>4, <2>1 DEF Core, OnePlace, Elements, Distinct
<1>8. Announced' /\ CancelledStays' /\ ClearHolds' /\ SomethingToTake'
  BY <1>1, <1>2, <1>4 DEF Core, Announced, CancelledStays, ClearHolds, SomethingToTake, Published,
     BeforeReport
<1>9. QED
  BY <1>4, <1>5, <1>6, <1>7, <1>8 DEF Core, ToldInv

\* The thread says it is speaking, without publishing the speech yet.
LEMMA StartSpeakingStep ==
  ASSUME TypeOK, Core, Heard, StartSpeaking
  PROVE  SpeechType' /\ Core' /\ Heard'
<1>1. /\ gst = "setSpeaking" /\ gst' = "willSpeak" /\ StateMutexFree
      /\ isSpeaking' = TRUE /\ clientSpeaking' = owner[data]
      /\ UNCHANGED <<data, queue, currentSpeech, flushed, lastSpeech, owner, told, dropped,
                     cancelled, preempted, main, queueMutex, runThread, undercut>>
  BY DEF StartSpeaking, GstGoto, acceptVars, historyVars
<1>2. data # None /\ currentSpeech = None /\ owner[data] \in Clients
  BY <1>1, InHandFacts DEF Core, MembersFollow, Holding, Published
<1>3. ToldInv' /\ Ended' = Ended
  BY <1>1, SilentKeeps DEF ToldInv, Core
<1>4. SpeechType'
  BY <1>1, <1>2 DEF SpeechType, TypeOK
<1>5. MembersFollow' /\ CallShape' /\ Locks'
  BY <1>1, <1>2 DEF Core, MembersFollow, CallShape, Locks, StateMutexFree, Holding, Talking,
     BeforeReport, Published
<1>6. OnePlace'
  <2>1. InHand' = InHand /\ InCall' = InCall
    BY <1>1 DEF InHand, InCall
  <2>2. QED
    BY <1>1, <1>3, <2>1 DEF Core, OnePlace, Elements, Distinct
<1>7. Announced' /\ CancelledStays' /\ SomethingToTake'
  BY <1>1, <1>3 DEF Core, Announced, CancelledStays, SomethingToTake, Published, BeforeReport
<1>8. ClearHolds'
  BY <1>1 DEF Core, ClearHolds
<1>9. QED
  BY <1>3, <1>4, <1>5, <1>6, <1>7, <1>8 DEF Core, ToldInv

\* The thread announces the speech, unless it was cancelled.
LEMMA WillSpeakStep ==
  ASSUME TypeOK, Core, Heard, WillSpeak
  PROVE  SpeechType' /\ Core' /\ Heard'
<1>1. /\ gst = "willSpeak" /\ gst' = "speakTest"
      /\ IF flushed THEN UNCHANGED told ELSE Tell("willSpeak", data, owner[data])
      /\ UNCHANGED <<data, queue, isSpeaking, clientSpeaking, currentSpeech, flushed, lastSpeech,
                     owner, dropped, cancelled, preempted, main, queueMutex, runThread, undercut>>
  BY DEF WillSpeak, GstGoto, speakingVars, acceptVars
<1>2. data # None /\ data \in 1..lastSpeech
  BY <1>1, InHandFacts DEF Core, MembersFollow, Holding, Talking, BeforeReport
<1>3. /\ ToldInv' /\ told' \subseteq Events \X Speeches \X Clients /\ Ended' = Ended
      /\ ~flushed => HasHeard(data, {"willSpeak"})'
  <2>1. ToldInv
    BY DEF ToldInv, Core
  <2>2. CASE flushed
    BY <1>1, <2>1, <2>2, SilentKeeps DEF TypeOK
  <2>3. CASE ~flushed
    <3>1. "willSpeak" \in Events /\ "willSpeak" \notin Terminal \cup {"started", "paused", "resumed"}
      BY DEF Events, Terminal
    <3>2. QED
      BY <1>1, <1>2, <2>1, <2>3, <3>1, TellKeeps
  <2>4. QED
    BY <2>2, <2>3
<1>4. SpeechType'
  BY <1>1, <1>3 DEF SpeechType, TypeOK
<1>5. MembersFollow' /\ CallShape' /\ Locks' /\ ClearHolds'
  BY <1>1 DEF Core, MembersFollow, CallShape, Locks, ClearHolds, StateMutexFree, Holding, Talking,
     BeforeReport, Published
<1>6. OnePlace'
  <2>1. InHand' = InHand /\ InCall' = InCall
    BY <1>1 DEF InHand, InCall
  <2>2. QED
    BY <1>1, <1>3, <2>1 DEF Core, OnePlace, Elements, Distinct
<1>7. Announced'
  BY <1>1, <1>3 DEF Core, Announced, Published
<1>8. CancelledStays' /\ SomethingToTake'
  BY <1>1, <1>3 DEF Core, CancelledStays, SomethingToTake, BeforeReport
<1>9. QED
  BY <1>3, <1>4, <1>5, <1>6, <1>7, <1>8 DEF Core, ToldInv

\* The steps of the thread from the announcement to its report.
LEMMA SpeakingStep ==
  ASSUME TypeOK, Core, Heard, SpeakTest \/ SpeakText \/ ClearCurrent
  PROVE  SpeechType' /\ Core' /\ Heard'
<1>1. /\ \/ gst = "speakTest" /\ gst' = (IF flushed THEN "report" ELSE "speakText")
            /\ currentSpeech' = currentSpeech
         \/ gst = "speakText" /\ gst' = "play" /\ currentSpeech' = data
         \/ gst \in {"speakText", "clearCurrent"} /\ gst' = "report" /\ currentSpeech' = None
      /\ UNCHANGED <<data, queue, isSpeaking, clientSpeaking, flushed, lastSpeech, owner, told,
                     dropped, cancelled, preempted, main, queueMutex, runThread, undercut>>
  BY DEF SpeakTest, SpeakText, ClearCurrent, GstGoto, speakingVars, acceptVars, historyVars
<1>2. ToldInv' /\ Ended' = Ended /\ \A r : \A events : HasHeard(r, events) => HasHeard(r, events)'
  BY <1>1, SilentKeeps DEF ToldInv, Core
<1>3. SpeechType'
  BY <1>1 DEF SpeechType, TypeOK, None
<1>4. MembersFollow' /\ CallShape' /\ Locks' /\ ClearHolds'
  BY <1>1 DEF Core, MembersFollow, CallShape, Locks, ClearHolds, StateMutexFree, Holding, Talking,
     BeforeReport, Published
<1>5. OnePlace'
  <2>1. gst # "endSpeaking" /\ gst' # "endSpeaking"
    BY <1>1
  <2>2. InHand' = InHand /\ InCall' = InCall
    BY <1>1, <2>1 DEF InHand, InCall
  <2>3. Elements(queue)' = Elements(queue) /\ Distinct(queue)' = Distinct(queue)
    BY <1>1 DEF Elements, Distinct
  <2>4. QED
    BY <1>1, <1>2, <2>1, <2>2, <2>3 DEF Core, OnePlace
<1>6. Announced'
  <2>1. gst' \in {"speakText", "play"} => HasHeard(data, {"willSpeak"})'
    BY <1>1, <1>2 DEF Core, Announced
  <2>2. QED
    BY <1>1, <2>1 DEF Announced, Published
<1>7. CancelledStays' /\ SomethingToTake'
  BY <1>1, <1>2 DEF Core, CancelledStays, SomethingToTake, BeforeReport
<1>8. QED
  BY <1>2, <1>3, <1>4, <1>5, <1>6, <1>7 DEF Core, ToldInv

\* The thread tells the outcome: interrupted, if the speech was cancelled.
LEMMA ReportStep ==
  ASSUME TypeOK, Core, Heard, Report
  PROVE  SpeechType' /\ Core' /\ Heard' /\ Ended' = Ended \cup InHand
<1>1. /\ gst = "report" /\ gst' = "endSpeaking" /\ Tell(Outcome, data, owner[data])
      /\ UNCHANGED <<data, queue, isSpeaking, clientSpeaking, currentSpeech, flushed, lastSpeech,
                     owner, dropped, cancelled, preempted, main, queueMutex, runThread, undercut>>
  BY DEF Report, GstGoto, speakingVars, acceptVars
<1>2. data # None /\ data \in 1..lastSpeech /\ data \notin Ended /\ InHand = {data}
  BY <1>1, InHandFacts DEF Core, MembersFollow, Holding, Talking, BeforeReport
<1>3. Outcome \in Terminal /\ (data \in cancelled => Outcome = "interrupted")
  BY <1>1, <1>2 DEF Core, CancelledStays, Outcome, Terminal, BeforeReport
<1>4. /\ ToldInv' /\ told' \subseteq Events \X Speeches \X Clients /\ Ended' = Ended \cup {data}
  <2>1. Terminal \subseteq Events /\ Terminal \cap {"started", "paused", "resumed"} = {}
    BY DEF Terminal, Events
  <2>2. ToldInv
    BY DEF ToldInv, Core
  <2>3. QED
    BY <1>1, <1>2, <1>3, <2>1, <2>2, TellKeeps
<1>5. SpeechType'
  BY <1>1, <1>4 DEF SpeechType, TypeOK
<1>6. MembersFollow' /\ CallShape' /\ Locks' /\ ClearHolds'
  BY <1>1 DEF Core, MembersFollow, CallShape, Locks, ClearHolds, StateMutexFree, Holding, Talking,
     BeforeReport, Published
<1>7. OnePlace'
  <2>1. InHand' = {} /\ InCall' = InCall
    BY <1>1 DEF InHand, InCall
  <2>2. QED
    BY <1>1, <1>2, <1>4, <2>1 DEF Core, OnePlace, Elements, Distinct
<1>8. Announced' /\ CancelledStays' /\ SomethingToTake'
  BY <1>1, <1>4 DEF Core, Announced, CancelledStays, SomethingToTake, Published, BeforeReport
<1>9. QED
  BY <1>2, <1>4, <1>5, <1>6, <1>7, <1>8 DEF Core, ToldInv

\* The thread is done with the speech.
LEMMA EndSpeakingStep ==
  ASSUME TypeOK, Core, Heard, EndSpeaking
  PROVE  SpeechType' /\ Core' /\ Heard'
<1>1. /\ gst = "endSpeaking" /\ gst' = "reset" /\ StateMutexFree
      /\ isSpeaking' = FALSE /\ clientSpeaking' = NoClient /\ data' = None
      /\ UNCHANGED <<queue, currentSpeech, lastSpeech, owner, told, dropped, cancelled, preempted,
                     main, queueMutex, runThread, undercut>>
  BY DEF EndSpeaking, GstGoto, acceptVars, historyVars
<1>2. currentSpeech = None /\ InHand = {}
  BY <1>1 DEF Core, MembersFollow, InHand, Published
<1>3. ToldInv' /\ Ended' = Ended
  BY <1>1, SilentKeeps DEF ToldInv, Core
<1>4. SpeechType'
  BY <1>1 DEF SpeechType, TypeOK
<1>5. MembersFollow' /\ CallShape' /\ Locks' /\ ClearHolds'
  BY <1>1, <1>2 DEF Core, MembersFollow, CallShape, Locks, ClearHolds, StateMutexFree, Holding,
     Talking, BeforeReport, Published
<1>6. OnePlace'
  <2>1. InHand' = {} /\ InCall' = InCall
    BY <1>1 DEF InHand, InCall
  <2>2. QED
    BY <1>1, <1>2, <1>3, <2>1 DEF Core, OnePlace, Elements, Distinct
<1>7. Announced' /\ CancelledStays' /\ SomethingToTake'
  BY <1>1, <1>3 DEF Core, Announced, CancelledStays, SomethingToTake, Published, BeforeReport
<1>8. QED
  BY <1>3, <1>4, <1>5, <1>6, <1>7 DEF Core, ToldInv

\* A call cancels the speech the thread is speaking.
LEMMA CancelSetStep ==
  ASSUME TypeOK, Core, Heard, CancelSet
  PROVE  SpeechType' /\ Core' /\ Heard'
<1>1. /\ main.pc = "cancelSet" /\ main' = AfterCancel /\ flushed' = TRUE
      /\ gst' = gst \/ (gst = "blocked" /\ gst' = "waitPred")
      /\ cancelled' = IF gst \in BeforeReport THEN cancelled \cup {data} ELSE cancelled
      /\ UNCHANGED <<data, queue, isSpeaking, clientSpeaking, currentSpeech, lastSpeech, owner, told,
                     dropped, preempted, queueMutex, runThread, ensured, pipeline, failures, undercut>>
  BY DEF CancelSet, Notify, speakingVars, acceptVars, pipeVars
<1>2. /\ gst \in BeforeReport => data \in Speeches /\ data \notin Ended /\ gst' = gst
      /\ gst \notin BeforeReport => gst' \notin BeforeReport
      /\ gst \in Holding \/ gst' \in Holding => gst' = gst
  BY <1>1, InHandFacts DEF Core, MembersFollow, Holding, Talking, BeforeReport
<1>3. ToldInv'
  <2>1. OneEnd' /\ Accepted' /\ EventsReachOwner' /\ AnnouncedFirst'
    BY <1>1 DEF Core, Heard, OneEnd, Accepted, EventsReachOwner, AnnouncedFirst, HasHeard
  <2>2. \A s \in cancelled' : ~HasHeard(s, Terminal \ {"interrupted"})
    BY <1>1, <1>2 DEF Heard, CancelledIsInterrupted, Ended, HasHeard
  <2>3. CancelledIsInterrupted'
    BY <1>1, <2>2 DEF CancelledIsInterrupted, HasHeard
  <2>4. QED
    BY <2>1, <2>3 DEF ToldInv, Heard
<1>4. Ended' = Ended /\ \A r : \A events : HasHeard(r, events) => HasHeard(r, events)'
  BY <1>1 DEF Ended, HasHeard
<1>5. SpeechType'
  BY <1>1, <1>2 DEF SpeechType, TypeOK
<1>6. MembersFollow'
  BY <1>1, <1>2 DEF Core, MembersFollow, Holding, Talking, BeforeReport, Published
<1>7. /\ CallShape' /\ InCall' = InCall /\ StateMutexFree' /\ ~(main'.op = "clear" /\ main'.pc = "cancelSet")
      /\ (main'.op = "clear" <=> main.op = "clear") /\ (main'.op = "clear" => main'.pc = "unlock")
  <2>1. main.op \in {"speak", "clear", "shut"} /\ (main.op = "clear" => main.client \in Clients)
    BY <1>1 DEF Core, CallShape
  <2>2. CASE main.op = "speak"
    <3>1. main' = [main EXCEPT !.pc = "flush"]
      BY <1>1, <2>2 DEF AfterCancel
    <3>2. /\ main'.op = "speak" /\ main'.pc = "flush" /\ main'.speech = main.speech
      BY <2>2, <3>1 DEF TypeOK
    <3>3. QED
      BY <2>2, <3>2 DEF CallShape, InCall, StateMutexFree
  <2>3. CASE main.op = "clear"
    <3>1. main' = [main EXCEPT !.pc = "unlock"]
      BY <1>1, <2>3 DEF AfterCancel
    <3>2. /\ main'.op = "clear" /\ main'.pc = "unlock" /\ main'.client = main.client
      BY <2>3, <3>1 DEF TypeOK
    <3>3. QED
      BY <2>1, <2>3, <3>2 DEF CallShape, InCall, StateMutexFree
  <2>4. CASE main.op = "shut"
    <3>1. main' = Idle /\ main'.op = "none" /\ main'.pc = "idle"
      BY <1>1, <2>4 DEF AfterCancel, Idle
    <3>2. QED
      BY <2>4, <3>1 DEF CallShape, InCall, StateMutexFree, Idle
  <2>5. QED
    BY <2>1, <2>2, <2>3, <2>4
<1>8. Locks' /\ ClearHolds'
  <2>1. ClearHolds'
    BY <1>7 DEF ClearHolds
  <2>2. gst' = "sleep" <=> gst = "sleep"
    BY <1>1
  <2>3. Locks'
    BY <1>1, <1>7, <2>2 DEF Core, Locks
  <2>4. QED
    BY <2>1, <2>3
<1>9. OnePlace'
  <2>1. InHand' = InHand
    BY <1>1 DEF InHand
  <2>2. Elements(queue)' = Elements(queue) /\ Distinct(queue)' = Distinct(queue)
    BY <1>1 DEF Elements, Distinct
  <2>3. gst' = "endSpeaking" => gst = "endSpeaking"
    BY <1>1
  <2>4. QED
    BY <1>1, <1>4, <1>7, <2>1, <2>2, <2>3 DEF Core, OnePlace
<1>10. Announced'
  BY <1>1, <1>4 DEF Core, Announced, Published
<1>11. CancelledStays'
  BY <1>1, <1>2, <1>4 DEF Core, CancelledStays
<1>12. SomethingToTake'
  BY <1>1 DEF Core, SomethingToTake, NeedsUpdate, HasPipeline
<1>13. QED
  BY <1>3, <1>5, <1>6, <1>7, <1>8, <1>9, <1>10, <1>11, <1>12 DEF Core, ToldInv

\* A preemptive speak forgets every text that waits.
LEMMA FlushQueueStep ==
  ASSUME TypeOK, Core, Heard, FlushQueue
  PROVE  SpeechType' /\ Core' /\ Heard'
<1>1. /\ main.pc = "flush" /\ main' = [main EXCEPT !.pc = "enqueue"]
      /\ queue' = <<>> /\ dropped' = dropped \cup Elements(queue)
      /\ UNCHANGED <<gst, data, isSpeaking, clientSpeaking, currentSpeech, flushed, lastSpeech, owner,
                     told, cancelled, preempted, queueMutex, runThread, ensured, pipeline, failures>>
      /\ undercut' = (undercut \/ queue # <<>>)
  BY DEF FlushQueue, threadVars, speakingVars, acceptVars, pipeVars
<1>2. /\ Elements(queue) \subseteq Speeches /\ (Elements(queue) = {} <=> queue = <<>>)
      /\ <<>> \in Seq(Speeches) /\ Elements(<<>>) = {} /\ Distinct(<<>>)
  <2>1. <<>> \in Seq(Speeches) /\ Len(<<>>) = 0 /\ queue \in Seq(Speeches)
    BY EmptySeq DEF TypeOK
  <2>2. Elements(<<>>) = {} /\ Distinct(<<>>)
    BY <2>1 DEF Elements, Distinct
  <2>3. QED
    BY <2>1, <2>2, ElementsFacts
<1>3. ToldInv' /\ Ended' = Ended
  BY <1>1, SilentKeeps DEF ToldInv, Core
<1>4. SpeechType'
  BY <1>1, <1>2 DEF SpeechType, TypeOK
<1>5. CallShape' /\ InCall' = InCall /\ StateMutexFree' /\ main.op = "speak" /\ main'.op = "speak"
  BY <1>1 DEF Core, CallShape, InCall, StateMutexFree, TypeOK
<1>6. MembersFollow' /\ Locks' /\ ClearHolds'
  BY <1>1, <1>5 DEF Core, MembersFollow, Locks, ClearHolds
<1>7. OnePlace'
  <2>1. InHand' = InHand
    BY <1>1 DEF InHand
  <2>2. QED
    BY <1>1, <1>2, <1>3, <1>5, <2>1 DEF Core, OnePlace
<1>8. Announced' /\ CancelledStays'
  BY <1>1, <1>3 DEF Core, Announced, CancelledStays, HasHeard
<1>9. SomethingToTake'
  BY <1>1, <1>2 DEF Core, SomethingToTake, NeedsUpdate, HasPipeline
<1>10. QED
  BY <1>3, <1>4, <1>5, <1>6, <1>7, <1>8, <1>9 DEF Core, ToldInv

\* speak() queues its text at last.
LEMMA EnqueueStep ==
  ASSUME TypeOK, Core, Heard, Enqueue
  PROVE  /\ SpeechType' /\ Core' /\ Heard'
         /\ main.speech \in Speeches \cap InCall /\ InHand' = InHand /\ Ended' = Ended
<1>1. /\ main.pc = "enqueue" /\ main' = Idle /\ queue' = Append(queue, main.speech)
      /\ gst' = gst \/ (gst = "blocked" /\ gst' = "waitPred")
      /\ preempted' \subseteq preempted \cup 1..(main.speech - 1)
      /\ UNCHANGED <<data, isSpeaking, clientSpeaking, currentSpeech, flushed, lastSpeech, owner,
                     told, dropped, cancelled, queueMutex, runThread, undercut>>
  BY DEF Enqueue, Notify, speakingVars, acceptVars
<1>2. /\ main.op = "speak" /\ main.speech \in 1..lastSpeech /\ main.speech \in Speeches
      /\ main.speech \notin Elements(queue) /\ InCall = {main.speech} /\ lastSpeech \in 0..MaxSpeeches
  BY <1>1, SpeakerAssumption DEF Core, CallShape, OnePlace, InCall, TypeOK, Speeches
<1>3. /\ queue' \in Seq(Speeches) /\ queue' # <<>>
      /\ Elements(queue') = Elements(queue) \cup {main.speech} /\ Distinct(queue')
  BY <1>1, <1>2, AddedLast DEF TypeOK, Core, OnePlace
<1>4. ToldInv' /\ Ended' = Ended
  BY <1>1, SilentKeeps DEF ToldInv, Core
<1>5. SpeechType'
  <2>1. 1..(main.speech - 1) \subseteq Speeches
    BY <1>2, SpeakerAssumption DEF Speeches
  <2>2. QED
    BY <1>1, <1>3, <2>1 DEF SpeechType, TypeOK
<1>6. CallShape' /\ InCall' = {} /\ StateMutexFree' /\ main'.op = "none"
  BY <1>1, SpeakerAssumption DEF CallShape, Idle, InCall, StateMutexFree
<1>7. MembersFollow'
  BY <1>1 DEF Core, MembersFollow, Holding, Talking, BeforeReport, Published
<1>8. Locks' /\ ClearHolds'
  BY <1>1, <1>2, <1>6 DEF Core, Locks, ClearHolds
<1>9. InHand' = InHand
  BY <1>1 DEF InHand
<1>10. OnePlace'
  <2>1. gst' = "endSpeaking" => gst = "endSpeaking"
    BY <1>1
  <2>2. QED
    BY <1>1, <1>2, <1>3, <1>4, <1>6, <1>9, <2>1 DEF Core, OnePlace
<1>11. Announced' /\ CancelledStays'
  BY <1>1, <1>4 DEF Core, Announced, CancelledStays, HasHeard, Published, BeforeReport
<1>12. SomethingToTake'
  BY <1>1, <1>3 DEF SomethingToTake
<1>13. QED
  BY <1>2, <1>4, <1>5, <1>6, <1>7, <1>8, <1>9, <1>10, <1>11, <1>12 DEF Core, ToldInv

\* The bus callback tells the session of a state change.
LEMMA TellStateChangeStep ==
  ASSUME TypeOK, Core, Heard, fault = "none", fault' = "none", TellStateChange
  PROVE  SpeechType' /\ Core' /\ Heard' /\ InHand' = InHand /\ Ended' = Ended
<1>1. /\ main.pc \in {"tellStarted", "tellResumed", "tellPaused"} /\ main' = Idle
      /\ currentSpeech # None
      /\ \E event \in {"started", "resumed", "paused"} : Tell(event, currentSpeech, clientSpeaking)
      /\ gst' = gst \/ (gst = "blocked" /\ gst' = "waitPred")
      /\ UNCHANGED <<data, queue, isSpeaking, clientSpeaking, currentSpeech, flushed, lastSpeech,
                     owner, dropped, cancelled, preempted, queueMutex, runThread, ensured, pipeline,
                     failures, undercut>>
  BY DEF TellStateChange, Notify, speakingVars, acceptVars, pipeVars
<1>2. /\ gst \in Published /\ currentSpeech = data /\ clientSpeaking = owner[data]
      /\ data # None /\ data \in 1..lastSpeech /\ HasHeard(data, {"willSpeak"}) /\ gst' = gst
  BY <1>1, InHandFacts DEF Core, MembersFollow, Announced, Published, Talking, BeforeReport
<1>3. PICK event \in {"started", "resumed", "paused"} : Tell(event, data, owner[data])
  BY <1>1, <1>2
<1>4. /\ ToldInv' /\ told' \subseteq Events \X Speeches \X Clients /\ Ended' = Ended
      /\ \A r : \A events : HasHeard(r, events) => HasHeard(r, events)'
  <2>1. event \in Events /\ event \notin Terminal
    BY DEF Terminal, Events
  <2>2. ToldInv
    BY DEF ToldInv, Core
  <2>3. QED
    BY <1>1, <1>2, <1>3, <2>1, <2>2, TellKeeps
<1>5. SpeechType'
  BY <1>1, <1>4 DEF SpeechType, TypeOK
<1>6. CallShape' /\ InCall' = {} /\ InCall = {} /\ StateMutexFree' /\ main'.op = "none" /\ main.op = "message"
  BY <1>1, SpeakerAssumption DEF Core, CallShape, Idle, InCall, StateMutexFree
<1>7. MembersFollow' /\ Locks' /\ ClearHolds'
  BY <1>1, <1>2, <1>6 DEF Core, MembersFollow, Locks, ClearHolds
<1>8. InHand' = InHand
  BY <1>1, <1>2 DEF InHand
<1>9. OnePlace'
  BY <1>1, <1>2, <1>4, <1>6, <1>8 DEF Core, OnePlace, Elements, Distinct
<1>10. Announced' /\ CancelledStays'
  BY <1>1, <1>2, <1>4 DEF Core, Announced, CancelledStays
<1>11. SomethingToTake'
  BY <1>1, <1>2 DEF SomethingToTake, Published
<1>12. QED
  BY <1>4, <1>5, <1>6, <1>7, <1>8, <1>9, <1>10, <1>11 DEF Core, ToldInv

\* speak() is called.
LEMMA SpeakCallStep ==
  ASSUME TypeOK, Core, Heard, NEW c \in Clients, SpeakCall(c)
  PROVE  SpeechType' /\ Core' /\ Heard' /\ InHand' = InHand /\ Ended' = Ended
<1> DEFINE new == lastSpeech + 1
<1>1. /\ main = Idle /\ lastSpeech < MaxSpeeches /\ lastSpeech' = new
      /\ owner' = [owner EXCEPT ![new] = c]
      /\ main' = [Idle EXCEPT !.op = "speak", !.speech = new,
                              !.pc = IF c \in Preemptive THEN "cancelTest" ELSE "enqueue"]
      /\ UNCHANGED <<gst, data, queue, isSpeaking, clientSpeaking, currentSpeech, flushed, told,
                     dropped, cancelled, preempted, queueMutex, runThread, ensured, pipeline,
                     failures, undercut>>
  BY DEF SpeakCall, Called, MainIdle, threadVars, speakingVars, pipeVars, historyVars
<1>2. /\ lastSpeech \in Nat /\ new \in Speeches /\ 1..new = (1..lastSpeech) \cup {new}
      /\ new \notin 1..lastSpeech /\ 1..lastSpeech \subseteq Speeches /\ new \in 0..MaxSpeeches
  BY <1>1, SpeakerAssumption DEF TypeOK, Speeches
<1>3. owner'[new] = c /\ \A s \in 1..lastSpeech : owner'[s] = owner[s]
  BY <1>1, <1>2 DEF TypeOK
<1> HIDE DEF new
<1>4. Ended' = Ended /\ \A r : \A events : HasHeard(r, events) <=> HasHeard(r, events)'
  BY <1>1 DEF Ended, HasHeard
<1>5. ToldInv'
  BY <1>1, <1>2, <1>3, <1>4 DEF Core, Heard, ToldInv, OneEnd, Accepted, EventsReachOwner,
     AnnouncedFirst, CancelledIsInterrupted
<1>6. SpeechType'
  BY <1>1, <1>2 DEF SpeechType, TypeOK
<1>7. /\ CallShape' /\ InCall' = {new} /\ InCall = {} /\ StateMutexFree'
      /\ main'.op = "speak" /\ main.op = "none"
  BY <1>1, SpeakerAssumption DEF CallShape, Idle, InCall, StateMutexFree
<1>8. MembersFollow'
  <2>1. data # None => owner'[data] = owner[data]
    BY <1>3, InHandFacts
  <2>2. QED
    BY <1>1, <2>1 DEF Core, MembersFollow, Holding
<1>9. Locks' /\ ClearHolds'
  BY <1>1, <1>7 DEF Core, Locks, ClearHolds
<1>10. InHand' = InHand
  BY <1>1 DEF InHand
<1>11. OnePlace'
  <2>1. Elements(queue)' = Elements(queue) /\ Distinct(queue)' = Distinct(queue)
    BY <1>1 DEF Elements, Distinct
  <2>2. QED
    BY <1>1, <1>2, <1>4, <1>7, <1>10, <2>1 DEF Core, OnePlace
<1>12. Announced' /\ CancelledStays'
  BY <1>1, <1>4 DEF Core, Announced, CancelledStays
<1>13. SomethingToTake'
  BY <1>1 DEF Core, SomethingToTake, NeedsUpdate, HasPipeline
<1>14. QED
  BY <1>4, <1>5, <1>6, <1>7, <1>8, <1>9, <1>10, <1>11, <1>12, <1>13 DEF Core, ToldInv

\* clearAllSpeechesFrom() takes its session's texts out of the queue.
LEMMA ClearCallStep ==
  ASSUME TypeOK, Core, Heard, NEW c \in Clients, ClearCall(c)
  PROVE  SpeechType' /\ Core' /\ Heard' /\ InHand' = InHand /\ Ended' = Ended
<1>1. /\ main = Idle /\ queueMutex = "free" /\ queueMutex' = "main"
      /\ queue' = Without(queue, TextsOf(c)) /\ dropped' = dropped \cup TextsOf(c)
      /\ main' = [Idle EXCEPT !.op = "clear", !.pc = "isSpeaking", !.client = c]
      /\ UNCHANGED <<gst, data, isSpeaking, clientSpeaking, currentSpeech, flushed, lastSpeech, owner,
                     told, cancelled, preempted, runThread, ensured, pipeline, failures>>
      /\ undercut' = (undercut \/ TextsOf(c) # {})
  BY DEF ClearCall, Called, MainIdle, threadVars, speakingVars, acceptVars, pipeVars
<1>2. /\ queue' \in Seq(Speeches) /\ Elements(queue') = Elements(queue) \ TextsOf(c)
      /\ Distinct(queue) => Distinct(queue')
  BY <1>1, WithoutFacts DEF TypeOK
<1>3. /\ Elements(queue) \subseteq Speeches /\ (Elements(queue) = {} <=> queue = <<>>)
      /\ (Elements(queue') = {} <=> queue' = <<>>)
      /\ TextsOf(c) \subseteq Elements(queue)
  BY <1>2, ElementsFacts DEF TypeOK, TextsOf
<1>4. ToldInv' /\ Ended' = Ended
  BY <1>1, SilentKeeps DEF ToldInv, Core
<1>5. SpeechType'
  BY <1>1, <1>2, <1>3 DEF SpeechType, TypeOK
<1>6. /\ CallShape' /\ InCall' = {} /\ InCall = {} /\ StateMutexFree'
      /\ main'.op = "clear" /\ main'.pc = "isSpeaking"
  BY <1>1, SpeakerAssumption DEF CallShape, Idle, InCall, StateMutexFree
<1>7. MembersFollow'
  BY <1>1 DEF Core, MembersFollow
<1>8. Locks' /\ ClearHolds'
  BY <1>1, <1>6 DEF Core, Locks, ClearHolds
<1>9. InHand' = InHand
  BY <1>1 DEF InHand
<1>10. OnePlace'
  BY <1>1, <1>2, <1>3, <1>4, <1>6, <1>9 DEF Core, OnePlace
<1>11. Announced' /\ CancelledStays'
  BY <1>1, <1>4 DEF Core, Announced, CancelledStays, HasHeard
<1>12. SomethingToTake'
  BY <1>1, <1>2, <1>3 DEF Core, SomethingToTake, NeedsUpdate, HasPipeline
<1>13. QED
  BY <1>4, <1>5, <1>6, <1>7, <1>8, <1>9, <1>10, <1>11, <1>12 DEF Core, ToldInv

\* The two steps that reach undefined behaviour tell nothing.
LEMMA FaultStep ==
  ASSUME TypeOK, Core, Heard, EmptiedByACall, fault = "none", fault' # "none",
         ThreadMoves \/ QuietMoves \/ ThreadActs \/ MainActs
  PROVE  /\ SpeechType' /\ Heard' /\ ClearCancelsOwnSpeech' /\ EmptiedByACall'
         /\ UNCHANGED <<queue, InHand, Ended, dropped>>
<1>1. \/ /\ DropOne \/ TakeSpeech
         /\ gst \in {"dropOne", "dequeue"} /\ queue = <<>> /\ UNCHANGED main
         /\ gst' # "endSpeaking"
      \/ TellStateChange /\ main'.pc = "idle" /\ fault' = "nullSpeech"
         /\ gst' = gst
  <2>1. fault' # fault
    OBVIOUS
  <2>2. ~ThreadMoves
    BY <2>1, MovesOfThread DEF ThreadMoved, SpeechVars, TypeOK
  <2>3. ~QuietMoves
    BY <2>1, QuietMovesLeave DEF MainLeaves, SpeechVars
  <2>4. \/ DropOne \/ TakeSpeech \/ TellStateChange
    BY <2>1, <2>2, <2>3 DEF ThreadActs, MainActs, TellDropped, StartSpeaking, WillSpeak, SpeakTest,
       SpeakText, ClearCurrent, Report, EndSpeaking, CancelSet, FlushQueue, Enqueue, SpeakCall,
       ClearCall
  <2>5. DropOne => gst = "dropOne" /\ queue = <<>> /\ UNCHANGED main /\ gst' = "tellDropped"
    BY <2>1 DEF DropOne, GstGoto, Dequeue
  <2>6. TakeSpeech => gst = "dequeue" /\ queue = <<>> /\ UNCHANGED main /\ gst' = "setSpeaking"
    BY <2>1 DEF TakeSpeech, GstGoto, Dequeue
  <2>7. TellStateChange => main'.pc = "idle" /\ fault' = "nullSpeech" /\ gst' = gst
    BY <2>1 DEF TellStateChange, Idle
  <2>8. QED
    BY <2>4, <2>5, <2>6, <2>7
<1>2. UNCHANGED <<data, queue, clientSpeaking, currentSpeech, lastSpeech, owner, told, dropped,
                  cancelled, preempted, undercut>>
  BY <1>1 DEF DropOne, TakeSpeech, Dequeue, TellStateChange, speakingVars, acceptVars, historyVars
<1>3. SpeechType' /\ Heard' /\ Ended' = Ended
  BY <1>2, SilentKeeps DEF SpeechType, TypeOK, ToldInv, Core
<1>4. InHand' = InHand
  BY <1>1, <1>2, InHandFacts DEF InHand, Holding, Talking, BeforeReport
<1>5. ClearCancelsOwnSpeech'
  BY <1>1, <1>2 DEF ClearCancelsOwnSpeech, Core, ClearHolds
<1>6. EmptiedByACall'
  BY <1>1, <1>2 DEF EmptiedByACall, Core, SomethingToTake
<1>7. QED
  BY <1>2, <1>3, <1>4, <1>5, <1>6

-----------------------------------------------------------------------------
(* The invariant.                                                          *)

LEMMA InitInv == Init => Inv
<1> SUFFICES ASSUME Init PROVE Inv
  OBVIOUS
<1> USE SpeakerAssumption DEF Init
<1>1. /\ <<>> \in Seq(Speeches) /\ <<>> \in Seq(Messages) /\ Len(<<>>) = 0
      /\ 1..lastSpeech = {} /\ 0 \in 0..MaxSpeeches /\ 0 \in 0..MaxFailures
  BY EmptySeq
<1>2. TypeOK
  <2>1. MainType
    BY DEF MainType, Idle
  <2>2. SpeechType
    BY <1>1 DEF SpeechType
  <2>3. FlagType /\ ThreadType /\ PipeType
    BY <1>1 DEF FlagType, ThreadType, PipeType, GstPcs
  <2>4. QED
    BY <2>1, <2>2, <2>3, TypeParts DEF RestType
<1>3. Heard /\ OneEnd /\ Accepted
  BY <1>1 DEF Heard, OneEnd, Accepted, EventsReachOwner, AnnouncedFirst, CancelledIsInterrupted
<1>4. ClearCancelsOwnSpeech /\ EmptiedByACall /\ CallShape /\ ClearHolds
  BY DEF ClearCancelsOwnSpeech, EmptiedByACall, CallShape, ClearHolds, Idle
<1>5. MembersFollow /\ Locks /\ Announced /\ CancelledStays /\ SomethingToTake
  BY DEF MembersFollow, Locks, StateMutexFree, Announced, CancelledStays, SomethingToTake, Holding,
     Talking, BeforeReport, Published, Idle
<1>6. OnePlace
  <2>1. Elements(queue) = {} /\ Distinct(queue)
    BY <1>1 DEF Elements, Distinct
  <2>2. InCall = {} /\ InHand = {} /\ Ended = {}
    BY DEF InCall, Idle, InHand, Ended, HasHeard
  <2>3. QED
    BY <1>1, <2>1, <2>2 DEF OnePlace
<1>7. QED
  BY <1>2, <1>3, <1>4, <1>5, <1>6 DEF Inv, Core

\* A step keeps what was told, and Core up to undefined behaviour.
LEMMA StepKeeps ==
  ASSUME TypeOK, Core, Heard, EmptiedByACall, fault = "none",
         ThreadMoves \/ QuietMoves \/ ThreadActs \/ MainActs
  PROVE  /\ SpeechType' /\ Heard'
         /\ \/ fault' = "none" /\ Core'
            \/ fault' # "none" /\ ClearCancelsOwnSpeech' /\ EmptiedByACall'
<1>1. CASE fault' # "none"
  BY <1>1, FaultStep
<1>2. CASE fault' = "none" /\ ThreadMoves
  <2>1. SpeechType'
    BY <1>2, MovesOfThread DEF ThreadMoved, SpeechVars, speakingVars, acceptVars, SpeechType, TypeOK
  <2>2. QED
    BY <1>2, <2>1, ThreadMovesStep
<1>3. CASE fault' = "none" /\ QuietMoves
  <2>1. SpeechType'
    BY <1>3, QuietMovesLeave DEF MainLeaves, SpeechVars, speakingVars, acceptVars, SpeechType, TypeOK
  <2>2. QED
    BY <1>3, <2>1, QuietMovesStep
<1>4. CASE fault' = "none" /\ ThreadActs
  BY <1>4, DequeueStep, TellDroppedStep, StartSpeakingStep, WillSpeakStep, SpeakingStep, ReportStep,
     EndSpeakingStep DEF ThreadActs
<1>5. CASE fault' = "none" /\ MainActs
  BY <1>5, CancelSetStep, FlushQueueStep, EnqueueStep, TellStateChangeStep, SpeakCallStep,
     ClearCallStep DEF MainActs
<1>6. QED
  BY <1>1, <1>2, <1>3, <1>4, <1>5

LEMMA StepInv == Inv /\ [Next]_vars => Inv'
<1> SUFFICES ASSUME Inv, [Next]_vars PROVE Inv'
  OBVIOUS
<1>1. CASE Next
  <2>1. TypeOK /\ Core /\ Heard /\ EmptiedByACall /\ fault = "none" /\ scene' = scene
    BY <1>1 DEF Inv, Next
  <2>2. MainType' /\ FlagType' /\ ThreadType' /\ PipeType'
    BY <1>1, <2>1, MainTypeStep, FlagTypeStep, ThreadTypeStep, PipeTypeStep, TypeParts DEF RestType
  <2>3. /\ SpeechType' /\ Heard'
        /\ \/ fault' = "none" /\ Core'
           \/ fault' # "none" /\ ClearCancelsOwnSpeech' /\ EmptiedByACall'
    BY <1>1, <2>1, StepKinds, StepKeeps
  <2>4. TypeOK'
    BY <2>1, <2>2, <2>3 DEF TypeOK, MainType, SpeechType, FlagType, ThreadType, PipeType
  <2>5. fault' = "none" /\ Core' => ClearCancelsOwnSpeech' /\ EmptiedByACall'
    BY DEF Core, ClearHolds, ClearCancelsOwnSpeech, EmptiedByACall
  <2>6. QED
    BY <2>3, <2>4, <2>5 DEF Inv
<1>2. CASE UNCHANGED vars
  <2> USE <1>2 DEF vars, threadVars, speakingVars, errorVars, pipeVars, acceptVars, historyVars
  <2>1. TypeOK'
    BY DEF Inv, TypeOK
  <2>2. Heard' /\ ClearCancelsOwnSpeech' /\ EmptiedByACall'
    BY DEF Inv, Heard, EventsReachOwner, AnnouncedFirst, CancelledIsInterrupted, HasHeard,
       ClearCancelsOwnSpeech, EmptiedByACall
  <2>3. Core => MembersFollow' /\ CallShape' /\ Locks' /\ ClearHolds' /\ SomethingToTake'
    BY DEF Core, MembersFollow, CallShape, Locks, StateMutexFree, ClearHolds, SomethingToTake,
       NeedsUpdate, HasPipeline
  <2>4. Core => OnePlace'
    <3>1. InCall' = InCall /\ InHand' = InHand /\ Ended' = Ended
      BY DEF InCall, InHand, Ended, HasHeard
    <3>2. Elements(queue)' = Elements(queue) /\ Distinct(queue)' = Distinct(queue)
      BY DEF Elements, Distinct
    <3>3. QED
      BY <3>1, <3>2 DEF Core, OnePlace
  <2>5. Core => OneEnd' /\ Accepted' /\ Announced' /\ CancelledStays'
    BY DEF Core, OneEnd, Accepted, Announced, CancelledStays, HasHeard, Ended
  <2>6. QED
    BY <2>1, <2>2, <2>3, <2>4, <2>5 DEF Inv, Core
<1>3. QED
  BY <1>1, <1>2

\* Inv is an invariant of the speaker.
THEOREM SpeakerInvariant == Spec => []Inv
BY InitInv, StepInv, PTL DEF Spec

\* The members, the queue and what was told keep their types (TTSSpeaker.h).
THEOREM TypesAreKept == Spec => []TypeOK
<1>1. Inv => TypeOK
  BY DEF Inv
<1>2. QED
  BY <1>1, SpeakerInvariant, PTL

\* An event about a speech goes to the session that asked for it, whichever
\* thread sends it (TTSSpeaker.cpp:742, 755, 806-824, 903-919).
THEOREM EventsReachTheirOwner == Spec => []EventsReachOwner
<1>1. Inv => EventsReachOwner
  BY DEF Inv, Heard
<1>2. QED
  BY <1>1, SpeakerInvariant, PTL

\* What plays was announced first (TTSSpeaker.cpp:806-813, 903-919).
THEOREM PlaysWhatWasAnnounced == Spec => []AnnouncedFirst
<1>1. Inv => AnnouncedFirst
  BY DEF Inv, Heard
<1>2. QED
  BY <1>1, SpeakerInvariant, PTL

\* A cancelled speech ends as interrupted (TTSSpeaker.cpp:229-236, 816-824).
THEOREM CancelledEndsInterrupted == Spec => []CancelledIsInterrupted
<1>1. Inv => CancelledIsInterrupted
  BY DEF Inv, Heard
<1>2. QED
  BY <1>1, SpeakerInvariant, PTL

\* abort of one session never interrupts the speech of another
\* (TTSSpeaker.cpp:204-218).
THEOREM ClearCancelsItsOwn == Spec => []ClearCancelsOwnSpeech
<1>1. Inv => ClearCancelsOwnSpeech
  BY DEF Inv
<1>2. QED
  BY <1>1, SpeakerInvariant, PTL

\* The thread goes in vain for a text only where a call removed texts, or where
\* the wish that ended its wait was taken back (TTSSpeaker.cpp:160-165, 779-804).
THEOREM EmptyQueueHasACause == Spec => []EmptiedByACall
<1>1. Inv => EmptiedByACall
  BY DEF Inv
<1>2. QED
  BY <1>1, SpeakerInvariant, PTL

-----------------------------------------------------------------------------
(* Every speech is in one place.                                           *)

\* A set without two different elements has one or none.
LEMMA AtMostOne ==
  ASSUME NEW T, \A x, y \in T : x = y
  PROVE  Cardinality(T) = IF T = {} THEN 0 ELSE 1
<1>1. CASE T = {}
  BY <1>1, FS_EmptySet
<1>2. CASE T # {}
  <2>1. PICK x \in T : TRUE
    BY <1>2
  <2>2. T = {x}
    BY <2>1
  <2>3. Cardinality({x}) = 1
    BY FS_Singleton
  <2>4. QED
    BY <1>2, <2>2, <2>3
<1>3. QED
  BY <1>1, <1>2

\* OnePlace and OneEnd say of the sets what SpeechAccounted counts.
LEMMA OnePlaceAccounts == Inv => SpeechAccounted
<1> SUFFICES ASSUME Inv, fault = "none", NEW s \in 1..lastSpeech
             PROVE  Cardinality({m \in {main} : m.op = "speak" /\ m.speech = s})
                      + Cardinality(Queued(s)) + Cardinality(InHand \cap {s})
                      + Cardinality({t \in told : t[1] \in Terminal /\ t[2] = s})
                      + Cardinality(dropped \cap {s}) = 1
  BY DEF SpeechAccounted
<1> DEFINE called == {m \in {main} : m.op = "speak" /\ m.speech = s}
           hand   == InHand \cap {s}
           ends   == {t \in told : t[1] \in Terminal /\ t[2] = s}
           gone   == dropped \cap {s}
<1>1. TypeOK /\ Core /\ s \in Speeches
  BY SpeakerAssumption DEF Inv, TypeOK, Speeches
<1>2. Cardinality(called) = IF s \in InCall THEN 1 ELSE 0
  <2>1. \A x, y \in called : x = y
    OBVIOUS
  <2>2. called = {} <=> s \notin InCall
    BY DEF InCall
  <2> HIDE DEF called
  <2>3. QED
    BY <2>1, <2>2, AtMostOne
<1>3. Cardinality(Queued(s)) = IF s \in Elements(queue) THEN 1 ELSE 0
  <2>1. \A x, y \in Queued(s) : x = y
    BY <1>1 DEF Queued, Core, OnePlace, Distinct
  <2>2. Queued(s) = {} <=> s \notin Elements(queue)
    BY DEF Queued, Elements
  <2>3. QED
    BY <2>1, <2>2, AtMostOne
<1>4. Cardinality(hand) = IF s \in InHand THEN 1 ELSE 0
  <2>1. \A x, y \in hand : x = y
    OBVIOUS
  <2>2. hand = {} <=> s \notin InHand
    OBVIOUS
  <2> HIDE DEF hand
  <2>3. QED
    BY <2>1, <2>2, AtMostOne
<1>5. Cardinality(ends) = IF s \in Ended THEN 1 ELSE 0
  <2>1. \A x, y \in ends : x = y
    BY <1>1 DEF Core, OneEnd
  <2>2. ends = {} <=> s \notin Ended
    BY <1>1, EndedIsTold
  <2> HIDE DEF ends
  <2>3. QED
    BY <2>1, <2>2, AtMostOne
<1>6. Cardinality(gone) = IF s \in dropped THEN 1 ELSE 0
  <2>1. \A x, y \in gone : x = y
    OBVIOUS
  <2>2. gone = {} <=> s \notin dropped
    OBVIOUS
  <2> HIDE DEF gone
  <2>3. QED
    BY <2>1, <2>2, AtMostOne
<1>7. /\ s \in InCall \/ s \in Elements(queue) \/ s \in InHand \/ s \in Ended \/ s \in dropped
      /\ s \in InCall => s \notin Elements(queue) \cup InHand \cup Ended \cup dropped
      /\ s \in Elements(queue) => s \notin InHand \cup Ended \cup dropped
      /\ s \in InHand => s \notin Ended \cup dropped
      /\ s \in Ended => s \notin dropped
  BY <1>1 DEF Core, OnePlace
<1> HIDE DEF called, hand, ends, gone
<1>8. Cardinality(called) + Cardinality(Queued(s)) + Cardinality(hand) + Cardinality(ends)
        + Cardinality(gone) = 1
  BY <1>2, <1>3, <1>4, <1>5, <1>6, <1>7
<1>9. QED
  BY <1>8 DEF called, hand, ends, gone

\* Up to undefined behaviour, every accepted speech is in one place only, and
\* told one end at most (TTSSpeaker.cpp:204-218, 284-301, 765-829).
THEOREM SpeechesAreAccounted == Spec => []SpeechAccounted
BY OnePlaceAccounts, SpeakerInvariant, PTL

-----------------------------------------------------------------------------
(* The refinement.                                                         *)

\* The speaker starts as the service does.
LEMMA ServiceStarts == Init => Service!ServiceInit
BY DEF Init, Service!ServiceInit, InHand, Ended, HasHeard

\* The two ways to say what is kept are one.
LEMMA SameWithout ==
  /\ \A s, gone : Service!Without(s, gone) = Without(s, gone)
  /\ \A s : Service!Elements(s) = Elements(s)
<1>0. \A T : Service!Cardinality(T) = Cardinality(T)
  BY DEF Service!Cardinality, Cardinality
<1>1. \A places, k : Service!Place(places, k) = Place(places, k)
  BY <1>0 DEF Service!Place, Service!Rank, Place, Rank
<1>2. \A s, places : Service!KeptAt(s, places) = KeptAt(s, places)
  BY <1>0, <1>1 DEF Service!KeptAt, KeptAt
<1>3. \A s, gone : Service!Without(s, gone) = Without(s, gone)
  BY <1>2 DEF Service!Without, Without
<1>4. \A s : Service!Elements(s) = Elements(s)
  BY DEF Service!Elements, Elements
<1>5. QED
  BY <1>3, <1>4

\* The names of the service's variables.
ServiceVars == <<queue, InHand, Ended, dropped>>

\* A step of the two threads is one of the service, or changes none of its
\* variables.
LEMMA StepServes ==
  ASSUME Inv, fault = "none", ThreadMoves \/ QuietMoves \/ ThreadActs \/ MainActs
  PROVE  Service!ServiceNext \/ UNCHANGED ServiceVars
<1> USE DEF ServiceVars
<1>0. TypeOK /\ Core /\ Heard /\ EmptiedByACall
  BY DEF Inv
<1>1. CASE fault' # "none"
  BY <1>0, <1>1, FaultStep
<1>2. CASE ThreadMoves
  <2>1. ThreadMoved
    BY <1>0, <1>2, MovesOfThread DEF TypeOK
  <2>2. InHand' = InHand
    BY <2>1 DEF ThreadMoved, SpeechVars, InHand, Holding, Talking, BeforeReport, Published
  <2>3. QED
    BY <2>1, <2>2 DEF ThreadMoved, SpeechVars, Ended, HasHeard
<1>3. CASE QuietMoves
  <2>1. MainLeaves
    BY <1>3, QuietMovesLeave
  <2>2. InHand' = InHand
    BY <2>1 DEF MainLeaves, SpeechVars, InHand
  <2>3. QED
    BY <2>1, <2>2 DEF MainLeaves, SpeechVars, Ended, HasHeard
<1>4. CASE (DropOne \/ TakeSpeech) /\ fault' = "none"
  <2>1. /\ gst \in {"dropOne", "dequeue"} /\ gst' \in {"tellDropped", "setSpeaking"} /\ queue # <<>>
        /\ data' = Head(queue) /\ queue' = Tail(queue) /\ UNCHANGED <<told, dropped>>
    BY <1>4 DEF DropOne, TakeSpeech, GstGoto, Dequeue, historyVars
  <2>2. InHand = {}
    BY <1>0, <2>1, InHandFacts DEF Holding, Talking, BeforeReport
  <2>3. Head(queue) # None
    <3>1. queue \in Seq(Speeches) /\ queue # <<>>
      BY <1>0, <2>1 DEF TypeOK
    <3>2. Head(queue) \in Speeches
      BY <3>1, HeadTailProperties
    <3>3. QED
      BY <3>2 DEF Speeches, None
  <2>4. InHand' = {Head(queue)} /\ Ended' = Ended
    BY <2>1, <2>3 DEF InHand, Ended, HasHeard
  <2>5. Service!Take
    BY <2>1, <2>2, <2>4 DEF Service!Take
  <2>6. QED
    BY <2>5 DEF Service!ServiceNext
<1>5. CASE TellDropped
  <2>1. /\ gst = "tellDropped" /\ data' = None /\ Tell("playbackerror", data, owner[data])
        /\ UNCHANGED <<queue, dropped>>
    BY <1>5 DEF TellDropped, GstGoto
  <2>2. InHand = {data} /\ data \in Speeches /\ owner[data] \in Clients /\ InHand' = {}
    BY <1>0, <2>1, InHandFacts DEF Core, MembersFollow, Holding, InHand
  <2>3. Ended' = Ended \cup {data}
    BY <2>1, <2>2 DEF Tell, Ended, HasHeard, Terminal
  <2>4. Service!End
    BY <2>1, <2>2, <2>3 DEF Service!End
  <2>5. QED
    BY <2>4 DEF Service!ServiceNext
<1>6. CASE StartSpeaking \/ SpeakTest \/ SpeakText \/ ClearCurrent \/ EndSpeaking
  <2>1. UNCHANGED <<queue, dropped, told>>
    BY <1>6 DEF StartSpeaking, SpeakTest, SpeakText, ClearCurrent, EndSpeaking, historyVars
  <2>2. CASE EndSpeaking
    BY <2>1, <2>2 DEF EndSpeaking, GstGoto, InHand, Ended, HasHeard
  <2>3. CASE StartSpeaking \/ SpeakTest \/ SpeakText \/ ClearCurrent
    <3>1. data' = data /\ gst # "endSpeaking" /\ gst' # "endSpeaking"
      BY <2>3 DEF StartSpeaking, SpeakTest, SpeakText, ClearCurrent, GstGoto
    <3>2. QED
      BY <2>1, <3>1 DEF InHand, Ended, HasHeard
  <2>4. QED
    BY <1>6, <2>2, <2>3
<1>7. CASE WillSpeak
  <2>1. /\ gst = "willSpeak" /\ gst' = "speakTest" /\ data' = data /\ UNCHANGED <<queue, dropped>>
        /\ told' = told \/ Tell("willSpeak", data, owner[data])
    BY <1>7 DEF WillSpeak, GstGoto
  <2>2. InHand' = InHand
    BY <2>1 DEF InHand
  <2>3. Ended' = Ended
    BY <2>1 DEF Tell, Ended, HasHeard, Terminal
  <2>4. QED
    BY <2>1, <2>2, <2>3
<1>8. CASE Report
  <2>1. gst = "report" /\ gst' = "endSpeaking" /\ UNCHANGED <<queue, dropped>>
    BY <1>8 DEF Report, GstGoto
  <2>2. InHand # {} /\ InHand' = {}
    BY <1>0, <2>1, InHandFacts DEF Core, MembersFollow, Holding, Talking, BeforeReport, InHand
  <2>3. Ended' = Ended \cup InHand
    BY <1>0, <1>8, ReportStep
  <2>4. Service!End
    BY <2>1, <2>2, <2>3 DEF Service!End
  <2>5. QED
    BY <2>4 DEF Service!ServiceNext
<1>9. CASE CancelSet
  <2>1. /\ UNCHANGED <<queue, dropped, told, data>>
        /\ gst' = gst \/ (gst = "blocked" /\ gst' = "waitPred")
    BY <1>9 DEF CancelSet, Notify
  <2>2. QED
    BY <2>1 DEF InHand, Ended, HasHeard
<1>10. CASE FlushQueue
  <2>1. /\ queue' = <<>> /\ dropped' = dropped \cup Elements(queue)
        /\ UNCHANGED <<gst, data, told>>
    BY <1>10 DEF FlushQueue, threadVars
  <2>2. Elements(queue) \subseteq Speeches /\ Without(queue, Elements(queue)) = <<>>
    BY <1>0, ElementsFacts, WithoutFacts DEF TypeOK
  <2>3. InHand' = InHand /\ Ended' = Ended
    BY <2>1 DEF InHand, Ended, HasHeard
  <2>4. Service!Discard(Elements(queue))
    BY <2>1, <2>2, <2>3, SameWithout DEF Service!Discard, Service!Waits
  <2>5. QED
    BY <2>2, <2>4 DEF Service!ServiceNext
<1>11. CASE Enqueue
  <2>1. /\ main.speech \in Speeches /\ main.speech \in InCall /\ InHand' = InHand /\ Ended' = Ended
        /\ queue' = Append(queue, main.speech) /\ dropped' = dropped
    BY <1>0, <1>11, EnqueueStep DEF Enqueue
  <2>2. main.speech \notin Elements(queue) \cup InHand \cup Ended \cup dropped
    BY <1>0, <2>1 DEF Core, OnePlace
  <2>3. Service!Accept(main.speech)
    BY <2>1, <2>2, SameWithout DEF Service!Accept, Service!Waits
  <2>4. QED
    BY <2>1, <2>3 DEF Service!ServiceNext
<1>12. CASE TellStateChange /\ fault' = "none"
  <2>1. InHand' = InHand /\ Ended' = Ended
    BY <1>0, <1>12, TellStateChangeStep
  <2>2. QED
    BY <1>12, <2>1 DEF TellStateChange
<1>13. ASSUME NEW c \in Clients, SpeakCall(c)
       PROVE  UNCHANGED ServiceVars
  <2>1. InHand' = InHand /\ Ended' = Ended
    BY <1>0, <1>13, SpeakCallStep
  <2>2. QED
    BY <1>13, <2>1 DEF SpeakCall, historyVars
<1>14. ASSUME NEW c \in Clients, ClearCall(c)
       PROVE  Service!ServiceNext
  <2>1. InHand' = InHand /\ Ended' = Ended
    BY <1>0, <1>14, ClearCallStep
  <2>2. queue' = Without(queue, TextsOf(c)) /\ dropped' = dropped \cup TextsOf(c)
    BY <1>14 DEF ClearCall
  <2>3. TextsOf(c) \subseteq Elements(queue) /\ Elements(queue) \subseteq Speeches
    BY <1>0, ElementsFacts DEF TypeOK, TextsOf
  <2>4. Service!Discard(TextsOf(c))
    BY <2>1, <2>2, <2>3, SameWithout DEF Service!Discard, Service!Waits
  <2>5. QED
    BY <2>3, <2>4 DEF Service!ServiceNext
<1>15. QED
  BY <1>1, <1>2, <1>3, <1>4, <1>5, <1>6, <1>7, <1>8, <1>9, <1>10, <1>11, <1>12, <1>13, <1>14
     DEF ThreadActs, MainActs

\* The speaker serves the sessions as SpeechService promises: in order, one at
\* a time, one end each, and nothing that was discarded is heard
\* (TTSSpeaker.cpp:160-218, 284-301, 758-829).
THEOREM SpeakerImplementsService == Spec => ImplementsService
<1>1. Inv /\ [Next]_vars => [Service!ServiceNext]_(Service!serviceVars)
  <2> SUFFICES ASSUME Inv, [Next]_vars
               PROVE  Service!ServiceNext \/ UNCHANGED ServiceVars
    BY DEF Service!serviceVars, ServiceVars
  <2>1. CASE Next
    <3>1. fault = "none"
      BY <2>1 DEF Next
    <3>2. QED
      BY <2>1, <3>1, StepKinds, StepServes
  <2>2. CASE UNCHANGED vars
    BY <2>2 DEF vars, threadVars, historyVars, ServiceVars, InHand, Ended, HasHeard
  <2>3. QED
    BY <2>1, <2>2
<1>2. QED
  BY <1>1, ServiceStarts, SpeakerInvariant, PTL DEF Spec, ImplementsService, Service!ServiceSpec
=============================================================================
