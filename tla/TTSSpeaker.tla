----------------------------- MODULE TTSSpeaker -----------------------------
(***************************************************************************)
(* TTSSpeaker (ttsengine/TTSSpeaker.cpp): the object that turns queued     *)
(* texts into audio.  Two threads share its members:                       *)
(*                                                                         *)
(*  - the speaker thread runs GStreamerThreadFunc; `gst` is its program    *)
(*    counter, `ret` the place resetPipeline returns to and `data` the     *)
(*    SpeechData on its stack;                                             *)
(*  - the main loop thread runs every API call of the sessions and the     *)
(*    GStreamer bus callback, one at a time; `main` is the call it is in.  *)
(*                                                                         *)
(* The fields below the mutexes are read and written without a lock in     *)
(* many places, so one action is one run of code between two points where  *)
(* the other thread can be observed.  A speech is its number, given in the *)
(* order of the calls of speak(); owner[s] is the session that asked.      *)
(***************************************************************************)
EXTENDS Naturals, Sequences, FiniteSets, Subsequence

CONSTANTS
  Clients,      \* the sessions (TTSSpeakerClient) that use the speaker
  Preemptive,   \* those whose configuration()->isPreemptive() is true
  MaxSpeeches,  \* bound: calls of speak() in a behaviour
  MaxBus,       \* bound: messages waiting on the GStreamer bus
  MaxFailures,  \* m_maxPipelineConstructionFailures
  Scenes        \* the scenes a run covers: the entry points the main loop
                \* uses, and the failures of GStreamer that may happen

ASSUME SpeakerAssumption ==
  /\ Preemptive \subseteq Clients /\ "none" \notin Clients
  /\ MaxSpeeches \in Nat \ {0}
  /\ MaxBus \in Nat
  /\ MaxFailures \in Nat \ {0}
  /\ \A s \in Scenes : DOMAIN s = {"calls", "upsets"}

VARIABLES
  scene,                          \* the scene of this behaviour, never changed
  gst, ret, data,                 \* the speaker thread
  main,                           \* the main loop thread's call
  queueMutex,                     \* holder of m_queueMutex: free, main, gst
  queue,                          \* m_queue
  isSpeaking, clientSpeaking,     \* m_isSpeaking, m_clientSpeaking
  currentSpeech,                  \* m_currentSpeech, as the speech pointed to
  isPaused, flushed, isEOS,       \* m_isPaused, m_flushed, m_isEOS
  pipelineError, networkError,    \* m_pipelineError, m_networkError
  ensured, failures, runThread,   \* m_ensurePipeline, ...ConstructionFailures
  pipeline,                       \* m_pipeline and the state GStreamer is in
  bus,                            \* messages the bus has not delivered yet
  fault,                          \* undefined behaviour reached, if any
  lastSpeech, owner,              \* speeches accepted so far and their session
  told, dropped, cancelled, preempted, undercut  \* history, for the properties only

threadVars   == <<gst, ret, data>>
speakingVars == <<isSpeaking, clientSpeaking>>
errorVars    == <<pipelineError, networkError>>
pipeVars     == <<pipeline, bus>>
acceptVars   == <<lastSpeech, owner>>
historyVars  == <<told, dropped, cancelled, preempted, undercut>>
vars == <<scene, threadVars, main, queueMutex, queue, speakingVars, currentSpeech,
          isPaused, flushed, isEOS, errorVars, ensured, failures, runThread,
          pipeVars, fault, acceptVars, historyVars>>

Speeches  == 1..MaxSpeeches
None      == 0                  \* no speech
NoClient  == "none"
Terminal  == {"interrupted", "networkerror", "playbackerror", "spoke"}
Events    == Terminal \cup {"willSpeak", "started", "paused", "resumed"}
Messages  == {"playing", "paused", "eos", "error", "neterror"}
Exists    == {"null", "toPlaying", "playing", "toPaused", "paused"}

GstPcs == {"top", "update", "create", "createCheck", "dropOne",
           "tellDropped", "reset", "resetClear", "waitNull", "spin", "waitTest", "waitPred", "sleep", "blocked",
           "awake", "dequeue", "setSpeaking", "willSpeak", "speakTest",
           "speakText", "play", "waitAudio", "stopAudio", "clearCurrent",
           "report", "endSpeaking", "final", "done"}

\* The call the main loop is in: which one, where, and what it is about.
Idle == [op |-> "none", pc |-> "idle", speech |-> None, client |-> NoClient,
         message |-> "none"]

-----------------------------------------------------------------------------
Init ==
  /\ scene \in Scenes
  /\ gst = "top" /\ ret = "top" /\ data = None
  /\ main = Idle
  /\ queueMutex = "free"
  /\ queue = <<>>
  /\ isSpeaking = FALSE /\ clientSpeaking = NoClient
  /\ currentSpeech = None
  /\ isPaused = FALSE /\ flushed = FALSE /\ isEOS = FALSE
  /\ pipelineError = FALSE /\ networkError = FALSE
  /\ ensured = FALSE /\ failures = 0 /\ runThread = TRUE
  /\ pipeline = "none" /\ bus = <<>>
  /\ fault = "none"
  /\ lastSpeech = 0 /\ owner = [s \in Speeches |-> NoClient]
  /\ told = {} /\ dropped = {} /\ cancelled = {} /\ preempted = {}
  /\ undercut = FALSE

HasPipeline == pipeline # "none"

\* Mutant: a pipeline that is not wanted any more is not noticed.
NeedsUpdate_Keeps == (failures < MaxFailures \/ queue # <<>>) /\ ensured /\ ~HasPipeline

\* needsPipelineUpdate(): read without a lock wherever it is used.
NeedsUpdate ==
  /\ failures < MaxFailures \/ queue # <<>>
  /\ ensured # HasPipeline

\* m_condition.notify_one(): only the speaker thread ever waits on it.
Notify == gst' = IF gst = "blocked" THEN "waitPred" ELSE gst

\* m_stateMutex is held by the main loop while the bus callback tells the
\* client; every other critical section of it is a single action.
StateMutexFree == main.pc \notin {"tellStarted", "tellResumed", "tellPaused"}

Tell(event, s, client) == told' = told \cup {<<event, s, client>>}
HasHeard(s, events) == \E e \in events : \E c \in Clients : <<e, s, c>> \in told

-----------------------------------------------------------------------------
(* The speaker thread.                                                     *)

GstGoto(from, to) == gst = from /\ gst' = to

\* Top of the loop: stop, bring the pipeline up to date, or wait for text.
Top ==
  /\ GstGoto("top", IF ~runThread THEN "final"
                    ELSE IF NeedsUpdate THEN "update" ELSE "waitTest")
  /\ UNCHANGED <<ret, data, main, queueMutex, queue, speakingVars,
                 currentSpeech, isPaused, flushed, isEOS, errorVars, ensured,
                 failures, runThread, pipeVars, fault, acceptVars, historyVars>>

\* destroyPipeline(); its bounded wait for the NULL state has no effect.
DestroyPipeline ==
  /\ pipeline' = "none" /\ bus' = <<>> /\ failures' = 0

UpdatePipeline ==
  /\ gst = "update"
  /\ IF ensured
       THEN gst' = "create" /\ ret' = "createCheck"
            /\ UNCHANGED <<pipeVars, failures>>
       ELSE gst' = "waitTest" /\ UNCHANGED ret /\ DestroyPipeline
  /\ UNCHANGED <<data, main, queueMutex, queue, speakingVars, currentSpeech,
                 isPaused, flushed, isEOS, errorVars, ensured, runThread,
                 fault, acceptVars, historyVars>>

\* createPipeline(): skipped, failed, or built and then reset.
CreatePipeline ==
  /\ gst = "create"
  /\ isEOS' = FALSE
  /\ \/ /\ ~ensured \/ HasPipeline
        /\ gst' = ret
        /\ UNCHANGED <<pipeline, failures>>
     \/ /\ ensured /\ ~HasPipeline /\ "create" \in scene.upsets
        /\ gst' = ret
        /\ failures' = IF failures < MaxFailures THEN failures + 1 ELSE failures
        /\ UNCHANGED pipeline
     \/ /\ ensured /\ ~HasPipeline
        /\ gst' = "reset"
        /\ failures' = 0
        /\ pipeline' = "null"
  /\ UNCHANGED <<ret, data, main, queueMutex, queue, speakingVars,
                 currentSpeech, isPaused, flushed, errorVars, ensured,
                 runThread, bus, fault, acceptVars, historyVars>>

\* resetPipeline(): a pipeline with an error is destroyed.
ResetPipeline ==
  /\ GstGoto("reset", "resetClear")
  /\ IF pipelineError THEN DestroyPipeline ELSE UNCHANGED <<pipeVars, failures>>
  /\ UNCHANGED <<ret, data, main, queueMutex, queue, speakingVars,
                 currentSpeech, isPaused, flushed, isEOS, errorVars, ensured,
                 runThread, fault, acceptVars, historyVars>>

\* The flags are cleared, with an error that came since they were read; then a
\* pipeline is created, or the one there is told to go to NULL.
ResetFlags ==
  /\ GstGoto("resetClear", IF HasPipeline THEN "waitNull" ELSE "create")
  /\ pipelineError' = FALSE /\ networkError' = FALSE
  /\ isPaused' = FALSE /\ isEOS' = FALSE
  /\ pipeline' = IF HasPipeline THEN "null" ELSE "none"
  /\ bus' = <<>>
  /\ UNCHANGED <<ret, data, main, queueMutex, queue, speakingVars,
                 currentSpeech, flushed, ensured, failures, runThread, fault,
                 acceptVars, historyVars>>

\* while(!waitForStatus(GST_STATE_NULL, 60s)).  With m_flushed set, the wait
\* returns before `state` is written: the loop ends or goes on as the
\* uninitialized value decides, and nothing but this thread clears m_flushed.
WaitForNull ==
  /\ gst = "waitNull"
  /\ queueMutex = "free"
  /\ IF flushed THEN gst' \in {ret, "spin"} ELSE pipeline = "null" /\ gst' = ret
  /\ UNCHANGED <<ret, data, main, queueMutex, queue, speakingVars,
                 currentSpeech, isPaused, flushed, isEOS, errorVars, ensured,
                 failures, runThread, pipeVars, fault, acceptVars, historyVars>>

\* The uninitialized value may also change; no fairness is assumed of this.
SpinEnds ==
  /\ GstGoto("spin", ret)
  /\ UNCHANGED <<ret, data, main, queueMutex, queue, speakingVars,
                 currentSpeech, isPaused, flushed, isEOS, errorVars, ensured,
                 failures, runThread, pipeVars, fault, acceptVars, historyVars>>

\* After createPipeline: m_queue.empty() is read without the lock.
CreateCheck ==
  /\ GstGoto("createCheck",
             IF ~HasPipeline /\ queue # <<>> THEN "dropOne" ELSE "waitTest")
  /\ undercut' = FALSE
  /\ UNCHANGED <<ret, data, main, queueMutex, queue, speakingVars,
                 currentSpeech, isPaused, flushed, isEOS, errorVars, ensured,
                 failures, runThread, pipeVars, fault, acceptVars, told, dropped,
                 cancelled, preempted>>

\* Mutants: the text is not popped; the newest is taken; the lock is missing.
Dequeue_NotPopped ==
  /\ queueMutex = "free" /\ queue # <<>>
  /\ data' = Head(queue) /\ flushed' = FALSE /\ UNCHANGED <<queue, fault>>

Dequeue_Newest ==
  /\ queueMutex = "free" /\ queue # <<>>
  /\ data' = queue[Len(queue)] /\ queue' = SubSeq(queue, 1, Len(queue) - 1)
  /\ flushed' = FALSE /\ UNCHANGED fault

Dequeue_Unlocked ==
  /\ queue # <<>>
  /\ data' = Head(queue) /\ queue' = Tail(queue)
  /\ flushed' = FALSE /\ UNCHANGED fault

\* dequeueData(): front() and pop_front() of an empty queue are undefined.
Dequeue ==
  /\ queueMutex = "free"
  /\ IF queue = <<>>
       THEN fault' = "emptyDequeue" /\ UNCHANGED <<data, queue, flushed>>
       ELSE data' = Head(queue) /\ queue' = Tail(queue) /\ flushed' = FALSE
            /\ UNCHANGED fault

\* The pipeline cannot be built: the first request is answered playbackerror.
DropOne ==
  /\ GstGoto("dropOne", "tellDropped")
  /\ Dequeue
  /\ UNCHANGED <<ret, main, queueMutex, speakingVars, currentSpeech, isPaused,
                 isEOS, errorVars, ensured, failures, runThread, pipeVars,
                 acceptVars, historyVars>>

\* Mutant: the error goes to the client of the speech in progress.
TellDropped_Speaking ==
  /\ GstGoto("tellDropped", "waitTest")
  /\ Tell("playbackerror", data, clientSpeaking)
  /\ failures' = 0 /\ data' = None
  /\ UNCHANGED <<ret, main, queueMutex, queue, speakingVars, currentSpeech,
                 isPaused, flushed, isEOS, errorVars, ensured, runThread,
                 pipeVars, fault, acceptVars, dropped, cancelled, preempted, undercut>>

TellDropped ==
  /\ GstGoto("tellDropped", "waitTest")
  /\ Tell("playbackerror", data, owner[data])
  /\ failures' = 0 /\ data' = None
  /\ UNCHANGED <<ret, main, queueMutex, queue, speakingVars, currentSpeech,
                 isPaused, flushed, isEOS, errorVars, ensured, runThread,
                 pipeVars, fault, acceptVars, dropped, cancelled, preempted, undercut>>

\* Mutant: the predicate does not ask whether the thread is to stop.
NothingToDo_NeverStops == queue = <<>> /\ ~NeedsUpdate

\* Mutant: an error of the pipeline ends the wait as well.
NothingToDo_Errors == runThread /\ queue = <<>> /\ ~NeedsUpdate /\ ~pipelineError

NothingToDo == runThread /\ queue = <<>> /\ ~NeedsUpdate

\* The test of the while loop around the wait, without the lock.  `undercut`
\* notes what calls take away from the thread after its last test.
WaitTest ==
  /\ GstGoto("waitTest", IF NothingToDo THEN "waitPred" ELSE "awake")
  /\ undercut' = FALSE
  /\ UNCHANGED <<ret, data, main, queueMutex, queue, speakingVars,
                 currentSpeech, isPaused, flushed, isEOS, errorVars, ensured,
                 failures, runThread, pipeVars, fault, acceptVars, told, dropped,
                 cancelled, preempted>>

\* The predicate of m_condition.wait, under m_queueMutex; the mutex is kept
\* until the thread is asleep.
WaitPredicate ==
  /\ gst = "waitPred"
  /\ queueMutex = "free"
  /\ IF NothingToDo THEN gst' = "sleep" /\ queueMutex' = "gst"
                    ELSE gst' = "waitTest" /\ UNCHANGED queueMutex
  /\ UNCHANGED <<ret, data, main, queue, speakingVars, currentSpeech,
                 isPaused, flushed, isEOS, errorVars, ensured, failures,
                 runThread, pipeVars, fault, acceptVars, historyVars>>

FallAsleep ==
  /\ GstGoto("sleep", "blocked")
  /\ queueMutex' = "free"
  /\ UNCHANGED <<ret, data, main, queue, speakingVars, currentSpeech,
                 isPaused, flushed, isEOS, errorVars, ensured, failures,
                 runThread, pipeVars, fault, acceptVars, historyVars>>

\* Stop on the speaker's cue, go back for the pipeline, or take the text.
Awake ==
  /\ gst = "awake"
  /\ IF ~runThread
       THEN gst' = "done" /\ bus' = <<>>
            /\ pipeline' = IF HasPipeline THEN "null" ELSE "none"
       ELSE gst' = (IF NeedsUpdate THEN "top" ELSE "dequeue") /\ UNCHANGED pipeVars
  /\ UNCHANGED <<ret, data, main, queueMutex, queue, speakingVars,
                 currentSpeech, isPaused, flushed, isEOS, errorVars, ensured,
                 failures, runThread, fault, acceptVars, historyVars>>

TakeSpeech ==
  /\ GstGoto("dequeue", "setSpeaking")
  /\ Dequeue
  /\ UNCHANGED <<ret, main, queueMutex, speakingVars, currentSpeech, isPaused,
                 isEOS, errorVars, ensured, failures, runThread, pipeVars,
                 acceptVars, historyVars>>

\* Mutant: the speech is published when it is taken, not when it plays.
StartSpeaking_Publishes ==
  /\ GstGoto("setSpeaking", "willSpeak")
  /\ StateMutexFree
  /\ isSpeaking' = TRUE /\ clientSpeaking' = owner[data] /\ currentSpeech' = data
  /\ UNCHANGED <<ret, data, main, queueMutex, queue, isPaused, flushed, isEOS,
                 errorVars, ensured, failures, runThread, pipeVars, fault,
                 acceptVars, historyVars>>

\* setSpeakingState(true, data.client)
StartSpeaking ==
  /\ GstGoto("setSpeaking", "willSpeak")
  /\ StateMutexFree
  /\ isSpeaking' = TRUE /\ clientSpeaking' = owner[data]
  /\ UNCHANGED <<ret, data, main, queueMutex, queue, currentSpeech, isPaused,
                 flushed, isEOS, errorVars, ensured, failures, runThread,
                 pipeVars, fault, acceptVars, historyVars>>

WillSpeak ==
  /\ GstGoto("willSpeak", "speakTest")
  /\ IF flushed THEN UNCHANGED told ELSE Tell("willSpeak", data, owner[data])
  /\ UNCHANGED <<ret, data, main, queueMutex, queue, speakingVars,
                 currentSpeech, isPaused, flushed, isEOS, errorVars, ensured,
                 failures, runThread, pipeVars, fault, acceptVars, dropped,
                 cancelled, preempted, undercut>>

SpeakTest ==
  /\ GstGoto("speakTest", IF flushed THEN "report" ELSE "speakText")
  /\ isEOS' = IF flushed THEN isEOS ELSE FALSE
  /\ UNCHANGED <<ret, data, main, queueMutex, queue, speakingVars,
                 currentSpeech, isPaused, flushed, errorVars, ensured,
                 failures, runThread, pipeVars, fault, acceptVars, historyVars>>

\* speakText(): publish the speech, then ask the pipeline to play it.
SpeakText ==
  /\ gst = "speakText"
  /\ IF HasPipeline /\ ~pipelineError /\ ~flushed
       THEN gst' = "play" /\ currentSpeech' = data
       ELSE gst' = "report" /\ currentSpeech' = None
  /\ UNCHANGED <<ret, data, main, queueMutex, queue, speakingVars, isPaused,
                 flushed, isEOS, errorVars, ensured, failures, runThread,
                 pipeVars, fault, acceptVars, historyVars>>

Play ==
  /\ GstGoto("play", "waitAudio")
  /\ pipeline' = IF pipeline = "playing" THEN "playing" ELSE "toPlaying"
  /\ UNCHANGED <<ret, data, main, queueMutex, queue, speakingVars,
                 currentSpeech, isPaused, flushed, isEOS, errorVars, ensured,
                 failures, runThread, bus, fault, acceptVars, historyVars>>

\* waitForAudioToFinishTimeout(): a flag ends the wait, and so does the
\* timeout, which is pushed back for as long as the speech is paused.
AudioFinished == pipelineError \/ flushed \/ isEOS

\* Mutant: without the timeout.
WaitOver_NoTimeout == AudioFinished

WaitOver == AudioFinished \/ ~isPaused

WaitForAudio ==
  /\ GstGoto("waitAudio", "stopAudio")
  /\ queueMutex = "free"
  /\ WaitOver
  /\ UNCHANGED <<ret, data, main, queueMutex, queue, speakingVars,
                 currentSpeech, isPaused, flushed, isEOS, errorVars, ensured,
                 failures, runThread, pipeVars, fault, acceptVars, historyVars>>

\* Going to NULL flushes the bus.
StopAudio ==
  /\ GstGoto("stopAudio", "clearCurrent")
  /\ pipeline' = "null" /\ bus' = <<>>
  /\ isEOS' = FALSE
  /\ UNCHANGED <<ret, data, main, queueMutex, queue, speakingVars,
                 currentSpeech, isPaused, flushed, errorVars, ensured,
                 failures, runThread, fault, acceptVars, historyVars>>

\* Mutant: m_currentSpeech is left behind.
ClearCurrent_Stale ==
  /\ GstGoto("clearCurrent", "report")
  /\ UNCHANGED <<ret, data, main, queueMutex, queue, speakingVars,
                 currentSpeech, isPaused, flushed, isEOS, errorVars, ensured,
                 failures, runThread, pipeVars, fault, acceptVars, historyVars>>

ClearCurrent ==
  /\ GstGoto("clearCurrent", "report")
  /\ currentSpeech' = None
  /\ UNCHANGED <<ret, data, main, queueMutex, queue, speakingVars, isPaused,
                 flushed, isEOS, errorVars, ensured, failures, runThread,
                 pipeVars, fault, acceptVars, historyVars>>

\* Mutant: the error is looked at before the flag of a cancelled speech.
Outcome_ErrorFirst ==
  CASE networkError -> "networkerror"
    [] ~networkError /\ flushed -> "interrupted"
    [] ~networkError /\ ~flushed /\ (~HasPipeline \/ pipelineError) -> "playbackerror"
    [] OTHER -> "spoke"

\* The one event that ends the speech.
Outcome ==
  CASE flushed                        -> "interrupted"
    [] ~flushed /\ networkError       -> "networkerror"
    [] ~flushed /\ ~networkError /\ (~HasPipeline \/ pipelineError)
                                      -> "playbackerror"
    [] OTHER                          -> "spoke"

Report ==
  /\ GstGoto("report", "endSpeaking")
  /\ Tell(Outcome, data, owner[data])
  /\ UNCHANGED <<ret, data, main, queueMutex, queue, speakingVars,
                 currentSpeech, isPaused, flushed, isEOS, errorVars, ensured,
                 failures, runThread, pipeVars, fault, acceptVars, dropped,
                 cancelled, preempted, undercut>>

\* setSpeakingState(false)
EndSpeaking ==
  /\ GstGoto("endSpeaking", "reset")
  /\ StateMutexFree
  /\ isSpeaking' = FALSE /\ clientSpeaking' = NoClient /\ flushed' = FALSE
  /\ ret' = "top" /\ data' = None
  /\ UNCHANGED <<main, queueMutex, queue, currentSpeech, isPaused, isEOS,
                 errorVars, ensured, failures, runThread, pipeVars, fault,
                 acceptVars, historyVars>>

Final ==
  /\ GstGoto("final", "done")
  /\ DestroyPipeline
  /\ UNCHANGED <<ret, data, main, queueMutex, queue, speakingVars,
                 currentSpeech, isPaused, flushed, isEOS, errorVars, ensured,
                 runThread, fault, acceptVars, historyVars>>

GstStep ==
  \/ Top \/ UpdatePipeline \/ CreatePipeline \/ ResetPipeline \/ ResetFlags
  \/ WaitForNull \/ CreateCheck \/ DropOne \/ TellDropped \/ WaitTest \/ WaitPredicate \/ FallAsleep
  \/ Awake \/ TakeSpeech \/ StartSpeaking \/ WillSpeak \/ SpeakTest
  \/ SpeakText \/ Play \/ WaitForAudio \/ StopAudio \/ ClearCurrent
  \/ Report \/ EndSpeaking \/ Final

-----------------------------------------------------------------------------
(* The main loop thread: the calls of TTSSession and TTSManager.           *)

MainIdle == main = Idle

\* Begin call `op`; it is offered only in the scenes that use it.
Called(op) == op \in scene.calls /\ MainIdle

SpeakCall(c) ==
  /\ Called("speak") /\ lastSpeech < MaxSpeeches
  /\ lastSpeech' = lastSpeech + 1
  /\ owner' = [owner EXCEPT ![lastSpeech + 1] = c]
  /\ main' = [Idle EXCEPT !.op = "speak", !.speech = lastSpeech + 1,
                           !.pc = IF c \in Preemptive THEN "cancelTest" ELSE "enqueue"]
  /\ UNCHANGED <<threadVars, queueMutex, queue, speakingVars, currentSpeech,
                 isPaused, flushed, isEOS, errorVars, ensured, failures,
                 runThread, pipeVars, fault, historyVars>>

TextsOf(c) == {s \in Elements(queue) : owner[s] = c}

\* clearAllSpeechesFrom(c) takes m_queueMutex and keeps it to its end.
ClearCall(c) ==
  /\ Called("clear")
  /\ queueMutex = "free" /\ queueMutex' = "main"
  /\ queue' = Without(queue, TextsOf(c))
  /\ dropped' = dropped \cup TextsOf(c)
  /\ undercut' = (undercut \/ TextsOf(c) # {})
  /\ main' = [Idle EXCEPT !.op = "clear", !.pc = "isSpeaking", !.client = c]
  /\ UNCHANGED <<threadVars, speakingVars, currentSpeech, isPaused, flushed,
                 isEOS, errorVars, ensured, failures, runThread, pipeVars,
                 fault, acceptVars, told, cancelled, preempted>>

ClearIsSpeaking ==
  /\ main.pc = "isSpeaking"
  /\ main' = [main EXCEPT !.pc = IF clientSpeaking = main.client THEN "cancelTest"
                                                               ELSE "unlock"]
  /\ UNCHANGED <<threadVars, queueMutex, queue, speakingVars, currentSpeech,
                 isPaused, flushed, isEOS, errorVars, ensured, failures,
                 runThread, pipeVars, fault, acceptVars, historyVars>>

Unlock ==
  /\ main.pc = "unlock"
  /\ queueMutex' = "free" /\ main' = Idle
  /\ UNCHANGED <<threadVars, queue, speakingVars, currentSpeech, isPaused,
                 flushed, isEOS, errorVars, ensured, failures, runThread,
                 pipeVars, fault, acceptVars, historyVars>>

\* TTSSession::shut, pause and resume first ask isSpeaking(this).
SessionCall(op, c, pc) ==
  /\ Called(op)
  /\ clientSpeaking = c
  /\ main' = [Idle EXCEPT !.op = op, !.pc = pc]
  /\ UNCHANGED <<threadVars, queueMutex, queue, speakingVars, currentSpeech,
                 isPaused, flushed, isEOS, errorVars, ensured, failures,
                 runThread, pipeVars, fault, acceptVars, historyVars>>

\* cancelCurrentSpeech(): m_isSpeaking is tested, then the flags are set.
AfterCancel == CASE main.op = "speak" -> [main EXCEPT !.pc = "flush"]
                 [] main.op = "clear" -> [main EXCEPT !.pc = "unlock"]
                 [] main.op = "shut"  -> Idle

CancelTest ==
  /\ main.pc = "cancelTest"
  /\ main' = IF isSpeaking THEN [main EXCEPT !.pc = "cancelSet"] ELSE AfterCancel
  /\ UNCHANGED <<threadVars, queueMutex, queue, speakingVars, currentSpeech,
                 isPaused, flushed, isEOS, errorVars, ensured, failures,
                 runThread, pipeVars, fault, acceptVars, historyVars>>

BeforeReport == {"willSpeak", "speakTest", "speakText", "play", "waitAudio",
                 "stopAudio", "clearCurrent", "report"}

CancelSet ==
  /\ main.pc = "cancelSet"
  /\ isPaused' = FALSE /\ flushed' = TRUE
  /\ Notify
  /\ main' = AfterCancel
  /\ cancelled' = IF gst \in BeforeReport THEN cancelled \cup {data} ELSE cancelled
  /\ UNCHANGED <<ret, data, queueMutex, queue, speakingVars, currentSpeech,
                 isEOS, errorVars, ensured, failures, runThread, pipeVars,
                 fault, acceptVars, told, dropped, preempted, undercut>>

\* reset() goes on with flushQueue(): every session's texts are forgotten.
FlushQueue ==
  /\ main.pc = "flush"
  /\ queueMutex = "free"
  /\ queue' = <<>>
  /\ dropped' = dropped \cup Elements(queue)
  /\ undercut' = (undercut \/ queue # <<>>)
  /\ main' = [main EXCEPT !.pc = "enqueue"]
  /\ UNCHANGED <<threadVars, queueMutex, speakingVars, currentSpeech, isPaused,
                 flushed, isEOS, errorVars, ensured, failures, runThread,
                 pipeVars, fault, acceptVars, told, cancelled, preempted>>

\* queueData(); `preempted` notes the unannounced speeches that a preemptive
\* one was to stop.
Enqueue ==
  /\ main.pc = "enqueue"
  /\ queueMutex = "free"
  /\ queue' = Append(queue, main.speech)
  /\ Notify
  /\ main' = Idle
  /\ preempted' = IF owner[main.speech] \in Preemptive
                    THEN {s \in 1..(main.speech - 1) : ~HasHeard(s, Events)}
                    ELSE preempted
  /\ UNCHANGED <<ret, data, queueMutex, speakingVars, currentSpeech, isPaused,
                 flushed, isEOS, errorVars, ensured, failures, runThread,
                 pipeVars, fault, acceptVars, told, dropped, cancelled, undercut>>

\* pause(id), resume(id): the guards read the members without a lock.  The id
\* is compared through m_currentSpeech, read again after the test for NULL.
PauseTest ==
  /\ main.pc \in {"pauseTest", "resumeTest"}
  /\ main' \in IF isSpeaking /\ currentSpeech # None
                 THEN {Idle, [main EXCEPT !.pc = "apply"]} ELSE {Idle}
  /\ UNCHANGED <<threadVars, queueMutex, queue, speakingVars, currentSpeech,
                 isPaused, flushed, isEOS, errorVars, ensured, failures,
                 runThread, pipeVars, fault, acceptVars, historyVars>>

\* gst_element_set_state(PAUSED): nothing was heard yet if it was not PLAYING.
ApplyPause ==
  /\ main.pc = "apply" /\ main.op = "pause"
  /\ IF HasPipeline /\ ~isPaused
       THEN /\ isPaused' = TRUE
            /\ pipeline' = CASE pipeline \in {"playing", "toPaused"} -> "toPaused"
                             [] OTHER -> "paused"
       ELSE UNCHANGED <<isPaused, pipeline>>
  /\ main' = Idle
  /\ UNCHANGED <<threadVars, queueMutex, queue, speakingVars, currentSpeech,
                 flushed, isEOS, errorVars, ensured, failures, runThread, bus,
                 fault, acceptVars, historyVars>>

ApplyResume ==
  /\ main.pc = "apply" /\ main.op = "resume"
  /\ pipeline' = IF HasPipeline /\ isPaused /\ pipeline # "playing"
                   THEN "toPlaying" ELSE pipeline
  /\ main' = Idle
  /\ UNCHANGED <<threadVars, queueMutex, queue, speakingVars, currentSpeech,
                 isPaused, flushed, isEOS, errorVars, ensured, failures,
                 runThread, bus, fault, acceptVars, historyVars>>

EnsurePipeline(flag) ==
  /\ Called(IF flag THEN "ensure" ELSE "release")
  /\ queueMutex = "free"
  /\ ensured' = flag
  /\ undercut' = (undercut \/ flag # ensured)
  /\ Notify
  /\ UNCHANGED <<ret, data, main, queueMutex, queue, speakingVars,
                 currentSpeech, isPaused, flushed, isEOS, errorVars, failures,
                 runThread, pipeVars, fault, acceptVars, told, dropped,
                 cancelled, preempted>>

\* ~TTSSpeaker(): m_isSpeaking is tested, then m_flushed is set.
DeleteCall ==
  /\ Called("delete")
  /\ main' = [Idle EXCEPT !.op = "delete",
                           !.pc = IF isSpeaking THEN "deleteFlush" ELSE "stop"]
  /\ UNCHANGED <<threadVars, queueMutex, queue, speakingVars, currentSpeech,
                 isPaused, flushed, isEOS, errorVars, ensured, failures,
                 runThread, pipeVars, fault, acceptVars, historyVars>>

DeleteFlush ==
  /\ main.pc = "deleteFlush"
  /\ flushed' = TRUE
  /\ main' = [main EXCEPT !.pc = "stop"]
  /\ UNCHANGED <<threadVars, queueMutex, queue, speakingVars, currentSpeech,
                 isPaused, isEOS, errorVars, ensured, failures, runThread,
                 pipeVars, fault, acceptVars, historyVars>>

\* No lock around m_runThread = false and notify_one.
DeleteStop ==
  /\ main.pc = "stop"
  /\ runThread' = FALSE
  /\ Notify
  /\ main' = [main EXCEPT !.pc = "join"]
  /\ UNCHANGED <<ret, data, queueMutex, queue, speakingVars, currentSpeech,
                 isPaused, flushed, isEOS, errorVars, ensured, failures,
                 pipeVars, fault, acceptVars, historyVars>>

Join ==
  /\ main.pc = "join"
  /\ gst = "done"
  /\ main' = [main EXCEPT !.pc = "gone"]
  /\ UNCHANGED <<threadVars, queueMutex, queue, speakingVars, currentSpeech,
                 isPaused, flushed, isEOS, errorVars, ensured, failures,
                 runThread, pipeVars, fault, acceptVars, historyVars>>

-----------------------------------------------------------------------------
(* handleMessage(): the bus callback, on the main loop thread.             *)

PopMessage ==
  /\ MainIdle /\ bus # <<>>
  /\ main' = [Idle EXCEPT !.op = "message", !.pc = "handle", !.message = Head(bus)]
  /\ bus' = Tail(bus)
  /\ UNCHANGED <<threadVars, queueMutex, queue, speakingVars, currentSpeech,
                 isPaused, flushed, isEOS, errorVars, ensured, failures,
                 runThread, pipeline, fault, acceptVars, historyVars>>

Handle(messages) == main.pc = "handle" /\ main.message \in messages

\* An error of the source is one of the network; m_networkError is set first.
HandleError ==
  /\ Handle({"error", "neterror"})
  /\ networkError' = (networkError \/ (HasPipeline /\ main.message = "neterror"))
  /\ main' = IF HasPipeline THEN [main EXCEPT !.pc = "failed"] ELSE Idle
  /\ UNCHANGED <<threadVars, queueMutex, queue, speakingVars, currentSpeech,
                 isPaused, flushed, isEOS, pipelineError, ensured, failures,
                 runThread, pipeVars, fault, acceptVars, historyVars>>

PipelineFails ==
  /\ main.pc = "failed"
  /\ pipelineError' = TRUE
  /\ Notify
  /\ main' = Idle
  /\ UNCHANGED <<ret, data, queueMutex, queue, speakingVars, currentSpeech,
                 isPaused, flushed, isEOS, networkError, ensured, failures,
                 runThread, pipeVars, fault, acceptVars, historyVars>>

HandleEos ==
  /\ Handle({"eos"})
  /\ IF HasPipeline THEN isEOS' = TRUE /\ Notify ELSE UNCHANGED <<isEOS, gst>>
  /\ main' = Idle
  /\ UNCHANGED <<ret, data, queueMutex, queue, speakingVars, currentSpeech,
                 isPaused, flushed, errorVars, ensured, failures, runThread,
                 pipeVars, fault, acceptVars, historyVars>>

\* A state change takes m_stateMutex and decides whom to tell what.
HandleStateChange ==
  /\ Handle({"playing", "paused"})
  /\ LET clientWaits == HasPipeline /\ clientSpeaking # NoClient
     IN  CASE main.message = "playing" /\ clientWaits /\ isPaused ->
                /\ isPaused' = FALSE
                /\ main' = [main EXCEPT !.pc = "tellResumed"]
           [] main.message = "playing" /\ clientWaits /\ ~isPaused ->
                /\ main' = [main EXCEPT !.pc = "tellStarted"]
                /\ UNCHANGED isPaused
           [] main.message = "paused" /\ clientWaits /\ isPaused ->
                /\ main' = [main EXCEPT !.pc = "tellPaused"]
                /\ UNCHANGED isPaused
           [] OTHER -> main' = Idle /\ UNCHANGED isPaused
  /\ UNCHANGED <<threadVars, queueMutex, queue, speakingVars, currentSpeech,
                 flushed, isEOS, errorVars, ensured, failures, runThread,
                 pipeVars, fault, acceptVars, historyVars>>

\* m_clientSpeaking->started(m_currentSpeech->id, ...) and its like: reading
\* through m_currentSpeech is undefined once the speaker thread set it to NULL.
TellStateChange ==
  /\ main.pc \in {"tellStarted", "tellResumed", "tellPaused"}
  /\ LET event == CASE main.pc = "tellStarted" -> "started"
                    [] main.pc = "tellResumed" -> "resumed"
                    [] main.pc = "tellPaused"  -> "paused"
     IN  IF currentSpeech = None
           THEN fault' = "nullSpeech" /\ UNCHANGED <<told, gst>>
           ELSE Tell(event, currentSpeech, clientSpeaking) /\ UNCHANGED fault
                /\ IF event = "started" THEN UNCHANGED gst ELSE Notify
  /\ main' = Idle
  /\ UNCHANGED <<ret, data, queueMutex, queue, speakingVars, currentSpeech,
                 isPaused, flushed, isEOS, errorVars, ensured, failures,
                 runThread, pipeVars, acceptVars, dropped, cancelled, preempted, undercut>>

-----------------------------------------------------------------------------
(* GStreamer: state changes complete, streams end and fail (external).     *)

Post(message) == Len(bus) < MaxBus /\ bus' = Append(bus, message)

GstreamerUnchanged ==
  UNCHANGED <<threadVars, main, queueMutex, queue, speakingVars, currentSpeech,
              isPaused, flushed, isEOS, errorVars, ensured, failures,
              runThread, fault, acceptVars, historyVars>>

ReachPlaying == pipeline = "toPlaying" /\ pipeline' = "playing"
                /\ Post("playing") /\ GstreamerUnchanged

ReachPaused == pipeline = "toPaused" /\ pipeline' = "paused"
               /\ Post("paused") /\ GstreamerUnchanged

PostEos == pipeline = "playing" /\ Post("eos")
           /\ UNCHANGED pipeline /\ GstreamerUnchanged

PostError == /\ pipeline \in Exists \ {"null"}
             /\ \E e \in {"error", "neterror"} \cap scene.upsets : Post(e)
             /\ UNCHANGED pipeline /\ GstreamerUnchanged

-----------------------------------------------------------------------------
MainContinues ==
  \/ ClearIsSpeaking \/ Unlock \/ CancelTest \/ CancelSet \/ FlushQueue
  \/ Enqueue \/ PauseTest \/ ApplyPause \/ ApplyResume \/ DeleteFlush
  \/ DeleteStop \/ Join \/ PopMessage \/ HandleError \/ PipelineFails
  \/ HandleEos \/ HandleStateChange \/ TellStateChange

MainCalls ==
  \/ \E c \in Clients :
       \/ SpeakCall(c) \/ ClearCall(c)
       \/ SessionCall("shut", c, "cancelTest")
       \/ SessionCall("pause", c, "pauseTest")
       \/ SessionCall("resume", c, "resumeTest")
  \/ \E flag \in BOOLEAN : EnsurePipeline(flag)
  \/ DeleteCall

Gstreamer == ReachPlaying \/ ReachPaused \/ PostEos \/ PostError

\* Nothing is said of what follows undefined behaviour.
Next == /\ fault = "none" /\ UNCHANGED scene
        /\ (GstStep \/ SpinEnds \/ MainContinues \/ MainCalls \/ Gstreamer)

Spec == Init /\ [][Next]_vars

\* The steps for which the speaker thread has to get a mutex.
TakesMutex ==
  \/ WaitForNull \/ DropOne \/ WaitPredicate \/ TakeSpeech \/ StartSpeaking
  \/ WaitForAudio \/ EndSpeaking

\* Both threads are scheduled; a call the main loop has begun goes on, and the
\* bus is served.  A thread that waits for a mutex gets it in the end, though
\* the other one takes it again and again.  Nothing obliges a client to call or
\* GStreamer to make progress, and nothing makes an uninitialized value change.
Fairness == /\ WF_vars(fault = "none" /\ GstStep /\ UNCHANGED scene)
            /\ SF_vars(fault = "none" /\ TakesMutex /\ UNCHANGED scene)
            /\ WF_vars(fault = "none" /\ MainContinues /\ UNCHANGED scene)

FairSpec == Spec /\ Fairness

-----------------------------------------------------------------------------
(* Properties.                                                             *)

InHand == IF data = None \/ gst = "endSpeaking" THEN {} ELSE {data}
Queued(s) == {i \in 1..Len(queue) : queue[i] = s}
Ended == {s \in Speeches : HasHeard(s, Terminal)}

TypeOK ==
  /\ scene \in Scenes
  /\ gst \in GstPcs /\ ret \in {"top", "createCheck"}
  /\ data \in Speeches \cup {None}
  /\ main \in [op : scene.calls \cup {"none", "message"},
               pc : {"idle", "isSpeaking", "unlock", "cancelTest", "cancelSet",
                     "flush", "enqueue", "pauseTest", "resumeTest", "apply",
                     "deleteFlush", "stop", "join", "gone", "handle", "failed",
                     "tellStarted", "tellResumed", "tellPaused"},
               speech : Speeches \cup {None}, client : Clients \cup {NoClient},
               message : Messages \cup {"none"}]
  /\ queueMutex \in {"free", "main", "gst"}
  /\ queue \in Seq(Speeches)
  /\ isSpeaking \in BOOLEAN /\ clientSpeaking \in Clients \cup {NoClient}
  /\ currentSpeech \in Speeches \cup {None}
  /\ isPaused \in BOOLEAN /\ flushed \in BOOLEAN /\ isEOS \in BOOLEAN
  /\ pipelineError \in BOOLEAN /\ networkError \in BOOLEAN
  /\ ensured \in BOOLEAN /\ failures \in 0..MaxFailures /\ runThread \in BOOLEAN
  /\ pipeline \in Exists \cup {"none"} /\ bus \in Seq(Messages)
  /\ fault \in {"none", "emptyDequeue", "nullSpeech"}
  /\ lastSpeech \in 0..MaxSpeeches /\ owner \in [Speeches -> Clients \cup {NoClient}]
  /\ told \subseteq (Events \X Speeches \X Clients)
  /\ dropped \subseteq Speeches /\ cancelled \subseteq Speeches
  /\ preempted \subseteq Speeches /\ undercut \in BOOLEAN

\* Up to undefined behaviour every accepted speech is in one place only: still
\* in speak(), queued once, in the hands of the speaker thread, ended by
\* exactly one terminal event, or removed from the queue (TTSSpeaker.cpp:
\* 204-218, 284-301, 765-829).  The queue, the flush, the clear and the thread
\* that dequeues all touch it.
SpeechAccounted ==
  fault = "none" =>
    \A s \in 1..lastSpeech :
      Cardinality({m \in {main} : m.op = "speak" /\ m.speech = s})
        + Cardinality(Queued(s))
        + Cardinality(InHand \cap {s})
        + Cardinality({t \in told : t[1] \in Terminal /\ t[2] = s})
        + Cardinality(dropped \cap {s}) = 1

\* An event about a speech goes to the session that asked for it, whichever
\* thread sends it: the bus callback finds the client in m_clientSpeaking and
\* the speech in m_currentSpeech, two members that change at different times
\* (TTSSpeaker.cpp:271-282, 742, 755, 903-919).
EventsReachOwner == \A t \in told : t[3] = owner[t[2]]

\* No session hears started, paused or resumed of a speech that was not
\* announced to it with willSpeak (TTSSpeaker.cpp:806-813, 903-919).
AnnouncedFirst ==
  \A t \in told : t[1] \in {"started", "paused", "resumed"} =>
                    HasHeard(t[2], {"willSpeak"})

\* A speech that was cancelled before the speaker thread looked at its outcome
\* ends as interrupted, whatever else happened to it (end of stream, network
\* error) at the same time (TTSSpeaker.cpp:229-236, 816-824).
CancelledIsInterrupted ==
  \A s \in cancelled : ~HasHeard(s, Terminal \ {"interrupted"})

\* abort of one session never interrupts the speech of another: the client is
\* compared first and the flag is set later, and it is m_queueMutex, kept in
\* between, that stops the thread from taking up another session's speech
\* (TTSSpeaker.cpp:204-218).
ClearCancelsOwnSpeech ==
  main.op = "clear" /\ main.pc = "cancelSet" =>
    clientSpeaking \in {main.client, NoClient}

\* The thread takes from an empty queue only where, since it last tested that
\* there was something to do, a call removed texts from the queue or took the
\* wish for a pipeline back, and never because a wait ended too soon
\* (TTSSpeaker.cpp:160-165, 295-301, 769-771, 779-804).
EmptiedByACall == fault = "emptyDequeue" => undercut

\* The implementation of the service the sessions see: order, one at a time,
\* one end each (SpeechService.tla).  It holds up to undefined behaviour.
Service == INSTANCE SpeechService
  WITH Requests <- Speeches, waiting <- queue, serving <- InHand,
       ended <- Ended, discarded <- dropped

\* Every step of the two threads is one of the service, or none at all.
ImplementsService == Service!ServiceSpec

\* Where the code itself holds the thread, for as long as
\*  - a speech is paused (waitForAudioToFinishTimeout, 589-590),
\*  - a pause meant for a speech that was ending took the pipeline out of NULL
\*    after resetPipeline had put it there: for ever (544),
\*  - a cancel that came after the end of its speech left m_flushed set, with
\*    which the wait for NULL returns an uninitialized value (544).
Held ==
  \/ gst = "waitAudio" /\ isPaused
  \/ gst = "waitNull" /\ ~flushed /\ pipeline # "null"
  \/ gst = "spin"

HoldsEnd == <>[]~Held

\* Every accepted speech is ended or dropped in the end, whatever GStreamer
\* fails to do (the ten second timeout, the pipeline that cannot be built,
\* TTSSpeaker.cpp:564-617, 758-829) and whatever is paused, aborted or shut
\* meanwhile, unless the speaker is deleted first or the thread is Held.  A
\* pipeline that is switched on and off for ever can keep the thread at the top
\* of its loop, so the wish for one is taken to settle.
WishSettles == <>[]ensured \/ <>[]~ensured
SpeechEnds ==
  WishSettles /\ HoldsEnd =>
    \A s \in Speeches :
      (lastSpeech >= s) ~> (s \in Ended \cup dropped \/ ~runThread \/ fault # "none")

\* Once the pipeline is not wanted any more, it is given up, unless it is
\* wanted again, the speaker deleted first or the thread Held: releasing it
\* comes after an abort of the speech in progress, whose late m_flushed may
\* hold the thread (TTSSpeaker.cpp:160-165, 548-562, 763-788, TTSManager.cpp:
\* 618-637).
PipelineReleased ==
  HoldsEnd =>
    (~ensured ~> (ensured \/ ~HasPipeline \/ ~runThread \/ fault # "none"))

\* The destructor, which joins the thread, comes back from wherever the thread
\* is when it is told to stop, a speech, a pipeline under construction or its
\* wait, unless the thread is Held, except for the moment between the predicate
\* of the wait and the sleep, where the notification is lost and the
\* join never returns (TTSSpeaker.cpp:148-158, 782-801).
DestructorReturns ==
  HoldsEnd =>
    ((main.pc = "join" /\ gst \notin {"sleep", "blocked"})
       ~> (main.pc = "gone" \/ fault # "none"))

-----------------------------------------------------------------------------
(* What the comments of the source say and the code does not keep.         *)

\* "If force speak is set, clear old queued data & stop speaking"
\* (TTSSpeaker.cpp:170): an older request that was not announced when the
\* preemptive one was queued is never announced.
ForceSpeakStopsOlder == \A s \in preempted : ~HasHeard(s, {"willSpeak"})
=============================================================================
