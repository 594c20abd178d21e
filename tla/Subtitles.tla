----------------------------- MODULE Subtitles -----------------------------
(***************************************************************************)
(* Live subtitles: the switch each tab keeps, the capture of tab audio that *)
(* the chrome view starts and stops to follow it, the pipeline that turns  *)
(* one chunk into a caption, and the cached status of whisper.cpp.         *)
(***************************************************************************)
EXTENDS Naturals, Sequences

CONSTANTS
  SubTabs,     \* tabs
  Engines,     \* engines of the popover: "whisper", "whisper-translate", agents
  HistoryMax,  \* MAX_TRANSLATION_HISTORY
  SubSteps     \* bound: things the user does, and chunks and silences of audio

VARIABLES
  front,       \* the active tab
  subtitles,   \* each tab's settings in main
  asks,        \* SET_SUBTITLE_SETTINGS messages on their way to main
  tells,       \* SUBTITLE_SETTINGS messages on their way to chrome
  seen,        \* subtitleSettings of chrome
  attempts,    \* startAudioCapture calls, with the settings they closed over
  own,         \* the attempt the running effect's cleanup cancels, 0 for none
  capture,     \* captureRef, 0 for null
  attached,    \* subtitleAttached
  caption,     \* what the overlay shows: nothing, or speech of a tab
  chunk,       \* the chunk in the pipeline; audioChunkBusy unless it is at rest
  lastSpeech,  \* lastTranscript
  history,     \* translationHistory
  works,       \* whether the saved configuration of whisper.cpp works
  detections,  \* getWhisperStatus calls that look for themselves
  known,       \* cachedStatus
  ready,       \* whisperStatus of chrome
  subSteps

switchVars == <<front, subtitles, asks, tells, seen>>
captureVars == <<attempts, own, capture>>
captionVars == <<attached, caption, chunk, lastSpeech, history>>
whisperVars == <<works, detections, known, ready>>
subVars == <<switchVars, captureVars, captionVars, whisperVars, subSteps>>

Nothing == "nothing"
AtRest == [pc |-> "rest", of |-> Nothing, engine |-> "whisper"]
SubStep == subSteps < SubSteps /\ subSteps' = subSteps + 1

-----------------------------------------------------------------------------
(* The popover; turning on needs whisper.cpp, anything else goes through.    *)
AskFor(s) ==
  /\ SubStep
  /\ s # seen
  /\ s.on /\ ~seen.on => ready
  /\ asks' = Append(asks, s)
  /\ UNCHANGED <<front, subtitles, tells, seen, captureVars, captionVars, whisperVars>>

(* syncSubtitleOverlay clears the caption before it detaches the overlay.    *)
Overlay(on) == attached' = on /\ caption' = IF on /\ attached THEN caption ELSE Nothing

MainApplies ==
  LET s == Head(asks) IN
  /\ asks # <<>> /\ asks' = Tail(asks)
  /\ subtitles' = [subtitles EXCEPT ![front] = s]
  /\ tells' = Append(tells, s)
  /\ Overlay(s.on)
  /\ lastSpeech' = IF s.on THEN lastSpeech ELSE Nothing
  /\ history' = IF s.on THEN history ELSE <<>>
  /\ UNCHANGED <<front, seen, captureVars, chunk, whisperVars, subSteps>>

(* A tab switch clears the caption, then the new tab's settings go out.      *)
SwitchTo(t) ==
  /\ SubStep /\ t # front
  /\ front' = t
  /\ tells' = Append(tells, subtitles[t])
  /\ attached' = subtitles[t].on /\ caption' = Nothing
  /\ UNCHANGED <<subtitles, asks, seen, captureVars, chunk, lastSpeech, history, whisperVars>>

(* So does a navigation of the active tab; its settings stay.                *)
Navigate ==
  /\ attached /\ caption # Nothing /\ caption' = Nothing
  /\ UNCHANGED <<switchVars, captureVars, attached, chunk, lastSpeech, history, whisperVars,
                 subSteps>>

-----------------------------------------------------------------------------
(* The capture effect of chrome runs on every settings message: the cleanup  *)
(* of the last one cancels the attempt it started, then a capture is started *)
(* if there is none or stopped if there is one.                              *)
Cancelled(a) == [a EXCEPT !.cancelled = TRUE]
NoCleanup == attempts
AfterCleanup == [n \in DOMAIN attempts |-> IF n = own THEN Cancelled(attempts[n])
                                           ELSE attempts[n]]
Attempt(s) == [settings |-> s, state |-> "starting", cancelled |-> FALSE, of |-> Nothing,
               warned |-> FALSE]

CaptureEffect(s) ==
  IF s.on /\ capture = 0
  THEN /\ attempts' = Append(AfterCleanup, Attempt(s))
       /\ own' = Len(attempts')
       /\ UNCHANGED capture
  ELSE /\ attempts' = IF ~s.on /\ capture # 0
                      THEN [AfterCleanup EXCEPT ![capture].state = "stopped"] ELSE AfterCleanup
       /\ capture' = IF s.on THEN capture ELSE 0
       /\ own' = 0

ChromeHears ==
  /\ tells # <<>> /\ tells' = Tail(tells)
  /\ seen' = Head(tells)
  /\ CaptureEffect(Head(tells))
  /\ UNCHANGED <<front, subtitles, asks, captionVars, whisperVars, subSteps>>

(* getDisplayMedia is given the frame of the tab that is active then.        *)
CaptureStarts(n) ==
  /\ attempts[n].state = "starting"
  /\ attempts' = [attempts EXCEPT ![n].of = front,
                    ![n].state = IF attempts[n].cancelled THEN "stopped" ELSE "live"]
  /\ capture' = IF attempts[n].cancelled THEN capture ELSE n
  /\ UNCHANGED <<switchVars, own, captionVars, whisperVars, subSteps>>

(* A failure, cancelled or not, and a long silence turn the switch off, for  *)
(* the tab that is active when main hears of it.                             *)
TurnOff(n) == asks' = Append(asks, [attempts[n].settings EXCEPT !.on = FALSE])

CaptureFails(n) ==
  /\ attempts[n].state = "starting"
  /\ attempts' = [attempts EXCEPT ![n].state = "stopped"]
  /\ TurnOff(n)
  /\ UNCHANGED <<front, subtitles, tells, seen, own, capture, captionVars, whisperVars, subSteps>>

LongSilence(n) ==
  /\ SubStep
  /\ attempts[n].state = "live" /\ ~attempts[n].warned
  /\ attempts' = [attempts EXCEPT ![n].warned = TRUE]
  /\ TurnOff(n)
  /\ UNCHANGED <<front, subtitles, tells, seen, own, capture, captionVars, whisperVars>>

-----------------------------------------------------------------------------
(* AUDIO_CHUNK: a chunk is dropped while another one is in the pipeline; the *)
(* settings are read once the status of whisper.cpp is known.                *)
Caption(of) == caption' = IF attached THEN of ELSE caption

ChunkOfSpeech(n) ==
  /\ SubStep
  /\ attempts[n].state = "live"
  /\ chunk.pc = "rest"
  /\ chunk' = [AtRest EXCEPT !.pc = "status", !.of = attempts[n].of]
  /\ UNCHANGED <<switchVars, captureVars, attached, caption, lastSpeech, history, whisperVars>>

Proceed(usable) ==
  chunk' = IF usable /\ subtitles[front].on
           THEN [chunk EXCEPT !.pc = "transcribe", !.engine = subtitles[front].engine]
           ELSE AtRest

StatusCached ==
  /\ chunk.pc = "status" /\ known # "none"
  /\ Proceed(known = "ready")
  /\ UNCHANGED <<switchVars, captureVars, attached, caption, lastSpeech, history, whisperVars,
                 subSteps>>

Transcribed ==
  /\ chunk.pc = "transcribe"
  /\ lastSpeech' = chunk.of
  /\ IF chunk.engine \in {"whisper", "whisper-translate"}
     THEN Caption(chunk.of) /\ chunk' = AtRest
     ELSE chunk' = [chunk EXCEPT !.pc = "translate"] /\ UNCHANGED caption
  /\ UNCHANGED <<switchVars, captureVars, attached, history, whisperVars, subSteps>>

LastOf(seq) == IF Len(seq) > HistoryMax THEN Tail(seq) ELSE seq

TranslatedLine ==
  /\ chunk.pc = "translate"
  /\ Caption(chunk.of)
  /\ history' = LastOf(Append(history, chunk.of))
  /\ chunk' = AtRest
  /\ UNCHANGED <<switchVars, captureVars, attached, lastSpeech, whisperVars, subSteps>>

(* No speech, an error, or a timeout: the last caption stays.                *)
ChunkGivenUp ==
  /\ chunk.pc \in {"transcribe", "translate"}
  /\ chunk' = AtRest
  /\ UNCHANGED <<switchVars, captureVars, attached, caption, lastSpeech, history, whisperVars,
                 subSteps>>

-----------------------------------------------------------------------------
(* whisperStore: a call reads the configuration, looks for the binary, and   *)
(* caches what it found; a forced one does so though an answer is cached.    *)
Detect(by) == detections' = Append(detections, [works |-> works', by |-> by])

SaveConfig ==
  /\ SubStep
  /\ works' = ~works
  /\ known' = "none"
  /\ Detect("chrome")
  /\ UNCHANGED <<switchVars, captureVars, captionVars, ready>>

DetectForChunk ==
  /\ chunk.pc = "status" /\ known = "none"
  /\ UNCHANGED works /\ Detect("chunk")
  /\ chunk' = [chunk EXCEPT !.pc = "detect"]
  /\ UNCHANGED <<switchVars, captureVars, attached, caption, lastSpeech, history, known, ready,
                 subSteps>>

Detected(n) ==
  LET d == detections[n] IN
  /\ detections' = SubSeq(detections, 1, n - 1) \o SubSeq(detections, n + 1, Len(detections))
  /\ known' = IF d.works THEN "ready" ELSE "not ready"
  /\ IF d.by = "chrome" THEN ready' = d.works /\ UNCHANGED chunk
     ELSE Proceed(d.works) /\ UNCHANGED ready
  /\ UNCHANGED <<switchVars, captureVars, attached, caption, lastSpeech, history, works,
                 subSteps>>

(* At launch subtitles are off everywhere, with the default engine.          *)
SubInit ==
  /\ front \in SubTabs
  /\ subtitles = [t \in SubTabs |-> [on |-> FALSE, engine |-> "whisper"]]
  /\ asks = <<>> /\ tells = <<>> /\ seen = subtitles[front]
  /\ attempts = <<>> /\ own = 0 /\ capture = 0
  /\ attached = FALSE /\ caption = Nothing
  /\ chunk = AtRest /\ lastSpeech = Nothing /\ history = <<>>
  /\ works \in BOOLEAN /\ detections = <<[works |-> works, by |-> "chrome"]>>
  /\ known = "none" /\ ready = FALSE
  /\ subSteps = 0

SubNext ==
  \/ AskFor([seen EXCEPT !.on = ~@])
  \/ \E engine \in Engines : AskFor([seen EXCEPT !.engine = engine])
  \/ MainApplies \/ ChromeHears
  \/ \E t \in SubTabs : SwitchTo(t)
  \/ Navigate
  \/ \E n \in DOMAIN attempts :
       CaptureStarts(n) \/ CaptureFails(n) \/ LongSilence(n) \/ ChunkOfSpeech(n)
  \/ StatusCached \/ Transcribed \/ TranslatedLine \/ ChunkGivenUp
  \/ SaveConfig \/ DetectForChunk
  \/ \E n \in DOMAIN detections : Detected(n)

SubSpec == SubInit /\ [][SubNext]_subVars

-----------------------------------------------------------------------------
SubTypeOK ==
  /\ front \in SubTabs
  /\ capture \in 0..Len(attempts) /\ own \in 0..Len(attempts)
  /\ caption \in SubTabs \cup {Nothing} /\ lastSpeech \in SubTabs \cup {Nothing}
  /\ Len(history) <= HistoryMax
  /\ known \in {"none", "ready", "not ready"}
  /\ subSteps \in 0..SubSteps

(* However switches, tab changes, slow and failing starts interleave, no     *)
(* capture runs that nothing can stop, and once all is heard a capture runs  *)
(* exactly while the active tab's switch is on.  A caption needs the overlay. *)
Starting == \E n \in DOMAIN attempts :
              attempts[n].state = "starting" /\ ~attempts[n].cancelled

CaptureFollowsSwitch ==
  /\ \A n \in DOMAIN attempts : attempts[n].state = "live" => n = capture
  /\ asks = <<>> /\ tells = <<>> =>
       /\ seen = subtitles[front] /\ attached = seen.on
       /\ ~Starting => (seen.on <=> capture # 0)
  /\ caption # Nothing => attached

(* App.tsx:183-184: capture is started and stopped "to track whichever tab   *)
(* is active and has translate turned on".                                   *)
CaptureOfActiveTab ==
  asks = <<>> /\ tells = <<>> /\ capture # 0 => attempts[capture].of = front
=============================================================================
