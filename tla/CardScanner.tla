----------------------------- MODULE CardScanner -----------------------------
(* The card scanner, CardScanner.tsx: its camera (CardCamera) and its readings  *)
(* (CardReading) together. The handlers that touch both are here.              *)
EXTENDS CardCamera, CardReading

VARIABLES
  mounted,    \* on the page; its waits go on when it is not
  resetting,  \* a change of permission waits for the text reader to end
  full        \* the session has as many cards as it takes

scannerVars == <<cameraVars, readingVars, mounted, resetting, full>>

ScannerTypeOK ==
  /\ CameraTypeOK /\ ReadingTypeOK
  /\ {mounted, resetting, full} \subseteq BOOLEAN

cameraRest == <<consent, plugged, devices, selectedDevice, remembered, switching, lists, adjusting, overtaken,
                behind>>

\* "Start camera" is offered when there is nothing else to look at.
StartOffered == ~camera /\ ~busy /\ preview = None

StartCamera ==
  /\ mounted /\ StartOffered /\ ~choosing
  /\ RequestCamera
  /\ UNCHANGED <<cameraRest, camera, stream, live, controls, readingVars, mounted, resetting, full>>

AnswerConsent(choice) ==
  /\ mounted /\ choosing /\ ~camera /\ ~busy
  /\ ChooseConsent(choice)
  /\ UNCHANGED <<readingVars, mounted, resetting, full>>

UseCamera ==
  /\ mounted /\ (ChangeControl \/ \E d \in Devices : SwitchCamera(d))
  /\ UNCHANGED <<readingVars, mounted, resetting, full>>

PlugCamera ==
  /\ mounted /\ \E now \in Pluggable : DeviceChange(now)
  /\ UNCHANGED <<readingVars, mounted, resetting, full>>

CameraAnswer ==
  /\ CameraAnswers(mounted)
  /\ UNCHANGED <<readingVars, mounted, resetting, full>>

ReadingAnswer ==
  /\ ReadingAnswers(mounted)
  /\ UNCHANGED <<cameraVars, mounted, resetting, full>>

\* A single card's frame is the end of the viewfinder, not of the camera.
HideViewfinder(frameRead) ==
  /\ camera' = (camera /\ ~(frameRead /\ ~continuous))
  /\ UNCHANGED <<consent, choosing, stream, live, plugged, devices, selectedDevice, remembered, switching, calls,
                 lists, controls, adjusting, starts, overtaken, behind, mounted, resetting, full>>

\* The button, or the shortcut.
Capture(sharp) ==
  /\ mounted /\ camera /\ ~switching /\ ~(continuous /\ full)
  /\ TakeFrame(sharp) /\ HideViewfinder(sharp)

FocusWaited(sharp) ==
  \E j \in jobs, read \in BOOLEAN : WaitForFocus(j, sharp, read) /\ HideViewfinder(read)

\* The countdown of AutoCapture ends: the frame is read as it is.
AutomaticCapture ==
  /\ mounted /\ camera /\ continuous /\ ~full
  /\ TakeFrame(TRUE)
  /\ UNCHANGED <<cameraVars, mounted, resetting, full>>

\* Mutant: the page is not told of the retake.
RetakeAlone ==
  /\ mounted /\ preview # None /\ ~busy
  /\ ClearReading
  /\ ResumeCamera
  /\ UNCHANGED <<cameraRest, stream, live, controls, continuous, handed, page, stale, taken, late, mounted,
                 resetting, full>>

Retake ==
  /\ mounted /\ preview # None /\ ~busy
  /\ ClearReading /\ page' = None /\ stale' = FALSE
  /\ ResumeCamera
  /\ UNCHANGED <<cameraRest, stream, live, controls, continuous, handed, taken, late, mounted, resetting, full>>

\* The page's "Scan next card".
NextCard ==
  /\ mounted /\ page # None
  /\ ClearReading /\ page' = None /\ stale' = FALSE
  /\ camera' = (camera \/ stream # NoStream)
  /\ UNCHANGED <<cameraRest, choosing, calls, starts, stream, live, controls, continuous, handed, taken, late,
                 mounted, resetting, full>>

\* "Choose photo" resets the page; a session takes the scanner off the page, and the
\* photograph is prepared all the same.
ChoosePhoto ==
  /\ mounted /\ ~busy /\ TakePhoto
  /\ IF continuous
     THEN /\ mounted' = FALSE /\ StopCamera /\ UNCHANGED <<page, stale>>
          /\ workers' = workers \ {worker} /\ worker' = None
          /\ jobs' = Abandon(jobs) \cup {NewJob("prepare", 0, FALSE)}
     ELSE /\ jobs' = jobs \cup {NewJob("prepare", 0, FALSE)}
          /\ page' = None /\ stale' = FALSE
          /\ UNCHANGED <<camera, calls, stream, live, controls, worker, workers, mounted>>
  /\ ClearPreview
  /\ UNCHANGED <<cameraRest, choosing, starts, continuous, busy, handed, late, resetting, full>>

\* "Change camera permission": the page is not told, and its photograph is freed.
ResetConsent ==
  /\ mounted /\ consent # "unset" /\ ~busy
  /\ StopReading /\ StopCamera
  /\ stale' = (stale \/ page # None)
  /\ resetting' = TRUE
  /\ UNCHANGED <<cameraRest, choosing, starts, continuous, handed, page, taken, late, mounted, full>>

ConsentCleared ==
  /\ resetting /\ resetting' = FALSE
  /\ consent' = "unset" /\ choosing' = TRUE
  /\ UNCHANGED <<camera, stream, live, plugged, devices, selectedDevice, remembered, switching, calls, lists, controls,
                 adjusting, starts, overtaken, behind, readingVars, mounted, full>>

\* "Cancel scan" resets the page; "Stop scanning" makes the session take the scanner
\* off the page; leaving the page does too.
Leave(stays) ==
  /\ mounted /\ mounted' = stays
  /\ stays => ~continuous
  /\ StopReading /\ StopCamera
  /\ page' = None /\ stale' = FALSE
  /\ UNCHANGED <<cameraRest, choosing, starts, continuous, handed, taken, late, resetting, full>>

\* The session has taken its last card, or one has been removed.
SessionCounts ==
  /\ continuous /\ full' = ~full
  /\ UNCHANGED <<cameraVars, readingVars, mounted, resetting>>

ScannerInit == CameraInit /\ ReadingInit /\ mounted = TRUE /\ resetting = FALSE /\ full = FALSE

ScannerNext ==
  \/ StartCamera \/ UseCamera \/ PlugCamera \/ CameraAnswer
  \/ \E choice \in {"allow", "deny"} : AnswerConsent(choice)
  \/ \E sharp \in BOOLEAN : Capture(sharp) \/ FocusWaited(sharp)
  \/ AutomaticCapture \/ ReadingAnswer
  \/ Retake \/ NextCard \/ ChoosePhoto
  \/ ResetConsent \/ ConsentCleared
  \/ \E stays \in BOOLEAN : Leave(stays)
  \/ SessionCounts

ScannerSpec == ScannerInit /\ [][ScannerNext]_scannerVars

-----------------------------------------------------------------------------
(* Properties.                                                             *)

\* Once the scanner is off the page and nothing is awaited, it holds nothing: no
\* camera, text reader or photograph, unless an answer came about a stream that was
\* not held or a chosen photograph was read afterwards.
NothingLeftBehind ==
  ~mounted /\ calls = {} /\ jobs = {} =>
    /\ ~overtaken => live = {}
    /\ ~late => workers = {} /\ photoUrls \subseteq handed
=============================================================================
