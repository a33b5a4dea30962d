----------------------------- MODULE AutoCapture -----------------------------
(* Automatic capture in a multi-card session: the frame detector of            *)
(* multi-card-detector.ts, and the two timers of CardScanner.tsx that feed it. *)
(*                                                                             *)
(* A frame is a brightness. Two frames of a card held still differ by at most  *)
(* StableThreshold; another card differs by ChangeThreshold or more; a hand, a  *)
(* shadow or a slow drift is anywhere between.                                  *)
EXTENDS Integers

CONSTANTS Frames,            \* fingerprints
          NoFrame,
          StableSamples,     \* 3 in the code
          StableThreshold,   \* 5
          ChangeThreshold,   \* 20
          Countdown          \* automaticCountdownSeconds, 5 unless set

ASSUME DetectorAssumption ==
  /\ Frames \subseteq Int /\ NoFrame \notin Frames
  /\ StableSamples \in Nat \ {0, 1} /\ Countdown \in Nat \ {0, 1}
  /\ StableThreshold \in Nat /\ ChangeThreshold \in Nat \ {0}

VARIABLES
  detector,    \* the frame detector's state
  frame,       \* what the camera sees
  countdown,   \* seconds to the capture, 0 for none
  retries,     \* waits for focus and light since the countdown began
  viewing,     \* the camera is on
  limit,       \* the session has as many cards as it takes
  reading,     \* a card is being read: the lock of CardReading
  lastRead,    \* history: what was captured by the last automatic reading
  changed      \* history: another card has been seen since

captureVars == <<detector, frame, countdown, retries, viewing, limit, reading, lastRead, changed>>

CaptureTypeOK ==
  /\ detector \in [phase : {"waiting", "stabilizing", "awaiting_change"}, stableCount : 0..StableSamples \cup {3},
                   previous : Frames \cup {NoFrame}, captured : Frames \cup {NoFrame}, shouldCapture : BOOLEAN]
  /\ frame \in Frames /\ countdown \in 0..Countdown /\ retries \in 0..2
  /\ {viewing, limit, reading, changed} \subseteq BOOLEAN
  /\ lastRead \in Frames \cup {NoFrame}

-----------------------------------------------------------------------------
(* The detector.                                                           *)

Distance(a, b) == IF a < b THEN b - a ELSE a - b

CreateDetector ==
  [phase |-> "waiting", stableCount |-> 0, previous |-> NoFrame, captured |-> NoFrame, shouldCapture |-> FALSE]

\* Mutant: any frame that is not quite still counts as another card.
AdvanceJumpy(d, f) ==
  LET count == IF d.previous # NoFrame /\ Distance(d.previous, f) <= StableThreshold THEN d.stableCount + 1 ELSE 1 IN
  IF d.phase = "awaiting_change" /\ Distance(d.captured, f) <= StableThreshold
  THEN [d EXCEPT !.previous = f, !.shouldCapture = FALSE]
  ELSE IF d.phase = "awaiting_change"
  THEN [phase |-> "stabilizing", stableCount |-> 1, previous |-> f, captured |-> NoFrame, shouldCapture |-> FALSE]
  ELSE [phase |-> IF count >= StableSamples THEN "awaiting_change" ELSE "stabilizing", stableCount |-> count,
        previous |-> f, captured |-> IF count >= StableSamples THEN f ELSE NoFrame,
        shouldCapture |-> count >= StableSamples]

\* advanceFrameDetector. A card seen often enough is captured once; only a frame far
\* from it makes the detector look again.
Advance(d, f) ==
  LET another == Distance(d.captured, f) >= ChangeThreshold
      still == d.previous # NoFrame /\ Distance(d.previous, f) <= StableThreshold
      count == IF still THEN d.stableCount + 1 ELSE 1
      steady == count >= StableSamples
  IN
  IF d.phase = "awaiting_change"
  THEN IF another
       THEN [phase |-> "stabilizing", stableCount |-> 1, previous |-> f, captured |-> NoFrame,
             shouldCapture |-> FALSE]
       ELSE [d EXCEPT !.previous = f, !.shouldCapture = FALSE]
  ELSE [phase |-> IF steady THEN "awaiting_change" ELSE "stabilizing", stableCount |-> count,
        previous |-> f, captured |-> IF steady THEN f ELSE d.captured, shouldCapture |-> steady]

\* The history sees every frame the detector sees.
Look ==
  changed' = (changed \/ (lastRead # NoFrame /\ Distance(lastRead, frame) >= ChangeThreshold))

-----------------------------------------------------------------------------
(* The timers.                                                             *)

Watching == viewing /\ ~limit

\* Every 750 ms, unless a countdown runs or a card is being read.
Sample ==
  /\ Watching /\ countdown = 0 /\ ~reading
  /\ detector' = Advance(detector, frame) /\ Look
  /\ countdown' = IF detector'.shouldCapture THEN Countdown ELSE 0
  /\ retries' = IF detector'.shouldCapture THEN 0 ELSE retries
  /\ UNCHANGED <<frame, viewing, limit, reading, lastRead>>

\* Each second of the countdown looks again; `sharp` is captureQualityMessage's verdict.
Tick(sharp) ==
  /\ Watching /\ countdown > 0
  /\ IF reading
     THEN countdown' = 0 /\ UNCHANGED <<detector, retries, reading, lastRead, changed>>
     ELSE /\ detector' = Advance(detector, frame)
          /\ IF detector'.phase # "awaiting_change"
             THEN countdown' = 0 /\ Look /\ UNCHANGED <<retries, reading, lastRead>>
             ELSE IF countdown > 1
             THEN countdown' = countdown - 1 /\ Look /\ UNCHANGED <<retries, reading, lastRead>>
             ELSE IF ~sharp /\ retries < 2
             THEN countdown' = 2 /\ retries' = retries + 1 /\ Look /\ UNCHANGED <<reading, lastRead>>
             ELSE /\ countdown' = 0 /\ reading' = TRUE
                  /\ lastRead' = detector'.captured /\ changed' = FALSE
                  /\ UNCHANGED retries
  /\ UNCHANGED <<frame, viewing, limit>>

\* The guide is not on the page yet: no frame can be taken.
TickFails ==
  /\ Watching /\ countdown > 0 /\ ~reading
  /\ countdown' = 0
  /\ UNCHANGED <<detector, frame, retries, viewing, limit, reading, lastRead, changed>>

\* "Capture now" takes the lock and stops the countdown; the frame it reads, when the
\* camera has found its focus, is the one the detector then waits to see replaced.
CaptureNow(f) ==
  /\ Watching /\ ~reading
  /\ countdown' = 0 /\ reading' = TRUE
  /\ detector' = [phase |-> "awaiting_change", stableCount |-> 3, previous |-> f, captured |-> f,
                  shouldCapture |-> FALSE]
  /\ frame' = f /\ lastRead' = NoFrame /\ changed' = FALSE
  /\ UNCHANGED <<retries, viewing, limit>>

\* "Choose photo" takes the lock as well, and leaves the countdown to the next tick.
PhotoChosen ==
  /\ ~reading /\ reading' = TRUE
  /\ UNCHANGED <<detector, frame, countdown, retries, viewing, limit, lastRead, changed>>

\* The world.
Move(f) ==
  /\ f # frame /\ frame' = f
  /\ UNCHANGED <<detector, countdown, retries, viewing, limit, reading, lastRead, changed>>

ReadingEnds ==
  /\ reading /\ reading' = FALSE
  /\ UNCHANGED <<detector, frame, countdown, retries, viewing, limit, lastRead, changed>>

\* dispose().
CameraStops ==
  /\ viewing /\ viewing' = FALSE
  /\ countdown' = 0 /\ reading' = FALSE
  /\ UNCHANGED <<detector, frame, retries, limit, lastRead, changed>>

\* openCamera() begins with a new detector, which knows of no card.
CameraStarts ==
  /\ ~viewing /\ viewing' = TRUE
  /\ detector' = CreateDetector /\ countdown' = 0
  /\ lastRead' = NoFrame /\ changed' = FALSE
  /\ UNCHANGED <<frame, retries, limit, reading>>

\* The session takes its last card, or gives one up: a countdown under way stays.
LimitChanges ==
  /\ limit' = ~limit
  /\ UNCHANGED <<detector, frame, countdown, retries, viewing, reading, lastRead, changed>>

-----------------------------------------------------------------------------
CaptureInit ==
  /\ detector = CreateDetector /\ frame \in Frames
  /\ countdown = 0 /\ retries = 0 /\ viewing = FALSE /\ limit = FALSE /\ reading = FALSE
  /\ lastRead = NoFrame /\ changed = FALSE

CaptureNext ==
  \/ Sample \/ TickFails \/ ReadingEnds \/ CameraStops \/ CameraStarts
  \/ LimitChanges \/ PhotoChosen
  \/ \E sharp \in BOOLEAN : Tick(sharp)
  \/ \E f \in Frames : Move(f) \/ CaptureNow(f)

CaptureSpec == CaptureInit /\ [][CaptureNext]_captureVars

-----------------------------------------------------------------------------
(* Properties.                                                             *)

\* One card that stays in view, moved, shaded or drifting, is never read twice by the
\* automatic capture: between two readings the detector has seen a frame of another.
NoCardReadTwice ==
  [][~reading /\ reading' /\ countdown' # countdown /\ lastRead # NoFrame /\ lastRead' # NoFrame
     => changed]_captureVars
=============================================================================
