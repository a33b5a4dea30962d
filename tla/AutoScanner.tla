----------------------------- MODULE AutoScanner -----------------------------
(* The automatic card session: the simulated feeder (auto-scanner-controller.ts), *)
(* its panel (AutoScannerControllerPanel.tsx) and the workspace that tells the   *)
(* member when to capture (AutoScanWorkspace.tsx).                               *)
(*                                                                               *)
(* An advance is a countdown, a movement and a delay for the card to settle, each *)
(* a timer; a stop, a disconnection or another command may come at any of them.   *)
(* The panel numbers its operations; here a wait is `current` while the operation *)
(* it belongs to is the last one. The history of commands is left out.           *)
EXTENDS Integers

CONSTANT CountdownSeconds   \* countdownSeconds of the settings: 1 to 15

ASSUME FeederAssumption == CountdownSeconds \in Nat \ {0}

VARIABLES
  state,      \* the controller's state
  pending,    \* its movement
  timer,      \* seconds to the advance, 0 for none
  advancing,  \* the advance() that the panel awaits: "none", "current" or "given_up"
  settling,   \* the settle timer runs
  notice,     \* "Next card is ready"
  panel,      \* the workspace is on the page
  disposed    \* the controller is

feederVars == <<state, pending, timer, advancing, settling, notice, panel, disposed>>

FeederTypeOK ==
  /\ state \in {"disconnected", "ready", "moving", "stopped"}
  /\ pending \in {"none", "home", "advance"}
  /\ timer \in 0..CountdownSeconds
  /\ advancing \in {"none", "current", "given_up"}
  /\ {settling, notice, panel, disposed} \subseteq BOOLEAN

-----------------------------------------------------------------------------
GiveUp(waiting) == IF waiting = "current" THEN "given_up" ELSE waiting

\* cancelAdvance() and onCaptureReadinessChange(false), before every command.
CancelAdvance == timer' = 0 /\ settling' = FALSE /\ notice' = FALSE

\* settlePending: the movement's promise is settled, and its operation is over.
SettlePending == pending' = "none" /\ advancing' = "none"

Connect ==
  /\ panel /\ state = "disconnected"
  /\ state' = "ready"
  /\ UNCHANGED <<pending, timer, advancing, settling, notice, panel, disposed>>

Disconnect ==
  /\ panel /\ state # "disconnected"
  /\ CancelAdvance /\ SettlePending
  /\ state' = "disconnected"
  /\ UNCHANGED <<panel, disposed>>

\* Mutant: the button leaves the countdown and the settle timer alone.
EmergencyStopLate ==
  /\ panel /\ state # "disconnected"
  /\ notice' = FALSE /\ SettlePending
  /\ state' = "stopped"
  /\ UNCHANGED <<timer, settling, panel, disposed>>

EmergencyStop ==
  /\ panel /\ state # "disconnected"
  /\ CancelAdvance /\ SettlePending
  /\ state' = "stopped"
  /\ UNCHANGED <<panel, disposed>>

\* Home and Advance are offered to a connected feeder at rest with no countdown.
AtRest == panel /\ state = "ready" /\ timer = 0

Home ==
  /\ AtRest /\ CancelAdvance
  /\ state' = "moving" /\ pending' = "home"
  /\ advancing' = GiveUp(advancing)
  /\ UNCHANGED <<panel, disposed>>

AdvanceCard ==
  /\ AtRest
  /\ timer' = CountdownSeconds /\ settling' = FALSE /\ notice' = FALSE
  /\ advancing' = GiveUp(advancing)
  /\ UNCHANGED <<state, pending, panel, disposed>>

\* The last second moves the card, if the controller still takes the command.
CountdownTick ==
  /\ timer > 0 /\ timer' = timer - 1
  /\ IF timer = 1 /\ state = "ready"
     THEN state' = "moving" /\ pending' = "advance" /\ advancing' = "current"
     ELSE UNCHANGED <<state, pending, advancing>>
  /\ UNCHANGED <<settling, notice, panel, disposed>>

\* The movement's own timer: an advance that is still wanted goes on to settle.
MovementEnds ==
  /\ pending # "none" /\ ~disposed
  /\ pending' = "none" /\ state' = "ready"
  /\ settling' = (settling \/ (pending = "advance" /\ advancing = "current"))
  /\ advancing' = IF pending = "advance" THEN "none" ELSE advancing
  /\ UNCHANGED <<timer, notice, panel, disposed>>

Settled ==
  /\ settling
  /\ settling' = FALSE /\ notice' = TRUE
  /\ UNCHANGED <<state, pending, timer, advancing, panel, disposed>>

\* The session takes a photograph: onCaptureAccepted.
CaptureAccepted ==
  /\ panel /\ notice' = FALSE
  /\ UNCHANGED <<state, pending, timer, advancing, settling, panel, disposed>>

\* Leaving the page forgets the timers; the controller is disposed of a moment later.
LeaveWorkspace ==
  /\ panel /\ panel' = FALSE
  /\ timer' = 0 /\ settling' = FALSE /\ advancing' = GiveUp(advancing)
  /\ UNCHANGED <<state, pending, notice, disposed>>

DisposeController ==
  /\ ~panel /\ ~disposed /\ disposed' = TRUE
  /\ SettlePending
  /\ UNCHANGED <<state, timer, settling, notice, panel>>

-----------------------------------------------------------------------------
FeederInit ==
  /\ state = "disconnected" /\ pending = "none" /\ timer = 0 /\ advancing = "none"
  /\ settling = FALSE /\ notice = FALSE /\ panel = TRUE /\ disposed = FALSE

FeederNext ==
  \/ Connect \/ Disconnect \/ EmergencyStop \/ Home \/ AdvanceCard \/ CountdownTick
  \/ MovementEnds \/ Settled \/ CaptureAccepted \/ LeaveWorkspace \/ DisposeController

FeederSpec == FeederInit /\ [][FeederNext]_feederVars

-----------------------------------------------------------------------------
(* Properties.                                                             *)

\* The member is told to capture only in front of a card at rest: connected, not
\* moving, about to move or settling; after a stop nothing moves and nothing is left
\* that would move or announce a card.
NoticeAtRest ==
  panel =>
    /\ notice => state = "ready" /\ timer = 0 /\ advancing # "current"
    /\ state \in {"stopped", "disconnected"} => pending = "none" /\ timer = 0 /\ ~settling
=============================================================================
