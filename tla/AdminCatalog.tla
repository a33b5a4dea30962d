---------------------------- MODULE AdminCatalog ----------------------------
(* The catalog on the administration page, AdminPage.tsx: its status, which the  *)
(* page asks for again and again, the refresh of one game or of all, the retry of *)
(* those that failed, and the schedule of automatic refreshes.                   *)
(*                                                                              *)
(* The status is abstracted to the refreshes of this page it was read after and    *)
(* to the games whose latest attempt failed. Schedules are numbered by the edit     *)
(* that made them.                                                              *)
EXTENDS Integers, FiniteSets

CONSTANTS Games,
          NoStatusLoad, NoRefresh, NoSchedule, NoSave,
          MaxRefreshes,  \* bound: refreshes this page asks for
          MaxEdits       \* bound: edits of the schedule

VARIABLES
  attempts,        \* the server: refreshes it has finished
  failing,         \* games whose latest attempt failed
  catalog,         \* the status shown
  statusLoad,      \* the status that will be heard
  catalogError,    \* it could not be loaded
  refresh,         \* the refresh under way, which closes the form (`refreshOpen`)
  retryGames,      \* games a retry has still to refresh
  failedGames,     \* games that failed in a refresh of this page
  refreshesAsked,  \* bound
  finished,        \* history: refreshes the page knows to be finished
  savedSchedule,   \* the server: the schedule
  schedule,        \* the one in the form
  scheduleLoad,    \* the schedule that is awaited
  scheduleSave,    \* the save under way
  edits,           \* bound
  written,         \* history: the last the form was given, by hand or by the first load
  editedMeanwhile  \* history: an edit was made during a save, and is gone

catalogVars == <<attempts, failing, catalog, statusLoad, catalogError, refresh, retryGames, failedGames,
                 refreshesAsked, finished>>
scheduleVars == <<savedSchedule, schedule, scheduleLoad, scheduleSave, edits, written, editedMeanwhile>>

RefreshNumber == 1..MaxRefreshes
Status == [attempts : SUBSET RefreshNumber, failing : SUBSET Games]
Schedule == 0..MaxEdits

\* `by` is the refresh that waits for the load, 0 if none does.
StatusLoad == [by : 0..MaxRefreshes, polled : BOOLEAN, read : BOOLEAN, status : Status]
CatalogRefresh == [n : RefreshNumber, games : SUBSET Games, step : {"sent", "answered", "reloading"},
                   outcome : {"complete", "partial", "busy", "error"}, failed : SUBSET Games]

ASSUME CatalogAssumption ==
  /\ IsFiniteSet(Games) /\ MaxRefreshes \in Nat /\ MaxEdits \in Nat
  /\ NoStatusLoad \notin StatusLoad /\ NoRefresh \notin CatalogRefresh

CatalogTypeOK ==
  /\ attempts \subseteq RefreshNumber /\ finished \subseteq RefreshNumber /\ refreshesAsked \in 0..MaxRefreshes
  /\ {failing, retryGames, failedGames} \subseteq SUBSET Games
  /\ catalog \in Status /\ catalogError \in BOOLEAN
  /\ statusLoad \in StatusLoad \cup {NoStatusLoad}
  /\ refresh \in CatalogRefresh \cup {NoRefresh}
  /\ refresh # NoRefresh => refresh.failed \subseteq refresh.games
  /\ savedSchedule \in Schedule /\ schedule \in Schedule \cup {NoSchedule} /\ written \in Schedule \cup {NoSchedule}
  /\ edits \in Schedule /\ editedMeanwhile \in BOOLEAN

-----------------------------------------------------------------------------
(* The status.                                                             *)

\* A load gives up the one under way.
LoadStatus(by) == [by |-> by, polled |-> FALSE, read |-> FALSE, status |-> [attempts |-> {}, failing |-> {}]]

\* A new timer is set when a refresh begins or ends: it does not wait for the old one's load.
NewTimer == statusLoad' = IF statusLoad = NoStatusLoad THEN NoStatusLoad ELSE [statusLoad EXCEPT !.polled = FALSE]

\* The timer, while the page is visible; it is set again when the load it began has ended.
Poll ==
  /\ IF statusLoad = NoStatusLoad THEN TRUE ELSE ~statusLoad.polled
  /\ statusLoad' = [LoadStatus(0) EXCEPT !.polled = TRUE]
  /\ UNCHANGED <<attempts, failing, catalog, catalogError, refresh, retryGames, failedGames, refreshesAsked, finished>>

ReadStatus ==
  /\ statusLoad # NoStatusLoad /\ ~statusLoad.read
  /\ statusLoad' = [statusLoad EXCEPT !.read = TRUE, !.status = [attempts |-> attempts, failing |-> failing]]
  /\ UNCHANGED <<attempts, failing, catalog, catalogError, refresh, retryGames, failedGames, refreshesAsked, finished>>

StatusShown ==
  /\ statusLoad # NoStatusLoad /\ statusLoad.read
  /\ catalog' = statusLoad.status /\ catalogError' = FALSE /\ statusLoad' = NoStatusLoad
  /\ UNCHANGED <<attempts, failing, refresh, retryGames, failedGames, refreshesAsked, finished>>

StatusLost ==
  /\ statusLoad # NoStatusLoad /\ statusLoad' = NoStatusLoad /\ catalogError' = TRUE
  /\ UNCHANGED <<attempts, failing, catalog, refresh, retryGames, failedGames, refreshesAsked, finished>>

-----------------------------------------------------------------------------
(* Refreshes.                                                              *)

NewRefresh(games) ==
  [n |-> refreshesAsked + 1, games |-> games, step |-> "sent", outcome |-> "error", failed |-> {}]

FailedTargets == failedGames \cup catalog.failing

\* One game, or all of them.
AskRefresh(games) ==
  /\ games = Games \/ Cardinality(games) = 1
  /\ refresh = NoRefresh /\ refreshesAsked < MaxRefreshes
  /\ refresh' = NewRefresh(games) /\ refreshesAsked' = refreshesAsked + 1 /\ NewTimer
  /\ UNCHANGED <<attempts, failing, catalog, catalogError, retryGames, failedGames, finished>>

\* Those that have failed when the button is pressed, one after the other.
RetryFailed(game) ==
  /\ refresh = NoRefresh /\ game \in FailedTargets
  /\ refreshesAsked + Cardinality(FailedTargets) <= MaxRefreshes
  /\ refresh' = NewRefresh({game}) /\ refreshesAsked' = refreshesAsked + 1
  /\ retryGames' = FailedTargets \ {game} /\ NewTimer
  /\ UNCHANGED <<attempts, failing, catalog, catalogError, failedGames, finished>>

\* The server: some games of several may fail; one alone that fails is an error, and a
\* refresh that is already running refuses this one.
ServeRefresh(outcome, failed) ==
  /\ refresh # NoRefresh /\ refresh.step = "sent"
  /\ failed \subseteq refresh.games /\ failed # refresh.games
  /\ (outcome = "partial") <=> (failed # {})
  /\ refresh' = [refresh EXCEPT !.step = "answered", !.outcome = outcome, !.failed = failed]
  /\ attempts' = IF outcome \in {"complete", "partial"} THEN attempts \cup {refresh.n} ELSE attempts
  /\ failing' = CASE outcome = "busy" -> failing
                  [] outcome = "error" -> failing \cup refresh.games
                  [] OTHER -> (failing \ refresh.games) \cup failed
  /\ UNCHANGED <<catalog, statusLoad, catalogError, retryGames, failedGames, refreshesAsked, finished>>

\* The automatic refresh, or another administrator's.
RefreshedElsewhere(failed) ==
  /\ failing' = failed
  /\ UNCHANGED <<attempts, catalog, statusLoad, catalogError, refresh, retryGames, failedGames, refreshesAsked,
                 finished>>

\* Mutant: the status is loaded only when none is on its way.
RefreshAnsweredLazily(outcome) ==
  /\ refresh # NoRefresh /\ refresh.step # "reloading"
  /\ outcome # "error" => refresh.step = "answered" /\ outcome = refresh.outcome
  /\ failedGames' = failedGames
  /\ finished' = IF outcome \in {"complete", "partial"} THEN finished \cup {refresh.n} ELSE finished
  /\ statusLoad' = IF statusLoad = NoStatusLoad THEN LoadStatus(refresh.n) ELSE statusLoad
  /\ refresh' = [refresh EXCEPT !.step = "reloading"]
  /\ UNCHANGED <<attempts, failing, catalog, catalogError, retryGames, refreshesAsked>>

\* The answer, which may be lost; the status is loaded again whatever it is.
RefreshAnswered(outcome) ==
  /\ refresh # NoRefresh /\ refresh.step # "reloading"
  /\ outcome # "error" => refresh.step = "answered" /\ outcome = refresh.outcome
  /\ failedGames' = CASE outcome \in {"complete", "partial"} -> (failedGames \ refresh.games) \cup refresh.failed
                      [] outcome = "error" /\ refresh.games # Games -> failedGames \cup refresh.games
                      [] OTHER -> failedGames
  /\ finished' = IF outcome \in {"complete", "partial"} THEN finished \cup {refresh.n} ELSE finished
  /\ statusLoad' = LoadStatus(refresh.n)
  /\ refresh' = [refresh EXCEPT !.step = "reloading"]
  /\ UNCHANGED <<attempts, failing, catalog, catalogError, retryGames, refreshesAsked>>

\* The load it waits for has ended, or was given up for a poll's.
RefreshEnds ==
  /\ refresh # NoRefresh /\ refresh.step = "reloading"
  /\ IF statusLoad = NoStatusLoad THEN TRUE ELSE statusLoad.by = 0
  /\ IF retryGames = {}
     THEN refresh' = NoRefresh /\ NewTimer /\ UNCHANGED <<retryGames, refreshesAsked>>
     ELSE \E game \in retryGames :
            /\ refresh' = NewRefresh({game}) /\ refreshesAsked' = refreshesAsked + 1
            /\ retryGames' = retryGames \ {game} /\ UNCHANGED statusLoad
  /\ UNCHANGED <<attempts, failing, catalog, catalogError, failedGames, finished>>

-----------------------------------------------------------------------------
(* The schedule.                                                           *)

\* If it cannot be loaded there is no form.
ScheduleLoads(shown) ==
  /\ scheduleLoad /\ scheduleLoad' = FALSE
  /\ schedule' = IF shown THEN savedSchedule ELSE NoSchedule
  /\ written' = schedule'
  /\ UNCHANGED <<savedSchedule, scheduleSave, edits, editedMeanwhile>>

EditSchedule ==
  /\ schedule # NoSchedule /\ edits < MaxEdits
  /\ edits' = edits + 1 /\ schedule' = edits' /\ written' = edits'
  /\ editedMeanwhile' = FALSE
  /\ UNCHANGED <<savedSchedule, scheduleLoad, scheduleSave>>

SaveSchedule ==
  /\ schedule # NoSchedule /\ scheduleSave = NoSave
  /\ scheduleSave' = [schedule |-> schedule, made |-> FALSE]
  /\ UNCHANGED <<savedSchedule, schedule, scheduleLoad, edits, written, editedMeanwhile>>

ServeSchedule ==
  /\ scheduleSave # NoSave /\ ~scheduleSave.made
  /\ savedSchedule' = scheduleSave.schedule /\ scheduleSave' = [scheduleSave EXCEPT !.made = TRUE]
  /\ UNCHANGED <<schedule, scheduleLoad, edits, written, editedMeanwhile>>

\* The form goes back to what was saved; it was open all the time.
ScheduleSaved ==
  /\ scheduleSave # NoSave /\ scheduleSave.made
  /\ schedule' = scheduleSave.schedule /\ scheduleSave' = NoSave
  /\ editedMeanwhile' = (editedMeanwhile \/ scheduleSave.schedule # schedule)
  /\ UNCHANGED <<savedSchedule, scheduleLoad, edits, written>>

ScheduleNotSaved ==
  /\ scheduleSave # NoSave /\ scheduleSave' = NoSave
  /\ UNCHANGED <<savedSchedule, schedule, scheduleLoad, edits, written, editedMeanwhile>>

-----------------------------------------------------------------------------
CatalogInit ==
  /\ attempts = {} /\ failing \in {{}, Games} /\ catalog = [attempts |-> {}, failing |-> {}]
  /\ statusLoad = LoadStatus(0) /\ catalogError = FALSE
  /\ refresh = NoRefresh /\ retryGames = {} /\ failedGames = {} /\ refreshesAsked = 0 /\ finished = {}

ScheduleInit ==
  /\ savedSchedule = 0 /\ schedule = NoSchedule /\ scheduleLoad = TRUE /\ scheduleSave = NoSave
  /\ edits = 0 /\ written = NoSchedule /\ editedMeanwhile = FALSE

CatalogNext ==
  \/ Poll \/ ReadStatus \/ StatusShown \/ StatusLost \/ RefreshEnds
  \/ \E games \in SUBSET Games : AskRefresh(games) \/ RefreshedElsewhere(games)
  \/ \E game \in Games : RetryFailed(game)
  \/ \E outcome \in {"complete", "partial", "busy", "error"} :
       \/ RefreshAnswered(outcome)
       \/ \E failed \in SUBSET Games : ServeRefresh(outcome, failed)

ScheduleNext ==
  \/ EditSchedule \/ SaveSchedule \/ ServeSchedule \/ ScheduleSaved \/ ScheduleNotSaved
  \/ \E shown \in BOOLEAN : ScheduleLoads(shown)

CatalogSpec == CatalogInit /\ [][CatalogNext]_catalogVars
ScheduleSpec == ScheduleInit /\ [][ScheduleNext]_scheduleVars

-----------------------------------------------------------------------------
(* Properties.                                                             *)

\* The status at rest includes every refresh the page knows to be finished, unless the
\* last load failed, and the form shows what was last written in it, unless that was
\* done during a save.
CatalogCurrent ==
  /\ statusLoad = NoStatusLoad /\ ~catalogError => finished \subseteq catalog.attempts
  /\ ~editedMeanwhile => schedule = written
=============================================================================
