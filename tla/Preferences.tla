----------------------------- MODULE Preferences -----------------------------
(* What a browser keeps of a member's taste: the appearance, the display of the *)
(* collection and the personal look, in localStorage, shared by its tabs.        *)
(*                                                                              *)
(* A tab works from its own copy. It writes a whole preference, copied with one  *)
(* choice changed, and the browser tells the other tabs later, by an event that   *)
(* says which key has changed: the tab then reads what is stored by that time.   *)
(* Storage can always be read; a write may not fit.                             *)
EXTENDS Naturals

CONSTANTS Tabs, NotSaved,
          MaxChoices  \* bound: choices made

ASSUME ChoicesAssumption == MaxChoices \in Nat

VARIABLES
  savedAppearance, \* localStorage: the appearance
  legacy,          \* and the one an earlier version has left
  savedDisplay,    \* how the collection is displayed
  savedLook,       \* whose layout and design
  tabPage,            \* of each tab
  appearance,      \* the choices an account page shows
  display,         \* those an account or a collection page goes by
  look,            \* the look the application has
  layout,          \* the one whose layout an open collection page goes by
  applied,         \* the appearance it has
  choices,         \* bound
  notices,          \* events that are on their way to a tab
  unheard,         \* history: what a tab could not write or take back, or was not told of
  missed,          \* history: the appearance changed while the tab did not listen
  resetHeard       \* history: the collection page was open when the display was reset

storage == <<savedAppearance, legacy, savedDisplay, savedLook>>
preferenceVars == <<storage, tabPage, appearance, display, look, layout, applied, choices, notices, unheard,
                    missed, resetHeard>>

Appearance == [theme : {"system", "light"}, detail : {"standard", "chosen"}]
Display == [view : {"grid", "list"}, shows : {"standard", "chosen"}]
Look == {"site", "own"}  \* the layout and the design together; a background is left out
Keys == {"appearance", "display", "look"}
DefaultAppearance == [theme |-> "system", detail |-> "standard"]
DefaultDisplay == [view |-> "grid", shows |-> "standard"]

ASSUME NotSavedAssumption == NotSaved \notin Appearance \cup Display \cup Look

\* `tabPage` decides which copies a tab has; the others hold NotSaved.
PreferencesTypeOK ==
  /\ savedAppearance \in Appearance \cup {NotSaved} /\ legacy \in Appearance \cup {NotSaved}
  /\ savedDisplay \in Display \cup {NotSaved} /\ savedLook \in Look
  /\ tabPage \in [Tabs -> {"account", "collection", "admin"}]
  /\ choices \in 0..MaxChoices
  /\ \A t \in Tabs :
       /\ IF tabPage[t] = "account" THEN appearance[t] \in Appearance ELSE appearance[t] = NotSaved
       /\ IF tabPage[t] # "admin" THEN display[t] \in Display ELSE display[t] = NotSaved
       /\ IF tabPage[t] = "collection" THEN layout[t] \in Look ELSE layout[t] = NotSaved
       /\ look[t] \in Look /\ applied[t] \in Appearance /\ resetHeard[t] \in BOOLEAN
       /\ notices[t] \subseteq Keys /\ unheard[t] \subseteq Keys /\ missed[t] \in BOOLEAN

-----------------------------------------------------------------------------
(* Storage.                                                                *)

\* readAppearance: what is saved, or else what is left of an earlier version.
Read(saved, old) == IF saved # NotSaved THEN saved ELSE IF old # NotSaved THEN old ELSE DefaultAppearance
ReadAppearance == Read(savedAppearance, legacy)
ReadDisplay == IF savedDisplay = NotSaved THEN DefaultDisplay ELSE savedDisplay

\* The site's layout shows a grid, a member's own a list. Where no display is saved the
\* collection page takes the view, and the size of the cards with it, from the layout.
ViewOf(whose) == IF whose = "own" THEN "list" ELSE "grid"
Followed(shown) == IF savedDisplay = NotSaved THEN [shown EXCEPT !.view = ViewOf(savedLook)] ELSE shown

\* The other tabs hear of the keys whose value has changed.
Tell(t, keys) ==
  /\ choices < MaxChoices /\ choices' = choices + 1
  /\ notices' = [u \in Tabs |-> IF u = t THEN notices[u] ELSE notices[u] \cup keys]
Changed(key, before, after) == IF before = after THEN {} ELSE {key}

-----------------------------------------------------------------------------
(* Choices.                                                                *)

\* Mutant: what is chosen is written over what is stored.
UpdateAppearanceFresh(t, next, fits) ==
  /\ tabPage[t] = "account"
  /\ \E fresh \in {[ReadAppearance EXCEPT !.theme = next.theme], [ReadAppearance EXCEPT !.detail = next.detail]} :
       savedAppearance' = IF fits THEN fresh ELSE savedAppearance
  /\ appearance' = [appearance EXCEPT ![t] = next] /\ applied' = [applied EXCEPT ![t] = next]
  /\ Tell(t, Changed("appearance", savedAppearance, savedAppearance'))
  /\ unheard' = [unheard EXCEPT ![t] = IF fits THEN @ \ {"appearance"} ELSE @ \cup {"appearance"}]
  /\ missed' = [missed EXCEPT ![t] = FALSE]
  /\ UNCHANGED <<legacy, savedDisplay, savedLook, tabPage, display, look, layout, resetHeard>>

\* One choice changed; it is shown and applied whether it could be written or not.
UpdateAppearance(t, next, fits) ==
  /\ tabPage[t] = "account"
  /\ \/ next = [appearance[t] EXCEPT !.theme = next.theme]
     \/ next = [appearance[t] EXCEPT !.detail = next.detail]
  /\ savedAppearance' = IF fits THEN next ELSE savedAppearance
  /\ appearance' = [appearance EXCEPT ![t] = next] /\ applied' = [applied EXCEPT ![t] = next]
  /\ Tell(t, Changed("appearance", savedAppearance, savedAppearance'))
  /\ unheard' = [unheard EXCEPT ![t] = IF fits THEN @ \ {"appearance"} ELSE @ \cup {"appearance"}]
  /\ missed' = [missed EXCEPT ![t] = FALSE]
  /\ UNCHANGED <<legacy, savedDisplay, savedLook, tabPage, display, look, layout, resetHeard>>

\* What an earlier version has left goes too: if it was in force, no tab listens to its
\* event.
ResetAppearance(t) ==
  /\ tabPage[t] = "account"
  /\ savedAppearance' = NotSaved /\ legacy' = NotSaved
  /\ appearance' = [appearance EXCEPT ![t] = DefaultAppearance]
  /\ applied' = [applied EXCEPT ![t] = DefaultAppearance]
  /\ Tell(t, Changed("appearance", savedAppearance, NotSaved))
  /\ LET silent == IF savedAppearance = NotSaved /\ legacy # NotSaved THEN {"appearance"} ELSE {} IN
     unheard' = [u \in Tabs |-> IF u = t THEN unheard[u] \ {"appearance"} ELSE unheard[u] \cup silent]
  /\ missed' = [missed EXCEPT ![t] = FALSE]
  /\ UNCHANGED <<savedDisplay, savedLook, tabPage, display, look, layout, resetHeard>>

UpdateDisplay(t, next, fits) ==
  /\ tabPage[t] = "account"
  /\ \/ next = [display[t] EXCEPT !.view = next.view]
     \/ next = [display[t] EXCEPT !.shows = next.shows]
  /\ display' = [display EXCEPT ![t] = next]
  /\ savedDisplay' = IF fits THEN next ELSE savedDisplay
  /\ Tell(t, Changed("display", savedDisplay, savedDisplay'))
  /\ unheard' = [unheard EXCEPT ![t] = IF fits THEN @ \ {"display"} ELSE @ \cup {"display"}]
  /\ UNCHANGED <<savedAppearance, legacy, savedLook, tabPage, appearance, look, layout, applied, missed,
                 resetHeard>>

ResetDisplay(t) ==
  /\ tabPage[t] = "account"
  /\ display' = [display EXCEPT ![t] = DefaultDisplay] /\ savedDisplay' = NotSaved
  /\ Tell(t, Changed("display", savedDisplay, NotSaved))
  /\ unheard' = [unheard EXCEPT ![t] = @ \ {"display"}]
  /\ UNCHANGED <<savedAppearance, legacy, savedLook, tabPage, appearance, look, layout, applied, missed,
                 resetHeard>>

-----------------------------------------------------------------------------
(* The look, and the theme, which follows it.                              *)

FollowingTheme == [ReadAppearance EXCEPT !.theme = "system"]

\* applyPersonalLook, when every key fits: the page is told as by an event of its own.
ApplyLook(t, next) ==
  /\ tabPage[t] = "account"
  /\ savedLook' = next /\ savedAppearance' = FollowingTheme
  /\ look' = [look EXCEPT ![t] = next]
  /\ applied' = [applied EXCEPT ![t] = FollowingTheme]
  /\ appearance' = [appearance EXCEPT ![t] = FollowingTheme]
  /\ Tell(t, Changed("appearance", savedAppearance, FollowingTheme) \cup Changed("look", savedLook, next))
  /\ unheard' = [unheard EXCEPT ![t] = @ \ {"appearance", "look"}]
  /\ missed' = [missed EXCEPT ![t] = FALSE]
  /\ UNCHANGED <<legacy, savedDisplay, tabPage, display, layout, resetHeard>>

\* One key does not fit: those written before it are put back, unless another tab has
\* taken the room of some (`kept`).
LookRefused(t, next, kept) ==
  /\ tabPage[t] = "account" /\ kept \subseteq {"appearance", "look"}
  /\ savedLook' = IF "look" \in kept THEN next ELSE savedLook
  /\ savedAppearance' = IF "appearance" \in kept THEN FollowingTheme ELSE savedAppearance
  /\ Tell(t, {"look"} \cup kept)
  /\ unheard' = [unheard EXCEPT ![t] = @ \cup kept]
  /\ UNCHANGED <<legacy, savedDisplay, tabPage, appearance, display, look, layout, applied, missed, resetHeard>>

\* The customizer saves a layout; the page goes by it if it could.
SaveLayout(t) ==
  /\ tabPage[t] = "account"
  /\ savedLook' = "own" /\ look' = [look EXCEPT ![t] = "own"]
  /\ Tell(t, {"look"})
  /\ unheard' = [unheard EXCEPT ![t] = @ \ {"look"}]
  /\ UNCHANGED <<savedAppearance, legacy, savedDisplay, tabPage, appearance, display, layout, applied, missed,
                 resetHeard>>

\* An administrator follows the site's design; nothing is done if the theme does not fit.
FollowSiteDesign(t) ==
  /\ tabPage[t] = "admin"
  /\ savedAppearance' = FollowingTheme /\ savedLook' = "site"
  /\ look' = [look EXCEPT ![t] = "site"] /\ applied' = [applied EXCEPT ![t] = FollowingTheme]
  /\ Tell(t, Changed("appearance", savedAppearance, FollowingTheme) \cup Changed("look", savedLook, "site"))
  /\ unheard' = [unheard EXCEPT ![t] = {}] /\ missed' = [missed EXCEPT ![t] = FALSE]
  /\ UNCHANGED <<legacy, savedDisplay, tabPage, appearance, display, layout, resetHeard>>

-----------------------------------------------------------------------------
(* Events and pages.                                                       *)

\* Whatever the key, the look is read again; the rest by the pages that listen to it. A
\* collection page follows a layout whose view is another than before. A display that was
\* reset is heard as the default one, not as the layout's.
Hear(t, key) ==
  /\ key \in notices[t]
  /\ notices' = [notices EXCEPT ![t] = @ \ {key}]
  /\ look' = [look EXCEPT ![t] = savedLook]
  /\ IF key = "appearance" /\ tabPage[t] = "account"
     THEN /\ appearance' = [appearance EXCEPT ![t] = ReadAppearance]
          /\ applied' = [applied EXCEPT ![t] = ReadAppearance]
     ELSE UNCHANGED <<appearance, applied>>
  /\ missed' = [missed EXCEPT ![t] = IF key = "appearance" THEN tabPage[t] # "account" ELSE @]
  /\ LET heard == IF key = "display" /\ tabPage[t] # "admin" THEN ReadDisplay ELSE display[t]
         other == tabPage[t] = "collection" /\ ViewOf(savedLook) # ViewOf(layout[t])
     IN /\ display' = [display EXCEPT ![t] = IF other THEN Followed(heard) ELSE heard]
        /\ resetHeard' = [resetHeard EXCEPT ![t] =
             IF key = "display" THEN tabPage[t] = "collection" /\ ~other /\ savedDisplay = NotSaved
             ELSE @ /\ ~(other /\ savedDisplay = NotSaved)]
  /\ layout' = [layout EXCEPT ![t] = IF tabPage[t] = "collection" THEN savedLook ELSE @]
  /\ unheard' = [unheard EXCEPT ![t] = @ \ {key, "look"}]
  /\ UNCHANGED <<storage, tabPage, choices>>

\* Only the pages that show a preference read it, when they are opened.
OpenPage(t, next) ==
  /\ next # tabPage[t] /\ tabPage' = [tabPage EXCEPT ![t] = next]
  /\ appearance' = [appearance EXCEPT ![t] = IF next = "account" THEN ReadAppearance ELSE NotSaved]
  /\ display' = [display EXCEPT ![t] = IF next = "account" THEN ReadDisplay
                                      ELSE IF next = "collection" THEN Followed(ReadDisplay) ELSE NotSaved]
  /\ layout' = [layout EXCEPT ![t] = IF next = "collection" THEN savedLook ELSE NotSaved]
  /\ resetHeard' = [resetHeard EXCEPT ![t] = FALSE]
  /\ missed' = [missed EXCEPT ![t] = @ \/ "appearance" \in notices[t] \cup unheard[t]]
  /\ unheard' = [unheard EXCEPT ![t] = @ \ {"appearance", "display"}]
  /\ UNCHANGED <<storage, look, applied, choices, notices>>

\* watchSystemTheme: the theme of the device has changed.
SystemTheme(t) ==
  /\ ReadAppearance.theme = "system" /\ applied' = [applied EXCEPT ![t] = ReadAppearance]
  /\ missed' = [missed EXCEPT ![t] = @ /\ "appearance" \in unheard[t]]
  /\ UNCHANGED <<storage, tabPage, appearance, display, look, layout, choices, notices, unheard, resetHeard>>

-----------------------------------------------------------------------------
PreferencesInit ==
  /\ savedAppearance \in {NotSaved, [DefaultAppearance EXCEPT !.theme = "light"]}
  /\ legacy \in {NotSaved, [DefaultAppearance EXCEPT !.detail = "chosen"]}
  /\ savedDisplay \in {NotSaved, [DefaultDisplay EXCEPT !.shows = "chosen"]} /\ savedLook = "site"
  /\ tabPage = [t \in Tabs |-> "account"]
  /\ appearance = [t \in Tabs |-> ReadAppearance] /\ applied = appearance
  /\ display = [t \in Tabs |-> ReadDisplay] /\ look = [t \in Tabs |-> savedLook]
  /\ layout = [t \in Tabs |-> NotSaved] /\ resetHeard = [t \in Tabs |-> FALSE]
  /\ choices = 0 /\ notices = [t \in Tabs |-> {}] /\ unheard = [t \in Tabs |-> {}] /\ missed = [t \in Tabs |-> FALSE]

PreferencesNext ==
  \E t \in Tabs :
    \/ \E next \in Appearance, fits \in BOOLEAN : UpdateAppearance(t, next, fits)
    \/ \E next \in Display, fits \in BOOLEAN : UpdateDisplay(t, next, fits)
    \/ ResetAppearance(t) \/ ResetDisplay(t) \/ SaveLayout(t) \/ FollowSiteDesign(t) \/ SystemTheme(t)
    \/ \E next \in Look :
         \/ ApplyLook(t, next)
         \/ \E kept \in SUBSET {"appearance", "look"} : LookRefused(t, next, kept)
    \/ \E key \in Keys : Hear(t, key)
    \/ \E next \in {"account", "collection", "admin"} : OpenPage(t, next)

PreferencesSpec == PreferencesInit /\ [][PreferencesNext]_preferenceVars

-----------------------------------------------------------------------------
(* Properties.                                                             *)

\* Two tabs of a browser come to agree: once the events have arrived each shows and
\* applies what is stored, except for what it could not write, and for a reset of what
\* an earlier version left, which it does not hear of. Only the account page listens to
\* the appearance, so a tab that was elsewhere may show one and have another. Where no
\* display is stored a collection page shows what the look's layout says, unless it was
\* open when the display was reset: it shows the default until the layout changes.
TabsAgree ==
  \A t \in Tabs :
    LET settled == Keys \ (notices[t] \cup unheard[t]) IN
    /\ tabPage[t] = "account" /\ "appearance" \in settled => appearance[t] = ReadAppearance
    /\ tabPage[t] = "account" /\ "appearance" \in settled /\ ~missed[t] => applied[t] = ReadAppearance
    /\ tabPage[t] = "account" /\ "display" \in settled => display[t] = ReadDisplay
    /\ tabPage[t] = "collection" /\ {"display", "look"} \subseteq settled =>
         display[t] = IF resetHeard[t] THEN DefaultDisplay ELSE Followed(ReadDisplay)
    /\ "look" \in settled => look[t] = savedLook
=============================================================================
