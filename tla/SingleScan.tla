------------------------------ MODULE SingleScan ------------------------------
(* Scanning one card: the page around the scanner, ScannerPage.tsx, in its      *)
(* single mode. A search or a save that is awaited belongs to a generation of    *)
(* the page, and is `current` while the page has not moved on.                   *)
EXTENDS Integers

CONSTANTS Matches, NoMatch,  \* printings
          MaxScans           \* bound: photographs received

ASSUME SingleAssumption == NoMatch \notin Matches /\ MaxScans \in Nat

VARIABLES
  mode,       \* "single" or another mode, which shows another component
  scan,       \* the photograph on the page, 0 for none
  scans,      \* photographs so far
  searches,   \* searches awaited
  searching,  \* "Finding possible printings"
  found,      \* the candidates
  selected, confirmed,
  saves,      \* additions awaited: the addition, then the summary of the collection
  saving,     \* "Adding card..."
  success,    \* the photograph whose card "was added", 0 for none
  foundFor,   \* history: the photograph the candidates were searched for
  left,       \* history: the page moved on while a summary was awaited
  searchedOver  \* history: a title was searched while a card was being added

singleVars == <<mode, scan, scans, searches, searching, found, selected, confirmed, saves, saving, success,
                foundFor, left, searchedOver>>

SingleTypeOK ==
  /\ mode \in {"single", "multiple", "automatic"}
  /\ {scan, scans, success, foundFor} \subseteq 0..MaxScans
  /\ searches \subseteq [scan : 1..MaxScans, current : BOOLEAN]
  /\ {searching, confirmed, saving, left, searchedOver} \subseteq BOOLEAN
  /\ found \subseteq Matches /\ selected \in Matches \cup {NoMatch}
  /\ saves \subseteq [scan : 1..MaxScans, printing : Matches, step : {"adding", "summary"}, current : BOOLEAN]

-----------------------------------------------------------------------------
Superseded(js) == {[j EXCEPT !.current = FALSE] : j \in js}

\* The beginning of findCandidates. The search before it is aborted, which does not stop
\* an answer that is already in.
StartSearch(card) ==
  /\ searches' = Superseded(searches) \cup {[scan |-> card, current |-> TRUE]}
  /\ searching' = TRUE
  /\ saves' = Superseded(saves)
  /\ searchedOver' = (searchedOver \/ saving)
  /\ found' = {} /\ selected' = NoMatch /\ confirmed' = FALSE /\ success' = 0

ReceiveResult ==
  /\ mode = "single" /\ scans < MaxScans
  /\ scan' = scans + 1 /\ scans' = scans + 1
  /\ StartSearch(scans + 1)
  /\ UNCHANGED <<mode, saving, foundFor, left>>

SearchTitle ==
  /\ mode = "single" /\ scan # 0 /\ ~searching
  /\ StartSearch(scan)
  /\ UNCHANGED <<mode, scan, scans, saving, foundFor, left>>

\* Mutant: a search that was given up still shows its candidates.
SearchEndsAnyway(j, candidates, detected) ==
  /\ searches' = searches \ {j}
  /\ searching' = (searching /\ ~j.current)
  /\ found' = candidates /\ foundFor' = j.scan
  /\ selected' = detected
  /\ UNCHANGED <<mode, scan, scans, confirmed, saves, saving, success, left, searchedOver>>

\* Candidates, one of them selected if the hints name it alone, or none at all.
SearchEnds(j, candidates, detected) ==
  /\ searches' = searches \ {j}
  /\ searching' = (searching /\ ~j.current)
  /\ IF j.current /\ candidates # {}
     THEN /\ found' = candidates /\ foundFor' = j.scan
          /\ selected' = detected
          /\ confirmed' = (confirmed /\ detected = NoMatch)
          /\ success' = IF detected = NoMatch THEN success ELSE 0
     ELSE UNCHANGED <<found, foundFor, selected, confirmed, success>>
  /\ UNCHANGED <<mode, scan, scans, saves, saving, left, searchedOver>>

-----------------------------------------------------------------------------
(* The member at the candidates.                                           *)

Review == mode = "single" /\ scan # 0

SelectCandidate(p) ==
  /\ Review /\ p \in found
  /\ selected' = p /\ confirmed' = FALSE /\ success' = 0
  /\ UNCHANGED <<mode, scan, scans, searches, searching, found, saves, saving, foundFor, left, searchedOver>>

FilterCandidates ==
  /\ Review /\ found # {}
  /\ selected' = NoMatch /\ confirmed' = FALSE
  /\ UNCHANGED <<mode, scan, scans, searches, searching, found, saves, saving, success, foundFor, left,
                 searchedOver>>

\* The check box; finish, condition and quantity take the confirmation back.
ConfirmPrinting(yes) ==
  /\ Review /\ selected \in found /\ confirmed' = yes
  /\ UNCHANGED <<mode, scan, scans, searches, searching, found, selected, saves, saving, success, foundFor,
                 left, searchedOver>>

AddCard ==
  /\ Review /\ selected \in found /\ confirmed /\ ~saving
  /\ saves' = saves \cup {[scan |-> scan, printing |-> selected, step |-> "adding", current |-> TRUE]}
  /\ saving' = TRUE /\ success' = 0
  /\ UNCHANGED <<mode, scan, scans, searches, searching, found, selected, confirmed, foundFor, left,
                 searchedOver>>

CardAdded(s) ==
  /\ s.step = "adding"
  /\ saves' = (saves \ {s}) \cup (IF s.current THEN {[s EXCEPT !.step = "summary"]} ELSE {})
  /\ UNCHANGED <<mode, scan, scans, searches, searching, found, selected, confirmed, saving, success, foundFor,
                 left, searchedOver>>

CardRefused(s) ==
  /\ s.step = "adding" /\ saves' = saves \ {s}
  /\ saving' = (saving /\ ~s.current)
  /\ UNCHANGED <<mode, scan, scans, searches, searching, found, selected, confirmed, success, foundFor, left,
                 searchedOver>>

\* The summary comes or fails: whatever the page shows by now, the card "was added".
SummaryEnds(s) ==
  /\ s.step = "summary" /\ saves' = saves \ {s}
  /\ success' = s.scan /\ confirmed' = FALSE
  /\ saving' = (saving /\ ~s.current)
  /\ left' = (left \/ ~s.current)
  /\ UNCHANGED <<mode, scan, scans, searches, searching, found, selected, foundFor, searchedOver>>

\* resetScan: a retake, another photograph, a cancel, or the next card.
ResetScan ==
  /\ mode = "single"
  /\ scan' = 0 /\ searches' = Superseded(searches) /\ saves' = Superseded(saves)
  /\ found' = {} /\ selected' = NoMatch /\ confirmed' = FALSE
  /\ searching' = FALSE /\ saving' = FALSE /\ success' = 0 /\ searchedOver' = FALSE
  /\ UNCHANGED <<mode, scans, foundFor, left>>

\* Another mode shows another component; the page's state stays.
SetMode(m) ==
  /\ m # mode /\ mode' = m
  /\ UNCHANGED <<scan, scans, searches, searching, found, selected, confirmed, saves, saving, success, foundFor,
                 left, searchedOver>>

-----------------------------------------------------------------------------
SingleInit ==
  /\ mode = "single" /\ scan = 0 /\ scans = 0 /\ searches = {} /\ searching = FALSE
  /\ found = {} /\ selected = NoMatch /\ confirmed = FALSE
  /\ saves = {} /\ saving = FALSE /\ success = 0
  /\ foundFor = 0 /\ left = FALSE /\ searchedOver = FALSE

SingleNext ==
  \/ ReceiveResult \/ SearchTitle \/ FilterCandidates \/ AddCard \/ ResetScan
  \/ \E j \in searches, c \in SUBSET Matches : \E d \in c \cup {NoMatch} : SearchEnds(j, c, d)
  \/ \E p \in Matches : SelectCandidate(p)
  \/ \E yes \in BOOLEAN : ConfirmPrinting(yes)
  \/ \E s \in saves : CardAdded(s) \/ CardRefused(s) \/ SummaryEnds(s)
  \/ \E m \in {"single", "multiple", "automatic"} : SetMode(m)

SingleSpec == SingleInit /\ [][SingleNext]_singleVars

-----------------------------------------------------------------------------
(* Properties.                                                             *)

\* What the page says is about the photograph it shows: it is searching exactly while
\* a search of that photograph is awaited, its candidates are that photograph's, it
\* reports another card as added only if it moved on while the summary of the
\* collection was awaited, and it says it is adding a card only while it is, or since
\* a title was searched meanwhile.
PageOfThisScan ==
  /\ searching <=> \E j \in searches : j.current /\ j.scan = scan
  /\ found # {} => foundFor = scan
  /\ success # 0 /\ success # scan => left
  /\ saving => searchedOver \/ \E s \in saves : s.current
=============================================================================
