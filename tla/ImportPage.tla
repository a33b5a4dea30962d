----------------------------- MODULE ImportPage -----------------------------
(* The import page in the browser, CollectionImportPage.tsx: a file is chosen,  *)
(* reviewed by the server, and its preview confirmed or cancelled; the same page *)
(* exports. Whatever is begun ends what was awaited: it is aborted, which does    *)
(* not stop the server, and its generation is over, so an answer to it is not     *)
(* heard. A call here is `current` while its generation is the page's.           *)
EXTENDS Integers, Sequences, FiniteSets

CONSTANTS Files, NoFile,
          MaxPreviews,  \* bound: previews that the server makes
          MaxAwaited    \* bound: requests in flight, the aborted ones included

ASSUME ImportPageAssumption == NoFile \notin Files /\ MaxPreviews \in Nat /\ MaxAwaited \in Nat

VARIABLES
  previews,    \* the server's previews, in the order they were made
  file,        \* the file chosen and not yet reviewed
  preview,     \* the preview shown, 0 for none
  operation,   \* what the page is busy with
  complete,    \* "Import complete"
  exportComplete,
  pageCalls,   \* requests in flight
  onPage,      \* the page is shown
  chosen,      \* history: the file chosen last
  unsure       \* history: previews whose end the page was not told of

importVars == <<previews, file, preview, operation, complete, exportComplete, pageCalls, onPage, chosen, unsure>>

Operations == {"review", "confirm", "cancel", "export"}
Preview == [of : Files, errors : BOOLEAN, state : {"open", "applied", "gone"}]

\* `about` is the file reviewed, or the preview; `step` is "after" once a confirmation was
\* answered and the collection is read again.
ImportPageTypeOK ==
  /\ \A n \in DOMAIN previews : previews[n] \in Preview
  /\ file \in Files \cup {NoFile} /\ chosen \in Files \cup {NoFile}
  /\ preview \in 0..MaxPreviews /\ unsure \subseteq 1..MaxPreviews
  /\ operation \in Operations \cup {"none"}
  /\ {complete, exportComplete, onPage} \subseteq BOOLEAN
  /\ \A c \in pageCalls : c.op \in Operations /\ c.step \in {"sent", "done", "refused", "after"}

Superseded == {[c EXCEPT !.current = FALSE] : c \in pageCalls}

\* The rest of what an answer finds: the page itself.
page == <<file, preview, complete, exportComplete, onPage, chosen>>

-----------------------------------------------------------------------------
(* The member.                                                             *)

Choosing == onPage /\ ~complete /\ preview = 0
Reviewing == onPage /\ ~complete /\ preview # 0
Idle == operation = "none"

\* Mutant: a review that is under way goes on counting.
ChooseFileCounting(f) ==
  /\ Choosing
  /\ file' = f /\ chosen' = f /\ operation' = "none"
  /\ UNCHANGED <<previews, preview, complete, exportComplete, onPage, unsure, pageCalls>>

\* Picked or dropped, at any time, the same again too; a dialog that is cancelled
\* chooses none.
ChooseFile(f) ==
  /\ Choosing
  /\ file' = f /\ chosen' = f /\ operation' = "none"
  /\ pageCalls' = Superseded
  /\ UNCHANGED <<previews, preview, complete, exportComplete, onPage, unsure>>

Begin(op, about, n) ==
  /\ Cardinality(pageCalls) < MaxAwaited
  /\ pageCalls' = Superseded \cup {[op |-> op, about |-> about, n |-> n, step |-> "sent", current |-> TRUE]}
  /\ operation' = op
  /\ UNCHANGED <<previews, file, preview, complete, onPage, chosen, unsure>>

\* A file that is too large is refused here.
Review == Choosing /\ Idle /\ file # NoFile /\ Begin("review", file, 0) /\ UNCHANGED exportComplete

Confirm ==
  /\ Reviewing /\ Idle /\ ~previews[preview].errors
  /\ Begin("confirm", NoFile, preview) /\ UNCHANGED exportComplete

CancelImport == Reviewing /\ Idle /\ Begin("cancel", NoFile, preview) /\ UNCHANGED exportComplete

ExportCsv == onPage /\ Idle /\ Begin("export", NoFile, 0) /\ exportComplete' = FALSE

Cleared ==
  /\ file' = NoFile /\ preview' = 0 /\ complete' = FALSE /\ operation' = "none" /\ chosen' = NoFile

\* "Import another CSV"; the collection may still be being read.
ImportAnother ==
  /\ onPage /\ complete
  /\ Cleared /\ pageCalls' = Superseded
  /\ UNCHANGED <<previews, exportComplete, onPage, unsure>>

LeavePage ==
  /\ onPage /\ onPage' = FALSE
  /\ pageCalls' = Superseded
  /\ UNCHANGED <<previews, file, preview, operation, complete, exportComplete, chosen, unsure>>

-----------------------------------------------------------------------------
(* The server.                                                             *)

Serve(c, step) ==
  /\ c.step = "sent"
  /\ pageCalls' = (pageCalls \ {c}) \cup {[c EXCEPT !.step = step]}
  /\ UNCHANGED <<page, operation, unsure>>

ServeReview(c, errors) ==
  /\ c.op = "review" /\ c.step = "sent" /\ Len(previews) < MaxPreviews
  /\ previews' = Append(previews, [of |-> c.about, errors |-> errors, state |-> "open"])
  /\ pageCalls' = (pageCalls \ {c}) \cup {[c EXCEPT !.step = "done", !.n = Len(previews) + 1]}
  /\ UNCHANGED <<page, operation, unsure>>

\* A preview is confirmed or cancelled once, while it is open.
ServeEnd(c) ==
  /\ c.op \in {"confirm", "cancel"} /\ previews[c.n].state = "open"
  /\ previews' = [previews EXCEPT ![c.n].state = IF c.op = "confirm" THEN "applied" ELSE "gone"]
  /\ Serve(c, "done")

ServeExport(c) == c.op = "export" /\ Serve(c, "done") /\ UNCHANGED previews

\* An invalid file; a preview that is not open, or that the collection has outrun.
Refuse(c) ==
  /\ c.op = "cancel" => previews[c.n].state # "open"
  /\ Serve(c, "refused") /\ UNCHANGED previews

\* A preview expires, or is replaced by newer ones of the same account.
PreviewEnds(n) ==
  /\ n \in DOMAIN previews /\ previews[n].state = "open"
  /\ previews' = [previews EXCEPT ![n].state = "gone"]
  /\ unsure' = unsure \cup {n}
  /\ UNCHANGED <<page, operation, pageCalls>>

-----------------------------------------------------------------------------
(* Answers.                                                                *)

Settle(c) ==
  /\ pageCalls' = pageCalls \ {c}
  /\ operation' = IF c.current THEN "none" ELSE operation

NotHeard(c) ==
  /\ ~c.current /\ pageCalls' = pageCalls \ {c}
  /\ UNCHANGED <<previews, page, operation, unsure>>

ReviewAnswered(c) ==
  /\ c.op = "review" /\ c.step = "done" /\ c.current
  /\ preview' = c.n /\ file' = NoFile
  /\ Settle(c) /\ UNCHANGED <<previews, complete, exportComplete, onPage, chosen, unsure>>

\* "Import complete"; the collection is read again, whatever comes of it.
ConfirmAnswered(c) ==
  /\ c.op = "confirm" /\ c.step = "done" /\ c.current
  /\ complete' = TRUE /\ preview' = 0
  /\ pageCalls' = (pageCalls \ {c}) \cup {[c EXCEPT !.step = "after"]}
  /\ UNCHANGED <<previews, file, operation, exportComplete, onPage, chosen, unsure>>

CollectionRead(c) ==
  /\ c.step = "after" /\ c.current
  /\ Settle(c) /\ UNCHANGED <<previews, page, unsure>>

CancelAnswered(c) ==
  /\ c.op = "cancel" /\ c.step = "done" /\ c.current
  /\ Cleared /\ pageCalls' = Superseded \ {[c EXCEPT !.current = FALSE]}
  /\ UNCHANGED <<previews, exportComplete, onPage, unsure>>

ExportAnswered(c) ==
  /\ c.op = "export" /\ c.step = "done" /\ c.current
  /\ exportComplete' = TRUE
  /\ Settle(c) /\ UNCHANGED <<previews, file, preview, complete, onPage, chosen, unsure>>

\* Refused, or not answered, though the server may have done what it was asked.
CallFailed(c) ==
  /\ c.step \in {"sent", "done", "refused"} /\ c.current
  /\ unsure' = IF c.step = "done" /\ c.op \in {"confirm", "cancel"} THEN unsure \cup {c.n} ELSE unsure
  /\ Settle(c) /\ UNCHANGED <<previews, page>>

-----------------------------------------------------------------------------
ImportPageInit ==
  /\ previews = <<>> /\ file = NoFile /\ preview = 0 /\ operation = "none"
  /\ complete = FALSE /\ exportComplete = FALSE /\ pageCalls = {} /\ onPage = TRUE
  /\ chosen = NoFile /\ unsure = {}

ImportPageNext ==
  \/ (\E f \in Files \cup {NoFile} : ChooseFile(f))
  \/ Review \/ Confirm \/ CancelImport \/ ExportCsv \/ ImportAnother \/ LeavePage
  \/ \E c \in pageCalls :
       \/ (\E errors \in BOOLEAN : ServeReview(c, errors)) \/ ServeEnd(c) \/ ServeExport(c) \/ Refuse(c)
       \/ NotHeard(c) \/ ReviewAnswered(c) \/ ConfirmAnswered(c) \/ CollectionRead(c)
       \/ CancelAnswered(c) \/ ExportAnswered(c) \/ CallFailed(c)
  \/ \E n \in 1..MaxPreviews : PreviewEnds(n)

ImportPageSpec == ImportPageInit /\ [][ImportPageNext]_importVars

-----------------------------------------------------------------------------
(* Properties.                                                             *)

\* What is reviewed is what was chosen: a preview on the page is of the file chosen last,
\* whatever reviews were given up on the way, and can still be confirmed or cancelled
\* unless the page was not told that it ended; and the page is busy exactly while an
\* answer that it will hear is awaited, with what it says it is busy with.
ReviewedIsChosen ==
  onPage =>
    /\ preview # 0 => previews[preview].of = chosen
    /\ preview # 0 => \/ previews[preview].state = "open" \/ preview \in unsure
                      \/ \E c \in pageCalls : c.n = preview /\ c.step = "done"
    /\ \A c \in pageCalls : c.current => c.op = operation
    /\ operation # "none" => \E c \in pageCalls : c.current
=============================================================================
