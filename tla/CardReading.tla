----------------------------- MODULE CardReading -----------------------------
(* Reading a photograph: the lock, the text reader and the preview of the card *)
(* scanner (CardScanner.tsx).                                                  *)
(*                                                                             *)
(* A reading goes through several waits: for focus, for the preview image, for *)
(* the text reader to load, for the text. Whatever makes it obsolete moves a    *)
(* generation on, and each wait compares. Here a job is `current` while its      *)
(* generation is the component's.                                              *)
EXTENDS Integers, FiniteSets

CONSTANT MaxPhotos   \* bound: photographs taken or chosen

ASSUME ReadingAssumption == MaxPhotos \in Nat

VARIABLES
  continuous,  \* many cards, handed to a session, or one, shown here
  busy,        \* the lock
  jobs,        \* readings and preparations under way
  worker,      \* the text reader held, named after the photograph it was loaded for
  workers,     \* text readers not terminated
  preview,     \* the preview shown
  photoUrls,        \* object URLs not revoked; a photograph has one
  handed,      \* those handed to the session, which frees them
  page,        \* the photograph the page shows with its matches
  stale,       \* history: the page's photograph was freed by a change of permission
  taken,       \* photographs so far
  late         \* history: a chosen photograph was read after the scanner had gone

readingVars == <<continuous, busy, jobs, worker, workers, preview, photoUrls, handed, page, stale, taken, late>>

Photo == 1..MaxPhotos
None == 0

\* History: the member has gone on since the photograph was taken or chosen
\* (`abandoned`), but only while it was being decoded, and it is read all the same
\* (`unasked`).
Reading == [photo : Photo, step : {"prepare", "focus", "preview", "worker", "reading"}, waits : 0..2,
        current : BOOLEAN, abandoned : BOOLEAN, unasked : BOOLEAN]

ReadingTypeOK ==
  /\ {continuous, busy, stale, late} \subseteq BOOLEAN
  /\ jobs \subseteq Reading
  /\ {worker, preview, page} \subseteq Photo \cup {None}
  /\ workers \subseteq Photo /\ photoUrls \subseteq Photo /\ handed \subseteq Photo
  /\ taken \in 0..MaxPhotos

-----------------------------------------------------------------------------
Bump(js) == {[j EXCEPT !.current = FALSE] : j \in js}
\* Mutant: a retake, a cancel or the next card does not move the generation on.
AbandonUncounted(js) == {[j EXCEPT !.abandoned = TRUE, !.unasked = FALSE] : j \in js}

Abandon(js) == {[j EXCEPT !.current = FALSE, !.abandoned = TRUE, !.unasked = FALSE] : j \in js}

NewJob(step, waits, current) ==
  [photo |-> taken + 1, step |-> step, waits |-> waits, current |-> current, abandoned |-> FALSE,
   unasked |-> FALSE]

TakePhoto == taken < MaxPhotos /\ taken' = taken + 1

ClearPreview == photoUrls' = photoUrls \ {preview} /\ preview' = None

\* Mutant: the text reader is forgotten, not terminated.
StopReadingKeepsWorker ==
  /\ jobs' = Abandon(jobs) /\ busy' = FALSE
  /\ ClearPreview
  /\ workers' = workers /\ worker' = None

\* The reading's part of dispose().
StopReading ==
  /\ jobs' = Abandon(jobs) /\ busy' = FALSE
  /\ ClearPreview
  /\ workers' = workers \ {worker} /\ worker' = None

\* A retake, or the next card: the text reader is kept.
ClearReading ==
  /\ jobs' = Abandon(jobs) /\ busy' = FALSE
  /\ ClearPreview
  /\ UNCHANGED <<worker, workers>>

\* capture(): takes the lock, and waits up to twice for focus and light.
TakeFrame(sharp) ==
  /\ ~busy /\ TakePhoto
  /\ busy' = TRUE
  /\ jobs' = Bump(jobs) \cup {IF sharp THEN NewJob("preview", 0, TRUE) ELSE NewJob("focus", 1, TRUE)}
  /\ UNCHANGED <<continuous, worker, workers, preview, photoUrls, handed, page, stale, late>>

\* Mutant: there is no end to the waits.
WaitForFocusEndlessly(j, sharp, read) ==
  /\ j.step = "focus"
  /\ read = (j.current /\ sharp)
  /\ jobs' = IF read THEN Bump(jobs \ {j}) \cup {[j EXCEPT !.step = "preview"]}
             ELSE IF j.current THEN (jobs \ {j}) \cup {[j EXCEPT !.waits = @ + 1]}
             ELSE jobs \ {j}
  /\ UNCHANGED <<continuous, busy, worker, workers, preview, photoUrls, handed, page, stale, taken, late>>

\* Two seconds later another frame is looked at; `read` tells that it is read now.
WaitForFocus(j, sharp, read) ==
  /\ j.step = "focus"
  /\ read = (j.current /\ (sharp \/ j.waits = 2))
  /\ jobs' = IF read THEN Bump(jobs \ {j}) \cup {[j EXCEPT !.step = "preview"]}
             ELSE IF j.current THEN (jobs \ {j}) \cup {[j EXCEPT !.waits = 2]}
             ELSE jobs \ {j}
  /\ UNCHANGED <<continuous, busy, worker, workers, preview, photoUrls, handed, page, stale, taken, late>>

\* Mutant: the lock is released by any reading that ends.
DropUnlocking(j) ==
  /\ jobs' = jobs \ {j}
  /\ busy' = FALSE
  /\ photoUrls' = IF continuous THEN photoUrls \ {j.photo} ELSE photoUrls

\* The end of a reading that delivers nothing; the lock is its to release only while
\* it is current, and the preview its to revoke only in a session.
Drop(j) ==
  /\ jobs' = jobs \ {j}
  /\ busy' = (busy /\ ~j.current)
  /\ photoUrls' = IF continuous THEN photoUrls \ {j.photo} ELSE photoUrls

\* A frame cannot be taken, or a preview made, a text reader loaded, a text read.
ReadingFailed(j) ==
  /\ j.step # "prepare" /\ Drop(j)
  /\ UNCHANGED <<continuous, worker, workers, preview, handed, page, stale, taken, late>>

PreviewMade(j) ==
  /\ j.step = "preview"
  /\ IF j.current
     THEN /\ jobs' = (jobs \ {j}) \cup {[j EXCEPT !.step = IF worker = None THEN "worker" ELSE "reading"]}
          /\ photoUrls' = (IF continuous THEN photoUrls ELSE photoUrls \ {preview}) \cup {j.photo}
          /\ preview' = IF continuous THEN preview ELSE j.photo
     ELSE jobs' = jobs \ {j} /\ UNCHANGED <<photoUrls, preview>>
  /\ UNCHANGED <<continuous, busy, worker, workers, handed, page, stale, taken, late>>

\* The text reader is kept for the next card, or terminated at once.
WorkerLoaded(j) ==
  /\ j.step = "worker"
  /\ IF j.current
     THEN /\ worker' = j.photo /\ workers' = workers \cup {j.photo}
          /\ jobs' = (jobs \ {j}) \cup {[j EXCEPT !.step = "reading"]}
          /\ UNCHANGED <<busy, photoUrls>>
     ELSE Drop(j) /\ UNCHANGED <<worker, workers>>
  /\ UNCHANGED <<continuous, preview, handed, page, stale, taken, late>>

\* onResult: the session takes the photograph over, or the page shows it.
TextRead(j) ==
  /\ j.step = "reading"
  /\ IF j.current
     THEN /\ jobs' = jobs \ {j} /\ busy' = FALSE
          /\ handed' = IF continuous THEN handed \cup {j.photo} ELSE handed
          /\ page' = IF continuous THEN page ELSE j.photo
          /\ stale' = (stale /\ continuous)
          /\ UNCHANGED photoUrls
     ELSE Drop(j) /\ UNCHANGED <<handed, page, stale>>
  /\ UNCHANGED <<continuous, worker, workers, preview, taken, late>>

\* A chosen file is decoded, and read unless another card is being read by then. No
\* generation is compared: it is read after a retake, a cancel or the next card, too.
PhotoPrepared(j, mounted) ==
  /\ j.step = "prepare"
  /\ IF busy
     THEN jobs' = jobs \ {j} /\ UNCHANGED <<busy, late>>
     ELSE /\ jobs' = Bump(jobs \ {j}) \cup {[j EXCEPT !.step = "preview", !.current = TRUE, !.unasked = j.abandoned]}
          /\ busy' = TRUE
          /\ late' = (late \/ ~mounted)
  /\ UNCHANGED <<continuous, worker, workers, preview, photoUrls, handed, page, stale, taken>>

PhotoUnreadable(j) ==
  /\ j.step = "prepare" /\ jobs' = jobs \ {j}
  /\ UNCHANGED <<continuous, busy, worker, workers, preview, photoUrls, handed, page, stale, taken, late>>

-----------------------------------------------------------------------------
ReadingInit ==
  /\ continuous \in BOOLEAN
  /\ busy = FALSE /\ jobs = {} /\ worker = None /\ workers = {}
  /\ preview = None /\ photoUrls = {} /\ handed = {}
  /\ page = None /\ stale = FALSE /\ taken = 0 /\ late = FALSE

ReadingAnswers(mounted) ==
  \E j \in jobs : \/ ReadingFailed(j) \/ PreviewMade(j) \/ WorkerLoaded(j) \/ TextRead(j)
                  \/ PhotoPrepared(j, mounted) \/ PhotoUnreadable(j)

-----------------------------------------------------------------------------
(* Properties.                                                             *)

\* The lock is held exactly while one reading is current: never two at a time, and
\* never a scanner that waits for a reading it has given up.
BusyWhileReading ==
  /\ busy <=> \E j \in jobs : j.current
  /\ \A i, j \in jobs : i.current /\ j.current => i = j

\* The page shows a photograph that was freed only after what it is not told of: a
\* newer one that is being read, and a change of the camera permission.
PagePhotoLive == page # None => page \in photoUrls \/ stale \/ preview \notin {None, page}

\* A photograph given up by a retake, a cancel or the next card never reaches the
\* page or the session afterwards; except a chosen one that was given up while it was
\* being decoded, which is read all the same once it is, and arrives unless it is given
\* up again.
NothingGivenUpArrives ==
  [][\A j \in jobs : j.abandoned /\ ~j.unasked =>
       page' # j.photo /\ j.photo \notin handed' \ handed]_readingVars
=============================================================================
