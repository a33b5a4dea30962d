---------------------------- MODULE MCWebScanner ----------------------------
(* The scanner's page shows one of its parts at a time; each is checked from   *)
(* its own initial states while the others stay in theirs.                     *)
EXTENDS CardScanner, ScanSession, AutoCapture, AutoScanner, SingleScan, TLC

CONSTANTS d1, d2,    \* cameras
          MaxEffort  \* bound: photographs, cameras removed, and starts counted twice;
                     \* one start more for a single card that is not photographed.
                     \* Answers are lost about one card of a session at most.

\* The camera used last time may be removed, and both may.
OneOrNone == {{d2}, {}}
TwoCameras == {d1, d2}

\* A search finds nothing, or all printings.
MCSearches == {{}, Printings}

SessionSymmetry == Permutations(Photos)

VARIABLE part

webVars == <<part, scannerVars, sessionVars, captureVars, feederVars, singleVars>>

WebScannerInit ==
  /\ part \in {"scanner", "session", "capture", "feeder", "single"}
  /\ ScannerInit /\ SessionInit /\ CaptureInit /\ FeederInit /\ SingleInit
  /\ consent = "unset" /\ remembered = d1
  /\ part # "scanner" => ~continuous
  /\ part # "capture" => frame = 0

WebScannerNext ==
  /\ UNCHANGED part
  /\ \/ /\ part = "scanner" /\ ScannerNext
        /\ 2 * starts' + taken' + Cardinality(Devices \ plugged')
           <= IF taken' = 0 /\ ~continuous THEN MaxEffort + 2 ELSE MaxEffort
        /\ UNCHANGED <<sessionVars, captureVars, feederVars, singleVars>>
     \/ /\ part = "session" /\ SessionNext
        /\ \A p, q \in Photos : lost'[p] > 0 /\ lost'[q] > 0 => p = q
        /\ UNCHANGED <<scannerVars, captureVars, feederVars, singleVars>>
     \/ part = "capture" /\ CaptureNext /\ UNCHANGED <<scannerVars, sessionVars, feederVars, singleVars>>
     \/ part = "feeder" /\ FeederNext /\ UNCHANGED <<scannerVars, sessionVars, captureVars, singleVars>>
     \/ part = "single" /\ SingleNext /\ UNCHANGED <<scannerVars, sessionVars, captureVars, feederVars>>

WebScannerSpec == WebScannerInit /\ [][WebScannerNext]_webVars

\* Each part of the scanner is well typed.
WebScannerTypeOK ==
  /\ part = "scanner" => ScannerTypeOK
  /\ part = "session" => SessionTypeOK
  /\ part = "capture" => CaptureTypeOK
  /\ part = "feeder" => FeederTypeOK
  /\ part = "single" => SingleTypeOK
=============================================================================
