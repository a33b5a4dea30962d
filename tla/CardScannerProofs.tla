------------------------- MODULE CardScannerProofs -------------------------
(* Theorems of the card scanner, for any cameras and any number of starts,      *)
(* lists and photographs.                                                       *)
EXTENDS CardScanner, TLAPS

-----------------------------------------------------------------------------
(* The camera.                                                             *)

\* What a call knows of the stream that was held when it began.
CallSound(c) ==
  /\ c.id <= starts /\ \A s \in live : s.id # c.id
  /\ c.previous # NoStream => c.previous.id < c.id
  /\ c.kind = "switch" => c.previous # NoStream
  /\ ~c.crossed => c.previous = stream

Held ==
  /\ live \subseteq {stream}
  /\ adjusting # NoCall => adjusting.previous = adjusting.stream.device
  /\ stream # NoStream => controls = stream.device
  /\ stream # NoStream /\ ~behind /\ ~switching /\ lists = {} /\ stream.device \in devices =>
       selectedDevice = stream.device

\* The calls under way: numbered as they were made, and no stream is of one of them.
CallsInv ==
  /\ calls \subseteq Call /\ starts \in 0..MaxStarts
  /\ \A s \in live : s \in Stream /\ s.id <= starts
  /\ \A c \in calls : CallSound(c)
  /\ \A c, d \in calls : c.id = d.id => c = d

\* A stream is held until it is replaced or stopped, its number is that of the call
\* that brought it, and a call that was not crossed began with the stream held now.
\* Unless an answer came about another stream, no other is live, the controls are its
\* own, and so is the menu once its lists have come.
CameraInv ==
  /\ stream \in Stream \cup {NoStream}
  /\ plugged \subseteq Devices /\ remembered \in Devices \cup {NoDevice}
  /\ selectedDevice \in Devices \cup {NoDevice}
  /\ \A l \in lists : l.stream \in Stream
  /\ adjusting # NoCall => adjusting.stream \in Stream
  /\ stream # NoStream => stream \in live
  /\ camera => stream # NoStream
  /\ CallsInv
  /\ ~overtaken => Held

-----------------------------------------------------------------------------
\* A crossed call differs from the call only in that.
LEMMA CrossedCalls ==
  ASSUME NEW cs \in SUBSET Call, NEW d \in Crossed(cs)
  PROVE  /\ d \in Call /\ d.crossed
         /\ \E c \in cs : /\ d = [c EXCEPT !.crossed = TRUE]
                         /\ d.id = c.id /\ d.kind = c.kind /\ d.previous = c.previous
<1>1. PICK c \in cs : d = [c EXCEPT !.crossed = TRUE]
  BY DEF Crossed
<1>2. QED
  BY <1>1 DEF Call

\* A call that starts is numbered anew and knows the stream that is held.
LEMMA StartsAreSound ==
  ASSUME CameraInv, NEW kind \in {"open", "switch"}, NEW device \in Devices \cup {NoDevice},
         StartCall(kind, device), kind = "switch" => stream # NoStream, UNCHANGED <<stream, live>>
  PROVE  CallsInv'
<1>1. PICK new : new = [id |-> starts + 1, kind |-> kind, device |-> device, previous |-> stream,
                        shown |-> selectedDevice, crossed |-> FALSE]
  OBVIOUS
<1>2. starts < MaxStarts /\ starts' = starts + 1 /\ calls' = calls \cup {new}
  BY <1>1 DEF StartCall
<1>3. starts \in Nat /\ starts' \in 0..MaxStarts
  BY <1>2, CameraAssumption DEF CameraInv, CallsInv
<1>4. /\ new \in Call /\ new.id = starts + 1 /\ new.kind = kind /\ new.previous = stream /\ ~new.crossed
  BY <1>1, <1>2, <1>3, CameraAssumption DEF CameraInv, Call
<1>5. \A s \in live : s \in Stream /\ s.id \in Nat /\ s.id <= starts
  BY DEF CameraInv, CallsInv, Stream
<1>6. stream # NoStream => stream \in live
  BY DEF CameraInv
<1>7. CallSound(new)'
  BY <1>2, <1>3, <1>4, <1>5, <1>6 DEF CallSound
<1>8. \A c \in calls : c \in Call /\ c.id \in Nat /\ c.id <= starts /\ CallSound(c)
  BY DEF CameraInv, CallsInv, CallSound, Call
<1>9. ASSUME NEW c \in calls PROVE CallSound(c)'
  BY <1>2, <1>3, <1>8 DEF CallSound
<1>10. \A c, d \in calls' : c.id = d.id => c = d
  <2>1. \A c, d \in calls : c.id = d.id => c = d
    BY DEF CameraInv, CallsInv
  <2>2. \A c \in calls : c.id # new.id
    BY <1>3, <1>4, <1>8
  <2>3. QED
    BY <1>2, <2>1, <2>2
<1>11. QED
  BY <1>2, <1>3, <1>4, <1>5, <1>7, <1>8, <1>9, <1>10 DEF CallsInv

\* Answering a call leaves the others as they are.
LEMMA FewerAreSound ==
  ASSUME CameraInv, calls' \subseteq calls, UNCHANGED <<stream, live, starts>>
  PROVE  CallsInv'
  BY DEF CameraInv, CallsInv, CallSound

\* Calls that are crossed stay sound, if no live stream is of one of them.
LEMMA CrossedAreSound ==
  ASSUME CameraInv, NEW cs \in SUBSET calls, calls' = Crossed(cs), starts' = starts,
         \A s \in live' : s \in Stream /\ s.id <= starts /\ \A c \in cs : s.id # c.id
  PROVE  CallsInv'
<1>1. cs \in SUBSET Call /\ \A c \in cs : CallSound(c)
  BY DEF CameraInv, CallsInv
<1>2. ASSUME NEW d \in calls' PROVE d \in Call /\ CallSound(d)'
  <2>1. d \in Call /\ d.crossed
    BY <1>1, CrossedCalls
  <2>2. PICK c \in cs : d.id = c.id /\ d.kind = c.kind /\ d.previous = c.previous
    BY <1>1, CrossedCalls
  <2>3. CallSound(c)
    BY <1>1
  <2>4. QED
    BY <2>1, <2>2, <2>3 DEF CallSound
<1>3. ASSUME NEW d \in calls', NEW e \in calls', d.id = e.id PROVE d = e
  <2>1. PICK b \in cs : d = [b EXCEPT !.crossed = TRUE] /\ d.id = b.id
    BY <1>1, CrossedCalls
  <2>2. PICK c \in cs : e = [c EXCEPT !.crossed = TRUE] /\ e.id = c.id
    BY <1>1, CrossedCalls
  <2>3. b = c
    BY <1>3, <2>1, <2>2 DEF CameraInv, CallsInv
  <2>4. QED
    BY <2>1, <2>2, <2>3
<1>4. starts' \in 0..MaxStarts
  BY DEF CameraInv, CallsInv
<1>5. QED
  BY <1>2, <1>3, <1>4 DEF CallsInv

\* The viewfinder is shown or hidden for a camera that is held.
LEMMA ViewfinderKeeps ==
  ASSUME CameraInv, camera' => camera \/ stream # NoStream,
         UNCHANGED <<plugged, devices, selectedDevice, remembered, switching, lists, adjusting, overtaken, behind,
                     stream, live, controls, calls, starts>>
  PROVE  CameraInv'
  BY DEF CameraInv, CallsInv, CallSound, Held

\* A camera is asked for, if the member has consented.
LEMMA RequestKeeps ==
  ASSUME CameraInv, (StartCall("open", remembered) \/ UNCHANGED <<calls, starts>>),
         UNCHANGED <<plugged, devices, selectedDevice, remembered, switching, lists, adjusting, overtaken, behind,
                     camera, stream, live, controls>>
  PROVE  CameraInv'
<1>1. CASE UNCHANGED <<calls, starts>>
  BY <1>1, ViewfinderKeeps
<1>2. CASE StartCall("open", remembered)
  <2>1. remembered \in Devices \cup {NoDevice}
    BY DEF CameraInv
  <2>2. CallsInv'
    BY <1>2, <2>1, StartsAreSound
  <2>3. QED
    BY <2>2 DEF CameraInv, Held
<1>3. QED
  BY <1>1, <1>2

\* Stopping the camera leaves nothing held.
LEMMA StopKeeps ==
  ASSUME CameraInv, StopCamera,
         UNCHANGED <<plugged, devices, selectedDevice, remembered, switching, lists, adjusting,
                     overtaken, behind, starts>>
  PROVE  CameraInv'
<1>1. live' = live \ {stream} /\ stream' = NoStream /\ camera' = FALSE /\ calls' = Crossed(calls)
  BY DEF StopCamera
<1>2. CallsInv'
  <2>1. \A s \in live' : s \in Stream /\ s.id <= starts /\ \A c \in calls : s.id # c.id
    BY <1>1 DEF CameraInv, CallsInv, CallSound
  <2>2. QED
    BY <1>1, <2>1, CrossedAreSound
<1>3. QED
  BY <1>1, <1>2 DEF CameraInv, Held

\* A new stream is held; others are stopped, but not the new one.
LEMMA HoldKeeps ==
  ASSUME CameraInv, NEW c \in calls, NEW device \in Devices, NEW stopped,
         Hold(c, device, stopped), [id |-> c.id, device |-> device] \notin stopped,
         selectedDevice' \in Devices \cup {NoDevice}, remembered' \in Devices \cup {NoDevice},
         camera' => stream' # NoStream,
         UNCHANGED <<plugged, starts, adjusting>>, overtaken => overtaken',
         ~overtaken' => live' \subseteq {stream'}
  PROVE  CameraInv' /\ stream' \in Stream
<1>1. PICK new : new = [id |-> c.id, device |-> device]
  OBVIOUS
<1>2. /\ stream' = new /\ live' = (live \cup {new}) \ stopped /\ controls' = device
      /\ calls' = Crossed(calls \ {c})
      /\ lists' = lists \cup {[stream |-> new, switch |-> c.kind = "switch"]}
  BY <1>1 DEF Hold
<1>3. c \in Call /\ CallSound(c) /\ c.id \in 1..MaxStarts
  BY DEF CameraInv, CallsInv, Call
<1>4. new \in Stream /\ new.id = c.id /\ new.device = device /\ new \notin stopped
  BY <1>1, <1>3 DEF Stream
<1>5. new # NoStream
  BY <1>4, CameraAssumption DEF Stream
<1>6. CallsInv'
  <2>1. \A d \in calls \ {c} : d.id # c.id
    BY DEF CameraInv, CallsInv
  <2>2. \A s \in live : s \in Stream /\ s.id <= starts /\ \A d \in calls : s.id # d.id
    BY DEF CameraInv, CallsInv, CallSound
  <2>3. new.id <= starts
    BY <1>3, <1>4 DEF CallSound
  <2>4. \A s \in live' : s \in Stream /\ s.id <= starts /\ \A d \in calls \ {c} : s.id # d.id
    BY <1>2, <1>4, <2>1, <2>2, <2>3
  <2>5. QED
    BY <1>2, <2>4, CrossedAreSound
<1>7. \A l \in lists' : l.stream \in Stream
  BY <1>2, <1>4 DEF CameraInv
<1>8. ~overtaken' => Held'
  BY <1>2, <1>4 DEF CameraInv, Held
<1>9. stream' \in live'
  BY <1>2, <1>4
<1>10. QED
  BY <1>2, <1>4, <1>5, <1>6, <1>7, <1>8, <1>9 DEF CameraInv

\* Whatever the browser answers.
LEMMA AnswersKeep ==
  ASSUME CameraInv, NEW shown, CameraAnswers(shown)
  PROVE  /\ CameraInv' /\ (overtaken => overtaken')
         /\ ~shown /\ ~overtaken' => stream' = stream
<1>1. ASSUME NEW c \in calls, NEW d \in Devices, OpenAnswered(c, d, shown)
      PROVE  /\ CameraInv' /\ (overtaken => overtaken') /\ (~overtaken' => shown)
  <2>1. /\ c.kind = "open" /\ d \in plugged /\ Hold(c, d, {})
        /\ UNCHANGED <<plugged, selectedDevice, remembered, starts, adjusting>>
    BY <1>1 DEF OpenAnswered
  <2>2. (overtaken => overtaken') /\ (~overtaken' => ~overtaken /\ stream = NoStream /\ shown)
    BY <1>1, Zenon DEF OpenAnswered
  <2>3. ~overtaken' => live' \subseteq {stream'}
    <3>1. NoStream \notin Stream
      BY CameraAssumption DEF Stream
    <3>2. ~overtaken' => live = {}
      BY <2>2, <3>1 DEF CameraInv, CallsInv, Held
    <3>3. QED
      BY <2>1, <3>2 DEF Hold
  <2>4. stream' # NoStream
    <3>1. stream' = [id |-> c.id, device |-> d] /\ c.id \in 1..MaxStarts
      BY <2>1 DEF Hold, CameraInv, CallsInv, Call
    <3>2. QED
      BY <3>1, CameraAssumption
  <2>5. CameraInv'
    BY <2>1, <2>2, <2>3, <2>4, HoldKeeps DEF CameraInv
  <2>6. QED
    BY <2>2, <2>5
<1>2. ASSUME NEW c \in calls, OpenUnavailable(c) PROVE CameraInv' /\ UNCHANGED <<overtaken, stream>>
  <2>1. PICK d : d = [c EXCEPT !.device = NoDevice]
    OBVIOUS
  <2>2. c \in Call
    BY DEF CameraInv, CallsInv
  <2>3. d \in Call /\ d.id = c.id /\ d.previous = c.previous /\ d.kind = c.kind /\ d.crossed = c.crossed
    BY <2>1, <2>2 DEF Call
  <2>4. calls' = (calls \ {c}) \cup {d} /\ remembered' = NoDevice
    BY <1>2, <2>1 DEF OpenUnavailable
  <2>5. UNCHANGED <<camera, stream, live, plugged, devices, selectedDevice, switching, lists, controls, adjusting,
                    starts, overtaken, behind>>
    BY <1>2 DEF OpenUnavailable
  <2>6. CallsInv'
    <3>1. \A e \in calls' : e \in Call /\ CallSound(e)'
      BY <2>3, <2>4, <2>5 DEF CameraInv, CallsInv, CallSound
    <3>2. \A e, f \in calls' : e.id = f.id => e = f
      BY <2>3, <2>4 DEF CameraInv, CallsInv
    <3>3. QED
      BY <2>5, <3>1, <3>2 DEF CameraInv, CallsInv
  <2>7. QED
    BY <2>4, <2>5, <2>6 DEF CameraInv, Held
<1>3. ASSUME NEW c \in calls, OpenFailed(c) PROVE CameraInv' /\ UNCHANGED <<overtaken, stream>>
  <2>1. CallsInv'
    BY <1>3, FewerAreSound DEF OpenFailed
  <2>2. QED
    BY <1>3, <2>1 DEF OpenFailed, CameraInv, Held
<1>4. ASSUME NEW c \in calls, SwitchAnswered(c, shown)
      PROVE  /\ CameraInv' /\ (overtaken => overtaken') /\ (~overtaken' => shown)
  <2>1. /\ c.kind = "switch" /\ c.device \in plugged /\ Hold(c, c.device, {c.previous})
        /\ selectedDevice' = c.device /\ remembered' = c.device
        /\ UNCHANGED <<camera, plugged, starts, adjusting>>
    BY <1>4 DEF SwitchAnswered
  <2>2. (overtaken => overtaken') /\ (~overtaken' => ~overtaken /\ ~c.crossed /\ shown)
    BY <1>4, Zenon DEF SwitchAnswered
  <2>3. c \in Call /\ CallSound(c) /\ c.device \in Devices
    BY <2>1 DEF CameraInv, CallsInv
  <2>4. PICK new : new = [id |-> c.id, device |-> c.device]
    OBVIOUS
  <2>5. new # c.previous
    <3>1. c.previous \in Stream /\ c.previous.id < c.id /\ c.id \in Nat /\ c.previous.id \in Nat
      BY <2>1, <2>3 DEF CallSound, Call, Stream
    <3>2. QED
      BY <2>4, <3>1
  <2>6. stream' = new /\ live' = (live \cup {new}) \ {c.previous}
    BY <2>1, <2>4 DEF Hold
  <2>7. ~overtaken' => live' \subseteq {stream'}
    BY <2>2, <2>3, <2>6 DEF CameraInv, Held, CallSound
  <2>8. stream' # NoStream
    BY <2>3, <2>4, <2>6, CameraAssumption DEF Call
  <2>9. CameraInv'
    BY <2>1, <2>2, <2>3, <2>4, <2>5, <2>7, <2>8, HoldKeeps DEF CameraInv
  <2>10. QED
    BY <2>2, <2>9
<1>5. ASSUME NEW c \in calls, SwitchFailed(c)
      PROVE  /\ CameraInv' /\ (overtaken => overtaken') /\ stream' = stream
  <2>1. /\ c.kind = "switch" /\ calls' = calls \ {c} /\ selectedDevice' = c.shown /\ switching' = FALSE
        /\ behind' = (c.shown # c.previous.device)
        /\ UNCHANGED <<camera, stream, live, plugged, devices, remembered, lists, controls, adjusting, starts>>
    BY <1>5 DEF SwitchFailed
  <2>2. (overtaken => overtaken') /\ (~overtaken' => ~overtaken /\ ~c.crossed)
    BY <1>5, Zenon DEF SwitchFailed
  <2>3. ~behind' => c.shown = c.previous.device
    BY <2>1, Zenon
  <2>4. c \in Call /\ CallSound(c)
    BY DEF CameraInv, CallsInv
  <2>5. CallsInv'
    BY <2>1, FewerAreSound
  <2>6. ~overtaken' => Held'
    BY <2>1, <2>2, <2>3, <2>4 DEF CameraInv, Held, CallSound
  <2>7. selectedDevice' \in Devices \cup {NoDevice}
    BY <2>1, <2>4 DEF Call
  <2>8. QED
    BY <2>1, <2>2, <2>5, <2>6, <2>7 DEF CameraInv
<1>6. ASSUME NEW l \in lists, ListFailed(l) PROVE CameraInv' /\ UNCHANGED <<overtaken, stream>>
  <2>1. CallsInv'
    BY <1>6, FewerAreSound DEF ListFailed
  <2>2. QED
    BY <1>6, <2>1 DEF ListFailed, CameraInv, Held
<1>7. ASSUME NEW l \in lists, NEW first \in Devices \cup {NoDevice}, ListAnswered(l, first)
      PROVE  /\ CameraInv' /\ (overtaken => overtaken') /\ stream' = stream
  <2>1. PICK available : available = IF l.stream.device \in plugged THEN l.stream.device ELSE first
    OBVIOUS
  <2>2. /\ lists' = lists \ {l} /\ devices' = plugged
        /\ \/ plugged = {} /\ UNCHANGED <<selectedDevice, remembered>>
           \/ plugged # {} /\ selectedDevice' = available /\ remembered' = available
        /\ UNCHANGED <<camera, stream, live, plugged, calls, controls, adjusting, starts>>
    BY <1>7, <2>1 DEF ListAnswered
  <2>3. (overtaken => overtaken') /\ (~overtaken' => ~overtaken /\ l.stream = stream)
    BY <1>7, Zenon DEF ListAnswered
  <2>4. available \in Devices \cup {NoDevice}
    BY <2>1 DEF CameraInv
  <2>5. CallsInv'
    BY <2>2, FewerAreSound
  <2>6. ~overtaken' => Held'
    BY <2>1, <2>2, <2>3 DEF CameraInv, Held
  <2>7. QED
    BY <2>2, <2>3, <2>4, <2>5, <2>6 DEF CameraInv
<1>8. ASSUME ControlAnswered PROVE /\ CameraInv' /\ (overtaken => overtaken') /\ stream' = stream
  <2>1. /\ adjusting # NoCall /\ controls' \in {adjusting.stream.device, adjusting.previous} /\ adjusting' = NoCall
        /\ UNCHANGED <<camera, stream, live, plugged, devices, selectedDevice, remembered, switching, calls, lists,
                       starts, behind>>
    BY <1>8 DEF ControlAnswered
  <2>2. (overtaken => overtaken') /\ (~overtaken' => ~overtaken /\ adjusting.stream = stream)
    BY <1>8, Zenon DEF ControlAnswered
  <2>3. CallsInv'
    BY <2>1, FewerAreSound
  <2>4. ~overtaken' => Held'
    BY <2>1, <2>2 DEF CameraInv, Held
  <2>5. QED
    BY <2>1, <2>2, <2>3, <2>4 DEF CameraInv
<1>9. QED
  BY <1>1, <1>2, <1>3, <1>4, <1>5, <1>6, <1>7, <1>8 DEF CameraAnswers

\* The member at the camera menu and at the controls.
LEMMA CameraUseKeeps ==
  ASSUME CameraInv, ChangeControl \/ (\E d \in Devices : SwitchCamera(d)) \/ (\E now \in Pluggable : DeviceChange(now))
  PROVE  CameraInv' /\ UNCHANGED <<stream, overtaken>>
<1>1. ASSUME ChangeControl PROVE CameraInv' /\ UNCHANGED <<stream, overtaken>>
  <2>1. /\ stream # NoStream /\ adjusting' = [stream |-> stream, previous |-> controls]
        /\ UNCHANGED <<camera, stream, live, plugged, devices, selectedDevice, remembered, switching, calls, lists,
                       controls, starts, overtaken, behind>>
    BY <1>1 DEF ChangeControl
  <2>2. CallsInv'
    BY <2>1, FewerAreSound
  <2>3. QED
    BY <2>1, <2>2 DEF CameraInv, Held
<1>2. ASSUME NEW d \in Devices, SwitchCamera(d) PROVE CameraInv' /\ UNCHANGED <<stream, overtaken>>
  <2>1. /\ stream # NoStream /\ StartCall("switch", d) /\ switching' = TRUE /\ selectedDevice' = d
        /\ UNCHANGED <<camera, stream, live, plugged, devices, remembered, lists, controls, adjusting, overtaken,
                       behind>>
    BY <1>2 DEF SwitchCamera
  <2>2. CallsInv'
    BY <2>1, StartsAreSound
  <2>3. QED
    BY <2>1, <2>2 DEF CameraInv, Held
<1>3. ASSUME NEW now \in Pluggable, DeviceChange(now) PROVE CameraInv' /\ UNCHANGED <<stream, overtaken>>
  <2>1. /\ plugged' = now
        /\ lists' = IF stream = NoStream THEN lists ELSE lists \cup {[stream |-> stream, switch |-> FALSE]}
        /\ UNCHANGED <<camera, stream, live, devices, selectedDevice, remembered, switching, calls, controls,
                       adjusting, starts, overtaken, behind>>
    BY <1>3 DEF DeviceChange
  <2>2. CallsInv'
    BY <2>1, FewerAreSound
  <2>3. now \subseteq Devices
    BY CameraAssumption
  <2>4. \A l \in lists' : l.stream \in Stream
    BY <2>1 DEF CameraInv
  <2>5. stream # NoStream => lists' # {}
    BY <2>1
  <2>6. QED
    BY <2>1, <2>2, <2>3, <2>4, <2>5 DEF CameraInv, Held
<1>4. QED
  BY <1>1, <1>2, <1>3

\* Every step of the scanner keeps the camera's invariant; one that takes the scanner off
\* the page, or happens there, leaves no stream held, unless an answer came late.
LEMMA CameraStep ==
  ASSUME CameraInv, [ScannerNext]_scannerVars, ~mounted /\ ~overtaken => stream = NoStream
  PROVE  CameraInv' /\ (~mounted' /\ ~overtaken' => stream' = NoStream)
<1> DEFINE Good == CameraInv' /\ (~mounted' /\ ~overtaken' => stream' = NoStream)
<1>1. ASSUME mounted' = mounted, CameraInv', UNCHANGED <<stream, overtaken>> PROVE Good
  BY <1>1
<1>2. ASSUME mounted, mounted' = mounted, CameraInv' PROVE Good
  BY <1>2
<1>3. CASE StartCamera
  <2>1. StartCall("open", remembered) \/ UNCHANGED <<calls, starts>>
    BY <1>3 DEF StartCamera, RequestCamera, OpenCamera
  <2>2. UNCHANGED <<plugged, devices, selectedDevice, remembered, switching, lists, adjusting, overtaken, behind,
                    camera, stream, live, controls, mounted>>
    BY <1>3 DEF StartCamera, cameraRest
  <2>3. QED
    BY <1>1, <2>1, <2>2, RequestKeeps
<1>4. ASSUME NEW choice \in {"allow", "deny"}, AnswerConsent(choice) PROVE Good
  <2>1. UNCHANGED <<plugged, devices, selectedDevice, remembered, switching, lists, adjusting, overtaken, behind,
                    camera, stream, live, controls, mounted>>
    BY <1>4 DEF AnswerConsent, ChooseConsent
  <2>2. StartCall("open", remembered) \/ UNCHANGED <<calls, starts>>
    BY <1>4 DEF AnswerConsent, ChooseConsent, OpenCamera
  <2>3. QED
    BY <1>1, <2>1, <2>2, RequestKeeps
<1>5. CASE UseCamera \/ PlugCamera
  BY <1>1, <1>5, CameraUseKeeps DEF UseCamera, PlugCamera
<1>6. CASE CameraAnswer
  <2>1. CameraAnswers(mounted) /\ mounted' = mounted
    BY <1>6 DEF CameraAnswer
  <2>2. CameraInv' /\ (overtaken => overtaken') /\ (~mounted /\ ~overtaken' => stream' = stream)
    BY <2>1, AnswersKeep
  <2>3. QED
    BY <2>1, <2>2
<1>7. ASSUME UNCHANGED cameraVars, (mounted' = mounted \/ (~mounted' => stream = NoStream)) PROVE Good
  BY <1>7, ViewfinderKeeps DEF cameraVars
<1>8. CASE ReadingAnswer \/ AutomaticCapture \/ SessionCounts \/ UNCHANGED scannerVars
  BY <1>7, <1>8 DEF ReadingAnswer, AutomaticCapture, SessionCounts, scannerVars
<1>9. ASSUME NEW read, HideViewfinder(read) PROVE Good
  <2>1. camera' => camera
    BY <1>9, Zenon DEF HideViewfinder
  <2>2. UNCHANGED <<plugged, devices, selectedDevice, remembered, switching, lists, adjusting, overtaken, behind,
                    stream, live, controls, calls, starts, mounted>>
    BY <1>9 DEF HideViewfinder
  <2>3. QED
    BY <1>1, <2>1, <2>2, ViewfinderKeeps
<1>10. ASSUME NEW sharp \in BOOLEAN, Capture(sharp) \/ FocusWaited(sharp) PROVE Good
  BY <1>9, <1>10 DEF Capture, FocusWaited
<1>11. CASE Retake
  <2>1. /\ mounted /\ mounted' = mounted
        /\ UNCHANGED <<plugged, devices, selectedDevice, remembered, switching, lists, adjusting, overtaken, behind,
                       stream, live, controls>>
    BY <1>11 DEF Retake, cameraRest
  <2>2. \/ stream # NoStream /\ UNCHANGED <<calls, starts>>
        \/ camera' = camera /\ UNCHANGED <<calls, starts>>
        \/ camera' = camera /\ StartCall("open", remembered)
    BY <1>11 DEF Retake, ResumeCamera, RequestCamera, OpenCamera
  <2>3. QED
    BY <1>2, <2>1, <2>2, RequestKeeps, ViewfinderKeeps
<1>12. CASE NextCard
  <2>1. camera' => camera \/ stream # NoStream
    BY <1>12, Zenon DEF NextCard
  <2>2. /\ mounted /\ mounted' = mounted
        /\ UNCHANGED <<plugged, devices, selectedDevice, remembered, switching, lists, adjusting, overtaken, behind,
                       stream, live, controls, calls, starts>>
    BY <1>12 DEF NextCard, cameraRest
  <2>3. QED
    BY <1>2, <2>1, <2>2, ViewfinderKeeps
<1>13. ASSUME StopCamera, UNCHANGED <<cameraRest, starts>> PROVE Good
  <2>1. CameraInv'
    BY <1>13, StopKeeps DEF cameraRest
  <2>2. stream' = NoStream
    BY <1>13 DEF StopCamera
  <2>3. QED
    BY <2>1, <2>2
<1>14. CASE ChoosePhoto
  <2>1. UNCHANGED <<cameraRest, starts>> /\ mounted
    BY <1>14 DEF ChoosePhoto
  <2>2. StopCamera \/ UNCHANGED <<camera, calls, stream, live, controls, mounted>>
    BY <1>14 DEF ChoosePhoto
  <2>3. CASE UNCHANGED <<camera, calls, stream, live, controls, mounted>>
    <3>1. CameraInv'
      BY <2>1, <2>3, ViewfinderKeeps DEF cameraRest
    <3>2. QED
      BY <1>2, <2>1, <2>3, <3>1
  <2>4. QED
    BY <1>13, <2>1, <2>2, <2>3
<1>15. CASE ResetConsent
  BY <1>13, <1>15 DEF ResetConsent
<1>16. ASSUME NEW stays \in BOOLEAN, Leave(stays) PROVE Good
  BY <1>13, <1>16 DEF Leave
<1>17. CASE ConsentCleared
  <2>1. UNCHANGED <<plugged, devices, selectedDevice, remembered, switching, lists, adjusting, overtaken, behind,
                    camera, stream, live, controls, calls, starts, mounted>>
    BY <1>17 DEF ConsentCleared
  <2>2. QED
    BY <1>1, <2>1, ViewfinderKeeps
<1>18. QED
  BY <1>3, <1>4, <1>5, <1>6, <1>8, <1>10, <1>11, <1>12, <1>14, <1>15, <1>16, <1>17 DEF ScannerNext

-----------------------------------------------------------------------------
(* The readings.                                                           *)

\* A reading has a photograph of its own, and the lock while it is current.
JobSound(j) ==
  /\ j.photo <= taken /\ j.photo # page
  /\ j.step = "prepare" => ~j.current
  /\ j.current => ~j.abandoned \/ j.unasked
  /\ j.step = "worker" /\ j.current => worker = None
  /\ j.step \in {"prepare", "focus", "preview"} => j.photo \notin photoUrls
  /\ j.step \in {"worker", "reading"} /\ j.current /\ ~continuous => preview = j.photo /\ j.photo \in photoUrls

\* In a session a photograph belongs to a reading or was handed over; otherwise it is
\* the preview's.
PhotosOwned ==
  IF continuous
  THEN /\ page = None /\ preview = None
       /\ \A u \in photoUrls : u \in handed \/ \E j \in jobs : j.photo = u
  ELSE photoUrls \subseteq {preview}

\* The lock is held exactly while a reading is current, and one is at most.
JobsInv ==
  /\ jobs \subseteq Reading
  /\ busy <=> \E j \in jobs : j.current
  /\ \A i, j \in jobs : i.current /\ j.current => i = j
  /\ \A i, j \in jobs : i.photo = j.photo => i = j
  /\ \A j \in jobs : JobSound(j)

ReadingInv ==
  /\ JobsInv
  /\ taken \in 0..MaxPhotos /\ page \in 0..taken /\ photoUrls \subseteq 1..taken
  /\ workers = IF worker = None THEN {} ELSE {worker}
  /\ PhotosOwned
  /\ PagePhotoLive


-----------------------------------------------------------------------------
\* The readings that are given up are those of before, and none is current.
LEMMA GivenUpJobs ==
  ASSUME ReadingInv, NEW js \in SUBSET jobs, NEW ds, ds = Bump(js) \/ ds = Abandon(js) \/ (ds = js /\ ~busy)
  PROVE  /\ \A d \in ds : /\ d \in Reading /\ ~d.current
                        /\ \E c \in js : d.photo = c.photo /\ d.step = c.step
         /\ \A c \in js : \E d \in ds : d.photo = c.photo
         /\ \A d, e \in ds : d.photo = e.photo => d = e
<1>1. js \in SUBSET Reading /\ \A c \in js : JobSound(c)
  BY DEF ReadingInv, JobsInv
<1>2. \A b, c \in js : b.photo = c.photo => b = c
  BY DEF ReadingInv, JobsInv
<1> DEFINE Given(c, d) == /\ d \in Reading /\ d.photo = c.photo /\ d.step = c.step /\ ~d.current
<1>3. ASSUME NEW f, ds = {f[c] : c \in js}, \A c \in js : Given(c, f[c])
      PROVE  /\ \A d \in ds : /\ d \in Reading /\ ~d.current
                              /\ \E c \in js : d.photo = c.photo /\ d.step = c.step
             /\ \A c \in js : \E d \in ds : d.photo = c.photo
             /\ \A d, e \in ds : d.photo = e.photo => d = e
  <2>1. ASSUME NEW d \in ds
        PROVE  /\ d \in Reading /\ ~d.current
               /\ \E c \in js : d.photo = c.photo /\ d.step = c.step
    BY <1>3
  <2>2. ASSUME NEW d \in ds, NEW e \in ds, d.photo = e.photo PROVE d = e
    <3>1. PICK b \in js : d = f[b]
      BY <1>3
    <3>2. PICK c \in js : e = f[c]
      BY <1>3
    <3>3. b.photo = c.photo
      BY <1>3, <2>2, <3>1, <3>2
    <3>4. b = c
      BY <1>2, <3>3
    <3>5. QED
      BY <3>1, <3>2, <3>4
  <2>3. \A c \in js : f[c] \in ds /\ f[c].photo = c.photo
    BY <1>3
  <2>4. QED
    BY <2>1, <2>2, <2>3
<1>4. CASE ds = Bump(js)
  <2> DEFINE g == [c \in js |-> [c EXCEPT !.current = FALSE]]
  <2>1. \A c \in js : Given(c, g[c])
    BY <1>1 DEF Reading, JobSound
  <2>2. ds = {g[c] : c \in js}
    BY <1>4 DEF Bump
  <2> HIDE DEF g, Given
  <2>3. QED
    BY <1>3, <2>1, <2>2
<1>5. CASE ds = Abandon(js)
  <2> DEFINE h == [c \in js |-> [c EXCEPT !.current = FALSE, !.abandoned = TRUE, !.unasked = FALSE]]
  <2>1. \A c \in js : Given(c, h[c])
    BY <1>1 DEF Reading
  <2>2. ds = {h[c] : c \in js}
    BY <1>5 DEF Abandon
  <2> HIDE DEF h, Given
  <2>3. QED
    BY <1>3, <2>1, <2>2
<1>6. CASE ds = js /\ ~busy
  BY <1>1, <1>2, <1>6 DEF ReadingInv, JobsInv, JobSound
<1>7. QED
  BY <1>4, <1>5, <1>6

\* After readings have been given up, at most a new one is current.
LEMMA GivingUpKeepsJobs ==
  ASSUME ReadingInv, NEW js \in SUBSET jobs, NEW ds, ds = Bump(js) \/ ds = Abandon(js) \/ (ds = js /\ ~busy),
         NEW new, jobs' = ds \cup new, new = {} \/ \E k \in Reading : new = {k},
         \A k \in new : (\A c \in js : c.photo # k.photo) /\ JobSound(k)',
         busy' <=> \E k \in new : k.current,
         page' \in {page, None}, photoUrls' \subseteq photoUrls, taken' \in {taken, taken + 1}
  PROVE  JobsInv'
<1>1. /\ \A d \in ds : /\ d \in Reading /\ ~d.current
                      /\ \E c \in js : d.photo = c.photo /\ d.step = c.step
      /\ \A d, e \in ds : d.photo = e.photo => d = e
  BY GivenUpJobs
<1>2. taken \in Nat
  BY ReadingAssumption DEF ReadingInv
<1>3. \A c \in js : JobSound(c) /\ c.photo \in Nat /\ c.photo # None
  BY ReadingAssumption DEF ReadingInv, JobsInv, Reading, Photo, None
<1>4. ASSUME NEW d \in ds PROVE JobSound(d)'
  <2>1. PICK c \in js : d.photo = c.photo /\ d.step = c.step
    BY <1>1
  <2>2. JobSound(c) /\ c.photo \in Nat /\ c.photo # None
    BY <1>3
  <2>3. d.photo <= taken'
    BY <1>2, <2>1, <2>2 DEF JobSound
  <2>4. d.photo # page'
    BY <2>1, <2>2 DEF JobSound
  <2>5. ~d.current
    BY <1>1
  <2>6. d.step \in {"prepare", "focus", "preview"} => d.photo \notin photoUrls'
    BY <2>1, <2>2 DEF JobSound
  <2>7. QED
    BY <2>3, <2>4, <2>5, <2>6 DEF JobSound
<1>5. \A d \in ds, k \in new : d.photo # k.photo
  BY <1>1
<1>6. QED
  BY <1>1, <1>4, <1>5 DEF JobsInv

\* A reading that goes on, or ends.
LEMMA GoingOnKeepsJobs ==
  ASSUME ReadingInv, NEW j \in jobs, NEW new, jobs' = (jobs \ {j}) \cup new,
         new = {} \/ \E k \in Reading : new = {k} /\ k.photo = j.photo /\ k.current = j.current,
         \A k \in new : JobSound(k)',
         \A i \in jobs \ {j} : JobSound(i)',
         busy' <=> busy /\ ~(new = {} /\ j.current)
  PROVE  JobsInv'
<1>1. /\ busy <=> \E i \in jobs : i.current
      /\ \A i, k \in jobs : i.current /\ k.current => i = k
      /\ \A i, k \in jobs : i.photo = k.photo => i = k
      /\ jobs \subseteq Reading
  BY DEF ReadingInv, JobsInv
<1>2. busy' <=> \E i \in jobs' : i.current
  BY <1>1
<1>3. QED
  BY <1>1, <1>2 DEF JobsInv

-----------------------------------------------------------------------------
\* The parts of the invariant that a step on a reading needs again and again.
LEMMA ReadingFacts ==
  ASSUME ReadingInv
  PROVE  /\ taken \in Nat /\ taken <= MaxPhotos /\ page \in 0..taken /\ photoUrls \subseteq 1..taken
         /\ \A j \in jobs : j \in Reading /\ JobSound(j) /\ j.photo \in 1..taken /\ j.photo \notin {None, page}
         /\ \A i, j \in jobs : i.photo = j.photo => i = j
         /\ \A i, j \in jobs : i.current /\ j.current => i = j
         /\ busy <=> \E j \in jobs : j.current
<1>1. taken \in Nat /\ taken <= MaxPhotos
  BY ReadingAssumption DEF ReadingInv
<1>2. ASSUME NEW j \in jobs
      PROVE  j \in Reading /\ JobSound(j) /\ j.photo \in 1..taken /\ j.photo \notin {None, page}
  <2>1. j \in Reading /\ JobSound(j)
    BY DEF ReadingInv, JobsInv
  <2>2. j.photo \in 1..MaxPhotos
    BY <2>1 DEF Reading, Photo
  <2>3. QED
    BY <1>1, <2>1, <2>2, ReadingAssumption DEF JobSound, None
<1>3. QED
  BY <1>1, <1>2 DEF ReadingInv, JobsInv

\* A new reading has a photograph of its own.
LEMMA NewReading ==
  ASSUME ReadingInv, TakePhoto, page' \in {page, None}, photoUrls' \subseteq photoUrls, NEW k,
         \/ k = NewJob("preview", 0, TRUE) \/ k = NewJob("focus", 1, TRUE)
         \/ k = NewJob("prepare", 0, FALSE)
  PROVE  /\ k \in Reading /\ JobSound(k)' /\ \A c \in jobs : c.photo # k.photo
         /\ k.current <=> k.step # "prepare"
         /\ taken' = taken + 1 /\ taken' \in 0..MaxPhotos
<1>1. taken' = taken + 1 /\ taken \in Nat /\ taken' \in 0..MaxPhotos
  BY ReadingFacts, ReadingAssumption DEF TakePhoto
<1>2. k \in Reading
  <2>1. taken + 1 \in Photo
    BY <1>1 DEF Photo
  <2>2. CASE k = NewJob("preview", 0, TRUE)
    BY <2>1, <2>2 DEF NewJob, Reading
  <2>3. CASE k = NewJob("focus", 1, TRUE)
    BY <2>1, <2>3 DEF NewJob, Reading
  <2>4. CASE k = NewJob("prepare", 0, FALSE)
    BY <2>1, <2>4 DEF NewJob, Reading
  <2>5. QED
    BY <2>2, <2>3, <2>4
<1>3. /\ k.photo = taken + 1 /\ k.step \in {"preview", "focus", "prepare"} /\ k.abandoned = FALSE
      /\ k.current <=> k.step # "prepare"
  BY DEF NewJob
<1>4. \A c \in jobs : c.photo # k.photo
  BY <1>1, <1>3, ReadingFacts
<1>5. k.photo <= taken' /\ k.photo # page' /\ k.photo \notin photoUrls'
  BY <1>1, <1>3, ReadingFacts DEF None
<1>6. JobSound(k)'
  BY <1>3, <1>5 DEF JobSound
<1>7. QED
  BY <1>1, <1>2, <1>3, <1>4, <1>6

\* capture().
LEMMA TakeFrameKeeps ==
  ASSUME ReadingInv, NEW sharp \in BOOLEAN, TakeFrame(sharp)
  PROVE  ReadingInv'
<1>1. PICK k : k = IF sharp THEN NewJob("preview", 0, TRUE) ELSE NewJob("focus", 1, TRUE)
  OBVIOUS
<1>2. /\ ~busy /\ TakePhoto /\ busy' = TRUE /\ jobs' = Bump(jobs) \cup {k}
      /\ UNCHANGED <<continuous, worker, workers, preview, photoUrls, handed, page, stale, late>>
  BY <1>1 DEF TakeFrame
<1>3. /\ k \in Reading /\ JobSound(k)' /\ k.current /\ \A c \in jobs : c.photo # k.photo
      /\ taken' = taken + 1 /\ taken' \in 0..MaxPhotos
  <2>1. page' \in {page, None} /\ photoUrls' \subseteq photoUrls /\ TakePhoto
    BY <1>2
  <2>2. k.step # "prepare"
    BY <1>1 DEF NewJob
  <2>3. QED
    BY <1>1, <2>1, <2>2, NewReading
<1>4. JobsInv'
  <2>1. PICK js, ds, new : js \in SUBSET jobs /\ js = jobs /\ ds = Bump(js) /\ new = {k}
    OBVIOUS
  <2>2. jobs' = ds \cup new /\ (new = {} \/ \E i \in Reading : new = {i})
    BY <1>2, <1>3, <2>1
  <2>3. \A i \in new : (\A c \in js : c.photo # i.photo) /\ JobSound(i)'
    BY <1>3, <2>1
  <2>4. busy' <=> \E i \in new : i.current
    BY <1>2, <1>3, <2>1
  <2>5. page' \in {page, None} /\ photoUrls' \subseteq photoUrls /\ taken' \in {taken, taken + 1}
    BY <1>2, <1>3
  <2>6. QED
    BY <2>1, <2>2, <2>3, <2>4, <2>5, GivingUpKeepsJobs
<1>5. \A c \in jobs : \E d \in jobs' : d.photo = c.photo
  BY <1>2, GivenUpJobs
<1>6. PhotosOwned' /\ PagePhotoLive'
  BY <1>2, <1>5 DEF ReadingInv, PhotosOwned, PagePhotoLive
<1>7. page' \in 0..taken' /\ photoUrls' \subseteq 1..taken'
  BY <1>2, <1>3, ReadingFacts
<1>8. QED
  BY <1>2, <1>3, <1>4, <1>6, <1>7 DEF ReadingInv

\* The member goes on: the readings are given up, the preview is cleared, and the page
\* is told unless its photograph is known to be freed.
LEMMA MovingOnKeeps ==
  ASSUME ReadingInv, NEW ds, ds = Abandon(jobs) \/ (ds = jobs /\ ~busy), NEW new, jobs' = ds \cup new,
         \/ new = {} /\ taken' = taken
         \/ \E k \in Reading : new = {k} /\ JobSound(k)' /\ ~k.current /\ taken' = taken + 1 /\ taken' <= MaxPhotos,
         \A k \in new : \A c \in jobs : c.photo # k.photo,
         ~busy', ClearPreview, continuous' = continuous, handed' = handed,
         page' = None \/ (page' = page /\ (stale' \/ page = None)),
         workers' = IF worker' = None THEN {} ELSE {worker'}
  PROVE  ReadingInv'
<1>1. photoUrls' = photoUrls \ {preview} /\ preview' = None
  BY DEF ClearPreview
<1>2. taken' \in {taken, taken + 1} /\ taken' \in 0..MaxPhotos
  BY ReadingFacts
<1>3. JobsInv'
  <2>1. PICK js \in SUBSET jobs : js = jobs
    OBVIOUS
  <2>2. /\ ds = Bump(js) \/ ds = Abandon(js) \/ (ds = js /\ ~busy)
        /\ new = {} \/ \E k \in Reading : new = {k}
        /\ \A k \in new : (\A c \in js : c.photo # k.photo) /\ JobSound(k)'
    BY <2>1
  <2>3. busy' <=> \E k \in new : k.current
    OBVIOUS
  <2>4. page' \in {page, None} /\ photoUrls' \subseteq photoUrls
    BY <1>1
  <2>5. QED
    BY <1>2, <2>2, <2>3, <2>4, GivingUpKeepsJobs
<1>4. \A c \in jobs : \E d \in jobs' : d.photo = c.photo
  BY GivenUpJobs
<1>5. PhotosOwned' /\ PagePhotoLive'
  <2>1. PhotosOwned
    BY DEF ReadingInv
  <2>2. CASE continuous
    BY <1>1, <1>4, <2>1, <2>2 DEF PhotosOwned, PagePhotoLive
  <2>3. CASE ~continuous
    BY <1>1, <2>1, <2>3 DEF PhotosOwned, PagePhotoLive
  <2>4. QED
    BY <2>2, <2>3
<1>6. page' \in 0..taken' /\ photoUrls' \subseteq 1..taken'
  BY <1>1, <1>2, ReadingFacts DEF None
<1>7. QED
  BY <1>2, <1>3, <1>5, <1>6 DEF ReadingInv

\* A retake, the next card, a change of permission, a cancel.
LEMMA ClearReadingKeeps ==
  ASSUME ReadingInv, ClearReading \/ StopReading, UNCHANGED <<continuous, handed, taken>>,
         page' = None \/ (page' = page /\ (stale' \/ page = None))
  PROVE  ReadingInv'
<1>1. PICK new, ds : new = {} /\ ds = Abandon(jobs)
  OBVIOUS
<1>2. jobs' = ds \cup new /\ ~busy' /\ ClearPreview
  BY <1>1 DEF ClearReading, StopReading
<1>3. workers' = IF worker' = None THEN {} ELSE {worker'}
  BY DEF ClearReading, StopReading, ReadingInv
<1>4. QED
  BY <1>1, <1>2, <1>3, MovingOnKeeps

\* A photograph is chosen, and waits to be prepared.
LEMMA ChoosePhotoKeeps ==
  ASSUME ReadingInv, ChoosePhoto
  PROVE  ReadingInv'
<1>1. PICK k, new : k = NewJob("prepare", 0, FALSE) /\ new = {k}
  OBVIOUS
<1>2. PICK ds : /\ ds = Abandon(jobs) \/ (ds = jobs /\ ~busy)
                /\ jobs' = ds \cup new
  BY <1>1 DEF ChoosePhoto
<1>3. /\ ~busy /\ TakePhoto /\ ClearPreview /\ busy' = busy
      /\ UNCHANGED <<continuous, handed>>
  BY DEF ChoosePhoto
<1>4. page' = None \/ (page' = page /\ page = None)
  BY DEF ChoosePhoto, ReadingInv, PhotosOwned
<1>5. workers' = IF worker' = None THEN {} ELSE {worker'}
  BY DEF ChoosePhoto, ReadingInv
<1>6. /\ k \in Reading /\ JobSound(k)' /\ ~k.current /\ \A c \in jobs : c.photo # k.photo
      /\ taken' = taken + 1 /\ taken' <= MaxPhotos
  <2>1. page' \in {page, None} /\ photoUrls' \subseteq photoUrls
    BY <1>3, <1>4 DEF ClearPreview
  <2>2. k.step = "prepare"
    BY <1>1 DEF NewJob
  <2>3. QED
    <3>1. /\ k \in Reading /\ JobSound(k)' /\ ~k.current /\ \A c \in jobs : c.photo # k.photo
          /\ taken' = taken + 1 /\ taken' \in 0..MaxPhotos
      BY <1>1, <1>3, <2>1, <2>2, NewReading
    <3>2. QED
      BY <3>1, ReadingAssumption
<1>7. ~busy'
  BY <1>3
<1>8. /\ \E i \in Reading : new = {i} /\ JobSound(i)' /\ ~i.current /\ taken' = taken + 1 /\ taken' <= MaxPhotos
      /\ \A i \in new : \A c \in jobs : c.photo # i.photo
  BY <1>1, <1>6
<1>9. QED
  BY <1>2, <1>3, <1>4, <1>5, <1>7, <1>8, MovingOnKeeps

\* A reading that another one replaces, and that goes on: WaitForFocus and PhotoPrepared.
LEMMA TakingOverKeeps ==
  ASSUME ReadingInv, NEW j \in jobs, NEW k \in Reading, jobs' = Bump(jobs \ {j}) \cup {k},
         k.photo = j.photo /\ k.current /\ (~k.abandoned \/ k.unasked) /\ k.step = "preview",
         j.step \in {"prepare", "focus"}, busy',
         UNCHANGED <<continuous, worker, workers, preview, photoUrls, handed, page, stale, taken>>
  PROVE  ReadingInv'
<1>1. JobSound(k)'
  BY ReadingFacts DEF JobSound
<1>2. JobsInv'
  <2>1. PICK js, ds, new : js \in SUBSET jobs /\ js = jobs \ {j} /\ ds = Bump(js) /\ new = {k}
    OBVIOUS
  <2>2. jobs' = ds \cup new /\ (new = {} \/ \E i \in Reading : new = {i})
    BY <2>1
  <2>3. \A i \in new : (\A c \in js : c.photo # i.photo) /\ JobSound(i)'
    BY <1>1, <2>1, ReadingFacts
  <2>4. busy' <=> \E i \in new : i.current
    BY <2>1
  <2>5. page' \in {page, None} /\ photoUrls' \subseteq photoUrls /\ taken' \in {taken, taken + 1}
    OBVIOUS
  <2>6. QED
    BY <2>1, <2>2, <2>3, <2>4, <2>5, GivingUpKeepsJobs
<1>3. \A c \in jobs : \E d \in jobs' : d.photo = c.photo
  <2>1. PICK js, ds : js \in SUBSET jobs /\ js = jobs \ {j} /\ ds = Bump(js)
    OBVIOUS
  <2> SUFFICES ASSUME NEW c \in jobs
               PROVE  \E d \in jobs' : d.photo = c.photo
    OBVIOUS
  <2>2. CASE c = j
    <3>1. k \in jobs'
      OBVIOUS
    <3>2. QED
      BY <2>2, <3>1, Zenon
  <2>3. CASE c # j
    <3>1. c \in js
      BY <2>1, <2>3
    <3>2. \A e \in js : \E d \in ds : d.photo = e.photo
      <4>1. ReadingInv /\ js \in SUBSET jobs /\ ds = Bump(js)
        BY <2>1
      <4>2. QED
        BY <4>1, GivenUpJobs, SMT
    <3>3. ds \subseteq jobs'
      BY <2>1
    <3>4. QED
      BY <3>1, <3>2, <3>3, Zenon
  <2>4. QED
    BY <2>2, <2>3
<1>4. PhotosOwned' /\ PagePhotoLive'
  <2>1. PhotosOwned /\ PagePhotoLive
    BY DEF ReadingInv
  <2>2. PhotosOwned'
    <3>1. CASE continuous
      <4>1. page = None /\ preview = None /\ \A u \in photoUrls : u \in handed \/ \E c \in jobs : c.photo = u
        BY <2>1, <3>1 DEF PhotosOwned
      <4>2. \A u \in photoUrls : u \in handed \/ \E d \in jobs' : d.photo = u
        <5> SUFFICES ASSUME NEW u \in photoUrls, u \notin handed
                     PROVE  \E d \in jobs' : d.photo = u
          OBVIOUS
        <5>1. PICK c \in jobs : c.photo = u
          BY <4>1, Zenon
        <5>2. PICK d \in jobs' : d.photo = c.photo
          BY <1>3, Zenon
        <5>3. QED
          BY <5>1, <5>2, Zenon
      <4>3. QED
        BY <3>1, <4>1, <4>2 DEF PhotosOwned
    <3>2. CASE ~continuous
      BY <2>1, <3>2 DEF PhotosOwned
    <3>3. QED
      BY <3>1, <3>2
  <2>3. QED
    BY <2>1, <2>2 DEF PagePhotoLive
<1>5. QED
  BY <1>2, <1>4 DEF ReadingInv

\* A reading that ends without a result.
LEMMA DropKeeps ==
  ASSUME ReadingInv, NEW j \in jobs, jobs' = jobs \ {j}, busy' <=> busy /\ ~j.current,
         \/ photoUrls' = IF continuous THEN photoUrls \ {j.photo} ELSE photoUrls
         \/ photoUrls' = photoUrls /\ j.photo \notin photoUrls,
         UNCHANGED <<continuous, worker, workers, preview, handed, page, stale, taken>>
  PROVE  ReadingInv'
<1>1. /\ photoUrls' \subseteq photoUrls /\ (~continuous => photoUrls' = photoUrls)
      /\ continuous => j.photo \notin photoUrls'
  OBVIOUS
<1>2. \A i \in jobs \ {j} : JobSound(i)'
  BY <1>1, ReadingFacts DEF JobSound
<1>3. JobsInv'
  <2>1. PICK new : new = {}
    OBVIOUS
  <2>2. jobs' = (jobs \ {j}) \cup new /\ (busy' <=> busy /\ ~(new = {} /\ j.current)) /\ \A k \in new : JobSound(k)'
    BY <2>1
  <2>3. QED
    BY <1>2, <2>1, <2>2, GoingOnKeepsJobs
<1>4. PhotosOwned'
  <2>1. PhotosOwned
    BY DEF ReadingInv
  <2>2. QED
    BY <1>1, <2>1 DEF PhotosOwned
<1>5. PagePhotoLive'
  BY <1>1 DEF ReadingInv, PhotosOwned, PagePhotoLive
<1>6. QED
  BY <1>1, <1>3, <1>4, <1>5 DEF ReadingInv

\* A reading that goes on to its next step.
LEMMA AdvanceKeeps ==
  ASSUME ReadingInv, NEW j \in jobs, NEW k \in Reading, jobs' = (jobs \ {j}) \cup {k},
         k.photo = j.photo, k.current, j.current, JobSound(k)', busy' = busy,
         \A i \in jobs \ {j} : i.photo \in photoUrls' => i.photo \in photoUrls,
         UNCHANGED <<continuous, page, taken>>
  PROVE  JobsInv'
<1>1. \A i \in jobs \ {j} : JobSound(i)'
  BY ReadingFacts DEF JobSound
<1>2. PICK new : new = {k}
  OBVIOUS
<1>3. jobs' = (jobs \ {j}) \cup new /\ (busy' <=> busy /\ ~(new = {} /\ j.current)) /\ \A i \in new : JobSound(i)'
  BY <1>2
<1>4. \E i \in Reading : new = {i} /\ i.photo = j.photo /\ i.current = j.current
  BY <1>2
<1>5. QED
  BY <1>1, <1>3, <1>4, GoingOnKeepsJobs

\* Another frame is looked at.
LEMMA WaitForFocusKeeps ==
  ASSUME ReadingInv, NEW j \in jobs, NEW sharp \in BOOLEAN, NEW read \in BOOLEAN, WaitForFocus(j, sharp, read)
  PROVE  ReadingInv'
<1>1. j \in Reading /\ JobSound(j) /\ (j.current => busy) /\ j.step = "focus"
  BY ReadingFacts DEF WaitForFocus
<1>2. UNCHANGED <<continuous, busy, worker, workers, preview, photoUrls, handed, page, stale, taken, late>>
  BY DEF WaitForFocus
<1>3. CASE read
  <2>1. PICK k : k = [j EXCEPT !.step = "preview"]
    OBVIOUS
  <2>2. jobs' = Bump(jobs \ {j}) \cup {k} /\ j.current
    BY <1>3, <2>1 DEF WaitForFocus
  <2>3. k \in Reading /\ k.photo = j.photo /\ k.current /\ (~k.abandoned \/ k.unasked) /\ k.step = "preview"
    BY <1>1, <2>1, <2>2 DEF Reading, JobSound
  <2>4. QED
    BY <1>1, <1>2, <2>2, <2>3, TakingOverKeeps
<1>4. CASE ~read /\ j.current
  <2>1. PICK k : k = [j EXCEPT !.waits = 2]
    OBVIOUS
  <2>2. jobs' = (jobs \ {j}) \cup {k}
    BY <1>4, <2>1 DEF WaitForFocus
  <2>3. k \in Reading /\ k.photo = j.photo /\ k.current /\ (~k.abandoned \/ k.unasked) /\ k.step = "focus"
    BY <1>1, <1>4, <2>1 DEF Reading, JobSound
  <2>4. JobSound(k)'
    BY <1>1, <1>2, <2>3 DEF JobSound
  <2>5. JobsInv'
    BY <1>2, <1>4, <2>2, <2>3, <2>4, AdvanceKeeps
  <2>6. PhotosOwned'
    <3>1. PhotosOwned
      BY DEF ReadingInv
    <3>2. QED
      BY <1>2, <2>2, <2>3, <3>1 DEF PhotosOwned
  <2>7. PagePhotoLive'
    BY <1>2 DEF ReadingInv, PagePhotoLive
  <2>8. QED
    BY <1>2, <2>5, <2>6, <2>7 DEF ReadingInv
<1>5. CASE ~read /\ ~j.current
  <2>1. jobs' = jobs \ {j}
    BY <1>5 DEF WaitForFocus
  <2>2. j.photo \notin photoUrls
    BY <1>1 DEF JobSound
  <2>3. QED
    BY <1>2, <1>5, <2>1, <2>2, DropKeeps
<1>6. QED
  BY <1>3, <1>4, <1>5

\* The preview replaces the one before, or the reading ends.
LEMMA PreviewMadeKeeps ==
  ASSUME ReadingInv, NEW j \in jobs, PreviewMade(j)
  PROVE  ReadingInv'
<1>1. j \in Reading /\ JobSound(j) /\ j.step = "preview" /\ j.photo \in 1..taken /\ j.photo \notin {None, page}
  BY ReadingFacts DEF PreviewMade
<1>2. UNCHANGED <<continuous, busy, worker, workers, handed, page, stale, taken, late>>
  BY DEF PreviewMade
<1>3. CASE j.current
  <2>1. PICK k : k = [j EXCEPT !.step = IF worker = None THEN "worker" ELSE "reading"]
    OBVIOUS
  <2>2. /\ jobs' = (jobs \ {j}) \cup {k}
        /\ photoUrls' = (IF continuous THEN photoUrls ELSE photoUrls \ {preview}) \cup {j.photo}
        /\ preview' = IF continuous THEN preview ELSE j.photo
    BY <1>3, <2>1 DEF PreviewMade
  <2>3. /\ k \in Reading /\ k.photo = j.photo /\ k.current /\ (~k.abandoned \/ k.unasked)
        /\ k.step = IF worker = None THEN "worker" ELSE "reading"
    BY <1>1, <1>3, <2>1 DEF Reading, JobSound
  <2>4. JobSound(k)'
    BY <1>1, <1>2, <2>2, <2>3 DEF JobSound
  <2>5. \A i \in jobs \ {j} : i.photo \in photoUrls' => i.photo \in photoUrls
    BY <2>2, ReadingFacts
  <2>6. JobsInv'
    BY <1>2, <1>3, <2>2, <2>3, <2>4, <2>5, AdvanceKeeps
  <2>7. PhotosOwned'
    <3>1. PhotosOwned
      BY DEF ReadingInv
    <3>2. CASE continuous
      BY <1>2, <2>2, <2>3, <3>1, <3>2 DEF PhotosOwned
    <3>3. CASE ~continuous
      BY <1>2, <2>2, <3>1, <3>3 DEF PhotosOwned
    <3>4. QED
      BY <3>2, <3>3
  <2>8. PagePhotoLive'
    BY <1>1, <1>2, <2>2 DEF ReadingInv, PhotosOwned, PagePhotoLive
  <2>9. photoUrls' \subseteq 1..taken
    BY <1>1, <2>2, ReadingFacts
  <2>10. QED
    BY <1>2, <2>6, <2>7, <2>8, <2>9 DEF ReadingInv
<1>4. CASE ~j.current
  <2>1. jobs' = jobs \ {j} /\ UNCHANGED <<photoUrls, preview>>
    BY <1>4 DEF PreviewMade
  <2>2. j.photo \notin photoUrls
    BY <1>1 DEF JobSound
  <2>3. QED
    BY <1>2, <1>4, <2>1, <2>2, DropKeeps
<1>5. QED
  BY <1>3, <1>4

\* The text reader is the only one, for none was held when it was asked for.
LEMMA WorkerLoadedKeeps ==
  ASSUME ReadingInv, NEW j \in jobs, WorkerLoaded(j)
  PROVE  ReadingInv'
<1>1. /\ j \in Reading /\ JobSound(j) /\ j.step = "worker" /\ j.photo # None
      /\ \A i \in jobs \ {j} : JobSound(i) /\ (j.current => ~i.current)
  BY ReadingFacts DEF WorkerLoaded
<1>2. UNCHANGED <<continuous, preview, handed, page, stale, taken, late>>
  BY DEF WorkerLoaded
<1>3. CASE j.current
  <2>1. PICK k : k = [j EXCEPT !.step = "reading"]
    OBVIOUS
  <2>2. /\ worker' = j.photo /\ workers' = workers \cup {j.photo} /\ jobs' = (jobs \ {j}) \cup {k}
        /\ UNCHANGED <<busy, photoUrls>>
    BY <1>3, <2>1 DEF WorkerLoaded
  <2>3. k \in Reading /\ k.photo = j.photo /\ k.current /\ (~k.abandoned \/ k.unasked) /\ k.step = "reading"
    BY <1>1, <1>3, <2>1 DEF Reading, JobSound
  <2>4. JobSound(k)'
    BY <1>1, <1>2, <1>3, <2>2, <2>3 DEF JobSound
  <2>5. JobsInv'
    BY <1>2, <1>3, <2>2, <2>3, <2>4, AdvanceKeeps
  <2>6. PhotosOwned'
    <3>1. PhotosOwned
      BY DEF ReadingInv
    <3>2. CASE continuous
      BY <1>2, <2>2, <2>3, <3>1, <3>2 DEF PhotosOwned
    <3>3. CASE ~continuous
      BY <1>2, <2>2, <3>1, <3>3 DEF PhotosOwned
    <3>4. QED
      BY <3>2, <3>3
  <2>7. PagePhotoLive'
    BY <1>2, <2>2 DEF ReadingInv, PagePhotoLive
  <2>8. workers' = IF worker' = None THEN {} ELSE {worker'}
    BY <1>1, <1>3, <2>2 DEF ReadingInv, JobSound
  <2>9. QED
    BY <1>2, <2>2, <2>5, <2>6, <2>7, <2>8 DEF ReadingInv
<1>4. CASE ~j.current
  BY <1>2, <1>4, DropKeeps DEF WorkerLoaded, Drop
<1>5. QED
  BY <1>3, <1>4

\* The photograph is handed to the session or shown on the page.
LEMMA TextReadKeeps ==
  ASSUME ReadingInv, NEW j \in jobs, TextRead(j)
  PROVE  ReadingInv'
<1>1. /\ j \in Reading /\ JobSound(j) /\ j.step = "reading" /\ j.photo \in 1..taken /\ j.photo # None
      /\ \A i \in jobs \ {j} : JobSound(i) /\ i.photo # j.photo /\ i.photo # None /\ (j.current => ~i.current)
  BY ReadingFacts DEF TextRead
<1>2. UNCHANGED <<continuous, worker, workers, preview, taken, late>>
  BY DEF TextRead
<1>3. CASE j.current
  <2>1. /\ jobs' = jobs \ {j} /\ busy' = FALSE
        /\ handed' = IF continuous THEN handed \cup {j.photo} ELSE handed
        /\ page' = IF continuous THEN page ELSE j.photo
        /\ photoUrls' = photoUrls
    BY <1>3 DEF TextRead
  <2>2. \A i \in jobs \ {j} : JobSound(i)'
    BY <1>1, <1>2, <1>3, <2>1 DEF JobSound
  <2>3. JobsInv'
    <3>1. PICK new : new = {}
      OBVIOUS
    <3>2. jobs' = (jobs \ {j}) \cup new /\ (busy' <=> busy /\ ~(new = {} /\ j.current)) /\ \A k \in new : JobSound(k)'
      BY <1>3, <2>1, <3>1
    <3>3. QED
      BY <2>2, <3>1, <3>2, GoingOnKeepsJobs
  <2>4. PhotosOwned' /\ PagePhotoLive'
    <3>1. PhotosOwned
      BY DEF ReadingInv
    <3>2. CASE continuous
      BY <1>2, <2>1, <3>1, <3>2 DEF PhotosOwned, PagePhotoLive
    <3>3. CASE ~continuous
      BY <1>1, <1>2, <1>3, <2>1, <3>1, <3>3 DEF PhotosOwned, PagePhotoLive, JobSound
    <3>4. QED
      BY <3>2, <3>3
  <2>5. page' \in 0..taken /\ photoUrls' \subseteq 1..taken
    BY <1>1, <2>1, ReadingFacts
  <2>6. QED
    BY <1>2, <2>3, <2>4, <2>5 DEF ReadingInv
<1>4. CASE ~j.current
  BY <1>2, <1>4, DropKeeps DEF TextRead, Drop
<1>5. QED
  BY <1>3, <1>4

\* A prepared photograph takes the lock, or is dropped.
LEMMA PhotoPreparedKeeps ==
  ASSUME ReadingInv, NEW j \in jobs, PhotoPrepared(j, mounted) \/ PhotoUnreadable(j)
  PROVE  ReadingInv'
<1>1. /\ j \in Reading /\ JobSound(j) /\ j.step = "prepare" /\ ~j.current
      /\ j.photo \notin photoUrls
  BY ReadingFacts DEF PhotoPrepared, PhotoUnreadable, JobSound
<1>2. UNCHANGED <<continuous, worker, workers, preview, photoUrls, handed, page, stale, taken>>
  BY DEF PhotoPrepared, PhotoUnreadable
<1>3. CASE jobs' = jobs \ {j} /\ busy' = busy
  BY <1>1, <1>2, <1>3, DropKeeps
<1>4. CASE PhotoPrepared(j, mounted) /\ ~busy
  <2>1. PICK k : k = [j EXCEPT !.step = "preview", !.current = TRUE, !.unasked = j.abandoned]
    OBVIOUS
  <2>2. jobs' = Bump(jobs \ {j}) \cup {k} /\ busy'
    BY <1>4, <2>1 DEF PhotoPrepared
  <2>3. k \in Reading /\ k.photo = j.photo /\ k.current /\ (~k.abandoned \/ k.unasked) /\ k.step = "preview"
    BY <1>1, <2>1 DEF Reading, JobSound
  <2>4. QED
    BY <1>1, <1>2, <2>2, <2>3, TakingOverKeeps
<1>5. QED
  BY <1>3, <1>4 DEF PhotoPrepared, PhotoUnreadable

\* What the scanner holds of a reading once it is off the page: nothing, unless a chosen
\* photograph was read afterwards.
GoneReading == ~mounted /\ ~late => ~busy /\ worker = None /\ preview = None

\* Every step of the scanner keeps the invariant of its readings.
LEMMA ReadingStep ==
  ASSUME ReadingInv, [ScannerNext]_scannerVars
  PROVE  ReadingInv'
<1>1. ASSUME UNCHANGED readingVars PROVE ReadingInv'
  BY <1>1 DEF readingVars, ReadingInv, JobsInv, JobSound, PhotosOwned, PagePhotoLive
<1>2. CASE \/ StartCamera \/ UseCamera \/ PlugCamera \/ CameraAnswer \/ ConsentCleared \/ SessionCounts
           \/ UNCHANGED scannerVars \/ \E choice \in {"allow", "deny"} : AnswerConsent(choice)
  BY <1>1, <1>2 DEF StartCamera, UseCamera, PlugCamera, CameraAnswer, ConsentCleared, SessionCounts, scannerVars,
                    AnswerConsent
<1>3. ASSUME NEW sharp \in BOOLEAN, Capture(sharp) PROVE ReadingInv'
  BY <1>3, TakeFrameKeeps DEF Capture
<1>4. ASSUME NEW sharp \in BOOLEAN, FocusWaited(sharp) PROVE ReadingInv'
  BY <1>4, WaitForFocusKeeps DEF FocusWaited
<1>5. CASE AutomaticCapture
  <2>1. PICK sharp \in BOOLEAN : TakeFrame(sharp)
    BY <1>5 DEF AutomaticCapture
  <2>2. QED
    BY <2>1, TakeFrameKeeps
<1>6. CASE ReadingAnswer
  <2>1. PICK j \in jobs : \/ ReadingFailed(j) \/ PreviewMade(j) \/ WorkerLoaded(j) \/ TextRead(j)
                          \/ PhotoPrepared(j, mounted) \/ PhotoUnreadable(j)
    BY <1>6 DEF ReadingAnswer, ReadingAnswers
  <2>2. CASE ReadingFailed(j)
    BY <2>2, DropKeeps DEF ReadingFailed, Drop
  <2>3. QED
    BY <2>1, <2>2, PreviewMadeKeeps, WorkerLoadedKeeps, TextReadKeeps, PhotoPreparedKeeps
<1>7. CASE Retake
  BY <1>7, ClearReadingKeeps DEF Retake
<1>8. CASE NextCard
  BY <1>8, ClearReadingKeeps DEF NextCard
<1>9. CASE ChoosePhoto
  BY <1>9, ChoosePhotoKeeps
<1>10. CASE ResetConsent
  BY <1>10, ClearReadingKeeps DEF ResetConsent
<1>11. ASSUME NEW stays \in BOOLEAN, Leave(stays) PROVE ReadingInv'
  BY <1>11, ClearReadingKeeps DEF Leave
<1>12. QED
  BY <1>2, <1>3, <1>4, <1>5, <1>6, <1>7, <1>8, <1>9, <1>10, <1>11 DEF ScannerNext

\* A step that takes the scanner off the page, or happens there, leaves it nothing of a
\* reading.
LEMMA GoneStep ==
  ASSUME ReadingInv, GoneReading, [ScannerNext]_scannerVars
  PROVE  GoneReading'
<1>1. ASSUME mounted' PROVE GoneReading'
  BY <1>1 DEF GoneReading
<1>2. ASSUME UNCHANGED <<mounted, busy, worker, preview, late>> PROVE GoneReading'
  BY <1>2 DEF GoneReading
<1>3. CASE StartCamera \/ Retake \/ NextCard \/ ResetConsent \/ AutomaticCapture
  <2>1. mounted /\ mounted' = mounted
    BY <1>3 DEF StartCamera, Retake, NextCard, ResetConsent, AutomaticCapture
  <2>2. QED
    BY <1>1, <2>1
<1>4. CASE \/ UseCamera \/ PlugCamera \/ CameraAnswer \/ ConsentCleared \/ SessionCounts
           \/ UNCHANGED scannerVars \/ \E choice \in {"allow", "deny"} : AnswerConsent(choice)
  BY <1>2, <1>4 DEF UseCamera, PlugCamera, CameraAnswer, ConsentCleared, SessionCounts, scannerVars, readingVars,
                    AnswerConsent
<1>5. ASSUME NEW sharp \in BOOLEAN, Capture(sharp) PROVE GoneReading'
  BY <1>1, <1>5 DEF Capture, HideViewfinder
<1>6. ASSUME NEW sharp \in BOOLEAN, FocusWaited(sharp) PROVE GoneReading'
  BY <1>2, <1>6 DEF FocusWaited, WaitForFocus, HideViewfinder
<1>7. CASE ReadingAnswer
  <2>1. PICK j \in jobs : \/ ReadingFailed(j) \/ PreviewMade(j) \/ WorkerLoaded(j) \/ TextRead(j)
                          \/ PhotoPrepared(j, mounted) \/ PhotoUnreadable(j)
    BY <1>7 DEF ReadingAnswer, ReadingAnswers
  <2>2. mounted' = mounted
    BY <1>7 DEF ReadingAnswer
  <2>3. j.current => busy
    BY ReadingFacts
  <2>4. CASE PhotoPrepared(j, mounted)
    BY <2>2, <2>4 DEF PhotoPrepared, GoneReading
  <2>5. CASE PhotoUnreadable(j)
    BY <1>2, <2>2, <2>5 DEF PhotoUnreadable
  <2>6. CASE ReadingFailed(j) \/ PreviewMade(j) \/ WorkerLoaded(j) \/ TextRead(j)
    <3>1. late' = late
      BY <2>6 DEF ReadingFailed, PreviewMade, WorkerLoaded, TextRead
    <3>2. ~busy => ~busy' /\ worker' = worker /\ preview' = preview
      BY <2>3, <2>6 DEF ReadingFailed, PreviewMade, WorkerLoaded, TextRead, Drop
    <3>3. QED
      BY <2>2, <3>1, <3>2 DEF GoneReading
  <2>7. QED
    BY <2>1, <2>4, <2>5, <2>6
<1>8. CASE ChoosePhoto
  BY <1>8 DEF ChoosePhoto, ClearPreview, GoneReading
<1>9. ASSUME NEW stays \in BOOLEAN, Leave(stays) PROVE GoneReading'
  BY <1>9 DEF Leave, StopReading, ClearPreview, GoneReading
<1>10. QED
  BY <1>3, <1>4, <1>5, <1>6, <1>7, <1>8, <1>9 DEF ScannerNext

\* What a step lets arrive at the page or the session is the photograph of the reading
\* that is current.
LEMMA Arrivals ==
  ASSUME ReadingInv, [ScannerNext]_scannerVars
  PROVE  \/ page' \in {page, None} /\ handed' = handed
         \/ \E i \in jobs : i.current /\ page' \in {page, i.photo} /\ handed' \subseteq handed \cup {i.photo}
<1> DEFINE Arrived == \/ page' \in {page, None} /\ handed' = handed
                      \/ \E i \in jobs : /\ i.current /\ page' \in {page, i.photo}
                                         /\ handed' \subseteq handed \cup {i.photo}
<1>1. CASE \/ StartCamera \/ UseCamera \/ PlugCamera \/ CameraAnswer \/ ConsentCleared \/ SessionCounts
           \/ UNCHANGED scannerVars \/ \E choice \in {"allow", "deny"} : AnswerConsent(choice)
  BY <1>1 DEF StartCamera, UseCamera, PlugCamera, CameraAnswer, ConsentCleared, SessionCounts, scannerVars,
              readingVars, AnswerConsent
<1>2. CASE Retake \/ NextCard \/ ChoosePhoto \/ ResetConsent
  BY <1>2 DEF Retake, NextCard, ChoosePhoto, ResetConsent
<1>3. ASSUME NEW stays \in BOOLEAN, Leave(stays) PROVE Arrived
  BY <1>3 DEF Leave
<1>4. ASSUME NEW sharp \in BOOLEAN, Capture(sharp) PROVE Arrived
  BY <1>4 DEF Capture, TakeFrame
<1>5. ASSUME NEW sharp \in BOOLEAN, FocusWaited(sharp) PROVE Arrived
  BY <1>5 DEF FocusWaited, WaitForFocus
<1>6. CASE AutomaticCapture
  BY <1>6 DEF AutomaticCapture, TakeFrame
<1>7. CASE ReadingAnswer
  <2>1. PICK j \in jobs : \/ ReadingFailed(j) \/ PreviewMade(j) \/ WorkerLoaded(j) \/ TextRead(j)
                          \/ PhotoPrepared(j, mounted) \/ PhotoUnreadable(j)
    BY <1>7 DEF ReadingAnswer, ReadingAnswers
  <2>2. CASE TextRead(j)
    BY <2>2 DEF TextRead
  <2>3. CASE ~TextRead(j)
    BY <2>1, <2>3 DEF ReadingFailed, PreviewMade, WorkerLoaded, PhotoPrepared, PhotoUnreadable
  <2>4. QED
    BY <2>2, <2>3
<1>8. QED
  BY <1>1, <1>2, <1>3, <1>4, <1>5, <1>6, <1>7 DEF ScannerNext

-----------------------------------------------------------------------------
(* Theorems.                                                               *)

\* Off the page the scanner holds nothing, unless an answer came late.
Gone == ~mounted /\ ~overtaken => stream = NoStream

\* What holds of every state of the scanner: each part of it is kept by every step.
ScannerInv == CameraInv /\ Gone /\ ReadingInv /\ GoneReading

\* Camera, readings and lock keep their invariants whatever comes late.
THEOREM InvariantOfScanner == ScannerSpec => []ScannerInv
<1>1. ScannerInit => ScannerInv
  <2> SUFFICES ASSUME ScannerInit PROVE ScannerInv
    OBVIOUS
  <2>1. CameraInv /\ Gone
    BY CameraAssumption DEF ScannerInit, CameraInit, CameraInv, CallsInv, Held, Gone
  <2>2. JobsInv /\ PhotosOwned /\ PagePhotoLive
    BY DEF ScannerInit, ReadingInit, JobsInv, PhotosOwned, PagePhotoLive
  <2>3. ReadingInv /\ GoneReading
    BY <2>2, ReadingAssumption DEF ScannerInit, ReadingInit, ReadingInv, GoneReading, None
  <2>4. QED
    BY <2>1, <2>3 DEF ScannerInv
<1>2. ScannerInv /\ [ScannerNext]_scannerVars => ScannerInv'
  BY CameraStep, ReadingStep, GoneStep DEF ScannerInv, Gone
<1>3. QED
  BY <1>1, <1>2, PTL DEF ScannerSpec

\* The viewfinder never shows a stopped stream, a camera that is on is the one held,
\* and the controls and the menu are its own, with the exceptions CameraHeld names
\* (startCamera, switchCamera and dispose).
THEOREM CameraIsHeld == ScannerSpec => []CameraHeld
<1>1. ScannerInv => CameraHeld
  BY DEF ScannerInv, CameraInv, Held, CameraHeld
<1>2. QED
  BY <1>1, InvariantOfScanner, PTL

\* The lock is held exactly while one reading is current (capture, readImage).
THEOREM LockIsOfOneReading == ScannerSpec => []BusyWhileReading
<1>1. ScannerInv => BusyWhileReading
  BY DEF ScannerInv, ReadingInv, JobsInv, BusyWhileReading
<1>2. QED
  BY <1>1, InvariantOfScanner, PTL

\* The page's photograph is not freed while it is shown, with the exceptions
\* PagePhotoLive names.
THEOREM PagePhotoIsLive == ScannerSpec => []PagePhotoLive
<1>1. ScannerInv => PagePhotoLive
  BY DEF ScannerInv, ReadingInv
<1>2. QED
  BY <1>1, InvariantOfScanner, PTL

\* A scanner off the page that awaits nothing holds no camera, text reader or
\* photograph, with the exceptions NothingLeftBehind names.
THEOREM HoldsNothingOnceGone == ScannerSpec => []NothingLeftBehind
<1>1. ScannerInv => NothingLeftBehind
  <2> SUFFICES ASSUME ScannerInv, ~mounted, calls = {}, jobs = {}
               PROVE  (~overtaken => live = {}) /\ (~late => workers = {} /\ photoUrls \subseteq handed)
    BY DEF NothingLeftBehind
  <2>1. ASSUME ~overtaken PROVE live = {}
    BY <2>1, CameraAssumption DEF ScannerInv, CameraInv, CallsInv, Held, Gone, Stream
  <2>2. ASSUME ~late PROVE workers = {} /\ photoUrls \subseteq handed
    <3>1. worker = None /\ preview = None
      BY <2>2 DEF ScannerInv, GoneReading
    <3>2. workers = {} /\ photoUrls \subseteq 1..taken
      BY <3>1 DEF ScannerInv, ReadingInv
    <3>3. None \notin 1..taken
      BY ReadingFacts DEF ScannerInv, None
    <3>4. PhotosOwned
      BY DEF ScannerInv, ReadingInv
    <3>5. photoUrls \subseteq handed
      BY <3>1, <3>2, <3>3, <3>4 DEF PhotosOwned
    <3>6. QED
      BY <3>2, <3>5
  <2>3. QED
    BY <2>1, <2>2
<1>2. QED
  BY <1>1, InvariantOfScanner, PTL

\* A photograph given up by a retake, a cancel or the next card reaches neither the page
\* nor the session afterwards: every wait compares its generation, but for the decoding
\* of a chosen one, which may begin a reading nobody asks for any more.
THEOREM GivenUpForGood == ScannerSpec => NothingGivenUpArrives
<1>1. ASSUME ReadingInv, [ScannerNext]_scannerVars, NEW j \in jobs, j.abandoned, ~j.unasked
      PROVE  page' # j.photo /\ j.photo \notin handed' \ handed
  <2>1. j.photo \notin {None, page} /\ ~j.current
    BY <1>1, ReadingFacts DEF JobSound
  <2>2. \A i \in jobs : i.current => i.photo # j.photo
    BY <1>1, <2>1, ReadingFacts
  <2>3. QED
    BY <1>1, <2>1, <2>2, Arrivals
<1>2. ReadingInv /\ [ScannerNext]_scannerVars =>
        [\A j \in jobs : j.abandoned /\ ~j.unasked =>
           page' # j.photo /\ j.photo \notin handed' \ handed]_readingVars
  BY <1>1
<1>3. ScannerInv => ReadingInv
  BY DEF ScannerInv
<1>4. QED
  BY <1>2, <1>3, InvariantOfScanner, PTL DEF ScannerSpec, NothingGivenUpArrives

=============================================================================
