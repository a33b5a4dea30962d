----------------------------- MODULE CardCamera -----------------------------
(* The camera of the card scanner: consent, streams, the camera menu and the   *)
(* optical controls (CardScanner.tsx).                                         *)
(*                                                                             *)
(* Asking the browser for a camera, for the list of cameras or for a change of *)
(* focus takes time, and nothing is cancelled when the member goes on: each     *)
(* call is a record that is answered later, in any order, on whatever the state *)
(* is by then.                                                                 *)
EXTENDS Integers, FiniteSets

CONSTANTS Devices,     \* cameras
          Pluggable,   \* bound: what they may be after one is plugged in or removed
          NoDevice, NoStream, NoCall,
          MaxStarts,   \* bound: calls of startCamera
          MaxLists     \* bound: lists of cameras awaited

ASSUME CameraAssumption ==
  /\ NoDevice \notin Devices /\ Pluggable \subseteq SUBSET Devices
  /\ NoStream \notin [id : 1..MaxStarts, device : Devices]
  /\ MaxStarts \in Nat /\ MaxLists \in Nat

VARIABLES
  consent,     \* "unset", "allow" or "deny": the state and the browser's store
  choosing,    \* the privacy choice is asked
  camera,      \* the viewfinder is shown
  stream,      \* streamRef: the stream held
  live,        \* streams that have not been stopped
  plugged,     \* the cameras of the device
  devices,     \* the cameras in the menu
  selectedDevice,    \* the one chosen in it
  remembered,  \* the browser's store of the last camera
  switching,   \* the menu is disabled: a change of camera is under way
  calls,       \* starts not yet answered
  lists,       \* lists of cameras not yet answered
  controls,    \* the camera whose optical controls are shown
  adjusting,   \* the change of a control under way
  starts,      \* starts asked for so far
  overtaken,   \* history: an answer came about a stream no longer held
  behind       \* history: a failed change of camera brought back a menu that was behind

cameraVars == <<consent, choosing, camera, stream, live, plugged, devices, selectedDevice, remembered,
                switching, calls, lists, controls, adjusting, starts, overtaken, behind>>

Stream == [id : 1..MaxStarts, device : Devices]

\* `crossed` is history: the stream held has changed since the call.
Call == [id : 1..MaxStarts, kind : {"open", "switch"}, device : Devices \cup {NoDevice},
         previous : Stream \cup {NoStream}, shown : Devices \cup {NoDevice}, crossed : BOOLEAN]

CameraTypeOK ==
  /\ consent \in {"unset", "allow", "deny"} /\ choosing \in BOOLEAN
  /\ camera \in BOOLEAN /\ switching \in BOOLEAN /\ {overtaken, behind} \subseteq BOOLEAN
  /\ stream \in Stream \cup {NoStream} /\ live \subseteq Stream
  /\ plugged \subseteq Devices /\ devices \subseteq Devices
  /\ {selectedDevice, remembered, controls} \subseteq Devices \cup {NoDevice}
  /\ calls \subseteq Call
  /\ lists \subseteq [stream : Stream, switch : BOOLEAN]
  /\ adjusting = NoCall \/ adjusting \in [stream : Stream, previous : Devices \cup {NoDevice}]
  /\ starts \in 0..MaxStarts

-----------------------------------------------------------------------------
(* Starting and stopping.                                                  *)

Crossed(cs) == {[c EXCEPT !.crossed = TRUE] : c \in cs}

StartCall(kind, device) ==
  /\ starts < MaxStarts /\ starts' = starts + 1
  /\ calls' = calls \cup {[id |-> starts + 1, kind |-> kind, device |-> device, previous |-> stream,
                           shown |-> selectedDevice, crossed |-> FALSE]}

OpenCamera == StartCall("open", remembered)

\* requestCamera: asks for consent first, and respects a refusal.
RequestCamera ==
  \/ /\ consent = "unset" /\ choosing' = TRUE
     /\ UNCHANGED <<calls, starts>>
  \/ consent = "allow" /\ OpenCamera /\ UNCHANGED choosing
  \/ consent = "deny" /\ UNCHANGED <<choosing, calls, starts>>

ChooseConsent(choice) ==
  /\ consent' = choice /\ choosing' = FALSE
  /\ IF choice = "allow" THEN OpenCamera ELSE UNCHANGED <<calls, starts>>
  /\ UNCHANGED <<camera, stream, live, plugged, devices, selectedDevice, remembered, switching, lists,
                 controls, adjusting, overtaken, behind>>

\* The camera's part of dispose(): nothing tells a start under way.
StopCamera ==
  /\ live' = live \ {stream}
  /\ stream' = NoStream /\ camera' = FALSE /\ controls' = NoDevice
  /\ calls' = Crossed(calls)

\* The camera comes on again, or is asked for again, after a photograph.
ResumeCamera ==
  IF stream # NoStream
  THEN camera' = TRUE /\ UNCHANGED <<choosing, calls, starts>>
  ELSE RequestCamera /\ UNCHANGED camera

\* The stream replaces the one held, which is stopped only by a change of camera.
Hold(c, device, stopped) ==
  LET new == [id |-> c.id, device |-> device] IN
  /\ Cardinality(lists) < MaxLists
  /\ stream' = new
  /\ live' = (live \cup {new}) \ stopped
  /\ controls' = device
  /\ calls' = Crossed(calls \ {c})
  /\ lists' = lists \cup {[stream |-> new, switch |-> c.kind = "switch"]}

\* The remembered camera, or whichever one the browser offers. `shown` is whether
\* the component is still mounted: only then has its state an effect.
OpenAnswered(c, device, shown) ==
  /\ c.kind = "open" /\ device \in plugged
  /\ c.device # NoDevice => device = c.device
  /\ Hold(c, device, {})
  /\ camera' = shown
  /\ overtaken' = (overtaken \/ c.crossed \/ stream # NoStream \/ ~shown)
  /\ UNCHANGED <<consent, choosing, plugged, devices, selectedDevice, remembered, switching, adjusting,
                 starts, behind>>

\* The remembered camera is gone: it is forgotten, and any camera asked for.
OpenUnavailable(c) ==
  /\ c.kind = "open" /\ c.device \notin plugged \cup {NoDevice}
  /\ remembered' = NoDevice
  /\ calls' = (calls \ {c}) \cup {[c EXCEPT !.device = NoDevice]}
  /\ UNCHANGED <<consent, choosing, camera, stream, live, plugged, devices, selectedDevice, switching, lists,
                 controls, adjusting, starts, overtaken, behind>>

OpenFailed(c) ==
  /\ c.kind = "open"
  /\ calls' = calls \ {c}
  /\ UNCHANGED <<consent, choosing, camera, stream, live, plugged, devices, selectedDevice, remembered,
                 switching, lists, controls, adjusting, starts, overtaken, behind>>

-----------------------------------------------------------------------------
(* The camera menu.                                                        *)

SwitchCamera(device) ==
  /\ camera /\ ~switching /\ device \in devices
  /\ stream # NoStream /\ device # selectedDevice
  /\ StartCall("switch", device)
  /\ switching' = TRUE /\ selectedDevice' = device
  /\ UNCHANGED <<consent, choosing, camera, stream, live, plugged, devices, remembered, lists, controls,
                 adjusting, overtaken, behind>>

\* Mutant: the camera before is not stopped.
SwitchAnsweredBoth(c, shown) ==
  /\ c.kind = "switch" /\ c.device \in plugged
  /\ Hold(c, c.device, {})
  /\ selectedDevice' = c.device /\ remembered' = c.device
  /\ overtaken' = (overtaken \/ c.crossed \/ ~shown)
  /\ UNCHANGED <<consent, choosing, camera, plugged, devices, switching, adjusting, starts, behind>>

SwitchAnswered(c, shown) ==
  /\ c.kind = "switch" /\ c.device \in plugged
  /\ Hold(c, c.device, {c.previous})
  /\ selectedDevice' = c.device /\ remembered' = c.device
  /\ overtaken' = (overtaken \/ c.crossed \/ ~shown)
  /\ UNCHANGED <<consent, choosing, camera, plugged, devices, switching, adjusting, starts, behind>>

SwitchFailed(c) ==
  /\ c.kind = "switch"
  /\ calls' = calls \ {c}
  /\ selectedDevice' = c.shown /\ switching' = FALSE
  /\ overtaken' = (overtaken \/ c.crossed) /\ behind' = (c.shown # c.previous.device)
  /\ UNCHANGED <<consent, choosing, camera, stream, live, plugged, devices, remembered, lists, controls,
                 adjusting, starts>>

\* A camera is plugged in or removed while one is in use.
DeviceChange(now) ==
  /\ now # plugged /\ Cardinality(lists) < MaxLists
  /\ plugged' = now
  /\ lists' = IF stream = NoStream THEN lists ELSE lists \cup {[stream |-> stream, switch |-> FALSE]}
  /\ UNCHANGED <<consent, choosing, camera, stream, live, devices, selectedDevice, remembered, switching, calls,
                 controls, adjusting, starts, overtaken, behind>>

\* The menu shows the camera of the stream it was asked for, if that is still there.
ListAnswered(l, first) ==
  LET available == IF l.stream.device \in plugged THEN l.stream.device ELSE first IN
  /\ lists' = lists \ {l}
  /\ devices' = plugged
  /\ first \in IF plugged = {} THEN {NoDevice} ELSE plugged
  /\ IF plugged = {} THEN UNCHANGED <<selectedDevice, remembered>>
                     ELSE selectedDevice' = available /\ remembered' = available
  /\ switching' = (switching /\ ~l.switch)
  /\ overtaken' = (overtaken \/ l.stream # stream) /\ behind' = FALSE
  /\ UNCHANGED <<consent, choosing, camera, stream, live, plugged, calls, controls, adjusting, starts>>

ListFailed(l) ==
  /\ lists' = lists \ {l}
  /\ devices' = {}
  /\ switching' = (switching /\ ~l.switch)
  /\ UNCHANGED <<consent, choosing, camera, stream, live, plugged, selectedDevice, remembered, calls, controls,
                 adjusting, starts, overtaken, behind>>

-----------------------------------------------------------------------------
(* Zoom, exposure, focus and torch.                                        *)

ChangeControl ==
  /\ camera /\ stream # NoStream /\ adjusting = NoCall
  /\ adjusting' = [stream |-> stream, previous |-> controls]
  /\ UNCHANGED <<consent, choosing, camera, stream, live, plugged, devices, selectedDevice, remembered,
                 switching, calls, lists, controls, starts, overtaken, behind>>

\* Applied: the controls are read again; refused: those of before are shown.
ControlAnswered ==
  /\ adjusting # NoCall
  /\ controls' \in {adjusting.stream.device, adjusting.previous}
  /\ overtaken' = (overtaken \/ adjusting.stream # stream)
  /\ adjusting' = NoCall
  /\ UNCHANGED <<consent, choosing, camera, stream, live, plugged, devices, selectedDevice, remembered,
                 switching, calls, lists, starts, behind>>

-----------------------------------------------------------------------------
CameraInit ==
  /\ consent \in {"unset", "allow"} /\ choosing = FALSE
  /\ camera = FALSE /\ stream = NoStream /\ live = {}
  /\ plugged = Devices /\ devices = {} /\ selectedDevice = NoDevice
  /\ remembered \in {NoDevice} \cup Devices
  /\ switching = FALSE /\ calls = {} /\ lists = {}
  /\ controls = NoDevice /\ adjusting = NoCall
  /\ starts = 0 /\ overtaken = FALSE /\ behind = FALSE

CameraAnswers(shown) ==
  \/ \E c \in calls : \/ \E d \in Devices : OpenAnswered(c, d, shown)
                      \/ OpenUnavailable(c) \/ OpenFailed(c)
                      \/ SwitchAnswered(c, shown) \/ SwitchFailed(c)
  \/ \E l \in lists : ListFailed(l) \/ \E d \in Devices \cup {NoDevice} : ListAnswered(l, d)
  \/ ControlAnswered

-----------------------------------------------------------------------------
(* Properties.                                                             *)

\* The viewfinder never shows a stream that has been stopped; and a camera that is on
\* is the one the scanner holds, and can stop, unless an answer came about a stream it
\* no longer held. Such a camera stays on until the page goes. With the same exception
\* the optical controls are those of the camera that is seen, and so is the menu once
\* its list has come, unless a change of camera failed that began while the menu still
\* showed another camera: then the menu goes back to that one until the next list.
CameraHeld ==
  /\ camera => stream \in live
  /\ ~overtaken => live \subseteq {stream}
  /\ camera /\ ~overtaken =>
    /\ controls = stream.device
    /\ ~behind /\ ~switching /\ lists = {} /\ stream.device \in devices => selectedDevice = stream.device
=============================================================================
