# Verification of the Flipper Bluetooth remotes

TLA+ models of the Bluetooth remotes in this repository, the TLC runs that
check them on small instances, and TLAPS proofs of the results that matter
most. Paths are relative to `src/`; three are abbreviated:

| short | file |
| --- | --- |
| `central.c` | `sony_a7_iv_remote/sony_transport_central.c` |
| `a7.c` | `sony_a7_iv_remote/sony_a7_iv_remote.c` |
| `enter.c` | `Flipper Bluetooth controls/.../bluetooth-remote-with-enter-key/enter_remote/enter_remote.c` |

Contents: 1 Inventory - 2 Modules - 3 Runs - 4 Bounds - 5 Fairness -
6 Stale completions - 7 Findings - 8 Proofs - 9 Limits -
10 Plan and its state

## 1. Inventory

### Sony A7 IV remote

The Flipper is the Bluetooth central and GATT client, the camera the
peripheral. Three parts call one another:

- **Transport** (`central.c`). State: `struct SonyTransport` (session flags
  `started`, `stopping`; `scanning` and `peer_address`; the connection handle,
  four attribute handles, the GATT operation in progress, `connection_pending`,
  `pairing_mode`, `write_success`) and an event flag. Operations: start,
  send_button and stop, called by the app thread, and one event callback, called
  by the ble thread for each radio event. The threads share the struct **without
  a lock**. Hard: every interleaving of the two; events of an old link, a late
  answer or another camera; a refused command; a failure at each link of the
  chain advertisement, connection, pairing, service, command, status, descriptor,
  notifications; the timeout of a write racing its answer; stopping in the middle
  of anything. Correct means: attribute handles belong to the camera linked
  now; *Ready* means usable; scanning never starts over a live connection; an
  attempt to connect never gets stuck by a step that fails; a send returns true only for a write the
  camera answered; stop hangs up.
- **App** (`a7.c`). State: an input queue, the transport state last reported,
  the recording flag. Up sends the four commands of the shutter, OK the two of
  record, each press given up at the first command not delivered; holding Back
  leaves. The transport calls back from the ble thread. Correct means: the
  shutter is never released without focusing; a complete press leaves nothing
  held; what is shown is so.
- **Protocol** (`sony_protocol.c`, and the loop over the reports of an advertising
  event in `central.c`). Which advertisements are cameras, which of them are pairing,
  the packet of a button, the meaning of a notification. State: offsets into bytes from
  the air. Hard: the counts and sizes in those bytes are what the offsets are made of;
  boundaries. Correct means: no read outside the event, and the first camera in an event
  is recognised with its own address and pairing mode.

`sony_transport.c` is a stub for builds without the central role.

### HID remotes

The Enter remote (`enter.c`), its earlier version, and the RV/MC/INV remote are
Bluetooth keyboards, built alike:

- **Input path.** The input service emits press, short, long, repeat and release
  events. The GUI thread takes its lock and calls the app's input callback, which
  puts the event into `input_queue` (8 places) and waits **forever** for room. The
  app thread takes events out, and needs the GUI lock to remove its view port.
  Hard: a queue at its limit, two threads waiting for each other. All five apps of
  the repository, the Sony apps included, have this path.
- **Keys, status, lifecycle.** State: the keys of the HID report, the connected
  flag, the LED, the status callback. The Enter remote holds a key as long as its button
  and taps Escape for Back; the other types RV, MC or INV for a click, a letter every
  24 ms, and takes no event meanwhile. The host comes and goes; the bt service
  calls the status callback from its own thread. Correct means: no key stuck on
  the host, the report mirrors the buttons, every click is typed whole and in order, the
  LED glows when a host is connected and only then, holding Back exits.
- **Identity.** Each app has its own keys file; the bt service has one set of
  root keys and bonds in RAM and loads and saves them through the path last set.
  `enter_remote_ensure_own_identity` repairs the app's file before Bluetooth
  starts. Hard: files that are missing, old or fail to be written, a restart of
  the Flipper between two steps, several apps in any order. Correct means: an app serves
  with root keys of its own, no host ever knows two profiles by the same root keys, an
  identity once saved never changes, pairings survive.

`sony_camera_remote` is a scaffold with input and drawing only.

Hazards and the property that guards each are listed in `PROJECT.json`.

## 2. Modules

    SonyProtocol <- SonyRadio <- SonyTransport <- SonyA7IvRemote <- MCSonyA7IvRemote
         ^               MCSonyTransport,             ^   |
         |               SonyTransportProofs <- SonyA7IvRemoteProofs
         |                                                  |
         |-- ButtonDelivery <- ButtonDeliveryProofs         | implements
         |        ^------------------------------------------
         |        |
         |        SonyA7IvInput <- MCSonyA7IvInput, SonyA7IvInputProofs
         |        |
         |   InputLoop <- HidRemote <- MCHidRemote
         |   InputLoopProofs <- HidRemoteProofs, SonyA7IvInputProofs
         |
         `-- SonyAdvertisement <- MCSonyAdvertisement, SonyAdvertisementProofs

    KeyIdentity <- MCKeyIdentity, KeyIdentityProofs

(`A <- B`: B extends A. SonyA7IvInput extends both modules it hangs under.)

**SonyProtocol** holds what several modules need of the protocol: the buttons, and
which notifications mean what.

**SonyRadio** is what lies outside: the Flipper's Bluetooth controller and GATT
stack, and the cameras. It is written from the commands `central.c` issues, the
results it tests and the events it handles. The controller runs one GAP
procedure (`gap`), has one central link (`link`), runs one GATT procedure on it
(`proc`); its events queue in `inbox`, which the ble thread empties in order. A
camera keeps the buttons it holds pressed (`held`) and answers writes (`ack`).
`Faults` names what may go wrong in an instance.

**SonyTransport** is `central.c`. Two threads, `at["app"]` and `at["ble"]`; a step
is a stretch of code that ends at a radio command, a wait, or where the other
thread can see the difference. For instance `sony_transport_start_scan` is six
steps: tested, asked of the radio (reset included), accepted or refused, flag
set, state shown. So a report may arrive after the radio has accepted and before
the flag is set. `event_handle` is the handle in the event being handled, which the app
thread cannot reset. `conn` holds the fields that `sony_transport_reset_connection`
clears together. Handlers are named after the functions of the code. The client
of this module is the most general one: after start it sends any button, writes
the reported state, or stops, whenever it likes.

**SonyA7IvRemote** replaces that client by the app: presses are sequences of
commands, each sent by the steps of SonyTransport. `relinked` is a history
variable: the link now up was established while a press was under way. Some
properties are stated for presses that were not overtaken by a reconnection:
the state is tested once per press and the rest then goes to the new link. That
is how the code is meant, a press is at most 50 ms long.

**ButtonDelivery** is the abstract specification of the Sony remote: the commands of a
press arrive in order, each at most once; a press is given up at the first that is not
known to have arrived; that one alone may still arrive late, before anything else. There
are no threads, flags or handles in it. SonyA7IvRemote implements it (`DeliversButtons`)
under this mapping:

| ButtonDelivery | SonyA7IvRemote |
| --- | --- |
| `todo` | `Remaining`: `todo`, or what it becomes by the result just returned |
| `got` | the app thread is in the wait (`Waiting`) and the camera has answered well |
| `late` | the button of a write in flight for which nobody waits |
| `held`, `relinked` | themselves |

**SonyA7IvInput** composes InputLoop with ButtonDelivery, so that the buttons of the
Flipper, the queue, the app thread and the camera fit one instance. Each step of
`sony_a7_iv_remote_handle_input` that depends on the transport is an action of
ButtonDelivery; the state shown is any, it may change at any time.

**SonyAdvertisement** is the parser, byte by byte: one step per report and one per field.
`reads` is the set of offsets the last step read. Well-formed events come with the list of
reports they were made from (`aired`), which the result is compared with. How reports and
fields lie in the bytes of such an event is `LaidOut`, the assumption on the constant `Airs`;
`OfCamera` and `OffersPairing` say of the data of an advertisement, without any offset, what
it announces. The code is compared with these.

**InputLoop** is the input path of all the apps, mapped to the copy of
`sony_camera_remote.c`, which has nothing else. **HidRemote** adds the keys, the status
callback and the steps of `bt_start`, the loop, `bt_stop` and `free`. It stands for three
programs that are one but for the keys: the Enter remote, its earlier version (same keys,
profile and lifecycle), and the RV/MC/INV remote; `remote` says which one runs, `Mirrors`
and `Taps` say what its buttons do. Its definitions are mapped to whichever copy shows the
code best. The callback is two steps (flag, LED): the app thread may run between them. A
typed shortcut is two steps a letter.

**KeyIdentity** is the identity code for any number of apps, with the bt service,
hosts that pair, and restarts at every step. A file is root keys and bonds, or
`NoFile` for one that is missing or unreadable. Root keys are values; fresh ones
differ from all in use. `intact` is a history variable: the default file was there and
every save has succeeded.

Operators marked "Mutant" in the modules are defective variants of the definition
that follows them; they take no part in the specification. Each shows that the
property named in `PROJECT.json` fails when the code has that defect.

## 3. Runs

Passing runs:

| run | asks | shows |
| --- | --- | --- |
| `transport` | any client, two cameras that share the one handle the controller reuses, notifications, all faults but `discoveryTimeout` | `AttributesOfLinkedCamera`: no late result of another link, camera or operation is kept. `ScanOnlyUnlinked`: no path through the error branches scans over a connection. `StopHangsUp`. `RecordingShown`: the indicator follows the camera linked now. `ReadyMeansUsable` (action property) |
| `remote` | both presses, links break, writes fail, commands are refused | `DeliversButtons`: the app implements ButtonDelivery; in particular no late answer, flag or disconnection is taken for success. `FocusBeforeShutter`. `WriteReachesCamera`: the handle tested at line 564 is still right at 572. `PressLeavesNothingHeld` |
| `settles` | record presses under fairness, and every fault | `AttemptSettles`: *Connecting*, *Pairing* and *Discovering* are always left, but for a connection that was requested and never comes up, and a link that came up in the middle of a press |
| `a7input` | the Sony app's buttons, GUI, app thread and camera interleaved | `ClicksKept`: clicks made while a press waits are kept, in order. `OnePressPerClick`: each makes one press, of its own button. `HoldBackLeaves`: to the exit or to the flooded queue |
| `protocol` | well-formed, truncated and garbled advertising events | `NoReadOutside` the event, or the report; `RecognisesCameras`: the first camera on the air is found, or none |
| `hid` | both HID remotes, three buttons, the GUI, the bt service and a host interleaved | `NoKeyStuck`, `ReportMirrorsButtons`, `ClicksAreTyped`, `LedOnlyIfConnected`; `HoldBackQuits`: holding Back leads to the exit or to the queue flooded on the way out, to nothing else |
| `identity` | two apps, the default profile, two hosts, restarts at each step, failing saves and a missing default file | `IdentityIsStable` whatever fails: the root keys of a healthy app file never change unless the file is lost; `PairingsApart`, `OwnIdentity`, `PairingsSurvive` while nothing has |

Runs that end in a counterexample (section 7): `scanning`, `served`, `exits`, `glows`,
`identity_default`.

Deadlock is checked except where the app really can stop for good on its way out
(`hid`, `exits`, `glows`, `a7input`). An app that has returned stutters (`Exited`,
`Done`), or the user goes on pressing buttons.

## 4. Bounds

- `MaxEvents` (3, or 2 for the app runs): radio events waiting. The radio reports
  the next event when there is room; nothing is lost. Three let a result and its
  completion wait together with a disconnection of their link; the transport
  handles one event at a time and remembers of earlier ones only what is in
  its struct, so longer queues repeat the same pairs.
- Cameras: two in `transport`, because attributes and reports of one camera may
  meet the link of another; one in the app's runs. Handles: one, which is the
  hardest case: every link reuses it and an event of an old link looks like one
  of the new. The cameras are symmetric (`Likewise`).
- `Notices` in `transport`: recording, not recording, and one of another type.
- `Buttons` in `transport`: one; the transport does not look at it.
- `Presses`: both real ones in `remote`; record alone under fairness. In `a7input`
  presses of one and of two commands, since the app does the same after each command but
  the last.
- `QueueSize`: 8 in the code and in `exits` and `glows`; 1 in `hid` and `a7input`, where
  the queue is then full most of the time. `MaxEmitted` = 2 events the GUI has not taken,
  `MaxNotices` = 1 status change not told: sources pause at the bound. With the queue and
  the event being delivered four events are under way: a whole click and the next press.
  `NoKeyStuck` and `LedOnlyIfConnected` are proved for all bounds (section 8).
- `protocol`: events of up to two reports, of up to two fields in the first, each of 13
  kinds: with and without Sony's prefix, pairing set, clear, or cut off, empty, of other
  types and makers; events cut at any byte; events with any byte replaced by one of five.
  The loops keep no state from one report to the next but the offset.
- `RootKeys`: the legacy keys and four more. While files are lost, fresh keys may run out;
  such a behaviour then only restarts, and the proofs of section 8 cover any supply. The
  four are symmetric (`Alike`); the run checks no liveness.

## 5. Fairness

`settles` and `served`: the ble thread and the calls of the app thread are weakly
fair. The firmware schedules both, and the app's waits end: the write wait and
the disconnection wait of `central.c` have timeouts. The radio ends a discovery it is told
to end, closes a link it is told to close, and on a link that is up finishes a pairing and
a GATT procedure, with success or a reported failure (the stack has timeouts for both).
Nothing is assumed of a connection that was requested: `aci_gap_create_connection`
(`central.c:86`) has no timeout, nothing cancels it, and the camera may have gone. Nothing
is assumed of the user, and no fault is ever required to happen or to stop.

`served` also assumes that the cameras stay in range (`InRange`): they advertise, and a
requested link comes up. It ends in a counterexample all the same.

`hid` and `exits`: the app thread, the bt service and the GUI thread are weakly
fair. `a7input`: the app thread and the GUI thread are; a `send_button` ends because its
wait has a timeout. User, host and camera owe nothing.

## 6. Stale completions

`sony_transport_handle_gap_complete` tells completions apart by
`connection_pending` alone. TLC finds the following with two cameras in range and
`discoveryTimeout`:

1. The report of the first camera is handled. Before the discovery is terminated, the
   second camera is reported and the discovery ends by itself; its completion is
   queued behind that report. The termination is refused: the transport scans again.
2. The report of the second camera is handled (`connection_pending` is set again), and
   the second discovery is terminated.
3. The completion of the *first* discovery is taken for that of the second: the
   transport connects. The completion of the second discovery finds
   `connection_pending` still set and connects again, which the controller refuses. The
   error branch resets the connection and scans, while the link of the first request
   comes up.

`ScanOnlyUnlinked` and `AttributesOfLinkedCamera` fail then. They hold with two
cameras when no discovery ends by itself (`transport`), and TLC finds them satisfied with
one camera and every fault: set `Cameras` to `{c1}`, `Notices` to `{}` and all eight faults
in `MCSonyTransport.cfg`, without the symmetry. No text of the repository says what should
happen, so it is listed as a hazard and not as a finding; clearing
`connection_pending` when the connection is requested would rule it out: with that
change TLC finds both properties satisfied with two cameras and every fault but a failed
connection or pairing.

## 7. Findings

Each is the counterexample of one run.

1. `scanning` (`central.c:244`). A general discovery that ends by itself is not
   restarted: its completion is ignored as nothing is pending. The app goes on
   showing "Scanning for camera". The property is violated without that fault, too: the
   app thread, still in `sony_transport_start`, reports *Scanning* (line 121) after
   the ble thread has reported *Connecting*, and a failure to connect may leave it so.
2. `served` (`central.c:120`). `scanning` is set after the radio has accepted the
   command. A report handled in between is dropped, and the duplicate filter does
   not repeat it: with the camera in range and nothing failing the app scans for
   ever.
3. `exits` (`enter.c:136`). After the loop nobody reads `input_queue`. The repeats of
   Back, still held, fill its 8 places; the GUI then waits for room under its
   lock, and `gui_remove_view_port` for that lock. Holding Back long enough hangs
   the Flipper instead of leaving. The window lasts while Bluetooth is torn down.
   The other HID remotes have the same callback and teardown. So has the Sony app, where
   the window is the wait for the disconnection, up to 750 ms (`a7.c:62`;
   `HoldBackLeaves` names it).
4. `glows` (`enter.c:277`). Advertising starts before the status callback is set. The app
   is not told of a host that connects in between, and the LED stays dark as long as that
   host is connected; both READMEs say "When a computer is connected, the Flipper's LED
   glows blue".
5. `identity_default` (`enter.c:289`). If there is no default keys file, going back
   to the default path loads nothing, the service keeps the app's root keys and
   the next pairing of the default profile saves them as its own: a host that paired with
   the app then knows both profiles by the same keys.

## 8. Proofs

All for any constants that satisfy the named assumptions of the modules: any set
of cameras, handles, faults and buttons, any bounds and queue sizes; any bytes; any apps,
hosts and keys. `bytes` of an event are any in `ReadsInside`; `FirstCameraIsTaken` is for
events that are laid out as the assumption on `Airs` says.

**SonyTransportProofs**

- `TypeCorrect`: `Spec => []TypeOK`. `TypeOK` alone is not inductive. A connection is
  requested to `peer_address`, which starts as `NoCamera`, so one must know that a
  pending connection has a camera (`PeerInv`); results are reported for the linked
  camera, so one must know that a link that is not down has one, and a handle once
  it is up (`LinkInv`). `TypeInv` is the conjunction of the three. One lemma per
  part: the radio's steps (`RadioType`), the camera's (`CameraType`), the commands
  (`CommandType`), the scan, the app thread, the ble thread.
- `ReadyIsUsable`: `Spec => ReadyMeansUsable`. The chain of discoveries clears the
  operation, continues on the ble thread, and may be interfered with by a send, a
  timeout or a stop of the app thread. `ChainInv` says that while the transport is
  started, the attributes that precede the operation in progress (and the one being
  continued) in the chain have been found. It needs `SessionInv`: the app thread
  resets the connection only before the ble thread has anything to do, or
  after `started` is cleared.

The rest is for a radio that does not end a discovery by itself
(`"discoveryTimeout" \notin Faults`; section 6 says what happens otherwise):

- `ScansUnlinked`: `Spec => []ScanOnlyUnlinked`, and `HangsUp`: `Spec => []StopHangsUp`. The
  transport knows the link only from events it handles late, so the induction is about what
  waits in `inbox`. `EpochInv`: without a handle nothing completes, and the link events
  waiting are none, a failure, a connection, or a connection and its end (`Unaware`); with a
  handle there are none and the link has that handle, or exactly its end, with no
  completion behind it (`Aware`). `SeekInv`: while either thread seeks a camera, or a
  discovery runs or its end waits, nothing is linked and no link event waits. `GapInv`:
  one discovery at a time, ended once, and by then either the ble thread is to connect or
  the app thread stops; without it a second end of the discovery would connect twice.
  `HangInv`: while the app thread hangs up on a link it lost, no other comes up.
- `KeepsAttributes`: `Spec => []AttributesOfLinkedCamera`. A result does not say which operation
  it answers, and both characteristics come with the same event. `FoundInv`: at most one
  discovery is under way or its result waits (`SeekOnce`), it is of what the operation in
  progress looks for, and once that is found nothing is sought any more; what the later
  operations look for is not found yet (`Ahead`), so that each attribute is sought once per
  link. The app thread may overwrite the operation meanwhile: then a result is ignored.
  A camera is paired with before anything is sought on it (`PairFirst`). No link comes up
  while there is a handle, nor before the attributes of the last one are forgotten
  (`KeptInv`); so that a reused handle does not matter.
- `ShowsRecording`: `Spec => []RecordingShown`. Notifications wait in `inbox` behind results,
  completions and the end of their link. `ToldInv`: a link notifies only once subscribed to,
  hence after its status attribute was found (or the comparison would drop what it says);
  none waits behind the end of its link or while there is no handle; all that wait carry the
  handle and attribute in use; and what the camera told last is the last recording
  notification that waits, or the indicator's if none does.

**ButtonDeliveryProofs**, **SonyA7IvRemoteProofs**

- `FocusesFirst`: `ButtonDelivery!Spec => FocusBeforeShutter`, for any presses that focus
  before they release. The induction needs that in what is left of a press the full press
  follows the half-press (`Ordered`), and that the camera focuses when the full press is
  next or late and no late command can end that (`FocusInv`).
- `Delivers`: `AppSpec => DeliversButtons`, for the same radio. Nothing in the
  flag that wakes `send_button` says which write completed, and the operation that tells
  the ble thread what completed is overwritten by the app thread. The refinement holds
  because, unless the link came up in the middle of the press, at most one procedure is
  under way or completed and not handled (`OneAtATime`), and the camera is either being set
  up, with no press under way (`Setup`), or served, and all that completes are writes
  (`Calm`): an awaited one that `conn.written` calls a success was acknowledged. After a
  timeout this takes that the operation stays `WriteButton` until the late completion is
  handled, so that no other write starts. `PressInv` is that; `TaskInv` and `WriteInv`
  relate the app thread to its press and its write. `AppInv` adds the invariants of the
  transport. `StepDelivers` then maps each step to one of ButtonDelivery or a stutter.
- `NeverUnfocused`: `AppSpec => FocusBeforeShutter`, from `Delivers` and `FocusesFirst`, whose
  assumption on presses is shown for those of the app (`PressesFocus`).
- `NothingStaysHeld`: `AppSpec => []PressLeavesNothingHeld`, for the same radio. A press that
  is delivered undoes what it did, so what matters is that it begins with nothing held.
  `HeldInv`: while a press is under way the camera holds what its course prescribes
  (`OnCourse`, one command further once the camera executed it), and a camera is served
  once per link: before, nothing is held (`New`), and once it is, nothing but writes can
  complete and lead to Ready again (`Served`). Hence after a press that was given up, which
  may well leave a button held, no other begins on that link.
- `ReachesCamera`: `AppSpec => []WriteReachesCamera`, for the same radio. `ReachInv`: between the
  test of the command attribute and the write there is no connection or the attribute is
  still found, for a connection that replaced the one tested would come up in the middle
  of the press; by `FoundInv` what is found is of the camera linked.
- `AppTypeCorrect`: `AppSpec => []AppTypeOK`, for all faults.

**SonyAdvertisementProofs**

- `ReadsInside`: `NoReadOutside` for any events. `Inside` says that the report at hand
  fits the event while its fields are read; that each field fits the report is tested
  before it is read.
- `FirstCameraIsTaken`: `Spec => []RecognisesCameras`, for events of any number of reports and
  fields. `Parse` relates the offsets to the layout: `offset` is where report `index + 1`
  starts and none before it is a camera's; `field` is the place of some field of it (or of its
  end) and none before it is manufacturer data. The lemmas ending in `Read` say what the
  sizes, counts and data read at those offsets are; one lemma per step follows.

**InputLoopProofs**, **HidRemoteProofs**

- `TypeCorrect`, and `EveryClickIsTyped`: `Spec => []ClicksAreTyped`. The property speaks of the
  concatenation of what the events on their way will tap, so the proofs need how it changes
  when an event is emitted, moved or taken (`Words`, with lemmas for an event put at the end,
  taken from the front, and for one that adds nothing). `FlattenSeq` is a recursive function:
  that it exists and what it is on longer sequences is shown by induction over their length,
  as an argument on the least number that fails (`Induction`). `OwedInv` is then inductive.
- `ReportMirrors`: `Spec => []ReportMirrorsButtons`. It holds only once nothing is on its way, so
  the induction is about what is: `MirrorInv` takes for each button what the report says of it
  followed by the presses and releases on their way (`Account`); the last of them is how the
  button is. And a tap never touches the key of a mirrored button.
- `NoKeySticks`: `NoKeyStuck` of both remotes for any buttons, queue size and bounds. The
  induction needs `Answered`, a fact about the stream of events (InputLoopProofs): for
  every press on its way, the button is still held or its release is on its way behind
  the press. `KeyInv` then says of every key in the report, but the one being tapped, that
  its button is held or has its release on the way, and that the host knows of no key the
  report does not have.
- `LedNeedsHost`: `LedOnlyIfConnected`, which is one-way (finding 4). `LedInv`: the last
  notice still to be told is the link; with none left, the flag `connected` is the link; and
  what is being told agrees with the flag.

**SonyA7IvInputProofs**

- `AppTypeCorrect`, `ClicksAreKept` and `PressesAreClicks`: `AppTypeOK`, `ClicksKept` and
  `OnePressPerClick`, for any presses, queue and bounds, with the same `Words` for the clicks
  on their way (`ClicksInv`).
- `ClicksDeliver`: the composition implements ButtonDelivery; hence `ClicksFocus`,
  `AppSpec => FocusBeforeShutter`: no sequence of clicks releases the shutter without
  focusing.

**KeyIdentityProofs**

- `TypeCorrect`, with `PathInv`: whose file is in use and who serves at each point of
  an app's life.
- `StableIdentity`: `Spec => IdentityIsStable` for all faults. What could replace the keys of
  a healthy file is a pairing, which saves what is in RAM. `ServesFromFile` says that
  whenever a pairing may come RAM has the root keys of the file of the profile that serves,
  if there is such a file; between `SetPath` and the load nobody connects.
- `IdentitiesApart`, `ServesAsItself`, `PairingsStayGood`: `PairingsApart`, `OwnIdentity`,
  `PairingsSurvive`. `IntactHealthy` is their common invariant: while `intact` holds, what
  each file holds and each host remembers is one relation between profiles and keys, no
  two files share keys but legacy ones not yet repaired, and a file in use is healthy.

Every invariant and every action property of the passing runs is stated by one of these
theorems. Only model-checked:

- All liveness: `AttemptSettles`, `HoldBackQuits`, `HoldBackLeaves`. The prover has no rule for
  fairness and `ENABLED`.
- The theorems about a radio that does not end a discovery by itself cover any number of
  cameras; with one camera and that fault there is only TLC (section 6).

## 9. Limits

Not modelled, and why:

- Links in the peripheral role (a computer connecting to the Flipper):
  `sony_transport_handle_connected` treats them as failed connections and scans again;
  the app stops advertising before it scans, so none is expected. Pairing started by the
  camera: there is no code for it.
- The mutex of `send_button`: one thread calls it. Memory: a handler that outlives
  `sony_transport_stop` would use a freed struct; ordering that is up to the
  firmware's `ble_event_dispatcher`. For the same reason `ReadyMeansUsable` is about a
  started transport.
- The bytes of a button packet: a constant table, copied to the radio. Drawing, texts, log
  lines. The LED colours of the Sony app, which are set outside its mutex.
- The stub `sony_transport.c`, which does nothing but report *Unavailable*, and all of the
  scaffold but its input path.
- Some windows of a few instructions between unlocked accesses. `send_button` reads the
  connection handle and the command handle for its write in one step (lines 571-573): only a
  write with one handle from before a reset and one from after is lost, which the radio
  refuses or the camera answers with an error. `handle_gatt_complete` clears the operation,
  sets `write_success` and the flag of a completed write in one step (lines 353-358).
- The state *Unavailable*: only the stub reports it.
- Durations. A timeout may come at any time; delays of 12 and 50 ms have no effect but to
  let other threads run.

Claims that are narrower than one may expect:

- `PairingsApart`, `OwnIdentity` and `PairingsSurvive` are about files that were never lost
  (`intact`); finding 5 shows what happens to the default profile otherwise. To the apps: if
  the new keys file cannot be written, `enter_remote_ensure_own_identity` logs that
  (`enter.c:242`) and Bluetooth starts all the same. No file is loaded then, and the app
  serves with the root keys that are still in RAM, the default profile's. What pairs with
  it is saved with those keys, found unhealthy at the next launch and replaced, so that the
  host's pairing is lost as well. `IdentityIsStable` needs no such condition, but is about
  the file: an app that has lost it gets another identity.
- The default profile's root keys never change while its file is there, and two apps do not
  start with files left by older versions that hold the same root keys, unless these are the
  default profile's or the legacy ones. Two apps with the same older keys would both be found
  healthy.
- A restart tears the file that `enter_remote_ensure_own_identity` writes. One that tears the
  service's own save is a failed save of `Pair` followed by a restart.
- `AttemptSettles` excepts a requested connection that never comes up (section 5): the app
  then goes on showing *Connecting* until the user leaves. It also excepts a link that came
  up in the middle of a press: the next command of that press may overwrite the operation of
  the discovery that follows.
- `WriteReachesCamera` and `PressLeavesNothingHeld` except such a link, too.
- `RecognisesCameras` decides at the first manufacturer field of an advertisement, as the
  code does. `sony_protocol.h` says "True when a BLE AD structure contains Sony camera
  manufacturer data", which would hold of a later field as well.

Behaviours a maintainer should know, which no text of the repository rules out:

- A requested connection that never comes up is never cancelled (`central.c:86`).
- stop leaves a connection that is still being established, or that was
  established while stopping, as it is (`central.c:539`).
- A press given up half-way sends no release: a button that the camera has taken as pressed
  stays so until a later press or the end of the link (`a7.c:95`). The README's "restore the
  shutter state" describes the whole press.
- After a send that timed out the app shows an error until the camera reconnects,
  although the link is good (`a7.c:123`).
- The recording indicator is stale after a reconnection until the camera notifies.
- The LED may be turned on by a callback already running when the app resets it
  (`enter.c:283`).

## 10. Plan and its state

Done, in this order: SonyRadio and SonyTransport (the concurrent core), the app on
top of it, the input path and the Enter remote, the identities; then the abstract
ButtonDelivery and its refinement, the parser of advertisements, all HID remotes in one
module, the composition of the input path with the Sony app, and the proofs of section 8.

Left:

1. The theorems of the transport for one camera and a radio that may end a discovery by
   itself, where section 6 shows that two cameras would not do.
