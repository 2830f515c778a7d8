# VM-share: specifications, checks and proofs

VM-share gives each logged-in user one QEMU virtual machine, shown in the browser by noVNC.  A FastAPI
server starts QEMU and a websockify bridge per VM, keeps the session in Redis, and takes everything down
when the browser disconnects, the user logs out or the server stops.  This directory holds TLA+ modules
translated from that code, on the server and in the browser, the TLC runs that check them, and theorems
about them proved with TLAPS.

All source paths below are relative to `src/app/`; `scripts/` is `static/scripts/`, and `core/` is
`static/novnc-ui/core/`.

## 1. The system

### Components

| Component | State | Operations | Modelled in |
|---|---|---|---|
| Session store, `methods/manager/SessionManager.py` | Redis: `vm:{vmid}`, `vms:active`, `user:{uid}:vms`, `vms:by_os:{os}`, `vm:by_pid:{pid}` | `set`, `update`, `delete`, `get`, `get_running_by_user`, `items` | `SessionStore` |
| Launch handlers, `routers/vm.py` | the stage of a request | `/run-script`, `/run-iso`, `/run_snapshot` | `VmLifecycle` |
| QEMU manager, `methods/manager/OverlayManager.py` | overlay, socket and pid files, QEMU processes | `create_overlay`, `boot_vm`, `boot_from_iso`, `create_disk_snapshot` | `VmLifecycle`, `SnapshotQuota` |
| websockify service, `methods/manager/WebsockifyService.py` | websockify processes, one monitor thread each | `start`, the monitor loop | `VmLifecycle` |
| Cleanup, `utils.py`, logout in `routers/auth.py`, `lifespan` in `main.py` | threads inside `cleanup_vm`, the list a shutdown works through | `cleanup_vm`, `logout_user`, shutdown, restart | `VmLifecycle` |
| Snapshots and quota, `routers/vm.py` | snapshot files, `users.snapshot_stored` | `/snapshot`, `/remove_snapshot` | `SnapshotQuota` |
| Resource watchdog, `observability/utils_observability.py` | timers and flags of CPU, RAM and disk | one round of `resource_watchdog` | `Watchdog` |
| ISO upload, `routers/post.py` | the user's ISO file | `/api/post` | one step of `VmLifecycle`; `IsoUpload` is planned |
| Landing page, `scripts/script.js` | carousel of slides and their clones, button and file input on every copy of the own image's slide, click handlers in progress | arrows, resizes, launch, upload, leave | `LandingPage`, `FrontEnd` |
| Profile page, `scripts/profile.js` | role, section shown, tables with the requests behind them | hash changes, fetches, row buttons, log out | `ProfilePage`, `FrontEnd` |
| noVNC pointer, `core/input/gesturehandler.js` and the mouse, wheel and gesture handlers of `core/rfb.js` | touches, two timers, button mask, delayed move | every touch, mouse and wheel event, both timeouts | `Gestures`, `Pointer` |
| noVNC keyboard, `core/input/keyboard.js`, `sendKey` and `_handleKeyEvent` of `core/rfb.js` | list of keys that are down, AltGr timer, lock states | key events, focus, view-only, LED updates | `Keyboard` |
| noVNC session, `core/rfb.js`, `core/websock.js`, `core/ra2.js` | connection state, channel, handshake | socket events, messages of every security type, prompts, disconnect and its timer | `RfbSession` |
| noVNC size of the session, `core/rfb.js`, `core/display.js` | viewport, scale, remote size, resize timer | window and desktop resizes, modes, drags | `RfbResize` |
| noVNC messages and display, `core/rfb.js`, `core/websock.js`, `core/decoders/`, `core/display.js` | receive queue, decoder states, render queue | messages, rectangles, image loads, flush | `RfbStream`, `Display` |
| Registration and login, `routers/auth.py`, `methods/auth/auth.py` | `users` rows, cookies | `/register`, `/login` | planned (`Registration`) |
| Metrics collector, `observability/metrics.py` | process cache, per-user series | one round of `metrics_collector` | planned (`Metrics`) |
| Process registry, `methods/manager/ProcessManager.py` | a dictionary | `set`; `stop` and `stop_all` have no caller | no: nothing depends on it |
| Other metrics, reports, Grafana proxy, session listings, noVNC's tables, ciphers, inflation and cursor | none that the program acts on | | no |

### How they interact

A launch handler asks the store for a running VM of the user, and when there is none creates an overlay
(built-in systems), boots QEMU (`boot_vm`, `boot_from_iso`), starts websockify and its monitor thread,
for an ISO waits until websockify listens, and finally calls `store.set`.  The monitor thread reads
websockify's output: a line about a client bumps `last_seen`, and a line about a client that left runs
`cleanup_vm`; when the output ends and `poll()` reports an exit, it runs `cleanup_vm` once more.
`/logout` and the shutdown in `lifespan` run `cleanup_vm` and then `store.delete` again.  `cleanup_vm`
reads the session, signals the pid in it, unlinks the overlay or ISO and the sockets, and deletes the
session: a read of the hash, then a pipeline that clears the indices which that hash names.

The threads, QEMU and websockify share state only through Redis, files and signals.  Handlers declared
`async def` without an `await` exclude each other within one server process; monitor threads, logout
(a plain `def`, run in the thread pool) and other server processes interleave with them anywhere.

In the browser, a document's script reacts to clicks, hash changes, timers and answers of requests; each
handler runs to its end or to its next `await`, and nothing cancels a request whose answer is no longer
wanted.  The console page (`vnc.html`) creates one `RFB` object on the websockify bridge.  That object
reads a byte stream that the network cuts anywhere, answers the handshake, keeps at most one update
request in flight until the server sends updates by itself, draws through a queue that waits for images, and turns the user's keys, mouse and
fingers into messages.  The page's disconnect button requests `/disconnect`, which no router answers, and
then closes the channel: that is the disconnect which the monitor thread on the server reads.

### What is hard here

- the one-VM check and the `store.set` that makes it fail are far apart, and failures lie between them;
- several threads clean up one VM at the same time, each working from a hash it read earlier;
- `update` is an `HSET` and brings a deleted hash back with nothing in it but `last_seen`;
- `delete` is two round trips, and a snapshot launches under the vmid of an earlier VM, so that a late
  delete can hit a newer session;
- the monitor starts before the session exists, and an end of output is seen before an exit status;
- a snapshot reads the quota row, waits up to 300 seconds for QEMU and then writes the row; what it charges
  is measured on other files, and in another unit, than what a removal frees;
- the watchdog keeps two timers and a flag per resource through exceptions at any point of a round;
- a resize of the landing page clones slides with the state of their buttons and makes clones the real
  slides, while an upload goes on that knows one of the copies;
- in the browser, two clicks, two uploads or two requests of one table are under way at once, and their
  answers come in any order, also after the section or the document was left;
- the gesture handler decides between eight gestures from fingers and two timers, and the mouse button
  it holds for a gesture must be released whichever way the gesture goes on;
- key events are lost, doubled, or held back (AltGr) by each system in its own way, and what the guest
  believes to be held must still be what the user holds;
- the handshake and the decoders start over whenever bytes are missing, so that nothing they did before
  may be done twice or forgotten; RSA-AES runs between awaits beside all this;
- an update may have to wait for images before its first rectangle, if it has one, while messages and
  timers go on;
- the desktop, the window and the viewport change size at the same time, by both sides.

`PROJECT.json` lists these hazards one by one, each at its line and with the properties that cover it.

### What makes each component correct

- Session store: a stored session is in all of its indices, and the indices name sessions only.
- Launch and cleanup: one VM per user; every VM that nobody told to stop is named by a session; no
  cleanup takes files from under a running VM; nothing stays behind a VM that had a session; handlers
  answer, disconnects and logouts end the VM.
- Snapshots: the row stays within `0..capacity`; a user who keeps no snapshot uses nothing (the code breaks
  this).
- Watchdog: reports stand on a whole window of readings, none is missed, and none repeats too soon.
- Pages: the carousel stands at a slide that exists; a button, on every copy of its slide, can be clicked
  when its click can succeed; the section shown is the one of the hash and the role; a table shows the
  answer to its last request, and nothing that was removed (copies and late answers break this).
- Pointer and keyboard: the server holds no button and no key that the user does not hold, and learns
  where the pointer is; a held gesture ends.
- Session: events are announced once and in order; a session that ends lets go of channel, keyboard and
  timers; a handshake ends.  The viewport lies inside the desktop, and desktop and window agree.
- Stream: the parser stands at the field it is about to read, uses all that came, and asks for one update
  at a time, and never for none (an empty update breaks this); drawings appear in order, and a wait for the display ends.
- ISO upload (planned): the file on disk is one upload as a whole, and never above the size cap.
- Registration (planned): at most one row per login, and a loser is told so.
- Metrics (planned): no series of a user, and no cached process, outlives what it describes.

## 2. Modules

    SessionStore  <- VmLifecycle  <- MCVmLifecycle
                       |  Lease == INSTANCE OneVmLease
                       +- VmLifecycleProofs
    SnapshotQuota <- MCSnapshotQuota, SnapshotQuotaProofs
    Watchdog      <- WatchdogProofs

    LandingPage, ProfilePage <- FrontEnd <- MCFrontEnd, FrontEndProofs
    Gestures   <- Pointer   <- MCPointer, PointerProofs
    Keyboard   <- MCKeyboard, KeyboardProofs
    RfbSession <- RfbResize <- RfbResizeProofs
    Display    <- RfbStream <- StreamProofs

Definitions that `PROJECT.json` maps carry the source lines they translate.  A definition introduced as
a "faulty variant" is no part of a specification: it is a plausible mistake in the operator below it,
kept to show that a property notices.

### SessionStore

The five groups of Redis keys and one operator per command or `MULTI`/`EXEC` pipeline.  A payload is
abstracted to the launch that built it (`Owner`, `Os` and the launch stand for `user_id`, `os_type` and
`pid`).  `Ghost` is a hash with `last_seen` only.  `Window` is the 6 of `zrevrange(..., 0, 5)`.

### VmLifecycle

Extends the store with server processes (`Workers`), launches, threads, files and external processes.

| Code | Model |
|---|---|
| a handler between check and answer | `job[w]`, `stage[l]`; `Request`, then `CreateOverlay`, `Boot`, `StartBridge`, `WaitListen`, `SetSession` or one of the failures |
| monitor thread, logout, shutdown | `thr[t]` for a launch, a user, a worker |
| `cleanup_vm` and `store.delete` | `CleanGet`, `CleanKill`, `CleanFiles`, `DeleteRead`, `DeletePipe`: one step for each read or write others can see in between |
| the monitor's loop and `finally` | `MonitorLine`, `MonitorEof` |
| `/logout` | `Logout`; `ret = "again"` is the second `store.delete` |
| `lifespan` | `Shutdown`, `ShutdownNext`, `ShutdownDone`, `Restart` |
| QEMU, websockify, browsers | `QemuExits`, `BridgeExits`, `BridgeReaped`, `Connect`, `Disconnect`, `TargetCloses` |
| what may go wrong | members of `Events`: image, qemu, pidfile, start, listen, store (stages that fail), exit, poweroff, shutdown, crash |

No handler stores `websockify_pid`, so `CleanKill` signals websockify only through the `pkill -f vmid`
that a hash without a pid falls back on.

`OneVmLease` is the abstract specification: a launch runs when its owner has nothing running, runs once,
ends for good.  `Lease` in `VmLifecycle` maps QEMU processes to it.

### SnapshotQuota

The row, the snapshot and overlay files of one user, what QEMU has for a disk, and one request per server
process.  Requests move through the stages `charge`, `drop`, `backup`, `wait`, `bill` (create) and
`unlink`, `refund` (remove); VMs are launched, write and stop beside them.  A file has the two sizes that
the code reads: what it `takes` (`st_blocks * 512`, for the charge) and how `long` it is (`st_size`, for
the refund).  They are independent, and so is the file a backup writes from what was charged: qcow2 is
sparse, `sync=full` merges two files, and the guest writes meanwhile.  `ToMb` rounds up.  The two handlers have no `await`, so one process runs one of them at a time; the steps are there for other
processes, QEMU and the monitors.

### Watchdog

One action per section of a round and outcome: `Quiet`, `Raise`, `Recover`, `RaiseFails`,
`RecoverFails` for CPU and RAM, four actions for the disk, `ReadFails`, `Wake`, `Stop`.  A reading is
high or not.  `seen` and `raised` record what was read and reported and are used by properties only.

### Gestures and Pointer

`Gestures` is `GestureHandler`: `TouchStart`, `TouchMove`, `TouchEnd`, the long-press timer and the
two-touch timer, with the bit mask of possible gestures as a set.  Distances and angles decide which
gestures a move rules out; that choice is open.  Time since the first touch and the first release is
counted in ticks, up to the timeouts.  `emitted` is what a handler dispatched, and `open` the
gesture that was started and not ended.

`Pointer` extends it with the listeners of `rfb.js`: because events are dispatched synchronously, a step
of the gesture handler includes what `RFB` makes of them.  `rfb` holds the button mask, the delayed move
and its timer, the viewport drag, the wheel's accumulators, and the last message sent.  `captured` is
`setCapture` of `core/util/events.js`.

### Keyboard

| Field | Code |
|---|---|
| `k.list` | `_keyDownList` |
| `k.armed` | `_altGrArmed` with its timer |
| `k.held` | what the server believes, from the messages of `sendKey` |
| `k.remote`, `k.server`, `k.leds` | `_remoteCapsLock`, the server's lock, LED updates on their way |
| `phys`, `fake`, `due`, `caps` | the user's fingers, Windows' extra Control before AltGr, the user's lock |
| `apart`, `muted` | keys the client cannot know of (an event went elsewhere); view-only came while keys were down |

### RfbSession and RfbResize

`c` is the connection (`_rfbConnectionState`, the disconnect timer, the channel and its handlers, the
events announced), `h` the handshake (the init state, the receive queue, what is waited for), `loop` says
whether a handler is reading messages, `wire` holds what is on its way, `ui` the prompts in front of the
user.  A message is two units, so that every message may be cut.  Every security type is followed to its
end: none, VNC, RSA-AES with its awaits, Tight with tunnels and sub-types, VeNCrypt, XVP, ARD, MS-Logon
II, plain, and the results in all versions.

`RfbResize` adds one record `r` with the sizes of window, desktop, frame buffer and viewport, the
observer, frame request and resize timer, and the `SetDesktopSize` exchange.

### Display and RfbStream

`Display` is the render queue `d`: `Draw`, `Image`, `Flip`, `Flush` and the scan that an image's load
continues.  A drawing is its number.  `RfbStream` is everything read after `ServerInit`: `p` is the parser
with the decoders' memories, `q` the receive queue, `wire` the fields still under way, `at` whether a
handler runs, `srv` a legal server.  A unit is a field that the code reads in one go; it carries the
choice that decides what follows (a Hextile sub-encoding, a Tight filter, a JPEG segment).  `Expected`,
what the parser is about to read, is written with IFs: its first form was a CASE whose arms overlapped
for a Tight rectangle, of which TLA+ may take either; TLC took the first, the proof could not.

### LandingPage, ProfilePage and FrontEnd

`LandingPage` is the carousel `car` with its position and its track of slides, and the click handlers
`flows`, each between its authentication request, upload, launch and answer.  A slide carries the file of
its input and the state and text of its button.  `SetupClones` copies all three, as `cloneNode` does, and
keeps as real slides what a slice of the track with the new number in view keeps, clones included.  A
handler knows its slide by its index (`at`); a rebuild that drops the slide leaves the handler with
elements nobody sees.  Clicks and choices of files happen on any copy.  `wrong` exists in the model only:
it marks what of a slide's button may not be what the input says, because the slide was copied during an
upload, or because a second upload began during the first.

`ProfilePage` has `hash`, `me`, `shown`, and per table the requests sent, waiting, shown and failed; an
answer is appended to what is shown, and an error in JSON is a table without rows.  `FrontEnd` composes
the pages into documents: a script goes on until its document is left, and starts anew in the next.

## 3. Runs

Runs that pass:

| Run | States | Question and bounds |
|---|---|---|
| `lifecycle` | 313,071 | One server process, an overlay and an ISO launch of one user with own vmids, launches failing before QEMU exists, one connection each, logouts, shutdown and restart. Checks one VM per user, sessions, indices, files, shutdown and the refinement of `OneVmLease`. |
| `recovery` | 1,261,224 | Two launches of one snapshot share a vmid; websockify exits, the server crashes and restarts. Checks that indices and hashes agree. |
| `live` | 22,712 | One ISO launch with every failure except a crash, two connections. Checks liveness. |
| `quota_workers` | 2,258,267 | Two processes, two VMs, every failure and guest writes, files that take and are long nothing or three half megabytes, independently. The row stays within bounds. |
| `watchdog` | 449,950 | CPU and disk over ten seconds, a window of two, rounds after one or three seconds. |
| `pointer` | 610,120 | Four fingers or a mouse with two buttons and a wheel, two points. Gestures keep their books, held gestures end, the server's buttons and position are the user's. |
| `keyboard` | 1,495,838 | On each platform the keys it treats specially, a letter and CapsLock; focus, view-only, lost events, LED updates. What the guest holds is what the user holds. |
| `session` | 450,620 | Every version kind and security type, one message after the handshake, two widths, two changes. Events, end, viewport, sizes, and that a handshake ends. |
| `stream` | 847,454 | Seventeen encodings, five messages, two rectangles, updates of none included. Parser, queue, requests and drawing order, and that a flush ends. |
| `page` | 1,150,730 | Four slides, three widths, two handlers that overlap, five clicks, choices of a file and resizes in a visit, two snapshots, three requests. Position of the carousel, the button of every copy, sections and tables. |

Two runs find a disagreement between the documentation and the code (listed as findings):

| Run | What TLC shows |
|---|---|
| `retry` | A launch whose websockify does not start leaves QEMU without a session; the retry starts a second VM of the user (`docs/LIFECYCLE.md`: one VM per logged-in user). |
| `quota` | With one process and no failure, a snapshot is charged 2 MB of blocks and its removal frees the 1 MB it is long: the user keeps nothing and is charged for 1 MB (`docs/API.md`: `snapshot_stored` is the used MB). A snapshot that replaces another has the same effect, since nothing is freed for the old file. |

Three more disagreements, with comments in the browser's code, are stated by invariants that no run has.
The property that a run does have names the same case as its exception; with the invariant added to the
cfg, TLC refutes it:

| Invariant, cfg | What TLC shows |
|---|---|
| `UpdatesGoOn`, `stream.cfg` | An update of no rectangles finds an image still being decoded: the parser stops with no rectangle left, so the flush resumes with the next message, and neither the flip nor the next request happens (`core/rfb.js:2630`, "Resume processing"). Without continuous updates the screen freezes. |
| `ClonesWork`, `page.cfg` | A resize during an upload copies the slide with its disabled button; after the upload the copy is still disabled at "Uploading..." (`scripts/script.js:384`, "EVENT DELEGATION (works for clones)"). |
| `RefreshedAfterRemoval`, `page.cfg` | The answer to a request sent before a removal comes last, and is appended as a second table with the removed snapshot (`scripts/profile.js:422`, "refresh table"). |

Other behaviours met while modelling the server, which the models contain and no property denies:

- `cleanup_vm` does not tell websockify to stop (nobody stores `websockify_pid`); websockify ends when
  the VM's socket does.  `docs/LIFECYCLE.md` says that it is stopped.
- When websockify exits before `store.set`, the cleanup that its exit triggers finds no session, and the
  VM stays until a logout or a shutdown.
- The second `store.delete` of a logout can remove the session of a newer launch of the same snapshot.
- When QEMU ends during a backup, the part of the file that was written stays and is charged to nobody.
- A backup may write more than was charged, and a snapshot that runs grows without being charged.

And in the browser.  Where a property would be false because of one of these, it says so:

- Pages: resizes leave the carousel's slides out of order, or lose some.  The second of two overlapping
  uploads remembers "Uploading..." as the button's text, and a copy made during an upload has that text for
  good.  Choosing a file enables the button during an upload.  The buttons of built-in systems are never disabled, so a double click sends two launches.  Rows drawn anew have their buttons enabled again.  An
  administrator who opens the overview before `/auth/me` answers is sent to the payments.
- Pointer: a two-touch timer's id is not cleared when it fires, and the next tap is lost.  A two-finger
  gesture can start after one finger was lifted.  A wheel turned during a viewport drag leaves its button
  pressed.  Of two mouse buttons, the first release ends the capture.
- Keyboard: keys whose release went to another element stay listed until the window loses the focus;
  releases that happen while view-only is set, or after a disconnect, are not sent.
- Session: the loop of `_handleMessage` goes on once more after `_fail`.  Bytes that came with
  `ServerInit` wait for the next chunk.  RSA-AES reads a field it did not wait for, and its promise sets
  an init state after a failure.  A second `sendCredentials` loses an ARD answer that was computed.
- Size: when `_handleResize` finds the size it had saved it asks for nothing, and window and desktop may
  stay different.
- Stream: a fence is answered while images of an earlier update are still queued.  An image that never
  loads leaves the queue waiting.  After a second `EndOfContinuousUpdates` no update is requested.

### Why these bounds

- The properties of the life cycle relate two launches at most (of one user, of one vmid), or a launch
  and the cleanups of it.  One user and two launches give every such pair; users share no key that one
  of them owns.  A third launch would only repeat what follows the first two.
- Connections matter as "none", "one", "one more after a cleanup began": `MaxConns` is 1, and 2 where
  `DisconnectEndsVm` asks about a second client.
- A user has one logout in progress at a time.  With the monitor, which cleans up for several lines one
  after the other, and the shutdown, three cleanups of one VM overlap.
- `Window` keeps its value 6: `UserIndexExact` is the reason why it is never full.
- Quota: a megabyte is two units, so that sums are rounded up from halves.  A file takes, and is long,
  nothing or three units, which gives the fallback to the length, the empty backup, a charge above the
  refund and one below; a base image of one unit makes charges of one and two megabytes, and the capacity
  holds the larger one once.  Two server processes give every lost update.
- A window of two seconds with rounds of one and three gives windows with one, two and three readings.
  Ten seconds are enough for alert, recovery and a second alert.  RAM repeats CPU and is left out of the
  run; the proofs cover all three resources.
- Fingers: three make every gesture, and a fourth is the one that is ignored.  The timeouts (250 ms and
  1 s) become one and two ticks, which keeps their order; before, at and after each of them is reached.
  A mouse button below bit 7 and one above it, and two points, give every message.  A behaviour uses the
  mouse or the fingers: they share only the mask, and browsers turn a touch into no mouse events here,
  because the handler prevents the default.
- Keys: only the keys of one platform meet its special cases (AltGr's Control and the lost second Shift
  on Windows, Meta on macOS, `Unidentified` and locks anywhere); a letter stands for all plain keys.
  One LED update at a time is what a lock that the client corrects produces.
- Session: a version stands for a class that the code treats alike (3.7
  offers types as 3.8 does and ends as 3.3 does, and occurs in the proofs).  One message after the handshake shows the connected loop.  Two
  widths make window, desktop and viewport smaller, equal and larger; two changes overlap.
- Stream: two rectangles show what one decoder leaves to the next, within one update or between two; a
  rectangle has size 0, 1 or 2, which gives the empty, the single and the repeated case of each loop.
- Pages: four slides with one to three in view give clones that overlap the slides and clones that do
  not, and a first and a later rebuild.  Two handlers overlap in every way, on one slide, on copies of it
  or on a slide that was dropped; five acts (`MaxActs`) are a file, two clicks and two resizes between them,
  or a file chosen anew in between.  Two snapshots and three requests give every order of answers.
- Launches are finite and a server without requests rests, so the life-cycle runs set
  `CHECK_DEADLOCK FALSE`; the watchdog stops by design, and its clock ends at `MaxTime`.  A page, a
  session and a stream rest when the user does nothing and the bounded messages are sent.

### Fairness

`FairSpec` assumes weak fairness of a handler that runs (it has no `await`, it polls with deadlines, and
the commands it runs end), of each thread inside `cleanup_vm`, of a monitor with something to read, of
the shutdown loop, and of the exit of a process that was signalled or is exiting. Requests, browsers,
failures, crashes and restarts are owed nothing. A thread that is killed with its process takes no more
steps, which is why `live` has no crash; `recovery` covers what a crash leaves behind.

`RfbSession` and `RfbStream` assume weak fairness of what a browser does by itself: a handler that is
reading goes on, timers fire, promises settle, images load.  For the handshake, the channel opens and
delivers, and the user answers the prompts; nobody need disconnect and a socket need not report its
close.  A server that stops sending would leave a client connecting for ever: the code has no timeout for
it, so the server is assumed to answer.  `FlushEnds` assumes that every image loads.

The pages, the pointer and the keyboard assume no fairness: their properties are about what handlers do,
not about whether users or answers come.

## 4. Proofs

All theorems hold for any number of users, launches, vmids, server processes, connections, sizes,
seconds, messages, fingers, keys, slides, clicks and requests, within the named assumptions.

| Theorem | Module | Says |
|---|---|---|
| `TypeCorrect` | `VmLifecycleProofs` | `Spec => []TypeOK` |
| `StoreConsistent` | `VmLifecycleProofs` | `Spec => []SessionIndexed` and `[]ActiveHasSession`, with every failure and with shared vmids |
| `VmKeepsSessionAndFiles` | `VmLifecycleProofs` | under `Fresh`: `[](SessionTracksVm /\ RunningVmKeepsFiles)`, with every failure and any number of processes |
| `OverlaysAreHeld` | `VmLifecycleProofs` | under `Fresh`: `[]NoStrayOverlay`, with every failure, crash and any number of processes |
| `OneVmAndExactIndex` | `VmLifecycleProofs` | under `Fresh`, `SingleWorker`, `CleanLaunches`: `[](OneVmPerUser /\ UserIndexExact)` |
| `ImplementsLease` | `VmLifecycleProofs` | under the same three: `Spec => LeaseSpec` |
| `ShutdownIsComplete` | `VmLifecycleProofs` | under the same three: `Spec => ShutdownLeavesNothing` |
| `QuotaRowInBounds` | `SnapshotQuotaProofs` | `[](TypeOK /\ StoredWithinCapacity)`, for any sizes of files, with every failure, guest writes at any time and any number of processes |
| `ReportsAreSustained`, `AlertsAreSpaced`, `NothingGoesUnreported` | `WatchdogProofs` | `ReportsSustained`, `AlertsSpaced`, `[](LongStreakReported /\ DiskReminded)` |
| `GesturesKeptInOrder`, `HeldGesturesEnd` | `PointerProofs` | `[]GestureBookkeeping` and `HeldGestureEnds`, for any set of fingers and any timeouts |
| `NoStuckButtons`, `LastPositionSent` | `PointerProofs` | `[]ServerButtonsReal` and `[]PointerCatchesUp`, for any buttons, points and fingers |
| `KeyboardTypes`, `KeysAreKnown`, `ListFollowsFingers`, `AwayIsQuiet` | `KeyboardProofs` | `[]TypeOK`, `[]HeldKnown`, `[]TracksFingers`, `[]AwayHoldsNothing`, for any keys of each platform |
| `LettersMeetTheLock` | `KeyboardProofs` | `Spec => LockSynced`, for any number of LED reports under way |
| `ParserStaysAligned`, `NothingIsLeftLying` | `StreamProofs` | `[]Aligned` and `[]ArrivedIsHandled`, for any number of rectangles and messages and any cut of the stream |
| `OneRequestAtATime` | `StreamProofs` | `[]OneUpdateAsked`, for any number of updates, those of no rectangles included: never two requests, and none only after such an update behind a busy display |
| `DrawingsInOrder` | `StreamProofs` | `Spec => []InOrder`, for any number of drawings, images and flips |
| `EventsAnnounced` | `RfbResizeProofs` | `WSpec => []Announced`, for every security type, version, number of messages and order of events |
| `SessionLetsGo` | `RfbResizeProofs` | `WSpec => []EndedLetsGo`: channel, timer and keyboard are released, whatever fails where |
| `ViewportStaysInside` | `RfbResizeProofs` | `WSpec => []ViewportInside`, for any widths |
| `DesktopFollowsWindow` | `RfbResizeProofs` | `WSpec => []InSync`, for any widths and any number of changes by both sides |
| `ButtonFollows` | `FrontEndProofs` | `Spec => []ButtonFollowsFile`, on every copy of the slide, for any number of overlapping handlers, slides and resizes |
| `CarouselFillsView` | `FrontEndProofs` | `Spec => []SlidesFill`, for any number of slides and any widths |
| `SectionFollowsRoute` | `FrontEndProofs` | `Spec => []RouteShown` |
| `TablesCurrent` | `FrontEndProofs` | `Spec => []ListsCurrent`, for any number of requests and any order of answers: removed rows are shown only by a late answer to an earlier request |

Assumptions besides those the modules state about their constants:

- `Fresh` (of `VmKeepsSessionAndFiles`, `OverlaysAreHeld` and those below): launches do not share a vmid.  True for `/run-script` and `/run-iso`, which draw a token;
  false for two launches of one snapshot, where a late delete can hit the newer session.
- `SingleWorker`: one server process.  Nothing in the code makes the check and the set atomic between
  processes: with `Workers = {w1, w2}` and `Events = {}` in `retry.cfg`, TLC finds two handlers that both
  pass the check, and two VMs of one user.
- `CleanLaunches`: a launch that fails does so before QEMU starts, and neither websockify nor the server
  dies.  `retry` shows that it is needed.

`StreamAssumption`, which `RfbStream` states, limits the server to the encodings and messages the model
gives contents to; it may use any of them in any number and order.

Inductive invariants:

- `StoreConsistent`: a session sits at the vmid of its launch, and a hash that a delete read earlier
  names launches of that vmid only; so what a late pipeline clears can only be an index of that vmid,
  whose hash it clears as well.
- `VmKeepsSessionAndFiles` (`OwnInv`): whatever can hurt a VM, a line of output, a hash read by a
  cleanup, an entry of a shutdown's list, comes after that launch's `store.set`.  A thread that has
  passed `CleanKill` with the launch's hash has already signalled its QEMU.  So a VM that is still up
  has lost neither session nor files.
- `OverlaysAreHeld` (`OverlayInv`, on top of `OwnInv`): an overlay is named by a launch, which is in
  progress, has a session, has failed, or is being cleaned up by a thread that has yet to unlink it; and a
  thread past that point has unlinked it already (`UnlinkedFirst`).  So the keys of a vmid never go before
  its overlay.
- `OneVmAndExactIndex` (`LeaseInv`): while one handler is inside a launch, the user has no other VM up
  and no entry in the sorted set; a delete clears the index of the session it read.  The six entries
  then reduce to one, and `get_running_by_user` finds the VM there is.
- `ShutdownIsComplete` (`LeaseInv` and `DrainsAll`): a worker that drains runs no launch, and every
  session is on its list or in its hands; other threads only take sessions away.  Without the
  assumptions a launch in another process can set a session after the list was read.
- `QuotaRowInBounds` (`QuotaInv`): a request past the check satisfies `used + mb <= Capacity` from the
  values it carries, whatever has happened to the row and the files since.
- `WatchdogProofs` (`WatchInv`): each timer started with the current streak of readings, or with the
  latest alert; an open alert is older than the low streak being timed, and a closed one lies at least
  a window back.
- `PointerProofs` (`GInv`, `PInv`): every finger on the glass is tracked once or ignored; which gestures are
  possible follows from how many came and whether one has left; a held gesture is `open` exactly when it
  is the only possible one.  What a step dispatches then is one of five sequences of events (`EventsFit`),
  and from each of them the mask of `RFB` follows the gesture that is open.
- `KeyboardProofs` (`KInv`): what the server holds is in the list (`Known`); the list is the user's fingers,
  up to the keys held back by AltGr and those whose events went elsewhere; the last LED update under way
  tells the server's lock (`Lamp`), so a toggle that the client sends is always followed by its report.
- `StreamProofs` (`StreamInv`): what was sent and not read, `q \o wire`, is the rest of a message followed by
  whole ones (`Whole`).  The position of the parser alone is not enough, because a decoder that lacks data
  starts over and remembers only some fields: so the rest of the rectangle must go on from what the
  decoder has kept, encoding by encoding (`Reading`, `BodyAt`), and the memories of the others are empty
  (`Memory`).  `AskedOnce` counts the request, the answers among the fields, the one being read and
  the updates that are lost.  A
  handler that stops for want of a field leaves it on its way, because by `Reading` and `Whole` the stream
  holds it; so with nothing on the way nothing is left (`Pushed`), unless the parser waits for the display
  between two rectangles (`Resting`).  That every message the server can send is whole is
  proved for each encoding from what the server writes (`AllSent`, `UpdateSent`, `MessageSent`).
- `DrawingsInOrder` (`Drawings`): counted along the queue, from those on the hidden canvas to those called
  for, every drawing has the next number, and a flip stands at a number that `flips` holds (`Counts`).
  `ScanRenderQ` performs a run of actions with `FoldLeft`, so the recursive function inside the fold is
  shown to exist (`TurnsExist`) and to perform them one after another (`InTurn`); which actions are ready
  does not matter.
- `RfbResizeProofs`: `Sound` ties the announced events, the timer and the channel to the connection
  state, through every handler that may fail or close in the middle.  `SizeInv` adds that the viewport is
  inside the frame buffer and that no more size messages are queued or on their way than there are
  contents for them; so a handler never meets a size message without its contents.
- `DesktopFollowsWindow` (`SyncInv`): while window and desktop differ, the observer, a request or a timer is
  still to come, or the difference is one of those the property names.
- `SessionLetsGo` (`EndInv`): a loop over messages that goes on after `_fail` could set up the keyboard of
  a session that is over, if it got as far as `ServerInit`.  `_handleMessage` stops by itself, but
  `_resumeAuthentication` calls `_initMsg` from a timer.  So `Counted` counts the calls that have come or
  will come from a timer, a prompt or a computed ARD answer (`Owed`): at most two before the end of
  authentication, and none by the time `ServerInit` could be read outside the loop.  `HeardNow` says that
  during the set-up at most one answer of the server is unread, so that the bytes of `ServerInit` are
  read only inside the loop, while the session is connecting.
- `CarouselFillsView` (`Standing`): the track is long enough for the slides, the clones and the view; the
  position is the slide it stands at, one off at most while a transition runs.
- `ButtonFollows` (`LandInv`, with `Standing`): a handler past its authentication answer stands at a copy of
  the own image's slide or at no slide (`Placed`).  On each copy, as long as its text is not marked, at most
  one such handler is there, and it remembers the real text; where there is none, the button is right
  (`SlideOk`).  A rebuild keeps slides at their index (`Kept`), drops them with their handlers' place, or
  copies them with their marks.
- `TablesCurrent`: the last request of a table is waiting, shown or failed; what it brings was read after
  every removal confirmed so far, because a confirmed removal sends a new request.

Checked by TLC only:

- liveness (`LaunchEnds`, `DisconnectEndsVm`, `LogoutEndsVm`, `HandshakeSettles`, `FlushEnds`): the prover
  has no `ENABLED`.

Every safety invariant and every safety action property of the passing runs is stated by a theorem, some
under the assumptions above.

## 5. Modelling decisions

- A pipeline of Redis is one step; every other pair of Redis calls is not.  Redis answers, except that
  `store.set` may fail.  `get_running_by_user` and `items` are one step each, although they read hash
  after hash: what they return was true at their first read.
- A `clock` gives each `store.set` a new score.
- A pid is never used again.  `update` is called with `last_seen` only; `stop` of the websockify service
  and the process registry have no caller.
- `_wait_listen`'s probe of the port does not look like a client in websockify's output.
- A file test, `stat` and `unlink` of one file are one step where nothing can come between them that the
  properties tell apart.
- A request of `SnapshotQuota` carries a vmid of the user with its `os_type`.  The
  file a backup writes has its final sizes when the job starts; a job that is cut short leaves any file.
- `datetime.utcnow()` does not run backwards, and each server process has a watchdog of its own, of which
  one is modelled.

- JavaScript runs a handler to its end.  A model step is a handler, or the part between two `await`s;
  only the loop that reads several messages is a step per message, and nothing else runs meanwhile.
- What an external part may do is as free as the code must expect: the network cuts messages anywhere,
  answers come in any order or fail, a closed socket may not report it.  The server of `RfbStream` is a
  legal one.
- A document keeps running after its location was set, until the new one is loaded.
- `cloneNode` copies the files chosen in an input, as Chrome and Firefox do.

### Not modelled

- Registration, login, cookies: passwords, tokens and reCAPTCHA are library calls around a row; the check
  and the insert of `/register` are in the plan.
- The chunks of an ISO upload, the process registry, the metrics collector: see the table above.
- HTTP, database and operations counters, the Grafana proxy, reports: no state depends on them.
- `peek_iso`, `list_disk_snapshots`, `delete_disk_snapshot`: no caller.
- Read-only endpoints and static pages; in the front end the header's menu, the feedback form, the panes
  of Grafana and Prometheus (their tables work like the modelled ones), form validation, particles.
- noVNC: tables of keysyms, ciphers and hashes, inflation, the cursor's image, pixels, TightPNG, the
  content of the clipboard.  They compute values from values; the protocol around them is modelled.
- Servers that break the RFB protocol.

## 6. Plan

1. `IsoUpload`: `_save_stream_with_limit` is an `async` loop with an `await` per chunk.  Two uploads of
   one user unlink and write one path, the size cap of one removes the file of the other, a launch reads
   the file meanwhile and a cleanup unlinks it.  Properties: the file is one upload as a whole or absent
   when no upload is in progress (expected to fail for two at once), it never exceeds the cap, a launch
   boots from a whole file.  Compose it with the launch of `VmLifecycle` through `iso`.
2. `Registration`: look-up and insert of `/register` as two steps of several requests against a UNIQUE
   column.  Properties: one row per login, every request answered 200, 400 or 500 as the code maps them.
3. `Metrics`: the process cache by pid, the per-user series of the previous round, and sessions that
   come and go between the reads of a round.
