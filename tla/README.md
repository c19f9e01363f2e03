# FreeInk SDK in TLA+

FreeInk is an SDK for e-paper readers on ESP32: panel drivers, a display facade, audio, radio transfer, BLE
keyboards, storage, books and UI. This directory models the parts whose correctness depends on *order*: what the
e-paper controller, the host's buffers and the code's flags believe about each other after a long sequence of legal
calls, what two tasks may do to each other between two atomic accesses, and what a power cut, a lost packet or a
late callback leaves behind. The models are checked with TLC and the
central invariants are proved with TLAPS.

Paths below are relative to `src/libs/`. `PROJECT.json` maps every definition to the lines it stands for.

## 1. Inventory

| part | state it keeps | operations | what is hard |
|---|---|---|---|
| Display facade, `display/FreeInkDisplay/src/FreeInkDisplay.cpp`, **dual-buffer** build | two heap blocks and their roles (draw, active, lent), pending refresh, one-shots, inversion | display (blocking, async, trigger), windows, release / realloc / borrow / return of the secondary, RED sync, gray overlay, inversion, sleep | a FAST update is *differential*: a pixel of an older page survives if any of four stores (draw, active, RED RAM, BW RAM) is not what the code takes it for |
| Display facade, **single-buffer** build (other side of the preprocessor) | one block, an optional shadow, which of them a drain re-reads, advisory `redRamSynced` | the same, plus shadow-free async, grayscale base, loan of the storage to a build | the baseline may be RED or the shadow, and every entry point has to keep the choice right |
| SSD1677 driver, `driver/Ssd1677Driver.cpp` | first-paint, gray and rail flags, a parked power-off | display, displayStart/Finish, window, gray, cleanup, seed, resync, power off | promotions to an absolute waveform; waits that give up on BUSY; a power-off asked for before the waveform ended |
| EPD bus, `bus/EpdBus.cpp` | BUSY, reset, SPI | bounded waits | a wait that ends without BUSY having dropped |
| `hardware/AudioManager` | atomic `playbackState_`, source, I2S channel, amp | play, playPcm, stop, requestRestart, powerDown; a playback task | lock-free hand-over between the caller and the task; a bounded stop; a restart racing the natural end |
| `network/NearbyTransfer` | stop-and-wait session; a 4-slot receive ring; a shutdown bit over a poll counter | chunks, acknowledgements; begin, end, poll, send; the Wi-Fi callback | loss, duplicates, reordering; deletion of a mutex under a polling task and a callback |
| `network/BleKeyboardHost`, reports | held keys, learned rest frames, the open raw button, a key ring and a raw ring | report notifications on the NimBLE task, poll, pop on the main loop | unlocked stores of poll() against a report; a full ring between a press and its release; remotes that never release |
| `network/BleKeyboardHost`, connection | begun / stopping flags, the connection task and its target, NimBLE's client, bonds, a reconnect plan | begin, end, connect, disconnect, scans, bonds, poll; three tasks | end() that gives up and is called again; flags written by two tasks; a plan that must keep trying |
| `hardware/RecoveryBoot` | two app slots, two otadata entries, the card | boot combo, hatch, flash from SD, switch | power cuts between any two steps; a file that is read twice |
| `network/SecureNet`, `fetchResumable` | bytes received, attempts, stalls, redirects; the sink | one GET after the other | a server that cuts, ignores the range or has replaced the file |
| `hardware/HapticManager` | pattern, timer, motor under one mutex | play, stop, enable, intensity; the timer callback | a stale callback; failing timer or PWM |
| `book/FreeInkBook`, page cache and layout session | one file per chapter, the open writer and its index in arena chunks, the reader's copy of an index | begin, page, finish, suspend, open, read a page, read back while building | writes that fail, partial files over older ones, power cuts, storage that writes in place; an arena with two users |
| `hardware/InputManager`, Murphy M4 touch | what the sampling task kept, what update() is in the middle of | sample, update, pause and restart for a shared reset | update() that waits for the panel while strokes go by; a read that outlasts a reset |
| `hardware/UsbMassStorage` | globals that TinyUSB's callbacks load, the published state | begin, end, state, disconnectHost; read, write, eject | the card has one user at a time, with nothing but the order of stores to see to it |
| other panel drivers, power, memory, buttons | smaller state machines | | later candidates, see `PROJECT.json` |
| the rest of the book library, fonts, UI, parsers, TLS, content protection, board tables | data | | sequential data processing or pure I/O: not modelled |

**Interactions.** The application calls the facade from one render task. The facade owns the buffers and calls the
driver; the driver writes the controller's two RAM planes over the bus, fires a waveform and waits on BUSY, at once
or later (`displayStart` now, `displayFinish` at the next entry point that touches the panel). The audio player is
separate: the application and the playback task share one `AudioManager` and meet on one atomic. So are the
others: `BleKeyboardHost` is shared by the main loop, its connection task and NimBLE's host task; `EspNowTransport` by
its owner, a polling task and the Wi-Fi task; the haptic motor by its callers and the timer task; a firmware update
runs alone, at boot or for the application, and meets the bootloader only through flash; the page cache is fed by the
layout session and shares at most its arena with it; the touch task and `update()` share one record under a spinlock;
TinyUSB's task and the application share the card. None of them calls another, but for the display, whose reset
restarts the touch controller that hangs on the same line.

**What makes each part correct.** Display: when the panel has settled the glass shows the frame last submitted and
nothing older; buffers have one owner; what a deferred refresh still needs stays in place; rails are never cut under
a waveform and never left up for good. Audio: one task at a time; it alone uses the channel and the amp; an accepted
restart is not lost; a stop ends. BLE: every press is reported once and released once; the stack is torn down in
order; a bonded peer keeps being tried. Transfer: chunks are written once each and in order, and teardown frees
nothing in use. Update: something always boots, and only a whole image is selected. Fetch: no gap, no repeat, and
complete means the resource. Haptics: a running motor has a stop coming. Page cache: whatever opens serves page i as
page i, and all pages when it says so. Touch: a reported gesture is one stroke. USB: the
card has one user (which the code does not ensure, see section 4), and what the host asked for stays published.

## 2. Modules

```
Ssd1677 ──────┬── DualBufferDisplay ──── MCDualBufferDisplay (TLC)
  driver and  │          └───────────┬── DualBufferDisplayProofs
  panel       ├── Ssd1677Proofs ─────┤
              │          ┌───────────┴── SingleBufferDisplayProofs
              └── SingleBufferDisplay ── MCSingleBufferDisplay (TLC)
PageDisplay <── DualBufferDisplay, SingleBufferDisplay
 (INSTANCE, refinement by both)

AudioContract <── AudioManager ──┬─ AudioManagerProofs ── DeviceProofs
 (INSTANCE, refinement)          └─ MCDevices

FileDelivery <── NearbyTransfer ─┐
 (INSTANCE, refinement)          ├─ MCNetwork (TLC) ──────────┐
                 BleButtons ─────┤                            ├─ NetworkProofs
                 BleLink ────────┴─ BleKeyboardHostProofs ────┘

FirmwareUpdate ──┬─ StorageProofs ──┐
PageCache ───────┤                  ├─ DeviceProofs
ResumableFetch ──┤                  │
HapticMotor ─────┼─ MCDevices (TLC) ┘
UsbMassStorage ──┤
TouchSampler ────┘
```

`NetworkProofs` and `DeviceProofs` prove the components that have no proof module of their own (transfer; fetch,
haptics, touch, USB) and then what the two runs check, of the composition they check.

`MCNetwork` checks three components and `MCDevices` seven. The components share no state, so a behaviour is of one of
them, named by `subject`, and the others wait: the state space is the sum of theirs, not the product.

### `Ssd1677`: driver and panel

One record `d` holds the driver's flags, the two RAM planes, the waveform in flight and the ink on the glass. Each
driver method is an operator from a record to the next one, so a facade handler that calls several of them remains
one action. `Developed` is the physics everything depends on: a clean waveform paints every pixel from BW, a FAST one
only the pixels where RED and BW *differ*, an overlay turns the masked pixels gray, the factory bank paints them all.

A frame maps `Region` to black or white; a region stands for the pixels a window can address together. FULL is folded
into HALF (both ignore RED and drive everything). A wait is represented by its `Outcome`: BUSY drops, the waveform
never releases it, or the power-down never does. After a failed waveform the ink is `"?"` and stays so until an
absolute paint. `FastPowersOff` distinguishes the boards by whether a FAST sequence drops the rails (the
`fastSeqOverride` of the profile). `BeginMayHang` lets `begin()` itself give up on BUSY.

### `DualBufferDisplay` and `SingleBufferDisplay`: the two builds of the facade

One action per public entry point, with everything the handler does: the drain of a pending refresh
(`syncPendingAsync`), mode resolution, the driver calls, the swap, the one-shots. Aliases share an action
(`triggerDisplay`, `triggerDisplayAsync` and `displayBufferAsync` are one action in a dual-buffer build, because they
differ only in `_redRamSynced`, and two in a single-buffer one). `Boot` may happen at any time and cuts a running
waveform; `BusyReleases` is BUSY dropping after a wait gave up. Three history variables exist only for properties:
`shown` (the frame last submitted, as inked), `held` (the pending refresh left its frame in the secondary) and
`stale`.

**The host.** The facade cannot be right for any host whatever: its header documents when FAST may be asked for.
`stale` records, per store, why it may not hold the frame on the glass (`"turn"`: the dual-buffer FAST wrote the
frame before; `"gray"`: it holds a mask; `"copied"`: a restored secondary copies a draw buffer that has been drawn
on; ...), and a FAST request is made only if the store it would diff against is fresh, or stale for a reason in
`HostMay`. With `HostMay = {}` the host keeps every rule; the runs with a non-empty set show what one overlooked rule
costs. Further host rules are guards: gray planes go over a displayed page and are not used inverted, no drawing into
a framebuffer promised to a pending shadow-free refresh, no release of storage lent to a build, and
`cleanupGrayscaleBuffers()` is given the page on the glass.

### `PageDisplay`: what both builds promise

What an application that draws pages may rely on, whichever build it got: a page is submitted; each region keeps its
ink until it takes that of the page submitted or of the one before it; once the panel has settled it shows the page
last submitted. Gray ink appears only in a step that asks for an overlay, factory ink only when the promise is
withdrawn (a factory image, sleep, a reset), unknown ink only while the panel is not settled. `NoGhost` speaks of the
settled glass alone; this speaks of every step on the way, and a page older than the one before never comes back,
not even for the time of a deferred refresh. Both facades implement it under one mapping: `page <- shown`,
`glass <- panel.glass`, and `settled` when nothing runs, is deferred, or waits for an absolute paint.

### `AudioManager` and `AudioContract`

The caller is a small program counter (`ctl.pc`: load, compare-and-swap, wait, quiet, prepare, publish, create,
teardown, restart) and so is each task (`tasks[t].pc`), because between any two accesses to `playbackState_` the
other side may run. `ensureI2s()` is a set of outcomes, with the states its early returns leave. The contract has
three phases and a debt, `owed`: a restart for which `requestRestart()` returned true. It permits a playback to end
*of itself* only when nothing is owed; `AudioManager` implements it under `PlaybackPhase`.

### `BleButtons`: from a report to the rings

`Ingest` is `onReportIngest()` with everything it calls: the key slots against the report before, the generic
fallback for remotes that are no keyboards, axis pads read on their release edge, and `ingestRawEdge()`, which learns
what each report id rests at and turns byte changes into edges. A byte is the set of its bits, because the code asks
of bytes only whether bits were added or cleared. `poll()` is five actions: its unlocked stores one by one, then the
raw release under its lock. The rings are counters; `raw.owed` holds the presses whose release is not in yet, and
`raw.alone` remembers a release without one. History variables: `seen` (keys in the last report of the link) and
`excuses` (a silence, or a report that overtook `poll()`, since then).

### `BleLink`: the connection

Three tasks: the main loop (`caller`: where it stands in `end()` or `startScan()`), the connection task (`conn`) and
NimBLE's host task (`Gone`, `OnDisconnect`). `link` is NimBLE's view and is `"closing"` after a hang-up until the host
task says otherwise; `Hang` is `NimBLEClient::disconnect()`. `end()` is one action per wait and per destructive
step, and each wait may run out of budget and return (`caller' = "idle"` with `stopping` still set), after which the
next `EndStart` resumes. `missed` and `refused` remember two histories that the properties name, see section 6.

### `NearbyTransfer` and `FileDelivery`

Sender and receiver sessions with their counters; `air` is the set of all packets ever sent, so that any of them may
arrive at any time, again, or never. On the receiving device the owner's `end()` and `begin()`, `poll()` and the
Wi-Fi callback are program counters over the mutex, the shutdown bit, the count and the ring. What the application
does with the sessions (send the next chunk until acknowledged, answer each chunk with the sequence wanted next) is
external. `FileDelivery` is the promise: chunks written once each in order, confirmed only once written;
`FileInOrder` is the refinement with `written <- file` and `confirmed <- sender.next`.

### `FirmwareUpdate`

The slots by chunk, the two otadata entries, the card, and the phases of the firmware from reset to restart. `Fails`
is the error return of any step, `PowerCut` a reset at any step; both leave what was being written as it was, or
spoilt (`Spoilt`). Only the order and parity of `ota_seq` are ever read, so `Rebase` keeps the numbers small. The
bootloader (`Boot`, `RollBack`) is external and does what ESP-IDF documents. `excused` records the three ways by
which the boot target may be given to chunks nobody checked; they are listed in section 6.

### `ResumableFetch`

One attempt after the other of `fetchResumable()`, unit by unit: `beginResponse()` in its four outcomes, the write
callback, and the loop's verdicts at the end of a body. The server is external and free: it answers with the whole
resource or any range of it, in any framing, cuts at any unit, redirects, and replaces the resource at any moment.
The caller comes back with `startOffset` at what it holds for as long as the fetch has not completed.

### `HapticMotor`

Every call holds the mutex throughout and is one step; the timer callback may be queued behind it. Timer starts and
PWM writes fail at will. Time is counted in steps of the pattern.

### `PageCache`

One chapter's file, the writer and a reader. Layout is deterministic, so page *i* of every build is the same and is
its number; a file is a sequence of cells (header, parts of blobs, index entries, footer) and an offset counts them.
`EmitPage` is the session delivering a page to `onPage()`, which may be refused (cap, arena, an earlier failure) or
break off in the middle of a blob; `Closed` is the common shape of `finish()` and `suspend()`. The storage is the
application's: it truncates the file (`inPlace`, as the host tests do) or renames a temporary one at `endWrite()`.
`PowerLost` leaves any prefix. The host commits only a session that is done, which `docs/freeink-book.md` leaves to
it. `shared` says that the writer's index lies in the layout's arena, `pictures` that a picture may break a page; the
offsets of a chunk taken under `placeImage()`'s mark are then `lost`, and `PathResolved` overwrites them.

### `TouchSampler`

`PollState` under its lock, filled by the task (three steps per frame: mark, read, record) and taken by `update()`,
which the application may call late; before there is a task `update()` reads the chip itself. A stroke is a number
that stands for all of its points, so that a gesture put together from two of them shows. `Reinitialize` may find the
chip silent or fail to create the task, and may go on with a read in flight, because the pause waits 30 ms at most.
The finger stays away for as long as it takes one frame to see it gone.

### `UsbMassStorage`

Two tasks without a lock: each load and store of `_active`, `gDev`, `gOwner`, `_state` and the callbacks is a step of
`app` or of `usb`. `begin()` is one action per store and may fail at the last (`BeginFails`, `app.undo`), then taking
the same things down as `end()`, the callbacks first. TinyUSB's task serves one event after the other, but the host
may go at any moment (`Unmounted`): `tud_mounted()` is false from the interrupt on, also inside a callback, and the
task learns of it later (`HostLeft`). The wait of `end()` polls that flag and is given up after 50 ticks, so
`Drained` may come with the host mounted or not and a callback at any of its steps. A host that stayed mounted
through an `end()` is served by the next `begin()` as soon as the callbacks are set. `ejected` is a history variable:
the host asked for it in this session.

## 3. Runs

| run | question | bounds | result |
|---|---|---|---|
| `dual_faults` | no ghost, ownership, held frame, parked power-off and loans under failed waits of both kinds and resets at any moment | 1 region, all frames, both modes, both power-off requests, all BUSY outcomes; no windows | holds, 1.2 M states |
| `dual_windows` | does the dual-buffer build keep the promise of a display with windows, gray and a FAST sequence that drops the rails? | 2 regions, both one-region windows, BUSY that drops | holds, 1.4 M states |
| `single` | shadow = screen, pending frame intact, the same promise kept by the single-buffer build | 2 regions, windows, full and empty masks, failed waveforms, failed shadow allocations | holds, 0.4 M states |
| `one_shot` | after a restored secondary, is RED what the one-shot relies on? | 1 region | violated (finding) |
| `shadow_ghost` | may a host mix shadowed async and blocking FAST as the header says? | 1 region, `HostMay = {"shadow"}` | violated (finding) |
| `red_ram_synced` | does `isRedRamSynced()` tell the truth? | 1 region | violated (finding) |
| `late_busy` | does a `begin()` that gave up on BUSY leave the first paint armed? | 1 region | violated (finding) |
| `network` | BLE: edges paired, presses neither lost nor repeated, silence releases; teardown in order, `connected_` has a link, attempts and `end()` finish, bonds keep being tried. Transfer: chunks in order, quiet teardown, the owner returns, a transfer finishes | 3 remotes (keyboard with consumer page, compact turner, axis pad) of 2 bytes and 2 bits, raw ring 3, key ring 1, 1 rest slot; 2 peers, 1 bond, 2 plan attempts; 2 chunks, ring of 2 | holds, 186 k states |
| `devices` | Update: never stranded, a whole image selected, atomic switch, boot settles. Fetch: whole, spends what bounds it, and ends. Haptics: timed motor. Cache: what opens is true. Touch: gestures are whole. USB: an eject stands. Audio: one task, held output, true channel flag, the contract, stops that end, restarts that are answered | images of 3 chunks, erase unit 2, 2 cuts, 1 card change; 3 versions of sizes 3, 3, 2, 3 attempts, 2 stalls, 1 redirect; 3 patterns, 1 or 2 repeats; chapters of 2 and 4 pages, cap 3, index chunks of 2, blobs of 2 writes; 3 strokes, stale after 2 frames; USB has no bound; 2 task identities, 2 rates, drain of 2 buffers | holds, 1.0 M states |
| `audio_timeout` | is playback really stopped first when a read blocks past 2 s? | the player's, as in `devices` | violated (finding) |
| `audio_clock` | is a channel at `currentRate_` on that clock? | the player's, as in `devices` | violated (finding) |
| `usb_handover` | is the card the application's alone once `end()` has returned? | none | violated (finding) |

**Why the bounds are enough.** Pixels do not interact: every operation but a window is point-wise, so one region
(a pixel) shows any ghost a whole-frame path can bake, and two show what a window does inside and outside itself. The
frames are *all* frames over the regions. Two blocks are all the code has. The display's state is finite and the runs
exhaust it with no depth bound. For audio, two identities suffice to see a second task, two rates take every branch
of `ensureI2s`, and a drain of two buffers has a first, a later and a last one; six are no different. The proofs lift
all of these bounds for both facades and the player.

For BLE, two bits are the fewest with a proper subset in between, which is what the edge rules turn on, and the three
remotes take each branch of the decode; a raw ring of three has the boundary `keep` guards (a press needs two places)
and one rest slot forces the overwriting that four do at the fifth report id. One bond fills the table with the other
peer outside it, so that the "table full" and the "unbonded, both address types" paths are taken. Two chunks have a
first and a last one, a duplicate of the first arriving late included; the ring overflows at two as at four. An image of three chunks with an erase unit
of two has an erase that is cut short by the end of the image. Two cuts are a cut during the recovery from a cut.
Two versions of one size and one of another separate what `Content-Range` can tell apart from what it cannot. A chapter
of four pages is over the cap of three and needs a second index chunk; one of two fits in the first. Three strokes are
one that is kept, one that is dropped and one in progress. The proofs lift the bounds for the safety properties of all
of these.

`TypeOK` is an invariant of `network` and `devices`, and is proved of both compositions (`NetworkTypes`,
`DevicesTypes`, the latter when `stop()` waits); for the two facades it is proved only (`TypeCorrect`).

`CHECK_DEADLOCK` is left on everywhere: none of the models can stop.

**Fairness.** The display modules state none and no liveness: which entry point comes next is the application's
choice, and whatever is owed to the panel is drained by the next call. The audio player in `devices` has weak fairness
of the playback task (priority 10, pinned to core 0; its reads, seeks and writes return) and of a call in progress. A
source that blocks for ever defeats it, and the header permits one; that is the subject of `audio_timeout`, which
needs no fairness.

`network`: the main loop calls `poll()` again and again, so each of its steps is weakly fair; NimBLE's waits have
timeouts (8 s to connect, its own for pairing and discovery), so the connection task is; a link that was hung up is
reported gone within the supervision timeout; an application that sees `isStopping()` calls `end()` again, which is
what the header asks of it; `NimBLEDevice::deinit` completes if it is retried for ever (strong, because a retry may
fail). In a transfer every task runs, a task waiting for the FreeRTOS mutex gets it in the end (strong), and a packet
sent for ever meets a moment when the receiver can take it (strong, for the chunk that is wanted). `TransferFinishes`
names its premise: the receiver stays up and has such moments. So does `KeepsTrying`: the bonded peer has no link, or
one that `isConnected()` does not show, for ever, the application leaves the plan alone, and it is not `Stranded`
(section 4). `devices`: the firmware and the HTTP client go on by themselves (all their waits have timeouts), and one
of the renames works (strong; the code ignores its result, and without it a device whose combo is held would flash for
ever). The bootloader, the card, the server and the users are under no fairness, nor is anything of `HapticMotor`,
which has no liveness property: a `FreeRTOS` timer that is late is the case its safety property is about. The page
cache, the touch sampler and the USB storage state none either: what comes next is up to the host, the finger and the
cable.

**Mutants.** Operators named `Mut...` are slips the code could contain (a drain left out, a store in place of a
compare-and-swap, a one-shot ignored, an unsynchronised plane); each property of a passing run is violated by one.

## 4. Findings

1. *One-shot over a stale RED* (`one_shot`). `reallocSecondaryBuffer()` trusts RED for one FAST update, but a
   dual-buffer FAST leaves RED one frame behind; the ghost appears unless the host calls
   `syncRedRamFromFrameBuffer()` first.
2. *Shadow then blocking FAST* (`shadow_ghost`). The header says a blocking path makes the controller RAM the
   baseline again; it only drops the shadow.
3. *`isRedRamSynced()`* (`red_ram_synced`) stays true across `displayBufferAsync()`.
4. *Abandoned `begin()`* (`late_busy`). `initController()` returns before arming the absolute first paint; if BUSY
   drops later the first FAST is a differential over unknown ink.
5. *Stop that times out* (`audio_timeout`). `stop()` returns after 2 s whatever the task does; `play()` then starts a
   second task over the same source and channel, `powerDown()` deletes the channel under the first.
6. *Clock after a failed enable* (`audio_clock`). The channel has the new clock and `currentRate_` the old rate.
7. *A callback after `end()`* (`usb_handover`). The comments of `end()` rely on the wait for `tud_mounted()` and on
   `_active` to keep callbacks away from a card that is handed back. The wait is given up after 50 ticks (the header
   says that on the ESP32-S3 an unplug is never reported, so it always is), an unmounted host says nothing of a
   callback in progress, and no callback reads `_active`: a write that has loaded `gDev` goes on after `end()` has
   returned.

Observed while modelling, and kept in the models as named exceptions or host rules rather than as runs:

* *Display.* In a dual-buffer build `displayWindow()` never updates the secondary, so FAST after a window over the same
  secondary ghosts. The header leaves that rule implicit; the model's host keeps it.
* *BLE reports* (`excuses`). A report that comes in while `poll()` is clearing the key set is decoded a second time
  from the next report. A consumer-page keyboard that releases one of two modifiers produces a usage from its generic
  path, and the roll-over code 0x01 passes through it.
* *BLE reports, documentation.* `BleKeyboardHost.h:48`, `:144` and `:249` and `docs/ble-keyboard-host.md:56` and `:127`
  say that `poll()` synthesizes repeats of a held key. It does not, on purpose: `BleKeyboardHost.cpp:718` says "we do
  NOT synthesize host-side auto-repeat" and "one physical press == one event". `RepeatsExplained` follows the code; an
  application that relies on the header, for a held Backspace or arrow, gets one event.
* *BLE connection* (`missed`, `refused`). If the link ends between the subscription and `onLinkUp()`, `connected_` is
  set afterwards with nothing behind it. `poll()` goes by the flag, so the bonded peer is not tried again until the
  application calls `connect()` or `end()`: the case `ConnectedIsLinked` excepts as `missed` and `KeepsTrying` as
  `Stranded`. A dial that NimBLE refuses because the old link is still closing sets `g_disconnectObserved` early; the
  client may be deleted before its callback.
* *Update* (`excused`). `hasApp()` reads the magic byte only, so the hatch may point otadata at a slot 0 that was cut
  while it was being rewritten. The image is verified on the card and then read a second time to be written, and
  nothing is verified after that: a card changed in between is flashed unverified. A rolled-back image may leave
  otadata on a slot that is being rewritten. An update started from slot 1 overwrites the recovery firmware in
  slot 0. Without `renameOnSuccess` a combo that stays held flashes again at each boot.
* *Fetch* (`mixes`, `CloseDelimited`). A 200 without a length that the peer cuts is reported complete. There is no
  ETag or If-Range, so bytes of two versions are joined when the total is unknown or equal. A connection that fails
  before its headers ends the fetch without a retry.
* *Page cache* (`shared /\ pictures`). `placeImage()` (`ChapterLayout.cpp:1107`) holds a mark on the scratch arena
  across `emitPage()`, in which `onPage()` allocates an index chunk for every 128th page, the first included. With the
  writer on the same arena, as `docs/freeink-book.md:72` and the host tests have it, `scratch.release(marked)` gives
  the chunk back and later hrefs are written over it; `PageCache.h` asks that the arena stay valid until `finish()`.
  The repository's sources built for the host show it: an EPUB with some text, a picture that does not fit on page 1
  and a later picture with a longer path yields a file that `finish()` reports as good and whose pages 0 and 1 are
  `Stale`; with an arena of its own all pages read. `CacheIsTrue` is stated for the other cases.
* *Page cache, host rules.* `docs/freeink-book.md:64` calls `finish()` without looking at the layout's status, which
  would commit a failed layout as final. A `suspend()` that fails removes a longer partial of an earlier session.
* *Touch* (`torn`). A shared reset in the middle of a stroke clears what the task kept but not `touchPressed`: the
  contact stays until the next stroke ends, whose own first point is lost.
* *USB.* A host that comes and goes between two calls of `state()` is never reported as disconnected.
  `markIoError()` replaces `Ejected`, which `EjectStands` excepts. A callback that loaded `gOwner` in one session may
  publish its outcome in the next.

## 5. Proofs

All theorems hold for any value of the constants that the modules' assumptions allow: any panel (`Region`), masks,
windows and answers of BUSY, any set of tasks and rates and any length of drain, any remotes and rings, peers and
bonds, chunks, images, cuts, versions and limits.

**Dual-buffer facade** (`DualBufferDisplayProofs`, over the operator lemmas of `Ssd1677Proofs`).

* `BufferInv == TypeOK /\ RolesOK /\ HeldOK` is inductive for *every* host and every BUSY behaviour
  (`BuffersInOrder`). `BuffersOwned` is not inductive by itself: a swap needs to know that a block is allocated
  *exactly* when it has a role (`RolesOK`), and `PendingFrameHeld` needs that draw and active differ while a refresh
  is pending (`HeldOK`). From it: `TypeCorrect`, `BlocksOwned`, `PendingHeld`, and the action property
  `LoanRespected`.
* `ScreenInv == BufferInv /\ PanelInv /\ StoresOK` is inductive for a host that keeps the rules (`HostMay = {}`) and
  a controller that answers `begin()` (`~BeginMayHang`); `late_busy` shows why the second is needed, `one_shot` what
  the first excludes. `PanelInv` says that developing whatever is in flight yields the frame owed to the reader, or
  that a promotion to an absolute paint is armed; `StoresOK` that a store marked fresh really holds the frame. From
  it: `NoGhostEver` and `ParkedIsOwed`.

**Single-buffer facade** (`SingleBufferDisplayProofs`, over the same lemmas). `HoldInv` is inductive for every host: the
shadow is the screen while it is valid, a pending refresh names the block or the shadow (`refreshPending <=>
pendingFrame # "none"`, without which a drain could re-read nothing), and what it names is the frame submitted. From
it: `TypeCorrect`, `ShadowHonest`, `PendingIntact`. `ScreenInv` adds the panel's debt, as above, and `PlanesOK`: RED
or BW marked fresh holds the frame, and a promotion covers what gray lit. The shadow is a sound baseline by
`ShadowIsScreen` alone, so the host's rules are needed only for RED; `shadow_ghost` is the step the proof loses
without them. From it: `NoGhostEver`, windows, gray base, inversion and failed waits included.

**Both facades implement `PageDisplay`** (`FacadeImplementsPageDisplay` in each proof module, under the same two
assumptions). `ScreenInv` says what the glass will be
when the waveform has ended, not how each region gets there, so it is strengthened to
`InkInv == ScreenInv /\ InFlight(panel, shown)`: a waveform left running brings the frame last submitted. The rest is
about the relation `Turns(d, e, p, more)` of `Ssd1677Proofs`: from panel `d` to `e` each region keeps its ink or
takes that of frame `p`, or of `more`, and ink is unknown only where a wait gave up on BUSY. There is a lemma per
driver operator (a FAST update whose planes differ where the glass does, an absolute one, a window, the drain, gray,
power-off), and `TurnsAgain` chains two, because a handler drains the pending refresh before it starts its own: this
is where the page *before* comes in. Then one lemma per kind of handler says that it submits, settles, overlays or
withdraws (`BlockingInks`, `DeferredInks`, `WindowedInks`, `BaseInks`, `GrayInks`, `RebootInks`, ...). A window needs
that BW held the page everywhere outside it (`WindowBase`); a reset, that what it cuts leaves unknown ink only under
an armed first paint.

**Audio player** (`AudioManagerProofs`, assuming `~StopMayTimeOut`; `audio_timeout` shows why).

* `PlaybackInv == AudioTypeOK /\ Handoff /\ Output`. `Handoff`: the atomic state tells who holds what: Idle means no task,
  a task on its way out has stored Stopping, a call past its wait sees Idle until it publishes. `Output` adds the
  channel, amp and mute that go with each step of the task. From it: `AudioTypeCorrect`, `OneTaskEver`,
  `OutputAlwaysHeld`, `FlagIsTrue`.
* `PlayerImplementsContract`: each step is a step of `AudioContract` or leaves it alone; the key fact is
  `owed <=> playbackState = "RestartPending"`.

**Firmware update** (`StorageProofs`). `FlashInv` adds to the two safety properties what they need to survive
a step: the image goes to the slot that does not run (`DestIsOther`), otadata selects the running slot until a switch
is complete and what it selects is whole unless excused (`TargetWhole`), the entry being written is the one that was
erased and carries the number computed for it (`EntryPending`), the chunks below `streamPos` are the update's and the
rest up to `erasedUpto` is erased (`Progress`), so that the slot is whole when the switch begins (`Flashed`). From it:
`DeviceNeverStranded`, `TargetIsWhole` and the action property `SwitchingIsAtomic`. The latter rests on arithmetic
lemmas about `NewSeq`, `TargetSlot` and `Rebase`: the new entry is the highest and has the parity of `dest`, and
erasing the other entry moves nothing.

**Page cache** (`StorageProofs`). `CacheInv` rests on one idea: every build puts page *i* at `Start(i)`, so an index that
says `Start(i)` is right for the old file, the new one and any prefix of either. `InStep` says so of the open writer
(after a failed write too, where the stream ends inside the last page), `Sound` of a file that opens, `Fits` of a
reader whose file is being rewritten. The lemmas are about concatenation and prefixes: a prefix of a commit opens only
if it is the whole commit (`CommitIsSound`), a page written behind a stream in step leaves it in step
(`WrittenStaysInStep`), and the gap between two pages is never entered by another one (`StartsGrow`). From it:
`PagesInPlace`, under `IndexKept`, the case `CacheIsTrue` is stated for.

**Transfer** (`NetworkProofs`). `TransferInv` has three parts beside the types. `Sessions`: every packet
anywhere (in the air, in the ring, in hand) is one that was due, the receiver is at most one ahead of the sender, the
file is `0, 1, ..., receiver.next - 1`, the bytes are the offsets. `Polled`: the count is 1 exactly while `poll()` is
between its increment and its decrement. `Owned`: what is barred, unregistered or drained at each step of `end()` and
`begin()`. From it: `TransferTypes`, `TeardownIsQuiet`, `BytesAlwaysAgree`, and `FileArrivesInOrder`: each step writes
the next chunk, confirms one that is written, or does neither.

**Fetch** (`DeviceProofs`). `FetchInv` adds to `FetchIsWhole` what each step knows of the response (`Trying`,
`Answered`) and of the sink (`OneVersion`): unless `mixes`, every unit in it is of a version of the size promised, and while a 200 is being read it is all of one
version. `FetchIsBounded` is the safety half of `FetchEnds`: every step of a call is its last, or spends one of
`kMaxAttempts` attempts or `kMaxRedirects` redirects (types bound both) without giving the other back, or moves on
within one response. That the steps are taken is fairness, and TLC's.

**BLE** (`BleKeyboardHostProofs`). `LinkInv` strengthens `TornDownInOrder` and `ConnectedIsLinked` with
what is gone at each step of `end()` (`Torn`) and what `g_disconnectObserved` says of the link (`Observed`).
`EdgesArePaired` is inductive with the shape of the ring and the button, by cases on how a report settles the one
before, opens a button, and taps; its arithmetic is that `keep` always leaves a place for the open button's release. `PressesAreReported` and `RepeatsAreExplained` follow
from `Kept`, what the key slots still have of the last report after any prefix of `poll()`'s unlocked stores.

**Peripherals** (`DeviceProofs`). `MotorAlwaysTimed` needs `Played`: only a motor that is begun and enabled is played,
so a callback that was queued before an `end()` finds nothing to play. `EjectAlwaysStands` assumes nothing of the host
or of the wait in `end()`. It needs that no session is active while `begin()` or `end()` works (`SessionInOrder`), and
that the claim begins where the callbacks are served, before `_active` is set (`EjectKept`). `GesturesAlwaysWhole`
needs that what the task saw is of the last stroke (`FrameIsStroke`), that what it keeps is one stroke no older than
the last one reported (`KeptIsWhole`), and that a stroke which `update()` has begun is the one kept or the one on the
glass (`BegunIsKept`).

**Types with bounds** are not a formality where the code indexes arrays. `ButtonsTypes` rests on `ButtonsInv`, the types
with `Paired`: the ring is within its bounds because a press is stored only with room for its release, a report
decodes to keys of the report alone, the code of an open button is a byte that some report had, and a rest frame is
learned in place of another once the slots are full.
`CacheTypesHold` says that no file, stream, index or reader ever names an offset beyond what the chapter can need,
which takes a bound on every page's start (`PageStarts`) carried through failed writes, abandoned builds and power
cuts (`BoundedInv`, on top of `CacheInv`).

**The compositions the runs check** (`NetworkProofs`, `DeviceProofs`). A step of `MCNetwork` or `MCDevices` is a step of
one component and a stutter of the others (`NetworkSteps`, `DevicesSteps`), so the conjunction of the components'
invariants is inductive. From it, for any sizes: `NetworkTypes` and `DevicesTypes`, `NetworkIsSafe` and
`DevicesAreSafe` with the safety invariants of the two runs, and the action
properties and the refinement (`DevicesStep`, `NetworkDelivers`). The player enters with its assumption:
`DevicesTypes` and `DevicesPlay` hold when `stop()` waits.

**Only model-checked.** Every safety invariant, action property and refinement of a passing run is a theorem. What
remains is liveness (`StopEnds`, `RestartAnswered`, `SilenceReleases`, `EndFinishes`, `KeepsTrying`, `OwnerReturns`,
`TransferFinishes`, `BootSettles`, `FetchEnds`), which rests on fairness and so on ENABLED, out of the prover's reach.
The violation runs are counterexamples and need no proof.

## 6. Not modelled

In the display: the X3, M5 and other panel drivers, black-pulse cleaning, custom LUTs, text routing, the strip and
4-bpp gray APIs, `displayGrayscaleBaseAsync`, pixels' timing and temperature, light sleep inside waits. `NoGhost`
and `PageDisplay` accept gray ink for any later frame: which pixels an overlay leaves gray after its cleanup is not tracked. In audio:
boards whose `begin()` opens the channel for an external clock, a failing `begin()`, several application threads,
spurious failures of `compare_exchange_weak` (retried wherever it is used), time. 

In BLE: parsing of HID report maps (which shapes and hints a remote has is a constant), character translation, the
contents and times of ring entries (`wasRest` included), the scan result list, pass keys and failure texts, `begin()`
failing halfway, `end()` called by another task inside `connect()`, `connect()` while connected, `forget()` during an
attempt, torn NVS writes. In transfers: the packet header, CRC and session ids, the wrap of the sequence at 2^32, more
than one polling task. In updates: the inside of the image check, debouncing, `alreadyValidated`, progress. In
fetches: TLS, the HTTP parser (its framing is the three kinds of `Framing`), origins and credentials. In the page
cache: what a page holds, anchors, character positions, the blob size limit, generation hashes (one generation is one
name). In touch: coordinates, taps and swipes, the other controllers, buttons, the pause before sleep. In USB: the
bytes and the sector arithmetic, and whether USB attaches again after an `end()` (the model lets it).

**What is left out, and why.** The repository has 88 thousand lines of implementation, and most of them are not state
machines: the hyphenation tables, fonts, icons and waveform tables are data; the book library's parsers and
layout, UI drawing, tone mapping and decoders turn one buffer into another; `BoardConfig` and the board packages are
pin tables; `InputManager` is, but for the task modelled, mostly touch-controller register access for a dozen boards;
sensors, gauge, light and
LED managers are register arithmetic; content protection and TLS are data processing over external libraries. A
model of those would restate the code line by line and say nothing that its tests do not, so the map covers a small
share of all lines and about two fifths of the files it touches. The candidates that do have order in them are in the
plan below; each component's reason is in `PROJECT.json`.

## 7. Plan

1. **X3 driver**: its `displayFinish()` re-reads host memory, so `PendingFrameHeld` and `PendingFrameIntact` become
   what the glass depends on; `reallocSecondaryBuffer()` during a pending refresh is the case to look at.
2. **Gray history**: `PageDisplay` and `NoGhost` accept gray ink for any later page; which pixels an overlay leaves
   gray after its cleanup needs the masks of the overlays since the last absolute paint.
3. **`PowerManager`** with the display's and the radios' sleep paths (the touch pause among them); **`InputManager`**'s
   debouncing and gestures; **`MemoryManager`**'s reclaim callbacks.
