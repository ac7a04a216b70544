# Firstlight: TLA+ models, checks and proofs

Firstlight is a remote console client for HPE iLO and Dell iDRAC management
controllers: a desktop viewer (`cmd/firstlight`) and an MCP server
(`cmd/firstlight-mcp`) over the same packages. This directory holds TLA+
modules for the parts of it that are concurrent, that talk to a controller that
may vanish at any time, or that keep a promise over many calls.

## 1. Inventory

| part | state it keeps | operations | what makes it correct |
|---|---|---|---|
| operation ledger, `console/session.go` `ExecuteOnce` | `operations`: a record per operation id | run, join, wait, settle, evict | a retry is answered from the first call and runs nothing again while it is remembered |
| console manager, `console/manager.go` | session table, ledger of opens, closed flag | `OpenOnce`, `Open`, `Get`, `CloseSession`, `sweep`, `Close` | every live console has one party that will close it; shutdown leaves none |
| iLO console, `console/session.go`, `input.go`, `management.go`, `vmedia.go` | KVM and command sockets, web login, medium, `connected`, four mutexes | typing, mouse, power, management requests, mount, unmount, read loops, `Close` | chords unbroken, keys up at rest, nothing left when it ends |
| Dell console, `console/idrac.go` | a mirrored copy of the iDRAC session's state, revision, change channel | `watchRemote`, `Observe`, `Close` | no lost wake-up, no picture older than its revision |
| iDRAC session, `idrac/session.go`, `input.go`, `session_media.go`, with the requests of `client.go`, `system.go` | web login, RFB connection, keyboard state, mounted medium | `Connect`, `readLoop`, heartbeat, input, mount, unmount, `Close` | keys up, departure announced and login given back at every end; one medium at a time, always reachable |
| iDRAC demultiplexer, `idrac/transport.go` | pending bytes, boundary and handshake flags | `Read`, `routeControl` | RFB gets its bytes and nothing else, the handler every control message |
| iDRAC media channel, `idrac/vmedia.go` | socket, image, flags, counters | message handlers, heartbeat, `Close` | answers in order, nothing up after the end |
| iLO virtual CD, `vmedia/session.go`, `iso.go` | socket, image, media and event state, counters | SCSI commands, keepalive, `Close` | whole replies, exact capacity, complete end |
| RFB keyboard, `rfb/keysym.go` | last report, held keys | `Apply`, `Held` | every key pressed under its modifiers, none left held |
| WebSocket, `wsx/wsx.go` | socket, deadline, two mutexes, close flags | dial, read, write, close | messages whole, nothing after the close frame, close bounded |
| video decoder, `kvm/decoder.go`, `videostream.go` | bit-level state machine, colour cache | one symbol, resynchronise, ask for a frame | agrees with the encoder on every colour, recovers |
| KVM connection, handshakes, sharing, `kvm/` | socket, ciphers, share peers | dial, read, write, share | peers announced and withdrawn |
| desktop window, `app/app.go`, `session_windows.go`, `backend_windows.go` | the console's login, sockets, medium, share leader; two frame buffers | connect, read loops, mount, share, disconnect, shutdown; copy and paint | everything opened is closed by somebody; the newest frame shown |
| desktop input, `app/keyboard_windows.go`, `raw_keyboard_windows.go`, `keyboard_state_windows.go` | keys held twice over, capture, last report | key messages, poll, pointer, focus, paste, chord | no key stays down on the host |
| RFB decoding, `rfb/decode.go`, `screen.go`; web clients, `ilo/`; detection, `bmc/`; layouts, `keyboardmap/`; dialogs, `login/`, `ui/`; tool adapters, `mcpserver/` | tables, settings, none that is shared | requests, decoding, lookups | see 6 |

How they interact: an MCP tool call goes through `ConsoleManager` to a console
`Session`; calls that change something go through that session's ledger. An iLO
session owns a `kvm.Conn`, a command channel and a `vmedia.Session`; a Dell
session mirrors an `idrac.Session`, which owns the demultiplexed WebSocket, the
RFB connection and a `MediaSession`. The desktop window owns the same parts without the
manager and feeds a screen. Components share state under mutexes, wake
each other by closing channels, and end each other by closing sockets and
cancelling contexts. Hard are: overlapping calls with `Close` and with a
connection that is lost meanwhile; several writers on one socket; retries of what
was already done; messages cut or packed by the transport; and every goroutine's
end. `PROJECT.json` lists these hazards with the line where each one bites.

## 2. Modules

| module | models | state and actions |
|---|---|---|
| `ExecuteOnce` | `Session.ExecuteOnce` | `operations` is the map; each caller has a place, and each segment between a lock and an unlock is one action (`Join`, `Register`, `Settle`, `Answer`, `Cancel`). `Panic` is the deferred recover path; `Evictions` is the set of sets the loop may drop, as Go's map order is arbitrary |
| `ConsoleManager` | `Manager` | the session table, the open ledger, `entries` and `expired` as the local lists of `Close` and `sweep`; time is the pair `GrowIdle`, `GrowOld` |
| `IloSession` | an iLO console `Session` | the mutexes are variables, sockets, login and media are sets; one action per segment of each goroutine, from the success of `openSession` on; `amiss` records what went wrong: the iLO left, a key came after the all-keys-up of `Close`, a logout failed |
| `RemoteMirror` | a Dell console `Session` | the iDRAC session as seen through `State` and `Changed`, the copy, and observers |
| `WindowPicture` (extends `RemoteMirror`) | the same mirroring for the window: `watchRemote` and `readLoop`, `uploadFrameIfDirty`, `layoutCanvas` | the dirty flag, two buffers, the buffer being painted; the ticker's copy is one step between two locked ones |
| `IdracSession` (extends `KeyboardState`) | `idrac.Session` | `stage` follows `Connect` and its deferred logout, `onBooks` is what the controller holds; then input, `Close`, `markDisconnected`, heartbeat, mounts, one action per locked section |
| `KeyboardState` | `rfb.KeyboardState` | `Apply` as an operator from two reports to a sequence of key events |
| `ConsoleStream` | demultiplexer, buffered reader, RFB framing | a byte is its position in the RFB stream, so that loss, duplication and intrusion all show; messages are given by the positions where they start; pixels may be `plain`, begin like a control message or mimic one to the letter, and `confused` remembers a message that nothing in its bytes tells apart |
| `WsConn` | `wsx.Conn` with its reader, writers and closer | frames on their way, both mutexes, the deadline; `readFrame` takes two steps, so that a deadline may fall between header and payload, after which the rest is garbage that ends or derails a read; the peer answers, stalls or vanishes |
| `MediaChannel` | `idrac.MediaSession` | handlers as lists of messages to send; each send is a step, as in the code, where each takes the write lock by itself; a read request brings its own block size, which need not be the image's; `asked` and `answered` remember the controller's requests and those that it got an answer to |
| `ScsiTarget` | `vmedia.Session`, `cdImage` | commands of the host, long reads in pieces under the write lock, keepalive, `Close` |
| `VideoDecoder` (extends `ColorCache`) | `kvm.Decoder`, `VideoStream.Feed` | one action per symbol of an arbitrary bit stream; `stateTable` is the code's table with names for numbers |
| `ColorCache` | `colorCache` | `Lru`, `Touch`, `Prune`, `Pixcode` as operators on a function from colours to usage and counter |
| `MoveToFront` | what the cache promises | the abstract specification: a list, the colour used last in front, and how many of it the block has used |
| `Window` | `appWindow`'s goroutines and `LegacyShareLeader` | a resource is a kind and its maker; `live`, `doomed` (about to be closed), `local` (in a goroutine's variables) and `slots` (the window's fields) say where it is; `unheard` are logins whose logout failed, a goroutine is `stuck` in a dial that hangs, `exited` is the end of the process |
| `KeyReport` | `keyboardReport...`, `syncPressedModifiers` | reports as sets of keys, made from `pressed` or `rawPressed` |
| `WindowInput` (extends `KeyReport`) | key messages, pointer capture, focus, paste, Ctrl+Alt+Del | each locked section is a step and each written report another; `wire` is what the host holds |
| `ExecuteOnceProofs`, `ConsoleManagerProofs`, `IloSessionProofs` (also for `ScsiTarget`), `IdracSessionProofs` (also for `MediaChannel` and `ConsoleStream`), `WindowPictureProofs` (also for `RemoteMirror`), `WsConnProofs`, `WindowProofs` (also for `WindowInput`), `VideoDecoderProofs` (for `ColorCache` and `MoveToFront` too) | | theorems |
| `MCConsoleStream`, `MCIloSession` | | values and symmetry for TLC |

What a controller does is external and chosen nondeterministically. Definitions
whose comment begins with "Mutant" or "As ... would be" are deliberately wrong
variants of the definition that follows; no specification uses them. Each shows
that a property notices a plausible mistake. `TypeOK` (`PictureTypeOK`) of a module
is the type invariant, and part of a proved invariant. A session's proofs also cover the
parts it owns, so the names of `ScsiTarget`, `MediaChannel`, `ConsoleStream` and `WindowInput` that
would meet those of the session or the window begin with `Cd`, `Channel`, `Stream` and `Input`
(`CdSpec`, `ChannelIInv`).

## 3. Runs

| run | instance | shows |
|---|---|---|
| `ledger` | 3 calls, 2 ids, 2 kinds, a ledger of one record | a record is evicted while calls with its id run, wait and come back |
| `manager` | 2 opens, 2 ids, 1 client, sweeper, `Close` | two consoles at once, or two calls for one id; each can be expired, closed and shut down |
| `idrac_session` | 1 caller, 2 mounts | a `Connect` that fails anywhere; `Close` and unmount against two mounts in flight, a lost connection and media that end by themselves |
| `idrac_media` | 3 blocks of 2, 2 messages that ask for blocks of 0, 1 and 4, a heartbeat, `Close` | reads at, across and beyond the end; repeated `connected` |
| `idrac_stream` | 4 RFB messages after a handshake, 3 control messages, a 2-byte buffer | every way of cutting 13 bytes into messages of up to 4, with control messages of each kind at any place, up to the first message that cannot be told apart |
| `ilo_session` | 1 typist, 1 management caller, 2 mounts, reader, `Close` | all safety properties of the iLO console, with a hang-up in mid-chord and a logout that fails |
| `mirror` | 1 observer or a window of either vendor, 3 frames | wake-ups, pictures and buffers, with the ticker overtaken by the painter and the reverse |
| `ilo_media` | 4½ sectors, chunks of two | every order of commands, with reads up to, at and beyond the last whole sector |
| `video` | 5 colours, a cache of 4, a block of 4 | eviction from a full cache, pruning of any subset, every symbol in every state, full and half blocks |
| `websocket` | 2 writers, a reader, `Close`; 2 messages, 1 ping, 1 frame in each direction's buffer | fragments around a ping, a close from either side, a read cut off in mid-frame and what `Close` then drains, a writer blocked by a peer that does not read |
| `window` | each of three vendors, with and without a configured image; 1 mount, 1 shared session | shutdown, a lost console and withdrawn permission between any two steps of a connect, a mount and a join, any dial hanging, any logout failing, the process ending once `shutdown` has begun |
| `window_input` | iLO, Backspace and shift, a one-stroke paste, 3 inputs of the user | every order of key messages, polls, pointer moves, focus, menus, paste and chord |

Bounds. Callers are symmetric and interact only through locks and shared
records, so two (three where a retry, a first call and an evicting call must meet)
give every pair of segments in every order. Sizes keep the relations of the real
constants (a read shorter and longer than a chunk, a buffer smaller than a
message, a cache smaller than the number of colours, an image that does and one
that does not end on a block). The window's two vendors of iLO and the Dell differ in
which resources exist, and the run chooses among them. Three inputs of the user are
enough for a key that is pressed before and released after a change of
capture. In `Window` a resource is named by its kind and maker: a
mount opens a second medium only once its first one is gone. Each bound on a counter is a named constant of its module. Where a
configuration switches the deadlock check off, the system really may stop: a
failed `Connect`, a closed connection or window, a stream that has ended, a user out of
inputs.

Fairness. A goroutine that can run does run (weak fairness of its steps); a
mutex that is free again and again is got in the end (strong fairness, Go's mutexes
do not starve). A read on a closed socket returns, and a deadline expires. iLO reads
have a deadline, so the iLO read loop also looks at its context by itself; the
iDRAC `readLoop` has none, and its end is only required once the socket is closed.
The decoder's firmware goes on sending. In `Window` all of this is asked only of
goroutines that are not stuck in a dial, and only while the process runs: a dial on the
window's context has no deadline (`kvm/conn.go:88`, `w.ctx` is only cancelled, and that
does not wake a read), so a silent controller holds the goroutine for good, and
`main.go:56` ends the process with its windows. `WindowEnds` and `LostReleased`
name what such a goroutine still holds, the failed logouts and the exit as their exceptions. A Dell
session's `Close` is taken to succeed there; its failing is `IdracSession`'s. No fairness is
assumed of controllers otherwise, of users, callers, timeouts of others or panics.

Liveness is checked for the ledger (`WaitersReturn`), the manager (`ConsolesEnd`),
both sessions' ends (`SessionEnds`), the media channel (`ChannelEnds`), mirror and
screen (`FrameWakes`, `NewestShown`), decoder (`LatchedAsks`), WebSocket
(`CloseReturns`) and window (`WindowEnds`, `LostReleased`). The iLO console's is not:
its graph of 3.7 million states is checked for safety under symmetry only.

Refinement. `KeepsList == List!Spec` says that `VideoDecoder` implements
`MoveToFront` under the mapping that sorts the cache by usage and counts the elements
with a block with a block counter. The encoder in the firmware names a colour by its place in the
list, so this is what keeps the picture's colours right. TLC checks it on the instance and
`DecoderKeepsList` proves it, step by step.

## 4. Proofs

TLAPS proves these for any set of callers, ids, kinds, keys, colours, observers and mounts, any
number of messages and frames, any size of image, block, buffer and message, and any limit. The constants are only assumed to be
distinct where the code's values are, and bounds to be numbers.

Each component has an inductive invariant, `IInv`, made of named parts that include
the module's type invariant. The proof modules show that it holds at the start, that
every action preserves it (one step per action, one below it per part) and that it
gives the properties that the runs check.

* `ExecuteOnceProofs`: `IInv` says that a running call is the one its record
  belongs to (`Filed`), that callers stand where their record allows, and that
  a settled record holds the outcome of a call with the same id and kind
  (`Coherent`). It is needed because what a waiter answers with depends on a
  record that may have been evicted since. From it:
  `NoConcurrentExecution`, `AnsweredFromSettledTwin`, `RepeatedOnlyIfForgotten`,
  and that with no more ids than the ledger keeps every operation runs at most once
  (by counting: the eviction set is then empty).
* `ConsoleManagerProofs`: `IInv` joins `OneOwner` with what `Close` and the sweeper
  have done at each of their stages. From it `OneOwner` and `NothingLeftBehind`.
* `IloSessionProofs`: `IInv` says who holds which mutex, that a held key belongs to
  the holder of `operationMu` (`KeysHeld`), how a key can be
  down on a connection that has ended (`KeysLost`: the iLO left first, or the key came after the all-keys-up
  of `Close`), and that each socket, medium and login
  is either in a field of the session or in the hands of somebody about to dispose of it.
  From it all four safety properties; a login that a failed logout has left is
  excepted where they speak of logins.
* `IdracSessionProofs`: `Connecting` says that nobody uses a session before `Connect`
  has succeeded, `Departure` at which step of an end the announcement, the logout and
  the socket stand, `MediaHeld` which mount or unmount holds a medium. From them
  `NothingOnTheBooks` and `MediaReachable`, for any number of callers. `NoKeyStuck`
  needs what the session knows of the wire (`KeysFollow`: a key that is down is
  in the keyboard state or among the events still to be sent) and `ClosingOrder`. It is
  proved for one caller and keys whose keysym does not depend on shift, because
  for two callers, or for a shifted key, it is not true of the code (see 5);
  modifiers, keys and mounts are as many as you like, and the heartbeat, the reader and
  `Close` run beside the caller.
* `WindowPictureProofs`: the counts of the mirrored frames (`Counted`) and the fact that no
  copy is ahead of the iDRAC (`NoneAhead`) give `ImageNotOlder`, for a console by itself and for a
  window; which buffer is being painted, filled or shown gives `PaintedStill`. `BuffersInOrder` says which of
  the two buffers holds the newer frame at each place of the ticker and the painter; hence
  `PictureNeverGoesBack`: the frame on the screen never gives way to an older one.
* `WsConnProofs`: `Writing` says that whoever is inside a frame has the write lock and
  what it writes, `Reading` that `ReadMessage` and the loop of `Close` exclude each
  other, `Ending` how far `Close` is, `WellFormed` that only a cut leaves garbage to read.
  From these `NothingAfterClose` and `OrderlyEnd`.
  `MessagesWhole` needs a relation between what has been assembled and what is still on
  its way: `InStep` says that the frames before the reader lead, each from the place
  where the last one ended, from the reader's place in the peer's stream to the peer's own
  (`Leads`). Taking a frame cuts the path at its first place, sending one
  lengthens it at its last. The path is needed only until the reader is done
  with the stream (`Spoiled`).
* `WindowProofs`: `SlotsInOrder` and `Holding` say what may be in which field and in
  which goroutine's variables, `Unconnected` that a window has nothing before it is
  connected but what the connector holds, `Media` how many media there can be. A login leaves the
  window's fields only for somebody about to log out, or for `unheard`. With any number of
  mounts at once a window loses track of nothing but media, and of those only on a modern
  iLO (`WindowNothingElseStray`); with one mount at a time, of nothing
  (`WindowEverythingOwned`). The hypothesis `OneMount` is one the program does not
  enforce: see 5 for what happens without it.
* Keyboard and pointer capture, in `WindowProofs`: two records of the held keys, by name and by
  position, change under locks that are free again when the report is written, so the invariant
  follows a report from the locks to the wire. `Noted` says that the window knows of no key that
  the user does not hold, but for one whose release is at hand, and of none when it has not captured
  the keyboard or has lost the focus; `Handled` that a key message caught up by the end of a
  capture is overtaken; `Pending` that whoever was not overtaken ends with the empty report or
  the one decided last (`Sound`), and releases everything when it writes beside the worker;
  `Settled` that such a report is on the wire when nobody writes. Hence `InputNoStuckKey`, for any
  keys, layouts, paste lengths and numbers of inputs. For `InputEveryStrokeCounts`, `Strokes` says
  that the worker ends with the empty report and has no key in two reports running, `Fresh` that its
  next report finds its key up, `ChordFree` that Delete is up when a chord begins. Its hypothesis,
  that Delete is not among the keys pressed, is one the program does not enforce: see 5.
* `VideoDecoderProofs`: `Ordered` says that the usages of the cached colours are the places
  of a list (each number from 0 up to the size of the cache, once), with the colours counted in this
  block in front. Touching, ageing and pruning a cache of that shape are moving to the front of
  that list, dropping its tail and forgetting the count, so every step of the decoder is one of
  `MoveToFront` or leaves the list alone: this is `DecoderKeepsList`, with `MoveToFront`'s list defined
  by the usages. `DecoderFanFresh` (a place in the cache is read with the width for the colours
  in it) needs what each state of the decoder knows of the cache.
* Virtual CD, in `IloSessionProofs`: `Streaming`, `Outstanding` and `LockKept` say who has the
  write lock, what is left of a long read and which pieces the host still expects: `CdFramesWhole`.
  `Announced` and `Answered` say what the host was told and what was sent for it; with the
  arithmetic of whole blocks (`WholeBlocks`), for any image, sector and chunk size:
  `CdCapacityExact`.
* Media channel, in `IdracSessionProofs`: `TeardownDone` says what each step of a teardown has
  already put down, whichever of the two parties took it: `ChannelNothingUpWhenDone`. `Headers`,
  `LastRequest` and `NoneMissing` say that at most the last request is unanswered, and only
  while its handler has the header still to send: `ChannelAnswersInOrder`.
* Console stream, in `IdracSessionProofs`: `InOrder` says which bytes are read, buffered and
  pending, `Place` how far each phase of the session has read, `Declared` when the boundary
  stands and that nothing is left over where messages are not packed, `Sought` that an update is
  owed or on its way. From them `StreamStaysIntact`, `StreamControlsHandled` and
  `StreamNoMutualWait`, for any messages, any buffer and any cut. Their conjunction is `Clear`, which holds until a
  message comes that nothing in its bytes tells apart (`confused`); after it the three promise nothing,
  and the code keeps none of them (see 5). The hypothesis `NeverBoth`
  says that no firmware both packs messages and sends pixels that begin like a control message: with such a
  firmware all three are false of the code (see 5).

TLC checked each `IInv` before it was proved, on the instances of section 3, and the
window's with two mounts as well.

With TLC stay the liveness properties, which are out of the prover's reach. Every invariant
and every action property that a run checks is stated by a theorem.

## 5. Met while modelling

True of the code, and kept out of the passing runs by an instance or by an exception
that the property states:

* Press `A` with shift, let go of shift, let go of the key: the release is sent for
  `a`, and `A` stays down (`rfb/keysym.go:208`), although line 205 says a chord never
  leaves a stale key. `idrac_session` has one plain key and no modifier, so it says nothing about chords.
* A heartbeat, or `Close`, can write between the header and the payload of a read
  answer (`idrac/vmedia.go:475`), which IDRAC-Wireprotokol.md:453 says follow each other.
* The ledger forgets finished operations beyond 256, so a late retry runs again;
  README.md:459 promises otherwise. `LedgerAtMostOnceWithinLimit` is what does hold.
* With a second goroutine sending input, `idrac.Session.Close` can leave a key
  down: `SendKeysym` bypasses the keyboard state, and a report is applied and written
  under two locks. `idrac_session` therefore has one caller.
* `idrac.Connect` takes the newest login of the user for its own (`session.go:162`).
  If somebody logs in meanwhile, or the list cannot be read, a seizure closes the
  session's own login, and the ticket is then refused. `NothingOnTheBooks` shows that it
  cleans up; a login or logout whose answer is lost is excepted (`unanswered`).
* An image that is no multiple of 2048 is announced to the iDRAC with a last block
  that `ISO.ReadAt` refuses (`idrac/vmedia.go:201`). `idrac_media` has whole blocks.
  The iLO target announces whole blocks only, which `CapacityExact` confirms.
* When WebSocket messages pack RFB messages together *and* pixels begin like a control
  message, the demultiplexer can take pixels for a control message, since the
  boundary is declared while the buffered reader already holds the start of the next
  message. `idrac_stream` has either, not both.
* The fixed lengths that "separate them from pixel data" (`idrac/transport.go:66`) do not always: a
  WebSocket message of two or three octets of pixels that is a control message to the letter goes to the
  handler, and RFB waits for octets that never come. A client list in
  the middle of an RFB message goes to RFB, having no fixed length. A control message other than
  the key challenge that comes first is pushed into the RFB stream (`idrac/session.go:318`) and fails the
  handshake. The stream's properties end there (`confused`).
* The wait for the key challenge is a read deadline. If it ends inside a frame, the
  rest of that frame is read as a new one (`MessagesWhole` excepts `cut`). If `Close` drains such a rest,
  any error of it ends the wait for the peer's close (`wsx.go:273`; `OrderlyEnd` excepts `cut`).
* `Close` of an iLO console releases the keys and hangs up in two steps. A key pressed between them stays down
  (`console/session.go:525`), although README.md:450 has closing release the input. `KeysUpAtRest` excepts
  it (`late`), and a chord that the iLO itself cut off (`peer`).
* The results of logouts are ignored, and after two seconds so is their delay: `console/session.go:484` and 547,
  `session_windows.go:94` and 341, `app.go:1136`. The login then stays until the controller drops it.
  `NothingLeftBehind` of the iLO console, `EverythingOwned`, `WindowEnds` and `LostReleased` except it.
* A controller that accepts a connection and then stays silent blocks the window's connect or mount for good:
  `kvm/conn.go:88` sets a deadline only if the context has one. Disconnecting and closing the window
  go on without it; what it holds stays (`Withheld`).
* `main.go:56` exits when the windows have closed, with a late connector or mount perhaps still about to
  clean up; if the launcher ends while a window is being shut down, even in the middle of that, since
  `SessionWindow.Close` (`app.go:567`) returns at once from a window that is closed already. What has not been
  closed by then, a login say, stays.
* The insertion event of the iLO virtual CD advances with every command
  (`vmedia/session.go:238`), so it is told only to a host whose first command asks.
* `startISO` stores a new command channel without looking whether `shutdown` has been
  there (`session_windows.go:428`); nobody closes it then (`WindowEnds` excepts `late`).
* A lost console clears `vmConnecting` while a mount is under way
  (`session_windows.go:320`). If a second file dialog was open as well, its
  `mountISO` then starts beside the first one. A modern iLO lets both connect, the
  second is stored over the first, and nobody will close that one; a legacy iLO
  refuses the second. `window` has one mount.
* A medium given on the command line has nobody to watch for its end; and the window can
  say "Connected." after it was disconnected.
* A legacy console that becomes free between the busy answer and the second dial is
  entered directly, and `connect` takes it for a joined session (`session_windows.go:125`):
  it has no share leader, and cipher changes and refreshes are ignored.
* A failed relay to a share peer tells the iLO that the peer has closed, possibly before
  it was told that it opened (`legacy_share.go:75`).
* `sendKeyboard` decides on a report under its locks and writes it after them
  (`keyboard_windows.go:60`), so a release that comes in between is overtaken
  (`NoStuckKey` and `EveryStrokeCounts` except `raced`).
* The menu's Ctrl+Alt+Del releases nothing first (`app.go:465`). If Delete is held on the keyboard
  meanwhile, the chord finds it down and the host sees no press of it. `window_input` presses no
  Delete, and `InputEveryStrokeCounts` assumes as much.
* Resynchronising does not reset `cmdCount` (`decoder.go:671`), so a command cut off by it
  lends octets to the next one; and a new cipher takes effect only after all that was read
  with it has been decrypted by the old one (`session_windows.go:256`).

## 6. Not modelled

Octets of messages, ciphers, HTTP bodies, keysym, key code and layout tables, PNG
encoding, pixels, logging and wording. In `MediaChannel` tokens and keys; in
`IloSession` the mouse position and the content of the power channel; in
`IdracSession` pointer, power, the sharing request with its answer, `watchFirstFrame`
and `TakeOverConsole`; in `ConsoleStream` more than one message before the handshake, since
the code takes one; in `Window` status texts, power state, menus, and a connection that a
hanging dial has only half made; in
`WindowInput` pointer samples, and in its instance keys under AltGr, dead keys and Ctrl+Alt+Del typed on the keyboard (the menu sends it).
`openSession`'s own failures and what it then cleans up are left out: `IloSession` begins where it has
succeeded. In `WsConn` the peer sends well-formed frames within the limits, unless a read was cut.
`NoStuckKey` compares plain keys, not modifiers, with what the user holds while the keyboard is captured.
RFB rectangles, the iLO handshakes and `keyboardmap` are pure functions of octets or
files, `mcpserver` and the web clients one request per call, `login` and `ui` Windows
calls. A write that blocks for good on a half-open connection is in `WsConn`; the models
above it let such a write fail in the end.

## 7. What would come next

1. The ledger as an implementation of an at-most-once register, and the mirror and the
   window's picture as implementations of a latest-frame register.
2. `RFB` rectangles (`rfb/decode.go`, `screen.go`) as operators against a reference.
