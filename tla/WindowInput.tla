---------------------------- MODULE WindowInput ----------------------------
(***************************************************************************)
(* Keyboard and pointer capture of the desktop window.  The thread of the  *)
(* window procedure handles key messages and the loss of focus, the ticker *)
(* polls the pointer and repeats Backspace, the frame goroutine handles    *)
(* pointer events and the menu, and a worker types a paste or              *)
(* Ctrl+Alt+Del.  Sections under w.mu and w.input that one routine enters  *)
(* one after the other are one step; a report is always written after both *)
(* are free, in a step of its own.                                         *)
(*                                                                         *)
(* A report is absolute: the host holds what the last one written says.    *)
(* Pointer samples are absolute too and left out, but for what they do to  *)
(* the capture.                                                            *)
(***************************************************************************)
EXTENDS KeyReport, Sequences, Naturals

CONSTANTS
    Vendor,     \* "ilo" or "idrac"
    Keys,       \* keys the user presses
    MaxText,    \* strokes of a paste
    MaxInputs   \* inputs of the user: keys, moves, changes of focus, menu actions

ASSUME WindowInputAssumption ==
    /\ Vendor \in {"ilo", "idrac"}
    /\ Keys \subseteq Plain \cup Modifiers
    /\ {"back", "delete"} \subseteq Plain /\ "forgotten" \notin Plain
    /\ MaxText \in Nat /\ MaxInputs \in Nat

\* Goroutines that make reports of what they read earlier.
Reporters == {"window", "ticker", "frame"}
Threads == Reporters \cup {"worker"}

VARIABLES
    \* the user
    held,          \* keys down, as the messages handled so far say
    pos,           \* the pointer is over the "video", the "border" or "out"
    focus,         \* "on", "lost" (the window has not been told yet) or "off"
    inputs,        \* how many inputs there were
    \* guarded by w.mu
    ready, captured, uiBlocked, remoteTyping, layout,
    \* guarded by w.input
    pressed, rawPressed, rawInput, lastKeyReport, nextBackspace,
    \* the goroutines
    at, then,      \* where each is, and where it goes on after a release
    out,           \* reports it is about to write
    message,       \* the key message being handled
    \* the host
    wire,          \* the report written last
    stale,         \* goroutines overtaken since they decided what to do
    raced          \* what such a goroutine has spoilt: the "wire", the "state"

inputVars ==
    <<held, pos, focus, inputs, ready, captured, uiBlocked, remoteTyping, layout,
      pressed, rawPressed, rawInput, lastKeyReport, nextBackspace,
      at, then, out, message, wire, stale, raced>>

User == <<held, pos, focus, inputs>>
Mu == <<ready, captured, uiBlocked, remoteTyping, layout>>
Input == <<pressed, rawPressed, rawInput, lastKeyReport, nextBackspace>>
Host == <<wire, stale, raced>>

\* lastKeyReport after Ctrl+Alt+Del: equal to no report.
Forgotten == {"forgotten"}

NoMessage == [key |-> "none", down |-> FALSE]

\* Where a goroutine is: before a step of its own, at a write, or at none.
Places == {"idle", "write", "key", "note", "mouse", "claim"}

InputTypeOK ==
    /\ held \subseteq Keys /\ inputs \in 0 .. MaxInputs
    /\ pos \in {"video", "border", "out"} /\ focus \in {"on", "lost", "off"}
    /\ {ready, captured, uiBlocked, remoteTyping, rawInput, nextBackspace} \subseteq BOOLEAN
    /\ layout \in Layouts
    /\ pressed \subseteq Keys \cup Generic /\ rawPressed \subseteq Keys
    /\ lastKeyReport \in Reports \cup {Forgotten}
    /\ at \in [Threads -> Places] /\ then \in [Threads -> Places]
    /\ out \in [Threads -> Seq(Reports)]
    /\ wire \in Reports /\ stale \subseteq Reporters /\ raced \subseteq {"wire", "state"}

\* The first frame has been decoded: input is possible, and all keys are up.
InputInit ==
    /\ held = {} /\ pos = "video" /\ focus = "on" /\ inputs = 0
    /\ ready = TRUE /\ captured = FALSE /\ uiBlocked = FALSE /\ remoteTyping = FALSE
    /\ layout \in Layouts
    /\ pressed = {} /\ rawPressed = {} /\ rawInput = FALSE
    /\ lastKeyReport = NoKeys /\ nextBackspace = FALSE
    /\ at = [t \in Threads |-> "idle"] /\ then = [t \in Threads |-> "idle"]
    /\ out = [t \in Threads |-> <<>>] /\ message = NoMessage
    /\ wire = NoKeys /\ stale = {} /\ raced = {}

\* An input of the user.  Without a connection none has an effect, so those are
\* left out.
UserInput == ready /\ inputs < MaxInputs /\ inputs' = inputs + 1

MovePointer(p) ==
    /\ p # pos /\ UserInput /\ pos' = p
    /\ UNCHANGED <<held, focus, Mu, Input, at, then, out, message, Host>>

\* Away from the window keys are released unseen.
MoveFocus ==
    /\ UserInput
    /\ \/ focus = "on" /\ focus' = "lost" /\ UNCHANGED held
       \/ focus = "off" /\ focus' = "on" /\ held' \in SUBSET held
    /\ UNCHANGED <<pos, Mu, Input, at, then, out, message, Host>>

\* t writes reports, if there are any, and goes on to next.
WriteThen(t, reports, next) ==
    /\ out' = [out EXCEPT ![t] = reports]
    /\ at' = [at EXCEPT ![t] = IF reports = <<>> THEN next ELSE "write"]
    /\ then' = [then EXCEPT ![t] = IF reports = <<>> THEN "idle" ELSE next]

\* t changes what is to be sent: whoever decided before is overtaken.
Overtake(t) ==
    stale' = (stale \cup {u \in Reporters : at[u] \in {"note", "write"}}) \ {t}

----------------------------------------------------------------------------
\* The state guarded by w.input.

\* resetKeyboardState, resetCapturedInput
ResetKeyboardState ==
    /\ pressed' = {} /\ rawPressed' = {} /\ rawInput' = FALSE
    /\ lastKeyReport' = NoKeys /\ nextBackspace' = FALSE

\* SendAllKeysUp to the sender read under w.mu, when there is one.
AllKeysUp == IF ready THEN <<NoKeys>> ELSE <<>>

\* conn.Write of the next report, for SendKeyboardReport, SendAllKeysUp and
\* SendCtrlAltDel.  On a lost connection it fails.
Write(t) ==
    /\ t # "worker" /\ at[t] = "write"
    /\ wire' = IF ready THEN Head(out[t]) ELSE wire
    /\ WriteThen(t, IF ready THEN Tail(out[t]) ELSE <<>>, then[t])
    /\ raced' = IF t \in stale THEN raced \cup {"wire"} ELSE raced \ {"wire"}
    /\ stale' = IF out'[t] = <<>> THEN stale \ {t} ELSE stale
    /\ UNCHANGED <<User, Mu, Input, message>>

----------------------------------------------------------------------------
\* Capture.

\* pointerInsideCanvas, and what updatePointerCapture makes of it.
ShouldCapture == ready /\ ~ uiBlocked /\ focus = "on" /\ pos # "out"

\* As updatePointerCapture would be if the end of a capture were only noted.
UpdatePointerCaptureQuietly(t, next) ==
    /\ captured' = ShouldCapture
    /\ WriteThen(t, IF ShouldCapture /\ ~ captured THEN AllKeysUp ELSE <<>>, next)
    /\ UNCHANGED <<Input, stale, raced>>

\* updatePointerCapture, by the ticker and before every key message.  When a
\* capture begins the keys by position are forgotten, those by name are not.
UpdatePointerCapture(t, next) ==
    /\ captured' = ShouldCapture
    /\ CASE ShouldCapture = captured ->
              /\ WriteThen(t, <<>>, next)
              /\ UNCHANGED <<Input, stale, raced>>
         [] ShouldCapture /\ ~ captured ->
              /\ lastKeyReport' = NoKeys /\ rawPressed' = {}
              /\ WriteThen(t, AllKeysUp, next)
              /\ Overtake(t)
              /\ UNCHANGED <<pressed, rawInput, nextBackspace, raced>>
         [] ~ ShouldCapture /\ captured ->
              /\ ResetKeyboardState
              /\ WriteThen(t, AllKeysUp, next)
              /\ Overtake(t) /\ raced' = raced \ {"state"}

\* releaseCapture, on WM_ACTIVATE and for pointer events outside the video.
ReleaseCapture(t, next) ==
    /\ captured' = FALSE
    /\ ResetKeyboardState
    /\ WriteThen(t, IF captured THEN AllKeysUp ELSE <<>>, next)
    /\ Overtake(t) /\ raced' = raced \ {"state"}

----------------------------------------------------------------------------
\* sendKeyboard

\* As sendKeyboard's condition would be if local keys did not wait for a paste.
MaySendAlways == ready /\ captured

MaySend == ready /\ captured /\ ~ remoteTyping

\* GetKeyState tells the state the calling thread's own messages lead to, and
\* only the thread of the window receives them.
KeyState(t) == IF t = "window" THEN {held \ Plain} ELSE {held \ Plain, {}}

\* sendKeyboard and keyboardReportLocked, from the keys by name and by position.
SendKeyboard(t, named, positions, isRaw) ==
    \E modifiers \in KeyState(t) :
        LET raw == ByPosition(layout, isRaw)
            synced == IF raw THEN named ELSE SyncPressedModifiers(named, modifiers)
            report == IF raw THEN HpKeyboardReport(positions)
                             ELSE KeyboardReportForRegistry(layout, synced)
            same == report = lastKeyReport
        IN  /\ MaySend
            /\ pressed' = synced
            /\ lastKeyReport' = report
            /\ nextBackspace' = (nextBackspace /\ (same \/ "back" \in synced))
            /\ WriteThen(t, CASE same -> <<>>
                              [] ~ same /\ IsCtrlAltDel(synced) -> SendCtrlAltDel(Vendor)
                              [] OTHER -> <<report>>, "idle")
            /\ stale' = IF same THEN stale \ {t}
                        ELSE stale \cup {u \in Reporters \ {t} : at[u] = "write"}

----------------------------------------------------------------------------
\* The thread of the window.

\* handleRawKey up to the capture.  A key held down repeats its message, and
\* messages reach the window only while it has the focus.
KeyMessage(k, down) ==
    /\ focus = "on" /\ at["window"] = "idle"
    /\ down \/ k \in held
    /\ UserInput
    /\ held' = IF down THEN held \cup {k} ELSE held \ {k}
    /\ message' = [key |-> k, down |-> down]
    /\ UpdatePointerCapture("window", "key")
    /\ UNCHANGED <<pos, focus, ready, uiBlocked, remoteTyping, layout, wire>>

\* handleRawKey: only a captured key is the host's.
KeyCheck ==
    /\ at["window"] = "key"
    /\ \/ ready /\ captured /\ at' = [at EXCEPT !["window"] = "note"] /\ UNCHANGED message
       \/ /\ ~ (ready /\ captured)
          /\ at' = [at EXCEPT !["window"] = "idle"] /\ message' = NoMessage
    /\ UNCHANGED <<User, Mu, Input, then, out, Host>>

\* handleRawKey: the key is noted, by position and by name, and sendKeyboard.
HandleRawKey ==
    LET Noted(keys) == IF message.down THEN keys \cup {message.key} ELSE keys \ {message.key}
    IN  /\ at["window"] = "note"
        /\ rawInput' = TRUE /\ rawPressed' = Noted(rawPressed)
        /\ \/ SendKeyboard("window", Noted(pressed), rawPressed', TRUE)
           \/ /\ ~ MaySend
              /\ pressed' = Noted(pressed)
              /\ WriteThen("window", <<>>, "idle")
              /\ stale' = stale \ {"window"}
              /\ UNCHANGED <<lastKeyReport, nextBackspace>>
        /\ raced' = IF "window" \in stale THEN raced \cup {"state"} ELSE raced
        /\ message' = NoMessage
        /\ UNCHANGED <<User, Mu, wire>>

\* WM_ACTIVATE with WA_INACTIVE.
Deactivate ==
    /\ focus = "lost" /\ at["window"] = "idle"
    /\ focus' = "off"
    /\ ReleaseCapture("window", "idle")
    /\ UNCHANGED <<held, pos, inputs, ready, uiBlocked, remoteTyping, layout, message, wire>>

----------------------------------------------------------------------------
\* The ticker.  It does both things every 33 ms.
Tick ==
    /\ at["ticker"] = "idle"
    /\ UpdatePointerCapture("ticker", "idle")
    /\ UNCHANGED <<User, ready, uiBlocked, remoteTyping, layout, message, wire>>

\* updateKeyboardRepeat, when Backspace is held: the repeat is armed, and when it
\* is due, sendKeyboard is called.
UpdateKeyboardRepeat ==
    /\ at["ticker"] = "idle" /\ "back" \in pressed
    /\ \/ /\ ~ nextBackspace /\ nextBackspace' = TRUE
          /\ UNCHANGED <<pressed, lastKeyReport, at, then, out, stale>>
       \/ nextBackspace /\ SendKeyboard("ticker", pressed, rawPressed, rawInput)
    /\ UNCHANGED <<User, Mu, rawPressed, rawInput, message, wire, raced>>

----------------------------------------------------------------------------
\* The frame goroutine.

\* updateCaptureForPoint
InsideVideo == ready /\ ~ uiBlocked /\ pos = "video"

\* processCanvasPointer, mouseEvent: Gio says that the pointer left, or a sample
\* begins or ends the capture.  Other samples are only sent.
PointerEvent ==
    /\ at["frame"] = "idle"
    /\ \/ pos = "out" /\ ReleaseCapture("frame", "idle")
       \/ InsideVideo /\ ~ captured /\ captured' = TRUE
          /\ UNCHANGED <<Input, at, then, out, stale, raced>>
       \/ pos # "out" /\ ~ InsideVideo /\ captured
          /\ ReleaseCapture("frame", IF pos = "video" THEN "idle" ELSE "mouse")
    /\ UNCHANGED <<User, ready, uiBlocked, remoteTyping, layout, message, wire>>

\* sendMouse: the ticker may have begun a capture meanwhile, and a sample beside
\* the video ends it again.
SendMouse ==
    /\ at["frame"] = "mouse"
    /\ \/ ready /\ captured /\ ReleaseCapture("frame", "idle")
       \/ /\ ~ (ready /\ captured)
          /\ WriteThen("frame", <<>>, "idle")
          /\ UNCHANGED <<captured, Input, stale, raced>>
    /\ UNCHANGED <<User, ready, uiBlocked, remoteTyping, layout, message, wire>>

\* layout: an open menu or dialog blocks the canvas.
LayoutFrame ==
    /\ at["frame"] = "idle" /\ ready
    /\ inputs < MaxInputs \/ uiBlocked
    /\ uiBlocked' = ~ uiBlocked
    /\ UNCHANGED <<User, ready, captured, remoteTyping, layout, Input,
                   at, then, out, message, Host>>

\* setKeyboardLayout and setTargetLayout
SetLayout(l) ==
    /\ at["frame"] = "idle" /\ uiBlocked
    /\ l # layout /\ UserInput
    /\ layout' = l
    /\ ResetKeyboardState
    /\ WriteThen("frame", AllKeysUp, "idle")
    /\ Overtake("frame") /\ raced' = raced \ {"state"}
    /\ UNCHANGED <<held, pos, focus, ready, captured, uiBlocked, remoteTyping, message, wire>>

\* pasteClipboard up to its reset of the keyboard.
PasteClipboard ==
    /\ at["frame"] = "idle" /\ uiBlocked /\ UserInput
    /\ ResetKeyboardState
    /\ WriteThen("frame", <<>>, "claim")
    /\ Overtake("frame") /\ raced' = raced \ {"state"}
    /\ UNCHANGED <<held, pos, focus, Mu, message, wire>>

\* The reports of sendClipboardText: the keyboard is released before the first
\* stroke, after each and at the end.
SendClipboardText(text) ==
    [i \in 1 .. 2 * Len(text) + 2 |->
        IF i % 2 = 0 /\ i <= 2 * Len(text) THEN {text[i \div 2]} ELSE NoKeys]

\* The rest of pasteClipboard: beginRemoteTyping, and the goroutine that types
\* what has a stroke.
BeginPaste ==
    /\ at["frame"] = "claim"
    /\ \/ remoteTyping /\ UNCHANGED <<remoteTyping, out, stale>>
             /\ at' = [at EXCEPT !["frame"] = "idle"]
       \/ /\ ~ remoteTyping /\ remoteTyping' = TRUE
          /\ \E n \in 0 .. MaxText : \E text \in [1 .. n -> Plain] :
               out' = [out EXCEPT !["worker"] = SendClipboardText(text)]
          /\ at' = [at EXCEPT !["frame"] = "idle", !["worker"] = "write"]
          /\ Overtake("frame")
    /\ UNCHANGED <<User, ready, captured, uiBlocked, layout, Input, then, message, wire, raced>>

\* sendCtrlAltDel, the button; when the keyboard is busy nothing happens.
BeginChord ==
    /\ at["frame"] = "idle" /\ ~ remoteTyping /\ UserInput
    /\ remoteTyping' = TRUE
    /\ lastKeyReport' = Forgotten
    /\ out' = [out EXCEPT !["worker"] = SendCtrlAltDel(Vendor)]
    /\ at' = [at EXCEPT !["worker"] = "write"]
    /\ Overtake("frame")
    /\ UNCHANGED <<held, pos, focus, ready, captured, uiBlocked, layout,
                   pressed, rawPressed, rawInput, nextBackspace, then, message, wire, raced>>

\* The worker writes its next report; after the last, or when a write fails, it
\* gives the keyboard back: endRemoteTyping.
RemoteTyping ==
    /\ at["worker"] = "write"
    /\ wire' = IF ready THEN Head(out["worker"]) ELSE wire
    /\ WriteThen("worker", IF ready THEN Tail(out["worker"]) ELSE <<>>, "idle")
    /\ remoteTyping' = (out'["worker"] # <<>>)
    /\ raced' = raced \ {"wire"}
    /\ UNCHANGED <<User, ready, captured, uiBlocked, layout, Input, message, stale>>

----------------------------------------------------------------------------
\* handleDisconnect, shutdown
LoseInput ==
    /\ ready
    /\ ready' = FALSE /\ captured' = FALSE
    /\ ResetKeyboardState
    /\ UNCHANGED <<User, uiBlocked, remoteTyping, layout, at, then, out, message, Host>>

----------------------------------------------------------------------------
WindowSteps == Write("window") \/ KeyCheck \/ HandleRawKey \/ Deactivate
TickerSteps == Write("ticker") \/ Tick \/ UpdateKeyboardRepeat
FrameSteps == Write("frame") \/ SendMouse \/ BeginPaste

InputNext ==
    \/ \E k \in Keys, down \in BOOLEAN : KeyMessage(k, down)
    \/ \E p \in {"video", "border", "out"} : MovePointer(p)
    \/ MoveFocus
    \/ PointerEvent \/ LayoutFrame \/ PasteClipboard \/ BeginChord
    \/ \E l \in Layouts : SetLayout(l)
    \/ WindowSteps \/ TickerSteps \/ FrameSteps \/ RemoteTyping
    \/ LoseInput

InputSafetySpec == InputInit /\ [][InputNext]_inputVars

\* No goroutine stops between two steps: mutexes are held for one step, and a
\* write returns or fails.
InputSpec ==
    /\ InputInit /\ [][InputNext]_inputVars
    /\ WF_inputVars(WindowSteps) /\ WF_inputVars(TickerSteps) /\ WF_inputVars(FrameSteps)
    /\ WF_inputVars(RemoteTyping)

----------------------------------------------------------------------------
AtRest == ~ remoteTyping /\ \A t \in Threads : at[t] = "idle"

\* Whatever the order of key messages, polls, pointer events, menu actions,
\* pastes and chords: once no goroutine is at work, the host holds no key that
\* the user does not hold, and none at all while the window has not captured the
\* keyboard.  A report that was decided before a later reset, report or claim and
\* written after it is excepted: nothing in sendKeyboard prevents that.
NoStuckKey ==
    (AtRest /\ ready /\ raced = {}) =>
        /\ wire \cap Plain \subseteq held
        /\ captured \/ wire = NoKeys

\* Each stroke of a paste or chord is a new key press for the host: the key is
\* not already down when its report is written, so none is lost.
EveryStrokeCounts ==
    [][(RemoteTyping /\ ready /\ raced = {})
          => Head(out["worker"]) \cap wire \cap Plain = {}]_inputVars

----------------------------------------------------------------------------
(* Why they hold: an inductive invariant *)

Last(reports) == reports[Len(reports)]

\* The window is at a key message, and its key is one that the user lets go of.
Handling == \/ at["window"] \in {"key", "note"}
            \/ at["window"] = "write" /\ then["window"] = "key"

Releasing == IF Handling /\ ~ message.down THEN {message.key} ELSE {}

\* The user holds the keys, but for one whose release is at hand.
Kept(keys) == keys \cap Plain \subseteq held \cup Releasing

\* Where the goroutines can be.
Routes ==
    /\ at["worker"] \in {"idle", "write"} /\ then["window"] \in {"idle", "key"}
    /\ \A t \in Threads : then[t] # "write" /\ (at[t] = "write" => out[t] # <<>>)

\* The key message at hand.  A capture that ended after KeyCheck overtook it.
Handled ==
    /\ Handling => /\ focus # "off" /\ message.key \in Keys
                   /\ message.down \in BOOLEAN
                   /\ message.down => message.key \in held
    /\ at["window"] = "note" /\ ready /\ ~ captured => "window" \in stale

\* The window knows of no key that the user does not hold, and of none at all when
\* it has not captured the keyboard or has lost the focus.
Noted ==
    /\ ready /\ "state" \notin raced => /\ Kept(pressed \cup rawPressed)
                                        /\ captured \/ pressed \cup rawPressed = {}
    /\ focus = "off" => /\ pressed \cup rawPressed = {}
                        /\ lastKeyReport \in {NoKeys, Forgotten}

\* A report that may be on the wire: the empty one, or the one decided last.
Sound(report) ==
    \/ report = NoKeys
    \/ /\ captured /\ ~ remoteTyping /\ report = lastKeyReport
       /\ "state" \in raced \/ Kept(report)

\* Who was not overtaken ends with a sound report, and releases all keys when it
\* writes beside the worker.
Pending ==
    ready => \A t \in Reporters \ stale : at[t] = "write" =>
                 Sound(Last(out[t])) /\ (remoteTyping => out[t] = <<NoKeys>>)

\* When nobody writes, or has to, a sound report is on the wire.
Settled ==
    (/\ ready /\ ~ remoteTyping /\ at["frame"] # "claim" /\ "wire" \notin raced
     /\ \A t \in Reporters : at[t] # "write") => Sound(wire)

\* The worker ends with the empty report and has no key in two reports running.
Strokes ==
    /\ remoteTyping <=> at["worker"] = "write"
    /\ remoteTyping =>
         /\ Last(out["worker"]) = NoKeys
         /\ \A i \in 1 .. Len(out["worker"]) - 1 :
              out["worker"][i] \cap out["worker"][i + 1] \cap Plain = {}

InputIInv ==
    InputTypeOK /\ Routes /\ Handled /\ Noted /\ Pending /\ Settled /\ Strokes

\* The key of the chord is free when no worker types, and nobody else presses it.
ChordFree ==
    /\ ready /\ ~ remoteTyping => "delete" \notin wire
    /\ \A t \in Reporters : \A i \in DOMAIN out[t] : "delete" \notin out[t][i]

\* The next report of the worker holds no key that is down.
Fresh ==
    remoteTyping /\ ready /\ "wire" \notin raced =>
        Head(out["worker"]) \cap wire \cap Plain = {}

StrokesIInv == InputIInv /\ ChordFree /\ Fresh
============================================================================
