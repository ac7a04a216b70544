---------------------------- MODULE IdracSession ----------------------------
(***************************************************************************)
(* idrac.Session (internal/idrac/session.go, input.go, session_media.go,   *)
(* with the web requests of client.go and system.go): a Dell console from  *)
(* its web login to its logout.  Once Connect has succeeded, threads of    *)
(* the program call the input operations, MountISO, UnmountISO and Close   *)
(* while the session's own readLoop, heartBeatLoop and one watchMedia      *)
(* goroutine per mount run beside them.                                    *)
(*                                                                         *)
(* A section run under s.mu, s.media.mu or s.writeMu is one action, except *)
(* that MountISO holds s.media.mu while it connects.  State.InputReady is  *)
(* true from the handshake on exactly while State.Connected is, so one     *)
(* variable stands for both.                                               *)
(***************************************************************************)
EXTENDS KeyboardState, Naturals

CONSTANTS
    Threads,  \* goroutines that call the session
    Mounts,   \* MountISO calls, and the media sessions they start
    reader,   \* readLoop
    None      \* nobody

ASSUME ActorsAssumption ==
    /\ reader \notin Threads
    /\ None \notin Threads \cup Mounts \cup {reader}

Actors == Threads \cup {reader}

VARIABLES
    stage,      \* how far Connect has come
    onBooks,    \* the controller holds the web login of s.client
    unanswered, \* history: a login or a logout went unanswered
    heart,      \* heartBeatLoop: "none", "running" or "ended"
    pc,         \* where each actor stands
    after,      \* where it goes on after SendKeyboardReport or UnmountISO
    report,     \* the report it is sending
    events,     \* the key events it has yet to write
    keyboard,   \* s.keyboard
    wire,       \* the keysyms the firmware sees held
    socket,     \* the WebSocket: "open", "dead" (peer gone) or "closed"
    connected,  \* s.state.Connected and InputReady
    closed,     \* s.closed
    cancelled,  \* s.ctx is done
    closing,    \* closeOnce: "idle", "running" or "done"
    left,       \* the firmware was told WindowClose
    lost,       \* history: readLoop met an error before anybody closed
    mountPc,    \* where each MountISO call stands
    watchPc,    \* where its watchMedia goroutine stands
    slot,       \* s.media.session
    taken,      \* the media session each actor's UnmountISO has to close
    alive       \* media sessions whose channel is up

inputVars == <<report, events, keyboard, wire>>
webVars   == <<stage, onBooks, unanswered, heart>>
lifeVars  == <<webVars, socket, connected, closed, cancelled, closing, left,
               lost>>
mediaVars == <<mountPc, watchPc, slot, taken, alive>>
vars == <<pc, after, inputVars, lifeVars, mediaVars>>

NoEvents == Apply(NoKeys, NoKeys)
EventLists == {Apply(k, r) : k, r \in Reports}

Places == {"unborn", "rest", "ready", "apply", "write", "typeDown", "typeUp",
           "mark", "unmount", "closeMedia", "leave", "cancel", "hangUp",
           "logout", "disconnect", "release", "down", "drop", "end", "ended",
           "reset", "focusOut"}
Returns == {"rest", "mark", "down", "leave"}

Stages == {"login", "list", "ticket", "dial", "handshake", "undo",
           "failed", "live"}

TypeOK ==
    /\ stage \in Stages
    /\ onBooks \in BOOLEAN
    /\ unanswered \in BOOLEAN
    /\ heart \in {"none", "running", "ended"}
    /\ pc \in [Actors -> Places]
    /\ after \in [Actors -> Returns]
    /\ report \in [Actors -> Reports]
    /\ events \in [Actors -> EventLists]
    /\ keyboard \in Reports
    /\ wire \in SUBSET Keysyms
    /\ socket \in {"open", "dead", "closed"}
    /\ connected \in BOOLEAN
    /\ closed \in BOOLEAN
    /\ cancelled \in BOOLEAN
    /\ closing \in {"idle", "running", "done"}
    /\ left \in BOOLEAN
    /\ lost \in BOOLEAN
    /\ mountPc \in [Mounts -> {"idle", "ready", "dialing", "returned"}]
    /\ watchPc \in [Mounts -> {"none", "watching", "clearing", "done"}]
    /\ slot \in Mounts \cup {None}
    /\ taken \in [Actors -> Mounts \cup {None}]
    /\ alive \in SUBSET Mounts

\* Connect is called: nothing of the session is there yet.
Init ==
    /\ stage = "login"
    /\ onBooks = FALSE
    /\ unanswered = FALSE
    /\ heart = "none"
    /\ pc = [a \in Actors |-> "unborn"]
    /\ after = [a \in Actors |-> "rest"]
    /\ report = [a \in Actors |-> NoKeys]
    /\ events = [a \in Actors |-> NoEvents]
    /\ keyboard = NoKeys
    /\ wire = {}
    /\ socket = "closed"
    /\ connected = FALSE
    /\ closed = FALSE
    /\ cancelled = FALSE
    /\ closing = "idle"
    /\ left = FALSE
    /\ lost = FALSE
    /\ mountPc = [m \in Mounts |-> "idle"]
    /\ watchPc = [m \in Mounts |-> "none"]
    /\ slot = None
    /\ taken = [a \in Actors |-> None]
    /\ alive = {}

Goto(a, place) == pc' = [pc EXCEPT ![a] = place]

----------------------------------------------------------------------------
(* Connect *)

ConnectGoto(next) ==
    /\ stage' = next
    /\ UNCHANGED <<pc, after, heart, inputVars, closed, cancelled, closing,
                   left, lost, mediaVars>>

\* A refused login leaves nothing behind, unless only its answer was lost.
Login ==
    /\ stage = "login"
    /\ \/ ConnectGoto("list") /\ onBooks' = TRUE /\ UNCHANGED unanswered
       \/ /\ ConnectGoto("failed")
          /\ unanswered' \in BOOLEAN
          /\ onBooks' = unanswered'
    /\ UNCHANGED <<socket, connected>>

\* Connect takes the newest login of the user for its own: it may be that of
\* somebody who has logged in since, and it is nobody's if the list fails.
\* CloseWebSessionsFor, if Connect is to seize the console, spares that one only,
\* so that it can close the session's own login, and it may fail at any of them.
Seize ==
    /\ stage = "list"
    /\ \E ownSpared \in BOOLEAN : onBooks' = (onBooks /\ ownSpared)
    /\ ConnectGoto("ticket")
    /\ UNCHANGED <<unanswered, socket, connected>>

\* A ticket is for those who are logged in.
ConsoleTicket ==
    /\ stage = "ticket"
    /\ \/ onBooks /\ ConnectGoto("dial")
       \/ ConnectGoto("undo")
    /\ UNCHANGED <<onBooks, unanswered, socket, connected>>

Dial ==
    /\ stage = "dial"
    /\ \/ ConnectGoto("handshake") /\ socket' = "open"
       \/ ConnectGoto("undo") /\ UNCHANGED socket
    /\ UNCHANGED <<onBooks, unanswered, connected>>

HandshakeFails ==
    /\ stage = "handshake"
    /\ ConnectGoto("undo")
    /\ socket' = "closed"
    /\ UNCHANGED <<onBooks, unanswered, connected>>

\* The session is handed out with its goroutines running.
HandshakeSucceeds ==
    /\ stage = "handshake"
    /\ socket = "open"
    /\ stage' = "live"
    /\ connected' = TRUE
    /\ pc' = [a \in Actors |-> "rest"]
    /\ heart' = "running"
    /\ UNCHANGED <<after, onBooks, unanswered, inputVars, socket,
                   closed, cancelled, closing, left, lost, mediaVars>>

\* Logout forgets the login also when its request fails.
Logout ==
    \E answered \in BOOLEAN :
        /\ onBooks' = (onBooks /\ ~answered)
        /\ unanswered' = (unanswered \/ ~answered)

\* The deferred logout of a Connect that has failed after its login.
ConnectUndo ==
    /\ stage = "undo"
    /\ Logout
    /\ ConnectGoto("failed")
    /\ UNCHANGED <<socket, connected>>

----------------------------------------------------------------------------
(* Keyboard input *)

\* ready(): what lets an operation begin.
Ready == ~closed /\ connected

\* A thread calls SendKeyboardReport (SendAllKeysUp when r is NoKeys).
SendKeyboardReport(t, r) ==
    /\ pc[t] = "rest"
    /\ Goto(t, "ready")
    /\ report' = [report EXCEPT ![t] = r]
    /\ after' = [after EXCEPT ![t] = "rest"]
    /\ UNCHANGED <<events, keyboard, wire, lifeVars, mediaVars>>

ReportReady(a) ==
    /\ pc[a] = "ready"
    /\ Goto(a, IF Ready THEN "apply" ELSE after[a])
    /\ UNCHANGED <<after, inputVars, lifeVars, mediaVars>>

\* The difference is taken under s.mu ...
ReportApply(a) ==
    /\ pc[a] = "apply"
    /\ events' = [events EXCEPT ![a] = Apply(keyboard, report[a])]
    /\ keyboard' = report[a]
    /\ Goto(a, "write")
    /\ UNCHANGED <<after, report, wire, lifeVars, mediaVars>>

\* ... and written under s.writeMu, which the thread has to take anew.  A
\* write that fails ends the loop; only Close and readLoop close the socket.
ReportWrite(a) ==
    /\ pc[a] = "write"
    /\ wire' = IF socket = "open" THEN PressAll(wire, events[a]) ELSE wire
    /\ events' = [events EXCEPT ![a] = NoEvents]
    /\ report' = [report EXCEPT ![a] = NoKeys]
    /\ Goto(a, after[a])
    /\ UNCHANGED <<after, keyboard, lifeVars, mediaVars>>

\* SendKeysym, the step of TypeText: it bypasses s.keyboard.
SendKeysym(t, u) ==
    /\ pc[t] = "rest"
    /\ Ready
    /\ report' = [report EXCEPT ![t] = [modifiers |-> {}, keys |-> {u}]]
    /\ Goto(t, "typeDown")
    /\ UNCHANGED <<after, events, keyboard, wire, lifeVars, mediaVars>>

TypedKeysyms(t) == {KeysymForHID(u, FALSE) : u \in report[t].keys}

KeysymDown(t) ==
    /\ pc[t] = "typeDown"
    /\ wire' = IF socket = "open" THEN wire \cup TypedKeysyms(t) ELSE wire
    /\ Goto(t, IF socket = "closed" THEN "rest" ELSE "typeUp")
    /\ UNCHANGED <<after, report, events, keyboard, lifeVars, mediaVars>>

\* After the hold time the key goes up, if the socket still takes it.
KeysymUp(t) ==
    /\ pc[t] = "typeUp"
    /\ wire' = IF socket = "open" THEN wire \ TypedKeysyms(t) ELSE wire
    /\ report' = [report EXCEPT ![t] = NoKeys]
    /\ Goto(t, "rest")
    /\ UNCHANGED <<after, events, keyboard, lifeVars, mediaVars>>

\* FocusLost forgets the keys ...
FocusLost(t) ==
    /\ pc[t] = "rest"
    /\ Ready
    /\ Goto(t, "reset")
    /\ UNCHANGED <<after, inputVars, lifeVars, mediaVars>>

FocusReset(t) ==
    /\ pc[t] = "reset"
    /\ keyboard' = NoKeys
    /\ Goto(t, "focusOut")
    /\ UNCHANGED <<after, report, events, wire, lifeVars, mediaVars>>

\* ... and leaves it to the firmware to drop them.
FocusOut(t) ==
    /\ pc[t] = "focusOut"
    /\ wire' = IF socket = "open" THEN {} ELSE wire
    /\ Goto(t, "rest")
    /\ UNCHANGED <<after, report, events, keyboard, lifeVars, mediaVars>>

----------------------------------------------------------------------------
(* Close *)

\* releaseHeldKeys: go through SendKeyboardReport if anything is held.
ReleaseHeldKeys(a, next) ==
    /\ report' = [report EXCEPT ![a] = NoKeys]
    /\ after' = [after EXCEPT ![a] = next]
    /\ Goto(a, IF Held(keyboard) THEN "ready" ELSE next)
    /\ UNCHANGED <<events, keyboard, wire>>

\* Mutant. Close marks the session closed before it lets the keys go.
CloseMarksFirst(t) ==
    /\ pc[t] = "rest"
    /\ closing = "idle"
    /\ closing' = "running"
    /\ closed' = TRUE
    /\ ReleaseHeldKeys(t, "mark")
    /\ UNCHANGED <<socket, connected, cancelled, left, lost, webVars,
                   mediaVars>>

\* Close, inside closeOnce: first the keys ...
Close(t) ==
    /\ pc[t] = "rest"
    /\ closing = "idle"
    /\ closing' = "running"
    /\ ReleaseHeldKeys(t, "mark")
    /\ UNCHANGED <<socket, connected, closed, cancelled, left, lost, webVars,
                   mediaVars>>

\* ... then s.closed ...
CloseMark(t) ==
    /\ pc[t] = "mark"
    /\ closed' = TRUE
    /\ after' = [after EXCEPT ![t] = "leave"]
    /\ Goto(t, "unmount")
    /\ UNCHANGED <<inputVars, socket, connected, cancelled, closing, left,
                   lost, webVars, mediaVars>>

\* Mutant. The socket goes before the farewell.
CloseLeaveLate(t) ==
    /\ pc[t] = "leave"
    /\ socket' = "closed"
    /\ Goto(t, "cancel")
    /\ UNCHANGED <<after, inputVars, connected, closed, cancelled, closing,
                   left, lost, webVars, mediaVars>>

\* ... UnmountISO (below), WindowClose ...
CloseLeave(t) ==
    /\ pc[t] = "leave"
    /\ left' = (left \/ socket = "open")
    /\ Goto(t, "cancel")
    /\ UNCHANGED <<after, inputVars, socket, connected, closed, cancelled,
                   closing, lost, webVars, mediaVars>>

\* ... s.cancel, the socket, the web login ...
CloseCancel(t) ==
    /\ pc[t] = "cancel"
    /\ cancelled' = TRUE
    /\ Goto(t, "hangUp")
    /\ UNCHANGED <<after, inputVars, socket, connected, closed, closing, left,
                   lost, webVars, mediaVars>>

CloseHangUp(t) ==
    /\ pc[t] = "hangUp"
    /\ socket' = "closed"
    /\ Goto(t, "logout")
    /\ UNCHANGED <<after, inputVars, connected, closed, cancelled, closing,
                   left, lost, webVars, mediaVars>>

CloseLogout(t) ==
    /\ pc[t] = "logout"
    /\ Logout
    /\ Goto(t, "disconnect")
    /\ UNCHANGED <<after, stage, heart, inputVars, socket, connected,
                   closed, cancelled, closing, left, lost, mediaVars>>

\* ... and markDisconnected, whose release ready() refuses by now.
CloseDisconnect(t) ==
    /\ pc[t] = "disconnect"
    /\ connected' = FALSE
    /\ closing' = "done"
    /\ Goto(t, "rest")
    /\ UNCHANGED <<after, inputVars, socket, closed, cancelled, left, lost,
                   webVars, mediaVars>>

----------------------------------------------------------------------------
(* readLoop *)

\* The peer vanishes without closing the connection.
PeerVanishes ==
    /\ socket = "open"
    /\ socket' = "dead"
    /\ lost' = TRUE
    /\ UNCHANGED <<pc, after, inputVars, connected, closed, cancelled, closing,
                   left, webVars, mediaVars>>

\* ReadMessage fails: an RFB parse error or a read error.
ReadFails ==
    /\ pc[reader] = "rest"
    /\ socket # "closed"
    /\ lost' = TRUE
    /\ Goto(reader, IF connected THEN "release" ELSE "end")
    /\ UNCHANGED <<after, inputVars, socket, connected, closed, cancelled,
                   closing, left, webVars, mediaVars>>

\* The socket was closed under the reader.
ReadCut ==
    /\ pc[reader] = "rest"
    /\ socket = "closed"
    /\ Goto(reader, IF connected THEN "release" ELSE "end")
    /\ UNCHANGED <<after, inputVars, lifeVars, mediaVars>>

\* The loop sees s.ctx done between two messages.
ReadStops ==
    /\ pc[reader] = "rest"
    /\ cancelled
    /\ Goto(reader, "end")
    /\ UNCHANGED <<after, inputVars, lifeVars, mediaVars>>

\* markDisconnected: release while there is something to write to ...
ReaderRelease ==
    /\ pc[reader] = "release"
    /\ ReleaseHeldKeys(reader, "down")
    /\ UNCHANGED <<lifeVars, mediaVars>>

\* ... then, unless somebody was faster, the state ...
ReaderDown ==
    /\ pc[reader] = "down"
    /\ connected' = FALSE
    /\ Goto(reader, IF connected THEN "drop" ELSE "end")
    /\ UNCHANGED <<after, inputVars, socket, closed, cancelled, closing, left,
                   lost, webVars, mediaVars>>

\* ... and the socket.
ReaderDrop ==
    /\ pc[reader] = "drop"
    /\ socket' = "closed"
    /\ Goto(reader, "end")
    /\ UNCHANGED <<after, inputVars, connected, closed, cancelled, closing,
                   left, lost, webVars, mediaVars>>

\* The deferred s.cancel and close(s.done).
ReaderEnd ==
    /\ pc[reader] = "end"
    /\ cancelled' = TRUE
    /\ Goto(reader, "ended")
    /\ UNCHANGED <<after, inputVars, socket, connected, closed, closing, left,
                   lost, webVars, mediaVars>>

\* heartBeatLoop ends with the session or with the first beat that fails.  A
\* beat that is sent changes nothing here.
HeartBeatEnds ==
    /\ heart = "running"
    /\ cancelled \/ socket # "open"
    /\ heart' = "ended"
    /\ UNCHANGED <<pc, after, stage, onBooks, unanswered, inputVars,
                   socket, connected, closed, cancelled, closing, left, lost,
                   mediaVars>>

----------------------------------------------------------------------------
(* Virtual media *)

\* s.media.mu is held across an action only by a MountISO that connects.
MediaMuFree == \A m \in Mounts : mountPc[m] # "dialing"

\* MountISO: ready() comes before the lock.
MountISO(m) ==
    /\ stage = "live"
    /\ mountPc[m] = "idle"
    /\ mountPc' = [mountPc EXCEPT ![m] = IF Ready THEN "ready" ELSE "returned"]
    /\ UNCHANGED <<pc, after, inputVars, lifeVars, watchPc, slot, taken, alive>>

MountLock(m) ==
    /\ mountPc[m] = "ready"
    /\ MediaMuFree
    /\ mountPc' = [mountPc EXCEPT ![m] =
                     IF slot = None THEN "dialing" ELSE "returned"]
    /\ UNCHANGED <<pc, after, inputVars, lifeVars, watchPc, slot, taken, alive>>

\* StartVirtualMedia succeeds, also when Close has run meanwhile.
MountSucceeds(m) ==
    /\ mountPc[m] = "dialing"
    /\ mountPc' = [mountPc EXCEPT ![m] = "returned"]
    /\ watchPc' = [watchPc EXCEPT ![m] = "watching"]
    /\ slot' = m
    /\ alive' = alive \cup {m}
    /\ UNCHANGED <<pc, after, inputVars, lifeVars, taken>>

MountFails(m) ==
    /\ mountPc[m] = "dialing"
    /\ mountPc' = [mountPc EXCEPT ![m] = "returned"]
    /\ UNCHANGED <<pc, after, inputVars, lifeVars, watchPc, slot, taken, alive>>

\* A thread calls UnmountISO.
UnmountISO(t) ==
    /\ pc[t] = "rest"
    /\ after' = [after EXCEPT ![t] = "rest"]
    /\ Goto(t, "unmount")
    /\ UNCHANGED <<inputVars, lifeVars, mediaVars>>

UnmountTake(t) ==
    /\ pc[t] = "unmount"
    /\ MediaMuFree
    /\ taken' = [taken EXCEPT ![t] = slot]
    /\ slot' = None
    /\ Goto(t, "closeMedia")
    /\ UNCHANGED <<after, inputVars, lifeVars, mountPc, watchPc, alive>>

UnmountClose(t) ==
    /\ pc[t] = "closeMedia"
    /\ alive' = alive \ {taken[t]}
    /\ taken' = [taken EXCEPT ![t] = None]
    /\ Goto(t, after[t])
    /\ UNCHANGED <<after, inputVars, lifeVars, mountPc, watchPc, slot>>

\* The media channel ends by itself.
MediaEndsItself(m) ==
    /\ m \in alive
    /\ alive' = alive \ {m}
    /\ UNCHANGED <<pc, after, inputVars, lifeVars, mountPc, watchPc, slot,
                   taken>>

\* Mutant. watchMedia waits for the media channel only.
WatchMediaOnly(m) ==
    /\ watchPc[m] = "watching"
    /\ m \notin alive
    /\ watchPc' = [watchPc EXCEPT ![m] = "clearing"]
    /\ UNCHANGED <<pc, after, inputVars, lifeVars, mountPc, slot, taken, alive>>

\* watchMedia: the channel has ended, or the session has and takes it along.
WatchMedia(m) ==
    /\ watchPc[m] = "watching"
    /\ m \notin alive \/ cancelled
    /\ alive' = alive \ {m}
    /\ watchPc' = [watchPc EXCEPT ![m] = "clearing"]
    /\ UNCHANGED <<pc, after, inputVars, lifeVars, mountPc, slot, taken>>

\* Mutant. watchMedia clears whatever is mounted.
WatchClearAny(m) ==
    /\ watchPc[m] = "clearing"
    /\ MediaMuFree
    /\ slot' = None
    /\ watchPc' = [watchPc EXCEPT ![m] = "done"]
    /\ UNCHANGED <<pc, after, inputVars, lifeVars, mountPc, taken, alive>>

\* It clears the slot only if its own media session is still in it.
WatchClear(m) ==
    /\ watchPc[m] = "clearing"
    /\ MediaMuFree
    /\ slot' = IF slot = m THEN None ELSE slot
    /\ watchPc' = [watchPc EXCEPT ![m] = "done"]
    /\ UNCHANGED <<pc, after, inputVars, lifeVars, mountPc, taken, alive>>

----------------------------------------------------------------------------
Call(t) ==
    \/ \E r \in Reports : SendKeyboardReport(t, r)
    \/ \E u \in Usages : SendKeysym(t, u)
    \/ FocusLost(t)
    \/ Close(t)
    \/ UnmountISO(t)

Continue(a) == ReportReady(a) \/ ReportApply(a) \/ ReportWrite(a)

ThreadStep(t) ==
    \/ Continue(t)
    \/ KeysymDown(t) \/ KeysymUp(t)
    \/ FocusReset(t) \/ FocusOut(t)
    \/ CloseMark(t) \/ CloseLeave(t) \/ CloseCancel(t) \/ CloseHangUp(t)
    \/ CloseLogout(t) \/ CloseDisconnect(t)
    \/ UnmountTake(t) \/ UnmountClose(t)

ReaderStep ==
    \/ Continue(reader)
    \/ ReadCut \/ ReaderRelease \/ ReaderDown \/ ReaderDrop
    \/ ReaderEnd

MediaDialed(m) == MountSucceeds(m) \/ MountFails(m)

Connect ==
    \/ Login \/ Seize \/ ConsoleTicket \/ Dial
    \/ HandshakeFails \/ HandshakeSucceeds \/ ConnectUndo

Next ==
    \/ Connect
    \/ \E t \in Threads : Call(t) \/ ThreadStep(t)
    \/ ReaderStep \/ ReadStops \/ ReadFails \/ PeerVanishes
    \/ HeartBeatEnds
    \/ \E m \in Mounts : MountISO(m) \/ MountLock(m) \/ MediaDialed(m)
    \/ \E m \in Mounts : MediaEndsItself(m) \/ WatchMedia(m) \/ WatchClear(m)

SafetySpec == Init /\ [][Next]_vars

\* A started operation runs on: writes and the web logout return, connecting is
\* bounded by the caller's context, and a mutex is handed to who waits for it.
\* Nobody is bound to begin a call, the peer need not fail, and a read returns
\* for sure only once the socket is closed.
Fairness ==
    /\ \A t \in Threads : WF_vars(ThreadStep(t))
    /\ WF_vars(ReaderStep)
    /\ WF_vars(HeartBeatEnds)
    /\ \A m \in Mounts :
         /\ WF_vars(MountLock(m))
         /\ WF_vars(MediaDialed(m))
         /\ WF_vars(WatchMedia(m))
         /\ WF_vars(WatchClear(m))

Spec == SafetySpec /\ Fairness

----------------------------------------------------------------------------
(* Properties *)

AtRest == \A t \in Threads : pc[t] = "rest"

\* The comment at releaseHeldKeys: Close "puts every key the session is holding
\* back up, so none stays stuck on the remote machine".  When Close is over, no
\* call is under way and the connection had not failed before, nothing is held.
NoKeyStuck ==
    (closing = "done" /\ AtRest /\ ~lost) => wire = {}

\* The comment at Logout: "Leaving sessions open exhausts the small pool" of the
\* iDRAC, and the one in Close: the session "stays on its books" unless the
\* viewer says that it is leaving.  So a session closed on a working connection
\* has said so, and neither a closed session nor a failed Connect, wherever it
\* failed, keeps its web login or its socket.
NothingOnTheBooks ==
    /\ (closing = "done" /\ ~lost) => left
    /\ closing = "done" \/ stage = "failed" =>
         socket = "closed" /\ (onBooks => unanswered)

\* A media channel that is up can be unmounted: it is in the slot, or in the
\* hands of the UnmountISO that took it from there.
MediaReachable ==
    \A m \in alive : slot = m \/ \E a \in Actors : taken[a] = m

----------------------------------------------------------------------------
(* Why they hold: an inductive invariant *)

\* Before Connect has succeeded nobody uses the session, and only a handshake
\* has a socket.
Connecting ==
    stage # "live" =>
        /\ \A a \in Actors : pc[a] = "unborn"
        /\ \A m \in Mounts : mountPc[m] = "idle"
        /\ closing = "idle" /\ ~closed /\ ~connected /\ ~left
        /\ stage # "handshake" => socket = "closed"
        /\ stage = "failed" => (onBooks => unanswered)

\* Nobody cuts a working connection that has not been told of the departure: not
\* the reader, which only drops what has failed, and not Close, whose every step
\* finds done what the steps before it did.
Departure ==
    /\ stage = "live" => socket = "open" \/ lost \/ left
    /\ pc[reader] \in {"release", "ready", "apply", "write", "down", "drop"} =>
         lost \/ left
    /\ \A t \in Threads :
         /\ pc[t] \in {"cancel", "hangUp", "logout", "disconnect"} => lost \/ left
         /\ pc[t] \in {"logout", "disconnect"} => socket = "closed"
         /\ pc[t] = "disconnect" => (onBooks => unanswered)
    /\ closing = "done" =>
         (lost \/ left) /\ socket = "closed" /\ (onBooks => unanswered)

\* A MountISO that connects has the slot to itself, a watchMedia clears it only
\* after its medium's end, and whoever has taken a medium is about to close it.
MediaHeld ==
    /\ \A m \in Mounts :
         /\ mountPc[m] = "dialing" =>
              slot = None /\ \A n \in Mounts : mountPc[n] = "dialing" => n = m
         /\ mountPc[m] # "returned" => watchPc[m] = "none" /\ m \notin alive
         /\ watchPc[m] \in {"clearing", "done"} => m \notin alive
    /\ \A a \in Actors : taken[a] # None => pc[a] = "closeMedia"
    /\ MediaReachable

IInv == TypeOK /\ Connecting /\ Departure /\ MediaHeld

\* The keysyms of the keys of a report.
Names(r) == {<<k, FALSE>> : k \in r.modifiers \cup r.keys}

\* For one caller: its place tells whether Close has marked the session closed.
\* Nobody begins to write a key to a session that is, and on its way out Close
\* only ever sends the report that lets everything go.
ClosingOrder ==
    /\ left \/ closing = "done" => closed
    /\ closed => closing # "idle"
    /\ stage = "live" => connected \/ lost \/ left
    /\ \A t \in Threads :
         /\ pc[t] \in {"apply", "write", "typeDown", "typeUp", "reset", "focusOut", "mark"} =>
              ~closed
         /\ pc[t] \in {"ready", "apply", "write"} /\ after[t] # "rest" =>
              report[t] = NoKeys /\ after[t] = "mark" /\ closing # "idle" /\ ~closed
         /\ pc[t] = "mark" => closing # "idle"
         /\ pc[t] \in {"unmount", "closeMedia"} =>
              after[t] = "rest" \/ (after[t] = "leave" /\ closed)
         /\ pc[t] \in {"leave", "cancel", "hangUp", "logout", "disconnect"} => closed

\* For one caller, and keys without a shifted keysym: while the connection has
\* not failed, what the firmware sees held is what s.keyboard holds, or is about
\* to be let go; when Close marks the session closed, that is nothing.
KeysFollow ==
    ~lost =>
      /\ pc[reader] \notin {"apply", "write"}
      /\ closed => wire = {} /\ keyboard = NoKeys
      /\ \A t \in Threads :
           /\ pc[t] \notin {"write", "typeUp", "focusOut"} =>
                wire \subseteq Names(keyboard)
           /\ pc[t] = "write" =>
                keyboard = report[t] /\ PressAll(wire, events[t]) \subseteq Names(keyboard)
           /\ pc[t] = "typeUp" => wire \subseteq Names(keyboard) \cup TypedKeysyms(t)
           /\ pc[t] = "focusOut" => keyboard = NoKeys
           /\ pc[t] = "mark" => wire = {} /\ keyboard = NoKeys

KeysIInv == IInv /\ ClosingOrder /\ KeysFollow

----------------------------------------------------------------------------
(* Liveness *)

\* Close comes to its end, also when it has to wait for a MountISO; after it
\* readLoop ends, so that Done() fires, the heartbeat stops, and no media channel
\* outlives the session, not even one whose MountISO passed ready() before Close
\* and connected after Close had unmounted.
SessionEnds ==
    closing = "running"
        ~> [](/\ closing = "done" /\ alive = {}
               /\ pc[reader] = "ended" /\ heart = "ended")

=============================================================================
