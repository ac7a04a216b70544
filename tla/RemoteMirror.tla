---------------------------- MODULE RemoteMirror ----------------------------
(***************************************************************************)
(* How a console.Session shows a Dell console (internal/console/idrac.go   *)
(* and session.go): watchRemote copies the state of the idrac.Session into *)
(* the session's own fields, and Observe waits on those.  Both sides tell   *)
(* of a change by closing a notify channel and making a new one; a channel  *)
(* is modelled by its number, and is closed once a later one is in place.   *)
(***************************************************************************)
EXTENDS Naturals

CONSTANTS
    Observers,  \* Observe calls
    MaxFrames   \* bound: frames the iDRAC sends

ASSUME MirrorAssumption == MaxFrames \in Nat

VARIABLES
    screen,     \* the frame in the rfb.Screen
    remote,     \* idrac.Session's state: revision, connected
    changed,    \* number of its notify channel
    gone,       \* its Done channel is closed
    watchPc,    \* where watchRemote stands
    awaited,    \* the remote channel watchRemote took
    seen,       \* the remote state it took
    mirror,     \* the session's own revision and connected
    notify,     \* number of the session's notify channel
    cancelled,  \* s.ctx is done
    closePc,    \* where Close stands
    observePc,  \* where each Observe stands
    after,      \* the revision each Observe has already
    heard,      \* the channel each Observe waits on
    state,      \* the state each Observe will return
    image       \* the frame it returns

remoteVars  == <<screen, remote, changed, gone>>
watchVars   == <<watchPc, awaited, seen>>
mirrorVars  == <<mirror, notify, cancelled, closePc>>
observeVars == <<observePc, after, heard, state, image>>
vars == <<remoteVars, watchVars, mirrorVars, observeVars>>

Frames == 0..MaxFrames
States == [revision : Frames, connected : BOOLEAN]
Start  == [revision |-> 0, connected |-> TRUE]

\* The type of the state; signals come from frames, the end, and Close.
TypeOK ==
    /\ screen \in Frames /\ remote \in States /\ seen \in States
    /\ mirror \in States
    /\ changed \in 0..(MaxFrames + 1) /\ awaited \in 0..changed
    /\ notify \in Nat
    /\ gone \in BOOLEAN /\ cancelled \in BOOLEAN
    /\ watchPc \in {"changed", "state", "copy", "wait", "ended"}
    /\ closePc \in {"idle", "remote", "mark", "returned"}
    /\ observePc \in [Observers -> {"look", "wait", "snapshot", "returned"}]
    /\ after \in [Observers -> Frames] /\ image \in [Observers -> Frames]
    /\ heard \in [Observers -> 0..notify] /\ state \in [Observers -> States]

\* openIDRACSession has started watchRemote.
Init ==
    /\ screen = 0 /\ remote = Start /\ changed = 0 /\ gone = FALSE
    /\ watchPc = "changed" /\ awaited = 0 /\ seen = Start
    /\ mirror = Start /\ notify = 0 /\ cancelled = FALSE /\ closePc = "idle"
    /\ observePc = [o \in Observers |-> "look"]
    /\ after \in [Observers -> Frames]
    /\ heard = [o \in Observers |-> 0]
    /\ state = [o \in Observers |-> Start]
    /\ image = [o \in Observers |-> 0]

----------------------------------------------------------------------------
(* idrac.Session *)

\* The rfb layer draws a frame, and readLoop then publishes its revision.
RemoteDraw ==
    /\ remote.connected /\ screen < MaxFrames /\ screen = remote.revision
    /\ screen' = screen + 1
    /\ UNCHANGED <<remote, changed, gone, watchVars, mirrorVars, observeVars>>

RemoteFrame ==
    /\ remote.connected /\ remote.revision # screen
    /\ remote' = [remote EXCEPT !.revision = screen]
    /\ changed' = changed + 1
    /\ UNCHANGED <<screen, gone, watchVars, mirrorVars, observeVars>>

\* markDisconnected, by readLoop or in its Close.
RemoteDisconnect ==
    /\ remote' = [remote EXCEPT !.connected = FALSE]
    /\ changed' = IF remote.connected THEN changed + 1 ELSE changed

RemoteLost ==
    /\ remote.connected
    /\ RemoteDisconnect
    /\ UNCHANGED <<screen, gone, watchVars, mirrorVars, observeVars>>

RemoteDone ==
    /\ ~remote.connected /\ ~gone
    /\ gone' = TRUE
    /\ UNCHANGED <<screen, remote, changed, watchVars, mirrorVars, observeVars>>

----------------------------------------------------------------------------
(* watchRemote *)

\* The channel is taken first, the state after it.
WatchChanged ==
    /\ watchPc = "changed"
    /\ awaited' = changed
    /\ watchPc' = "state"
    /\ UNCHANGED <<seen, remoteVars, mirrorVars, observeVars>>

WatchState ==
    /\ watchPc = "state"
    /\ seen' = remote
    /\ watchPc' = "copy"
    /\ UNCHANGED <<awaited, remoteVars, mirrorVars, observeVars>>

\* signalChangeLocked.
SignalChange == notify' = notify + 1

\* Mutant. The notify channel is taken after the state.
WatchCopyRetaking ==
    /\ watchPc = "copy"
    /\ mirror' = [revision |-> seen.revision,
                  connected |-> mirror.connected /\ seen.connected]
    /\ SignalChange
    /\ awaited' = changed
    /\ watchPc' = IF mirror'.connected THEN "wait" ELSE "ended"
    /\ UNCHANGED <<seen, cancelled, closePc, remoteVars, observeVars>>

\* What watchRemote saw becomes the session's state; it does not revive one
\* that Close has ended.
WatchCopy ==
    /\ watchPc = "copy"
    /\ mirror' = [revision |-> seen.revision,
                  connected |-> mirror.connected /\ seen.connected]
    /\ SignalChange
    /\ watchPc' = IF mirror'.connected THEN "wait" ELSE "ended"
    /\ UNCHANGED <<awaited, seen, cancelled, closePc, remoteVars, observeVars>>

WatchWakes ==
    /\ watchPc = "wait" /\ changed # awaited
    /\ watchPc' = "changed"
    /\ UNCHANGED <<awaited, seen, remoteVars, mirrorVars, observeVars>>

\* The remote session is done: markRemoteDisconnected.
WatchDone ==
    /\ watchPc = "wait" /\ gone
    /\ mirror' = [mirror EXCEPT !.connected = FALSE]
    /\ notify' = IF mirror.connected THEN notify + 1 ELSE notify
    /\ watchPc' = "ended"
    /\ UNCHANGED <<awaited, seen, cancelled, closePc, remoteVars, observeVars>>

WatchStops ==
    /\ watchPc = "wait" /\ cancelled
    /\ watchPc' = "ended"
    /\ UNCHANGED <<awaited, seen, remoteVars, mirrorVars, observeVars>>

----------------------------------------------------------------------------
(* Close *)

Close ==
    /\ closePc = "idle"
    /\ cancelled' = TRUE
    /\ closePc' = "remote"
    /\ UNCHANGED <<remoteVars, watchVars, mirror, notify, observeVars>>

CloseRemote ==
    /\ closePc = "remote"
    /\ RemoteDisconnect
    /\ closePc' = "mark"
    /\ UNCHANGED <<screen, gone, watchVars, mirror, notify, cancelled,
                   observeVars>>

CloseMark ==
    /\ closePc = "mark"
    /\ mirror' = [mirror EXCEPT !.connected = FALSE]
    /\ SignalChange
    /\ closePc' = "returned"
    /\ UNCHANGED <<remoteVars, watchVars, cancelled, observeVars>>

----------------------------------------------------------------------------
(* Observe *)

\* State and channel are taken together, under s.mu.
ObserveLook(o) ==
    /\ observePc[o] = "look"
    /\ state' = [state EXCEPT ![o] = mirror]
    /\ heard' = [heard EXCEPT ![o] = notify]
    /\ observePc' = [observePc EXCEPT ![o] =
         IF mirror.revision > after[o] \/ ~mirror.connected THEN "snapshot"
         ELSE "wait"]
    /\ UNCHANGED <<after, image, remoteVars, watchVars, mirrorVars>>

ObserveWakes(o) ==
    /\ observePc[o] = "wait" /\ notify # heard[o]
    /\ observePc' = [observePc EXCEPT ![o] = "look"]
    /\ UNCHANGED <<after, heard, state, image, remoteVars, watchVars, mirrorVars>>

\* The wait is over, or there was none.
ObserveTimesOut(o) ==
    /\ observePc[o] = "wait"
    /\ observePc' = [observePc EXCEPT ![o] = "snapshot"]
    /\ UNCHANGED <<after, heard, state, image, remoteVars, watchVars, mirrorVars>>

\* Mutant. The picture is the one the caller had.
ObserveSnapshotCached(o) ==
    /\ observePc[o] = "snapshot"
    /\ image' = [image EXCEPT ![o] = IF state[o].revision > 0 THEN after[o] ELSE 0]
    /\ observePc' = [observePc EXCEPT ![o] = "returned"]
    /\ UNCHANGED <<after, heard, state, remoteVars, watchVars, mirrorVars>>

\* remoteSnapshotPNG copies the screen as it is now; there is none before the
\* first frame.
ObserveSnapshot(o) ==
    /\ observePc[o] = "snapshot"
    /\ image' = [image EXCEPT ![o] = IF state[o].revision > 0 THEN screen ELSE 0]
    /\ observePc' = [observePc EXCEPT ![o] = "returned"]
    /\ UNCHANGED <<after, heard, state, remoteVars, watchVars, mirrorVars>>

\* The caller observes again from what it was told.
ObserveAgain(o) ==
    /\ observePc[o] = "returned" /\ state[o].connected
    /\ after' = [after EXCEPT ![o] = state[o].revision]
    /\ observePc' = [observePc EXCEPT ![o] = "look"]
    /\ UNCHANGED <<heard, state, image, remoteVars, watchVars, mirrorVars>>

----------------------------------------------------------------------------
WatchStep == WatchChanged \/ WatchState \/ WatchCopy \/ WatchWakes \/ WatchDone
             \/ WatchStops

Terminated ==
    /\ closePc = "returned" /\ gone /\ watchPc = "ended"
    /\ \A o \in Observers : observePc[o] = "returned" /\ ~state[o].connected
    /\ UNCHANGED vars

Next ==
    \/ RemoteDraw \/ RemoteFrame \/ RemoteLost \/ RemoteDone
    \/ WatchStep
    \/ Close \/ CloseRemote \/ CloseMark
    \/ \E o \in Observers :
         \/ ObserveLook(o) \/ ObserveWakes(o) \/ ObserveTimesOut(o)
         \/ ObserveSnapshot(o) \/ ObserveAgain(o)
    \/ Terminated

\* Goroutines that can run do run.  No fairness for the timeout: Observe has to
\* be woken, not to run out of time.
Fairness ==
    /\ WF_vars(RemoteFrame) /\ WF_vars(RemoteDone)
    /\ WF_vars(WatchStep)
    /\ WF_vars(CloseRemote) /\ WF_vars(CloseMark)
    /\ \A o \in Observers :
         WF_vars(ObserveLook(o) \/ ObserveWakes(o) \/ ObserveSnapshot(o))

Spec == Init /\ [][Next]_vars /\ Fairness

----------------------------------------------------------------------------
(* Properties *)

\* The picture an Observe returns is at least as new as the revision it
\* reports: a caller that goes on from that revision misses nothing.
ImageNotOlder ==
    \A o \in Observers :
      observePc[o] = "returned" => image[o] >= state[o].revision

\* Each channel stands for a revision or for the end, so that their number never
\* falls behind what there is to tell; the reader publishes every frame.
Counted ==
    /\ remote.revision <= screen
    /\ changed <= remote.revision + 1
    /\ remote.connected => changed = remote.revision /\ screen <= remote.revision + 1

\* Nobody has been told of a frame that is not in the screen yet.
NoneAhead ==
    /\ seen.revision <= screen /\ mirror.revision <= screen
    /\ \A o \in Observers : state[o].revision <= screen

\* Why the picture is new enough: an inductive invariant.
IInv == TypeOK /\ Counted /\ NoneAhead /\ ImageNotOlder

\* No wake-up is lost: an Observe that waits for a frame newer than the one it
\* has returns once the iDRAC has sent one.
FrameWakes ==
    \A o \in Observers :
      (observePc[o] = "wait" /\ remote.revision > after[o])
        ~> observePc[o] = "returned"

=============================================================================
