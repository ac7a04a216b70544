------------------------ MODULE WindowPictureProofs ------------------------
(***************************************************************************)
(* Proofs about the mirroring of a console's picture, for any number of    *)
(* frames and of Observe calls: by a console.Session (RemoteMirror) and by *)
(* a desktop window (WindowPicture).  The inductive invariants IInv and    *)
(* PictureIInv are stated beside the specifications.                       *)
(***************************************************************************)
EXTENDS WindowPicture, TLAPS

\* What the updates of a state's fields leave.
LEMMA StateFields ==
  ASSUME NEW s \in States, NEW n \in Frames
  PROVE  /\ [s EXCEPT !.revision = n] \in States
         /\ [s EXCEPT !.revision = n].revision = n
         /\ [s EXCEPT !.revision = n].connected = s.connected
         /\ [s EXCEPT !.connected = FALSE] \in States
         /\ [s EXCEPT !.connected = FALSE].revision = s.revision
         /\ [s EXCEPT !.connected = FALSE].connected = FALSE
  BY DEF States

\* The invariant holds of a console.Session that was just opened.
LEMMA InitIInv == Init => IInv
  <1> SUFFICES ASSUME Init PROVE IInv
    OBVIOUS
  <1>1. 0 \in Frames /\ Start \in States /\ Start.revision = 0 /\ Start.connected
    BY MirrorAssumption DEF Start, Frames, States
  <1>2. TypeOK
    <2>1. /\ screen \in Frames /\ remote \in States /\ seen \in States /\ mirror \in States
          /\ changed \in 0..(MaxFrames + 1) /\ awaited \in 0..changed /\ notify \in Nat
      BY <1>1, MirrorAssumption DEF Init
    <2>2. /\ after \in [Observers -> Frames] /\ image \in [Observers -> Frames]
          /\ heard \in [Observers -> 0..notify] /\ state \in [Observers -> States]
      BY <1>1 DEF Init
    <2>3. /\ gone \in BOOLEAN /\ cancelled \in BOOLEAN
          /\ watchPc \in {"changed", "state", "copy", "wait", "ended"}
          /\ closePc \in {"idle", "remote", "mark", "returned"}
          /\ observePc \in [Observers -> {"look", "wait", "snapshot", "returned"}]
      BY DEF Init
    <2> QED
      BY <2>1, <2>2, <2>3 DEF TypeOK
  <1>3. Counted /\ NoneAhead /\ ImageNotOlder
    BY <1>1 DEF Init, Counted, NoneAhead, ImageNotOlder
  <1> QED
    BY <1>2, <1>3 DEF IInv

\* Every step of the iDRAC session, of watchRemote, of Close and of an Observe
\* keeps it.
LEMMA NextIInv == IInv /\ [Next]_vars => IInv'
  <1> SUFFICES ASSUME IInv, [Next]_vars PROVE IInv'
    OBVIOUS
  <1> USE MirrorAssumption
      DEF IInv, Frames, States, remoteVars, watchVars, mirrorVars, observeVars
  <1>1. ASSUME RemoteDraw PROVE IInv'
    <2>1. TypeOK'
      BY <1>1 DEF TypeOK, Counted, NoneAhead, RemoteDraw
    <2>2. Counted' /\ NoneAhead'
      BY <1>1 DEF TypeOK, Counted, NoneAhead, RemoteDraw
    <2>3. ImageNotOlder'
      BY <1>1 DEF TypeOK, NoneAhead, ImageNotOlder, RemoteDraw
    <2> QED
      BY <2>1, <2>2, <2>3
  <1>2. ASSUME RemoteFrame PROVE IInv'
    <2>0. remote' \in States /\ remote'.revision = screen /\ remote'.connected = remote.connected
      BY <1>2, StateFields DEF TypeOK, RemoteFrame
    <2>a. /\ changed' = changed + 1 /\ changed = remote.revision /\ screen = remote.revision + 1
          /\ changed' \in 0..(MaxFrames + 1) /\ awaited' \in 0..changed'
      <3>1. /\ remote.connected /\ remote.revision \in 0..MaxFrames /\ screen \in 0..MaxFrames
            /\ screen # remote.revision
        BY <1>2 DEF TypeOK, RemoteFrame
      <3>2. changed = remote.revision /\ changed' = changed + 1 /\ awaited' = awaited
        BY <1>2, <3>1 DEF Counted, RemoteFrame
      <3>3. screen <= remote.revision + 1 /\ remote.revision <= screen
        BY <3>1 DEF Counted
      <3>4. awaited \in 0..changed
        BY DEF TypeOK
      <3> QED
        BY <3>1, <3>2, <3>3, <3>4
    <2>b. UNCHANGED <<screen, seen, mirror, state>>
      BY <1>2 DEF RemoteFrame
    <2>1. TypeOK'
      BY <1>2, <2>0, <2>a DEF TypeOK, Counted, NoneAhead, RemoteFrame
    <2>2. Counted' /\ NoneAhead'
      BY <2>0, <2>b, <2>a DEF TypeOK, Counted, NoneAhead
    <2>3. ImageNotOlder'
      BY <1>2, <2>0, <2>a DEF TypeOK, NoneAhead, ImageNotOlder, RemoteFrame
    <2> QED
      BY <2>1, <2>2, <2>3
  <1>3. ASSUME RemoteLost PROVE IInv'
    <2>0. remote' \in States /\ remote'.revision = remote.revision /\ ~remote'.connected
      BY <1>3, StateFields DEF TypeOK, RemoteLost, RemoteDisconnect
    <2>1. TypeOK'
      BY <1>3, <2>0 DEF TypeOK, Counted, NoneAhead, RemoteLost, RemoteDisconnect
    <2>2. Counted' /\ NoneAhead'
      BY <1>3, <2>0 DEF TypeOK, Counted, NoneAhead, RemoteLost, RemoteDisconnect
    <2>3. ImageNotOlder'
      BY <1>3, <2>0 DEF TypeOK, NoneAhead, ImageNotOlder, RemoteLost, RemoteDisconnect
    <2> QED
      BY <2>1, <2>2, <2>3
  <1>4. ASSUME RemoteDone PROVE IInv'
    <2>1. TypeOK'
      BY <1>4 DEF TypeOK, Counted, NoneAhead, RemoteDone
    <2>2. Counted' /\ NoneAhead'
      BY <1>4 DEF TypeOK, Counted, NoneAhead, RemoteDone
    <2>3. ImageNotOlder'
      BY <1>4 DEF TypeOK, NoneAhead, ImageNotOlder, RemoteDone
    <2> QED
      BY <2>1, <2>2, <2>3
  <1>5. ASSUME WatchChanged PROVE IInv'
    <2>1. TypeOK'
      BY <1>5 DEF TypeOK, Counted, NoneAhead, WatchChanged
    <2>2. Counted' /\ NoneAhead'
      BY <1>5 DEF TypeOK, Counted, NoneAhead, WatchChanged
    <2>3. ImageNotOlder'
      BY <1>5 DEF TypeOK, NoneAhead, ImageNotOlder, WatchChanged
    <2> QED
      BY <2>1, <2>2, <2>3
  <1>6. ASSUME WatchState PROVE IInv'
    <2>1. TypeOK'
      BY <1>6 DEF TypeOK, Counted, NoneAhead, WatchState
    <2>2. Counted' /\ NoneAhead'
      BY <1>6 DEF TypeOK, Counted, NoneAhead, WatchState
    <2>3. ImageNotOlder'
      BY <1>6 DEF TypeOK, NoneAhead, ImageNotOlder, WatchState
    <2> QED
      BY <2>1, <2>2, <2>3
  <1>7. ASSUME WatchCopy PROVE IInv'
    <2>1. TypeOK'
      BY <1>7 DEF TypeOK, Counted, NoneAhead, WatchCopy, SignalChange
    <2>2. Counted' /\ NoneAhead'
      BY <1>7 DEF TypeOK, Counted, NoneAhead, WatchCopy, SignalChange
    <2>3. ImageNotOlder'
      BY <1>7 DEF TypeOK, NoneAhead, ImageNotOlder, WatchCopy, SignalChange
    <2> QED
      BY <2>1, <2>2, <2>3
  <1>8. ASSUME WatchWakes PROVE IInv'
    <2>1. TypeOK'
      BY <1>8 DEF TypeOK, Counted, NoneAhead, WatchWakes
    <2>2. Counted' /\ NoneAhead'
      BY <1>8 DEF TypeOK, Counted, NoneAhead, WatchWakes
    <2>3. ImageNotOlder'
      BY <1>8 DEF TypeOK, NoneAhead, ImageNotOlder, WatchWakes
    <2> QED
      BY <2>1, <2>2, <2>3
  <1>9. ASSUME WatchDone PROVE IInv'
    <2>0. mirror' \in States /\ mirror'.revision = mirror.revision
      BY <1>9, StateFields DEF TypeOK, WatchDone
    <2>1. TypeOK'
      BY <1>9, <2>0 DEF TypeOK, Counted, NoneAhead, WatchDone
    <2>2. Counted' /\ NoneAhead'
      BY <1>9, <2>0 DEF TypeOK, Counted, NoneAhead, WatchDone
    <2>3. ImageNotOlder'
      BY <1>9, <2>0 DEF TypeOK, NoneAhead, ImageNotOlder, WatchDone
    <2> QED
      BY <2>1, <2>2, <2>3
  <1>10. ASSUME WatchStops PROVE IInv'
    <2>1. TypeOK'
      BY <1>10 DEF TypeOK, Counted, NoneAhead, WatchStops
    <2>2. Counted' /\ NoneAhead'
      BY <1>10 DEF TypeOK, Counted, NoneAhead, WatchStops
    <2>3. ImageNotOlder'
      BY <1>10 DEF TypeOK, NoneAhead, ImageNotOlder, WatchStops
    <2> QED
      BY <2>1, <2>2, <2>3
  <1>11. ASSUME Close PROVE IInv'
    <2>1. TypeOK'
      BY <1>11 DEF TypeOK, Counted, NoneAhead, Close
    <2>2. Counted' /\ NoneAhead'
      BY <1>11 DEF TypeOK, Counted, NoneAhead, Close
    <2>3. ImageNotOlder'
      BY <1>11 DEF TypeOK, NoneAhead, ImageNotOlder, Close
    <2> QED
      BY <2>1, <2>2, <2>3
  <1>12. ASSUME CloseRemote PROVE IInv'
    <2>0. remote' \in States /\ remote'.revision = remote.revision /\ ~remote'.connected
      BY <1>12, StateFields DEF TypeOK, CloseRemote, RemoteDisconnect
    <2>1. TypeOK'
      BY <1>12, <2>0 DEF TypeOK, Counted, NoneAhead, CloseRemote, RemoteDisconnect
    <2>2. Counted' /\ NoneAhead'
      BY <1>12, <2>0 DEF TypeOK, Counted, NoneAhead, CloseRemote, RemoteDisconnect
    <2>3. ImageNotOlder'
      BY <1>12, <2>0 DEF TypeOK, NoneAhead, ImageNotOlder, CloseRemote, RemoteDisconnect
    <2> QED
      BY <2>1, <2>2, <2>3
  <1>13. ASSUME CloseMark PROVE IInv'
    <2>0. mirror' \in States /\ mirror'.revision = mirror.revision
      BY <1>13, StateFields DEF TypeOK, CloseMark, SignalChange
    <2>1. TypeOK'
      BY <1>13, <2>0 DEF TypeOK, Counted, NoneAhead, CloseMark, SignalChange
    <2>2. Counted' /\ NoneAhead'
      BY <1>13, <2>0 DEF TypeOK, Counted, NoneAhead, CloseMark, SignalChange
    <2>3. ImageNotOlder'
      BY <1>13, <2>0 DEF TypeOK, NoneAhead, ImageNotOlder, CloseMark, SignalChange
    <2> QED
      BY <2>1, <2>2, <2>3
  <1>14. ASSUME NEW o \in Observers, ObserveLook(o) PROVE IInv'
    <2>1. TypeOK'
      BY <1>14 DEF TypeOK, Counted, NoneAhead, ObserveLook
    <2>2. Counted' /\ NoneAhead'
      BY <1>14 DEF TypeOK, Counted, NoneAhead, ObserveLook
    <2>3. ImageNotOlder'
      BY <1>14 DEF TypeOK, NoneAhead, ImageNotOlder, ObserveLook
    <2> QED
      BY <2>1, <2>2, <2>3
  <1>15. ASSUME NEW o \in Observers, ObserveWakes(o) PROVE IInv'
    <2>1. TypeOK'
      BY <1>15 DEF TypeOK, Counted, NoneAhead, ObserveWakes
    <2>2. Counted' /\ NoneAhead'
      BY <1>15 DEF TypeOK, Counted, NoneAhead, ObserveWakes
    <2>3. ImageNotOlder'
      BY <1>15 DEF TypeOK, NoneAhead, ImageNotOlder, ObserveWakes
    <2> QED
      BY <2>1, <2>2, <2>3
  <1>16. ASSUME NEW o \in Observers, ObserveTimesOut(o) PROVE IInv'
    <2>1. TypeOK'
      BY <1>16 DEF TypeOK, Counted, NoneAhead, ObserveTimesOut
    <2>2. Counted' /\ NoneAhead'
      BY <1>16 DEF TypeOK, Counted, NoneAhead, ObserveTimesOut
    <2>3. ImageNotOlder'
      BY <1>16 DEF TypeOK, NoneAhead, ImageNotOlder, ObserveTimesOut
    <2> QED
      BY <2>1, <2>2, <2>3
  <1>17. ASSUME NEW o \in Observers, ObserveSnapshot(o) PROVE IInv'
    <2>1. TypeOK'
      BY <1>17 DEF TypeOK, Counted, NoneAhead, ObserveSnapshot
    <2>2. Counted' /\ NoneAhead'
      BY <1>17 DEF TypeOK, Counted, NoneAhead, ObserveSnapshot
    <2>3. ImageNotOlder'
      BY <1>17 DEF TypeOK, NoneAhead, ImageNotOlder, ObserveSnapshot
    <2> QED
      BY <2>1, <2>2, <2>3
  <1>18. ASSUME NEW o \in Observers, ObserveAgain(o) PROVE IInv'
    <2>1. TypeOK'
      BY <1>18 DEF TypeOK, Counted, NoneAhead, ObserveAgain
    <2>2. Counted' /\ NoneAhead'
      BY <1>18 DEF TypeOK, Counted, NoneAhead, ObserveAgain
    <2>3. ImageNotOlder'
      BY <1>18 DEF TypeOK, NoneAhead, ImageNotOlder, ObserveAgain
    <2> QED
      BY <2>1, <2>2, <2>3
  <1>19. CASE UNCHANGED vars
    BY <1>19 DEF vars, TypeOK, Counted, NoneAhead, ImageNotOlder
  <1>20. CASE Terminated
    BY <1>19, <1>20 DEF Terminated
  <1> QED
    BY <1>1, <1>2, <1>3, <1>4, <1>5, <1>6, <1>7, <1>8, <1>9, <1>10, <1>11, <1>12, <1>13, <1>14, <1>15, <1>16, <1>17, <1>18, <1>19, <1>20 DEF Next, WatchStep

\* What a console.Session's own step may do to what the window reads: its
\* channels only grow in number, and a lost connection does not come back.
LEMMA MirrorGrows ==
  TypeOK /\ [Next]_vars => changed' >= changed /\ (remote'.connected => remote.connected)
  <1> SUFFICES ASSUME TypeOK, [Next]_vars
               PROVE  changed' >= changed /\ (remote'.connected => remote.connected)
    OBVIOUS
  <1>0. changed \in Nat /\ remote \in States
    BY DEF TypeOK
  <1>1. CASE RemoteFrame
    BY <1>0, <1>1 DEF RemoteFrame
  <1>2. CASE RemoteLost \/ CloseRemote
    BY <1>0, <1>2 DEF RemoteLost, CloseRemote, RemoteDisconnect, States
  <1>3. CASE UNCHANGED <<remote, changed>>
    BY <1>0, <1>3
  <1> QED
    BY <1>1, <1>2, <1>3
       DEF Next, RemoteDraw, RemoteDone, WatchStep, WatchChanged, WatchState, WatchCopy,
           WatchWakes, WatchDone, WatchStops, Close, CloseMark, ObserveLook, ObserveWakes,
           ObserveTimesOut, ObserveSnapshot, ObserveAgain, Terminated, vars, remoteVars

\* The invariant holds of a session or a window that was just opened.
LEMMA PictureInitBase == PictureInit => PictureBase
  <1> SUFFICES ASSUME PictureInit PROVE PictureBase
    OBVIOUS
  <1>1. /\ 0 \in Frames /\ Start \in States /\ Start.revision = 0 /\ Start.connected
        /\ [Start EXCEPT !.connected = FALSE] \in States
        /\ [Start EXCEPT !.connected = FALSE].revision = 0
        /\ [Start EXCEPT !.connected = FALSE].connected = FALSE
    <2>1. 0 \in Frames /\ Start \in States /\ Start.revision = 0 /\ Start.connected
      BY MirrorAssumption DEF Start, Frames, States
    <2> QED
      BY <2>1, StateFields
  <1>2. IInv
    <2>1. CASE client = "tool"
      <3>1. Init
        BY <2>1 DEF PictureInit, Init
      <3> QED
        BY <3>1, InitIInv
    <2>2. CASE client # "tool"
      <3>1. /\ screen = 0 /\ changed = 0 /\ remote \in States /\ remote.revision = 0
        BY <1>1, <2>2 DEF PictureInit
      <3>2. /\ seen = Start /\ mirror = Start /\ awaited = 0 /\ notify = 0
            /\ observePc = [o \in Observers |-> "returned"]
            /\ after = [o \in Observers |-> 0] /\ heard = [o \in Observers |-> 0]
            /\ state = [o \in Observers |-> [Start EXCEPT !.connected = FALSE]]
            /\ image = [o \in Observers |-> 0]
        BY <2>2 DEF PictureInit, NoTool
      <3>3. TypeOK
        <4>1. /\ after \in [Observers -> Frames] /\ image \in [Observers -> Frames]
              /\ heard \in [Observers -> 0..notify] /\ state \in [Observers -> States]
              /\ observePc \in [Observers -> {"look", "wait", "snapshot", "returned"}]
          BY <1>1, <3>2
        <4>2. /\ changed \in 0..(MaxFrames + 1) /\ awaited \in 0..changed /\ notify \in Nat
          BY <3>1, <3>2, MirrorAssumption
        <4>3. /\ gone \in BOOLEAN /\ cancelled \in BOOLEAN
              /\ watchPc \in {"changed", "state", "copy", "wait", "ended"}
              /\ closePc \in {"idle", "remote", "mark", "returned"}
          BY <2>2 DEF PictureInit, NoTool
        <4> QED
          BY <1>1, <3>1, <3>2, <4>1, <4>2, <4>3 DEF TypeOK
      <3>4. Counted
        BY <1>1, <2>2, <3>1 DEF PictureInit, Counted
      <3>5. NoneAhead /\ ImageNotOlder
        <4>1. ASSUME NEW o \in Observers
              PROVE  state[o].revision = 0 /\ image[o] = 0
          BY <1>1, <3>2
        <4>2. screen = 0 /\ seen.revision = 0 /\ mirror.revision = 0
          BY <1>1, <3>1, <3>2
        <4> QED
          BY <4>1, <4>2 DEF NoneAhead, ImageNotOlder
      <3> QED
        BY <3>3, <3>4, <3>5 DEF IInv
    <2> QED
      BY <2>1, <2>2
  <1>3. PictureTypeOK
    <2>1. /\ client \in {"tool", "dell", "ilo"}
          /\ readPc \in {"changed", "ended"} /\ connected \in BOOLEAN
      BY DEF PictureInit, NoWindow, NewWindow
    <2>2. taken \in 0..changed /\ told \in States
      BY <1>1 DEF PictureInit
    <2>3. /\ {frameReady, frameDirty, invalid} \subseteq BOOLEAN
          /\ frameIndex \in Buffers /\ framePainting = None /\ uploadPc = "idle"
          /\ buffers \in [Buffers -> Frames] /\ shown \in Frames
      BY <1>1 DEF PictureInit, Buffers
    <2> QED
      BY <1>2, <2>1, <2>2, <2>3 DEF IInv, PictureTypeOK
  <1>4. IloAlone /\ PaintedStill
    BY <1>1 DEF PictureInit, IloAlone, PaintedStill
  <1> QED
    BY <1>2, <1>3, <1>4 DEF PictureBase

\* Every step of the session, of the window's reader, of the ticker and of the
\* frame goroutine keeps it.
LEMMA PictureNextBase == PictureBase /\ [PictureNext]_pictureVars => PictureBase'
  <1> SUFFICES ASSUME PictureBase, [PictureNext]_pictureVars PROVE PictureBase'
    OBVIOUS
  <1> USE DEF PictureBase
  <1>0. TypeOK
    BY DEF IInv
  <1>1. ASSUME Next, UNCHANGED <<client, windowVars>> PROVE PictureBase'
    <2>1. IInv'
      BY <1>1, NextIInv
    <2>2. changed' >= changed /\ (remote'.connected => remote.connected)
      BY <1>0, <1>1, MirrorGrows
    <2>3. changed \in Nat /\ changed' \in Nat
      BY <1>0, <2>1 DEF IInv, TypeOK
    <2>4. PictureTypeOK'
      BY <1>1, <2>1, <2>2, <2>3 DEF IInv, PictureTypeOK, windowVars
    <2>5. IloAlone' /\ PaintedStill'
      BY <1>1, <2>2 DEF IloAlone, PaintedStill, Target, windowVars
    <2> QED
      BY <2>1, <2>4, <2>5
  <1>2. ASSUME WindowChanged PROVE PictureBase'
    <2>1. UNCHANGED vars /\ UNCHANGED client
      BY <1>2 DEF WindowChanged
    <2>2. IInv'
      BY <2>1, NextIInv
    <2>3. PictureTypeOK'
      BY <1>0, <1>2, <2>1, <2>2
         DEF IInv, TypeOK, vars, remoteVars, PictureTypeOK, Buffers, None, Target, Reading, Painting,
             Uploading, WindowChanged
    <2>4. IloAlone'
      BY <2>1 DEF IloAlone, vars, remoteVars
    <2>5. PaintedStill'
      BY <1>2 DEF PictureTypeOK, PaintedStill, Buffers, None, Target, Painting, Uploading,
             WindowChanged
    <2> QED
      BY <2>2, <2>3, <2>4, <2>5
  <1>3. ASSUME WindowState PROVE PictureBase'
    <2>1. UNCHANGED vars /\ UNCHANGED client
      BY <1>3 DEF WindowState
    <2>2. IInv'
      BY <2>1, NextIInv
    <2>3. PictureTypeOK'
      BY <1>0, <1>3, <2>1, <2>2
         DEF IInv, TypeOK, vars, remoteVars, PictureTypeOK, Buffers, None, Target, Reading, Painting,
             Uploading, WindowState
    <2>4. IloAlone'
      BY <2>1 DEF IloAlone, vars, remoteVars
    <2>5. PaintedStill'
      BY <1>3 DEF PictureTypeOK, PaintedStill, Buffers, None, Target, Painting, Uploading,
             WindowState
    <2> QED
      BY <2>2, <2>3, <2>4, <2>5
  <1>4. ASSUME WindowApply PROVE PictureBase'
    <2>1. UNCHANGED vars /\ UNCHANGED client
      BY <1>4 DEF WindowApply
    <2>2. IInv'
      BY <2>1, NextIInv
    <2>3. PictureTypeOK'
      BY <1>0, <1>4, <2>1, <2>2
         DEF IInv, TypeOK, vars, remoteVars, PictureTypeOK, Buffers, None, Target, Reading, Painting,
             Uploading, WindowApply
    <2>4. IloAlone'
      BY <2>1 DEF IloAlone, vars, remoteVars
    <2>5. PaintedStill'
      BY <1>4 DEF PictureTypeOK, PaintedStill, Buffers, None, Target, Painting, Uploading,
             WindowApply
    <2> QED
      BY <2>2, <2>3, <2>4, <2>5
  <1>5. ASSUME WindowDirty PROVE PictureBase'
    <2>1. UNCHANGED vars /\ UNCHANGED client
      BY <1>5 DEF WindowDirty
    <2>2. IInv'
      BY <2>1, NextIInv
    <2>3. PictureTypeOK'
      BY <1>0, <1>5, <2>1, <2>2
         DEF IInv, TypeOK, vars, remoteVars, PictureTypeOK, Buffers, None, Target, Reading, Painting,
             Uploading, WindowDirty, HandleDisconnect
    <2>4. IloAlone'
      BY <2>1 DEF IloAlone, vars, remoteVars
    <2>5. PaintedStill'
      BY <1>5 DEF PictureTypeOK, PaintedStill, Buffers, None, Target, Painting, Uploading,
             WindowDirty, HandleDisconnect
    <2> QED
      BY <2>2, <2>3, <2>4, <2>5
  <1>6. ASSUME WindowWakes PROVE PictureBase'
    <2>1. UNCHANGED vars /\ UNCHANGED client
      BY <1>6 DEF WindowWakes
    <2>2. IInv'
      BY <2>1, NextIInv
    <2>3. PictureTypeOK'
      BY <1>0, <1>6, <2>1, <2>2
         DEF IInv, TypeOK, vars, remoteVars, PictureTypeOK, Buffers, None, Target, Reading, Painting,
             Uploading, WindowWakes, HandleDisconnect
    <2>4. IloAlone'
      BY <2>1 DEF IloAlone, vars, remoteVars
    <2>5. PaintedStill'
      BY <1>6 DEF PictureTypeOK, PaintedStill, Buffers, None, Target, Painting, Uploading,
             WindowWakes, HandleDisconnect
    <2> QED
      BY <2>2, <2>3, <2>4, <2>5
  <1>7. ASSUME FeedReady PROVE PictureBase'
    <2>1. UNCHANGED vars /\ UNCHANGED client
      BY <1>7 DEF FeedReady
    <2>2. IInv'
      BY <2>1, NextIInv
    <2>3. PictureTypeOK'
      BY <1>0, <1>7, <2>1, <2>2
         DEF IInv, TypeOK, vars, remoteVars, PictureTypeOK, Buffers, None, Target, Reading, Painting,
             Uploading, FeedReady
    <2>4. IloAlone'
      BY <2>1 DEF IloAlone, vars, remoteVars
    <2>5. PaintedStill'
      BY <1>7 DEF PictureTypeOK, PaintedStill, Buffers, None, Target, Painting, Uploading,
             FeedReady
    <2> QED
      BY <2>2, <2>3, <2>4, <2>5
  <1>8. ASSUME ReadLoopEnds PROVE PictureBase'
    <2>1. UNCHANGED vars /\ UNCHANGED client
      BY <1>8 DEF ReadLoopEnds
    <2>2. IInv'
      BY <2>1, NextIInv
    <2>3. PictureTypeOK'
      BY <1>0, <1>8, <2>1, <2>2
         DEF IInv, TypeOK, vars, remoteVars, PictureTypeOK, Buffers, None, Target, Reading, Painting,
             Uploading, ReadLoopEnds, HandleDisconnect
    <2>4. IloAlone'
      BY <2>1 DEF IloAlone, vars, remoteVars
    <2>5. PaintedStill'
      BY <1>8 DEF PictureTypeOK, PaintedStill, Buffers, None, Target, Painting, Uploading,
             ReadLoopEnds, HandleDisconnect
    <2> QED
      BY <2>2, <2>3, <2>4, <2>5
  <1>9. ASSUME UploadBegin PROVE PictureBase'
    <2>1. UNCHANGED vars /\ UNCHANGED client
      BY <1>9 DEF UploadBegin
    <2>2. IInv'
      BY <2>1, NextIInv
    <2>3. PictureTypeOK'
      BY <1>0, <1>9, <2>1, <2>2
         DEF IInv, TypeOK, vars, remoteVars, PictureTypeOK, Buffers, None, Target, Reading, Painting,
             Uploading, UploadBegin
    <2>4. IloAlone'
      BY <2>1 DEF IloAlone, vars, remoteVars
    <2>5. PaintedStill'
      BY <1>9 DEF PictureTypeOK, PaintedStill, Buffers, None, Target, Painting, Uploading,
             UploadBegin
    <2> QED
      BY <2>2, <2>3, <2>4, <2>5
  <1>10. ASSUME UploadCopy PROVE PictureBase'
    <2>1. UNCHANGED vars /\ UNCHANGED client
      BY <1>10 DEF UploadCopy
    <2>2. IInv'
      BY <2>1, NextIInv
    <2>3. PictureTypeOK'
      BY <1>0, <1>10, <2>1, <2>2
         DEF IInv, TypeOK, vars, remoteVars, PictureTypeOK, Buffers, None, Target, Reading, Painting,
             Uploading, UploadCopy
    <2>4. IloAlone'
      BY <2>1 DEF IloAlone, vars, remoteVars
    <2>5. PaintedStill'
      BY <1>10 DEF PictureTypeOK, PaintedStill, Buffers, None, Target, Painting, Uploading,
             UploadCopy
    <2> QED
      BY <2>2, <2>3, <2>4, <2>5
  <1>11. ASSUME UploadPublish PROVE PictureBase'
    <2>1. UNCHANGED vars /\ UNCHANGED client
      BY <1>11 DEF UploadPublish
    <2>2. IInv'
      BY <2>1, NextIInv
    <2>3. PictureTypeOK'
      BY <1>0, <1>11, <2>1, <2>2
         DEF IInv, TypeOK, vars, remoteVars, PictureTypeOK, Buffers, None, Target, Reading, Painting,
             Uploading, UploadPublish
    <2>4. IloAlone'
      BY <2>1 DEF IloAlone, vars, remoteVars
    <2>5. PaintedStill'
      BY <1>11 DEF PictureTypeOK, PaintedStill, Buffers, None, Target, Painting, Uploading,
             UploadPublish
    <2> QED
      BY <2>2, <2>3, <2>4, <2>5
  <1>12. ASSUME PaintBegin PROVE PictureBase'
    <2>1. UNCHANGED vars /\ UNCHANGED client
      BY <1>12 DEF PaintBegin
    <2>2. IInv'
      BY <2>1, NextIInv
    <2>3. PictureTypeOK'
      BY <1>0, <1>12, <2>1, <2>2
         DEF IInv, TypeOK, vars, remoteVars, PictureTypeOK, Buffers, None, Target, Reading, Painting,
             Uploading, PaintBegin
    <2>4. IloAlone'
      BY <2>1 DEF IloAlone, vars, remoteVars
    <2>5. PaintedStill'
      BY <1>12 DEF PictureTypeOK, PaintedStill, Buffers, None, Target, Painting, Uploading,
             PaintBegin
    <2> QED
      BY <2>2, <2>3, <2>4, <2>5
  <1>13. ASSUME PaintEnd PROVE PictureBase'
    <2>1. UNCHANGED vars /\ UNCHANGED client
      BY <1>13 DEF PaintEnd
    <2>2. IInv'
      BY <2>1, NextIInv
    <2>3. PictureTypeOK'
      BY <1>0, <1>13, <2>1, <2>2
         DEF IInv, TypeOK, vars, remoteVars, PictureTypeOK, Buffers, None, Target, Reading, Painting,
             Uploading, PaintEnd
    <2>4. IloAlone'
      BY <2>1 DEF IloAlone, vars, remoteVars
    <2>5. PaintedStill'
      BY <1>13 DEF PictureTypeOK, PaintedStill, Buffers, None, Target, Painting, Uploading,
             PaintEnd
    <2> QED
      BY <2>2, <2>3, <2>4, <2>5
  <1>14. ASSUME Feed PROVE PictureBase'
    <2>1. screen \in Nat /\ screen' = screen + 1 /\ screen' \in Frames
      BY <1>0, <1>14, MirrorAssumption DEF TypeOK, Frames, Feed
    <2>2. /\ UNCHANGED <<client, remote, changed, gone, watchVars, mirrorVars, observeVars,
                        taken, told, connected, frameReady, frameDirty, Uploading, Painting>>
          /\ ~remote.connected /\ readPc' = "dirty"
      BY <1>14 DEF Feed, IloAlone
    <2>3. TypeOK'
      BY <1>0, <2>1, <2>2 DEF TypeOK, watchVars, mirrorVars, observeVars
    <2>4. Counted'
      BY <1>0, <2>1, <2>2 DEF IInv, TypeOK, States, Frames, Counted
    <2>5. NoneAhead' /\ ImageNotOlder'
      BY <1>0, <2>1, <2>2
         DEF IInv, TypeOK, States, Frames, NoneAhead, ImageNotOlder, watchVars, mirrorVars,
             observeVars
    <2>6. PictureTypeOK'
      BY <2>1, <2>2, <2>3 DEF PictureTypeOK, Uploading, Painting
    <2>7. IloAlone' /\ PaintedStill'
      BY <2>2 DEF IloAlone, PaintedStill, Target, Uploading, Painting
    <2> QED
      BY <2>3, <2>4, <2>5, <2>6, <2>7 DEF IInv
  <1>15. ASSUME UNCHANGED pictureVars PROVE PictureBase'
    <2>1. UNCHANGED vars /\ UNCHANGED client /\ UNCHANGED windowVars
      BY <1>15 DEF pictureVars
    <2>2. IInv'
      BY <2>1, NextIInv
    <2> QED
      BY <2>1, <2>2 DEF IInv, PictureTypeOK, IloAlone, PaintedStill, Target, windowVars, vars,
         remoteVars
  <1> QED
    BY <1>1, <1>2, <1>3, <1>4, <1>5, <1>6, <1>7, <1>8, <1>9, <1>10, <1>11, <1>12, <1>13, <1>14, <1>15
       DEF PictureNext, ReadStep, UploadStep, WindowEnded

\* No step draws a frame away again.
LEMMA ScreenGrows ==
  TypeOK /\ [Next]_vars => screen' >= screen /\ screen \in Nat /\ screen' \in Nat
  <1> SUFFICES ASSUME TypeOK, [Next]_vars
               PROVE  screen' >= screen /\ screen \in Nat /\ screen' \in Nat
    OBVIOUS
  <1>0. screen \in Nat
    BY DEF TypeOK, Frames
  <1>1. CASE RemoteDraw
    BY <1>0, <1>1 DEF RemoteDraw
  <1>2. CASE UNCHANGED screen
    BY <1>0, <1>2
  <1> QED
    BY <1>1, <1>2
       DEF Next, RemoteFrame, RemoteLost, RemoteDisconnect, CloseRemote, RemoteDone, WatchStep,
           WatchChanged, WatchState, WatchCopy, WatchWakes, WatchDone, WatchStops, Close,
           CloseMark, ObserveLook, ObserveWakes, ObserveTimesOut, ObserveSnapshot,
           ObserveAgain, Terminated, vars, remoteVars

\* The ticker and the frame goroutine keep the frames of the buffers in order, and
\* the screen from going back to an older one.
LEMMA BuffersStay ==
    ASSUME PictureBase, BuffersInOrder, [PictureNext]_pictureVars
    PROVE  BuffersInOrder' /\ shown' >= shown
  <1>0. /\ buffers \in [{0, 1} -> Nat] /\ shown \in Nat /\ screen \in Nat
        /\ frameIndex \in {0, 1} /\ framePainting \in {0, 1, 2} /\ TypeOK
        /\ uploadPc \in {"idle", "copy", "publish"}
    BY DEF PictureBase, IInv, TypeOK, PictureTypeOK, Buffers, None, Frames
  <1> USE DEF BuffersInOrder, Buffers, None, Target
  <1>1. ASSUME screen' \in Nat, screen' >= screen,
               UNCHANGED <<buffers, uploadPc, frameIndex, framePainting, shown>>
        PROVE  BuffersInOrder' /\ shown' >= shown
    BY <1>0, <1>1
  <1>2. CASE Next /\ UNCHANGED <<client, windowVars>>
    <2>1. UNCHANGED <<buffers, uploadPc, frameIndex, framePainting, shown>>
      BY <1>2 DEF windowVars
    <2> QED
      BY <1>0, <1>1, <1>2, <2>1, ScreenGrows
  <1>3. CASE Feed
    BY <1>0, <1>1, <1>3 DEF Feed, Uploading, Painting
  <1>4. CASE ReadStep \/ ReadLoopEnds
    BY <1>0, <1>1, <1>4 DEF ReadStep, WindowChanged, WindowState, WindowApply, WindowDirty,
       WindowWakes, FeedReady, ReadLoopEnds, Uploading, Painting, vars, remoteVars
  <1>5. CASE UploadBegin
    <2>1. /\ uploadPc = "idle" /\ uploadPc' = "copy" /\ 1 - frameIndex # framePainting
          /\ UNCHANGED <<buffers, frameIndex, framePainting, shown, screen>>
      BY <1>5 DEF UploadBegin, Painting, vars, remoteVars
    <2> QED
      BY <1>0, <2>1
  <1>6. CASE UploadCopy
    <2>1. /\ uploadPc = "copy" /\ uploadPc' = "publish"
          /\ buffers' = [buffers EXCEPT ![1 - frameIndex] = screen]
          /\ UNCHANGED <<frameIndex, framePainting, shown, screen>>
      BY <1>6 DEF UploadCopy, Painting, vars, remoteVars
    <2>2. /\ buffers'[1 - frameIndex] = screen /\ buffers'[frameIndex] = buffers[frameIndex]
          /\ framePainting # 2 => framePainting = frameIndex
      BY <1>0, <2>1
    <2> QED
      BY <1>0, <2>1, <2>2
  <1>7. CASE UploadPublish
    <2>1. /\ uploadPc = "publish" /\ uploadPc' = "idle" /\ frameIndex' = 1 - frameIndex
          /\ UNCHANGED <<buffers, framePainting, shown, screen>>
      BY <1>7 DEF UploadPublish, vars, remoteVars
    <2> QED
      BY <1>0, <2>1
  <1>8. CASE PaintBegin
    <2>1. /\ framePainting' \in {frameIndex, 2}
          /\ UNCHANGED <<uploadPc, buffers, frameIndex, shown, screen>>
      BY <1>8 DEF PaintBegin, Uploading, vars, remoteVars
    <2> QED
      BY <1>0, <2>1
  <1>9. CASE PaintEnd
    <2>1. /\ framePainting # 2 /\ framePainting' = 2 /\ shown' = buffers[framePainting]
          /\ UNCHANGED <<uploadPc, buffers, frameIndex, screen>>
      BY <1>9 DEF PaintEnd, Uploading, vars, remoteVars
    <2>2. CASE framePainting = frameIndex
      BY <1>0, <2>1, <2>2
    <2>3. CASE framePainting = 1 - frameIndex /\ uploadPc = "idle"
      BY <1>0, <2>1, <2>3
    <2> QED
      BY <1>0, <2>1, <2>2, <2>3
  <1>10. CASE UNCHANGED pictureVars
    BY <1>0, <1>1, <1>10 DEF pictureVars, windowVars, vars, remoteVars
  <1> QED
    BY <1>2, <1>3, <1>4, <1>5, <1>6, <1>7, <1>8, <1>9, <1>10
       DEF PictureNext, UploadStep, WindowEnded

\* The whole invariant at the start,
LEMMA PictureInitIInv == PictureInit => PictureIInv
  <1> SUFFICES ASSUME PictureInit PROVE PictureIInv
    OBVIOUS
  <1>1. BuffersInOrder
    BY DEF PictureInit, BuffersInOrder, Buffers, None, Target
  <1> QED
    BY <1>1, PictureInitBase DEF PictureIInv

\* and after every step.
LEMMA PictureNextIInv ==
    PictureIInv /\ [PictureNext]_pictureVars => PictureIInv' /\ shown' >= shown
  BY PictureNextBase, BuffersStay DEF PictureIInv

\* A console.Session alone: however many frames come, its state is never ahead of
\* the iDRAC's screen, each change of it has a channel of its own to wake by, and
\* no picture is older than the revision it goes by.
THEOREM MirrorInvariant == Init /\ [][Next]_vars => []IInv
  <1> QED
    BY InitIInv, NextIInv, PTL

\* In a window, too, that holds; of the window's two buffers the one to be shown
\* has the newer frame but just before it is published, none is ahead of the
\* console, and the screen shows none newer than the buffer it is painted from.
THEOREM PictureInvariant == PictureSafetySpec => []PictureIInv
  <1> QED
    BY PictureInitIInv, PictureNextIInv, PTL DEF PictureSafetySpec

\* The screen never goes back to an older frame, although two buffers take turns
\* and the frame goroutine may still paint the one that is no longer to be shown
\* (uploadFrameIfDirty, layoutCanvas).
THEOREM PictureNeverGoesBack == PictureSafetySpec => [][shown' >= shown]_pictureVars
  <1>1. PictureIInv /\ [PictureNext]_pictureVars => [shown' >= shown]_pictureVars
    BY PictureNextIInv
  <1> QED
    BY <1>1, PictureInvariant, PTL DEF PictureSafetySpec

\* The picture an Observe returns is never older than the revision it reports,
\* however many frames were drawn, and states copied, between the two.
THEOREM PictureImageNotOlder == PictureSafetySpec => []ImageNotOlder
  <1>1. PictureIInv => ImageNotOlder
    BY DEF PictureIInv, PictureBase, IInv
  <1> QED
    BY <1>1, PictureInvariant, PTL

\* The ticker never copies a frame into the buffer that is being painted.
THEOREM PicturePaintedStill == PictureSafetySpec => []PaintedStill
  <1>1. PictureIInv => PaintedStill
    BY DEF PictureIInv, PictureBase
  <1> QED
    BY <1>1, PictureInvariant, PTL
=============================================================================
