--------------------------- MODULE WindowPicture ---------------------------
(***************************************************************************)
(* The same mirroring for the desktop window (internal/app), which has     *)
(* clients of two kinds: a Dell console is followed by the window's own    *)
(* watchRemote, an iLO console by readLoop.  Either marks the picture      *)
(* dirty; the ticker copies the frame into the one of two buffers that is  *)
(* not shown, and the frame goroutine paints the other.  A behaviour has   *)
(* one client, chosen at the start: a console.Session, as in RemoteMirror, *)
(* or a window, beside which those parts are at rest.                      *)
(***************************************************************************)
EXTENDS RemoteMirror

VARIABLES
    client,      \* "tool", "dell" or "ilo": the last two are windows
    readPc,      \* where the window's watchRemote or readLoop stands
    taken,       \* the notify channel watchRemote took
    told,        \* the remote state it took
    connected, frameReady, frameDirty,
    frameIndex,     \* the buffer shown
    framePainting,  \* the buffer being painted, or 2 between frames
    buffers,     \* the frame in each buffer, 0 before the first
    uploadPc,    \* where uploadFrameIfDirty stands
    invalid,     \* a repaint has been asked for
    shown        \* the newest frame that reached the screen

windowVars == <<readPc, taken, told, connected, frameReady, frameDirty, frameIndex,
                framePainting, buffers, uploadPc, invalid, shown>>
pictureVars == <<client, windowVars, vars>>

None == 2
Buffers == {0, 1}

PictureTypeOK ==
    /\ TypeOK
    /\ client \in {"tool", "dell", "ilo"}
    /\ readPc \in {"changed", "state", "apply", "dirty", "wait", "ended"}
    /\ taken \in 0..changed /\ told \in States
    /\ {connected, frameReady, frameDirty, invalid} \subseteq BOOLEAN
    /\ frameIndex \in Buffers /\ framePainting \in Buffers \cup {None}
    /\ uploadPc \in {"idle", "copy", "publish"}
    /\ buffers \in [Buffers -> Frames] /\ shown \in Frames

\* A console.Session that has ended.
NoTool ==
    /\ watchPc = "ended" /\ awaited = 0 /\ seen = Start
    /\ mirror = Start /\ notify = 0 /\ cancelled = FALSE /\ closePc = "returned"
    /\ observePc = [o \in Observers |-> "returned"]
    /\ after = [o \in Observers |-> 0] /\ heard = [o \in Observers |-> 0]
    /\ state = [o \in Observers |-> [Start EXCEPT !.connected = FALSE]]
    /\ image = [o \in Observers |-> 0]

NoWindow ==
    /\ readPc = "ended" /\ connected = FALSE

\* connect and connectIDRAC have committed the connection.
NewWindow ==
    /\ readPc = "changed" /\ connected = TRUE

PictureInit ==
    /\ client \in {"tool", "dell", "ilo"}
    /\ IF client = "tool" THEN Init /\ NoWindow ELSE NoTool /\ NewWindow
    /\ IF client = "ilo" THEN remote = [Start EXCEPT !.connected = FALSE] /\ gone = TRUE
                         ELSE remote = Start /\ gone = FALSE
    /\ screen = 0 /\ changed = 0
    /\ taken = 0 /\ told = Start
    /\ frameReady = FALSE /\ frameDirty = FALSE
    /\ frameIndex = 0 /\ framePainting = None
    /\ buffers = [b \in Buffers |-> 0] /\ uploadPc = "idle"
    /\ invalid = FALSE /\ shown = 0

Reading == <<readPc, taken, told>>
Painting == <<framePainting, invalid, shown>>
Uploading == <<frameIndex, buffers, uploadPc>>

----------------------------------------------------------------------------
\* watchRemote of a window: the channel, then the state.
WindowChanged ==
    /\ client = "dell" /\ readPc = "changed"
    /\ taken' = changed
    /\ readPc' = "state"
    /\ UNCHANGED <<client, told, connected, frameReady, frameDirty, Uploading, Painting, vars>>

WindowState ==
    /\ client = "dell" /\ readPc = "state"
    /\ told' = remote
    /\ readPc' = "apply"
    /\ UNCHANGED <<client, taken, connected, frameReady, frameDirty, Uploading, Painting, vars>>

WindowApply ==
    /\ client = "dell" /\ readPc = "apply"
    /\ frameReady' = (frameReady \/ told.revision > 0)
    /\ readPc' = "dirty"
    /\ UNCHANGED <<client, taken, told, connected, frameDirty, Uploading, Painting, vars>>

\* handleDisconnect
HandleDisconnect ==
    /\ connected' = FALSE /\ frameReady' = FALSE
    /\ readPc' = "ended"

\* markFrameDirty and, at the end of the console, handleDisconnect.
WindowDirty ==
    /\ client = "dell" /\ readPc = "dirty"
    /\ frameDirty' = (frameDirty \/ told.revision > 0)
    /\ IF told.connected THEN readPc' = "wait" /\ UNCHANGED <<connected, frameReady>>
                         ELSE HandleDisconnect
    /\ invalid' = TRUE
    /\ UNCHANGED <<client, taken, told, Uploading, framePainting, shown, vars>>

WindowWakes ==
    /\ client = "dell" /\ readPc = "wait"
    /\ \/ changed # taken /\ readPc' = "changed" /\ UNCHANGED <<connected, frameReady, invalid>>
       \/ gone /\ HandleDisconnect /\ invalid' = TRUE
    /\ UNCHANGED <<client, taken, told, frameDirty, Uploading, framePainting, shown, vars>>

\* readLoop of an iLO console: VideoStream.Feed has drawn a frame, which is then
\* marked dirty, or the read fails.
Feed ==
    /\ client = "ilo" /\ readPc = "changed" /\ screen < MaxFrames
    /\ screen' = screen + 1
    /\ readPc' = "dirty"
    /\ UNCHANGED <<client, remote, changed, gone, watchVars, mirrorVars, observeVars,
                   taken, told, connected, frameReady, frameDirty, Uploading, Painting>>

FeedReady ==
    /\ client = "ilo" /\ readPc = "dirty"
    /\ frameReady' = TRUE /\ frameDirty' = TRUE
    /\ readPc' = "changed"
    /\ UNCHANGED <<client, taken, told, connected, Uploading, Painting, vars>>

ReadLoopEnds ==
    /\ client = "ilo" /\ readPc = "changed"
    /\ HandleDisconnect
    /\ invalid' = TRUE
    /\ UNCHANGED <<client, taken, told, frameDirty, Uploading, framePainting, shown, vars>>

----------------------------------------------------------------------------
\* uploadFrameIfDirty, on the ticker.

Target == 1 - frameIndex

\* As it would be if it took the buffer being painted.
UploadBeginAnyway ==
    /\ uploadPc = "idle" /\ frameDirty /\ frameReady
    /\ frameDirty' = FALSE
    /\ uploadPc' = "copy"
    /\ UNCHANGED <<client, Reading, connected, frameReady, frameIndex, buffers, Painting, vars>>

\* The buffer not shown is taken, unless a frame that began earlier still paints
\* it; the picture stays dirty then.
UploadBegin ==
    /\ uploadPc = "idle" /\ frameDirty /\ frameReady
    /\ Target # framePainting
    /\ frameDirty' = FALSE
    /\ uploadPc' = "copy"
    /\ UNCHANGED <<client, Reading, connected, frameReady, frameIndex, buffers, Painting, vars>>

\* Session.Frame, VideoStream.CopyFrame: the frame is copied under its own lock.
UploadCopy ==
    /\ uploadPc = "copy"
    /\ buffers' = [buffers EXCEPT ![Target] = screen]
    /\ uploadPc' = "publish"
    /\ UNCHANGED <<client, Reading, connected, frameReady, frameDirty, frameIndex, Painting, vars>>

\* As it would be if the picture became clean only now.
UploadPublishClean ==
    /\ uploadPc = "publish"
    /\ frameIndex' = Target /\ frameDirty' = FALSE
    /\ uploadPc' = "idle" /\ invalid' = TRUE
    /\ UNCHANGED <<client, Reading, connected, frameReady, buffers, framePainting, shown, vars>>

UploadPublish ==
    /\ uploadPc = "publish"
    /\ frameIndex' = Target
    /\ uploadPc' = "idle" /\ invalid' = TRUE
    /\ UNCHANGED <<client, Reading, connected, frameReady, frameDirty, buffers,
                   framePainting, shown, vars>>

----------------------------------------------------------------------------
\* eventLoop: a frame was asked for.  layoutCanvas paints the picture, if there is
\* one, until Frame returns.
PaintBegin ==
    /\ invalid /\ framePainting = None
    /\ invalid' = FALSE
    /\ framePainting' = IF connected /\ buffers[frameIndex] > 0 THEN frameIndex ELSE None
    /\ UNCHANGED <<client, Reading, connected, frameReady, frameDirty, Uploading, shown, vars>>

PaintEnd ==
    /\ framePainting # None
    /\ shown' = buffers[framePainting]
    /\ framePainting' = None
    /\ UNCHANGED <<client, Reading, connected, frameReady, frameDirty, Uploading, invalid, vars>>

----------------------------------------------------------------------------
ReadStep == WindowChanged \/ WindowState \/ WindowApply \/ WindowDirty \/ WindowWakes
            \/ FeedReady
UploadStep == UploadBegin \/ UploadCopy \/ UploadPublish

WindowEnded ==
    /\ client # "tool" /\ readPc = "ended" /\ UNCHANGED pictureVars

PictureNext ==
    \/ Next /\ UNCHANGED <<client, windowVars>>
    \/ ReadStep \/ Feed \/ ReadLoopEnds
    \/ UploadStep
    \/ PaintBegin \/ PaintEnd
    \/ WindowEnded

PictureSafetySpec == PictureInit /\ [][PictureNext]_pictureVars

\* Besides the fairness of RemoteMirror: the window's goroutines run, the ticker
\* ticks, and Gio paints a frame when asked to.
PictureSpec ==
    /\ PictureSafetySpec
    /\ Fairness
    /\ WF_pictureVars(ReadStep) /\ WF_pictureVars(UploadStep)
    /\ WF_pictureVars(PaintBegin) /\ WF_pictureVars(PaintEnd)

----------------------------------------------------------------------------
(* Properties *)

\* The ticker never copies into the buffer that Gio is reading, however slow the
\* frame: paint.ImageOp requires the pixels to stay as they were.
PaintedStill == uploadPc = "copy" => framePainting # Target

\* The window of an iLO console has no idrac.Session that could draw.
IloAlone == client = "ilo" => ~remote.connected

PictureBase == PictureTypeOK /\ IInv /\ IloAlone /\ PaintedStill

\* The frames in the two buffers: neither is ahead of the console; the buffer to
\* be shown has the newer one, until the other has just been filled; the screen has
\* none newer than that, nor than the one being painted; and a buffer is not
\* painted between its being taken and being published.
BuffersInOrder ==
    /\ \A b \in Buffers : buffers[b] <= screen
    /\ IF uploadPc = "publish" THEN buffers[frameIndex] <= buffers[Target]
                               ELSE buffers[Target] <= buffers[frameIndex]
    /\ shown <= buffers[frameIndex]
    /\ framePainting # None => shown <= buffers[framePainting]
    /\ uploadPc # "idle" => framePainting # Target

\* Both kinds of client together: an inductive invariant.
PictureIInv == PictureBase /\ BuffersInOrder

\* Frames the console has told the window of.
Published == IF client = "dell" THEN remote.revision ELSE screen

\* Every frame, the last one above all, reaches the screen or is replaced by a
\* newer one that does: no change is lost between the reader, the ticker and the
\* frame goroutine, although each copies at its own pace.
NewestShown ==
    \A n \in 1..MaxFrames :
      (client # "tool" /\ connected /\ Published >= n) ~> (shown >= n \/ ~connected)
============================================================================
