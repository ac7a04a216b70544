---------------------------- MODULE MediaChannel ----------------------------
(***************************************************************************)
(* idrac.MediaSession (internal/idrac/vmedia.go): one ISO image served to  *)
(* an iDRAC over its virtual media WebSocket.  Three goroutines share it:  *)
(* readLoop answers the controller one message at a time, heartBeatLoop    *)
(* keeps the channel alive, and whoever unmounts calls Close.  Each send   *)
(* takes writeMu on its own, so messages of the three interleave freely.   *)
(*                                                                         *)
(* Left out: the token and the keys carried in the messages, and the log.  *)
(* Sizes are counted in units small enough for TLC; CdBlock stands for     *)
(* cdBlockSize.                                                            *)
(*                                                                         *)
(* The names that every specification has begin with Channel here, so that *)
(* IdracSessionProofs can extend this module and IdracSession together.    *)
(***************************************************************************)
EXTENDS Naturals, Sequences, SequencesExt, FiniteSetsExt

CONSTANTS
    Size,           \* bytes in the image
    CdBlock,        \* cdBlockSize
    InitialBlocks,  \* initialBlocks
    MaxPerRead,     \* maxBlocksPerRead
    Starts,         \* first blocks the controller asks for
    Counts,         \* block counts it asks for
    BlockSizes,     \* sizes it gives a block; 0 is the channel's own
    MaxMessages,    \* bound: messages from the controller
    MaxBeats        \* bound: heartbeats

ASSUME SizesAssumption ==
    /\ Size \in Nat \ {0}           \* OpenISO refuses an empty file
    /\ CdBlock \in Nat \ {0}
    /\ InitialBlocks \in Nat \ {0}
    /\ MaxPerRead \in Nat \ {0}
    /\ Starts \subseteq Nat /\ Counts \subseteq Nat /\ BlockSizes \subseteq Nat

VARIABLES
    readPc,     \* where readLoop stands
    todo,       \* the steps the handler it is in has yet to take
    fate,       \* what that handler returns: "nil" or "error"
    beatPc,     \* where heartBeatLoop stands
    closePc,    \* where Close stands
    asked,      \* history: the block requests handled, as trimmed
    answered,   \* history: the requests whose header reached the controller
    announced,  \* m.announced
    mapped,     \* m.mapped
    transport,  \* m.transportAlive
    ctxDone,    \* m.ctx is done
    conn,       \* "open", "dead" (peer gone) or "closed"
    isoOpen,    \* m.iso still has its file
    delivered,  \* m.deliveredBytes
    fetched,    \* m.readBytes
    received,   \* messages received
    beats       \* heartbeats sent

flags    == <<announced, mapped, transport>>
image    == <<isoOpen, delivered, fetched>>
loopVars == <<readPc, todo, fate, asked>>
bounds   == <<received, beats>>
channelVars == <<loopVars, beatPc, closePc, answered, flags, ctxDone, conn,
                 image, bounds>>

\* The number of blocks announced: the size in blocks, rounded up.
Blocks == (Size + CdBlock - 1) \div CdBlock

\* A message to the controller, or a read of the image that precedes it.
Message(kind, first, count, size) ==
    [kind |-> kind, first |-> first, count |-> count, size |-> size]
Plain(kind) == Message(kind, 0, 0, 0)
Request(m) == [first |-> m.first, count |-> m.count, size |-> m.size]

Requests == [first : Nat, count : Nat, size : Nat]
Work == [kind : {"inquiry", "auth", "eject", "fetch", "header", "data"},
         first : Nat, count : Nat, size : Nat]

Teardown == {"cancel", "hangUp", "dropISO", "flagsDown"}

\* The type of the state; block counts are unsigned in the code.
ChannelTypeOK ==
    /\ readPc \in {"read", "handle", "done"} \cup Teardown
    /\ beatPc \in {"ticking", "done"}
    /\ closePc \in {"idle", "eject", "leave", "returned"} \cup Teardown
    /\ fate \in {"nil", "error"}
    /\ todo \in Seq(Work)
    /\ asked \in Seq(Requests) /\ answered \in Seq(Requests)
    /\ \A i \in DOMAIN asked :
         asked[i].first + asked[i].count <= Blocks \/ asked[i].count = 0
    /\ {announced, mapped, transport, ctxDone, isoOpen} \subseteq BOOLEAN
    /\ conn \in {"open", "dead", "closed"}
    /\ delivered \in Nat /\ fetched \in Nat

\* StartVirtualMedia has dialled and started the two loops.
ChannelInit ==
    /\ readPc = "read" /\ todo = <<>> /\ fate = "nil" /\ asked = <<>>
    /\ beatPc = "ticking"
    /\ closePc = "idle"
    /\ answered = <<>>
    /\ announced = FALSE /\ mapped = FALSE /\ transport = TRUE
    /\ ctxDone = FALSE
    /\ conn = "open"
    /\ isoOpen = TRUE /\ delivered = 0 /\ fetched = 0
    /\ received = 0 /\ beats = 0

----------------------------------------------------------------------------
(* Sending *)

\* A write that the socket takes: it reaches the controller, or is lost with
\* a peer that is gone.
Sent(m) ==
    \/ /\ conn = "open"
       /\ answered' = IF m.kind = "header" THEN Append(answered, Request(m))
                      ELSE answered
    \/ conn = "dead" /\ UNCHANGED answered

SendFails == conn # "open"

----------------------------------------------------------------------------
(* readLoop and handle *)

\* The request trimmed to the blocks that exist.
Clamp(first, count) ==
    IF first >= Blocks THEN 0
    ELSE IF first + count > Blocks THEN Blocks - first ELSE count

\* Mutant. A request for nothing is not answered.
SendBlocksSilent(first, count, size) ==
    IF count = 0 THEN <<>>
    ELSE <<Message("fetch", first, count, size), Message("header", first, count, size),
           Message("data", first, count, size)>>

\* What sendBlocks does for a trimmed request: read the image, send a header,
\* send the bytes.  A request for nothing is answered by the header alone.
SendBlocks(first, count, size) ==
    IF count = 0 THEN <<Message("header", first, 0, size)>>
    ELSE <<Message("fetch", first, count, size), Message("header", first, count, size),
           Message("data", first, count, size)>>

\* readLoop takes the next message.  A socket that was closed or whose peer is
\* gone may still hold messages that had arrived.
Receive ==
    /\ readPc = "read" /\ received < MaxMessages
    /\ received' = received + 1

\* The handler has the steps "work" before it and then returns "result".
Handle(work, result) ==
    /\ readPc' = "handle"
    /\ todo' = work
    /\ fate' = result

\* mediaMsgReadData: serveRead.  The request is trimmed in blocks of the medium
\* and read in blocks of its own size.
ReceiveRead(first, count, blockSize) ==
    /\ Receive
    /\ LET n == Clamp(first, count)
           size == IF blockSize = 0 THEN CdBlock ELSE blockSize
       IN
       \/ /\ count = 0
          /\ Handle(<<>>, "nil")
          /\ UNCHANGED asked
       \/ /\ count > MaxPerRead
          /\ Handle(<<>>, "error")
          /\ UNCHANGED asked
       \/ /\ count \in 1..MaxPerRead
          /\ Handle(SendBlocks(first, n, size), "nil")
          /\ asked' = Append(asked, [first |-> first, count |-> n, size |-> size])
    /\ UNCHANGED <<beatPc, closePc, answered, flags, ctxDone, conn, image,
                   beats>>

OtherMessage ==
    /\ Receive
    /\ UNCHANGED <<beatPc, closePc, answered, ctxDone, conn, image, beats>>

\* announceMedium: the inquiry and the first blocks, unasked.
AnnounceMedium ==
    LET count == Min({InitialBlocks, Blocks}) IN
    /\ Handle(<<Plain("inquiry")>> \o SendBlocks(0, count, CdBlock), "nil")
    /\ asked' = Append(asked, [first |-> 0, count |-> count, size |-> CdBlock])

\* mediaMsgConnected: the first one announces the medium.
ReceiveConnected ==
    /\ OtherMessage
    /\ transport' = TRUE
    /\ announced' = TRUE
    /\ \/ announced /\ Handle(<<>>, "nil") /\ UNCHANGED asked
       \/ ~announced /\ AnnounceMedium
    /\ UNCHANGED mapped

\* mediaMsgAuthKey2: sendAuth answers the challenge.
ReceiveAuth ==
    /\ OtherMessage
    /\ Handle(<<Plain("auth")>>, "nil")
    /\ UNCHANGED <<asked, flags>>

\* mediaMsgEject: the host ejected the medium; the loop ends in any case.
ReceiveEject ==
    /\ OtherMessage
    /\ Handle(<<Plain("eject")>>, "error")
    /\ UNCHANGED <<asked, flags>>

\* mediaMsgStatus with a code that maps, ejects, ends the session or does none
\* of these.  NotNeeded, AuthKey3 and unknown messages have no effect either.
ReceiveStatus(status) ==
    /\ OtherMessage
    /\ mapped' = ((status = "mapped") \/ (status # "ejected" /\ mapped))
    /\ Handle(<<>>, IF status = "fatal" THEN "error" ELSE "nil")
    /\ UNCHANGED <<asked, announced, transport>>

\* A message too short to dispatch, or a read request too short to decode.
ReceiveShort ==
    /\ OtherMessage
    /\ Handle(<<>>, "error")
    /\ UNCHANGED <<asked, flags>>

\* ReadMessage fails on a socket that died or was closed.
ReceiveFails ==
    /\ readPc = "read" /\ conn # "open"
    /\ readPc' = "cancel"
    /\ UNCHANGED <<todo, fate, asked, beatPc, closePc, answered, flags, ctxDone,
                   conn, image, bounds>>

\* iso.ReadAt, which fails beyond the end of the image and once it is closed.
Fetch ==
    /\ readPc = "handle" /\ todo # <<>> /\ Head(todo).kind = "fetch"
    /\ LET r == Head(todo)
           inside == (r.first + r.count) * r.size <= Size
       IN  IF inside /\ isoOpen
           THEN /\ todo' = Tail(todo)
                /\ fetched' = fetched + r.count * r.size
                /\ UNCHANGED readPc
           ELSE /\ readPc' = "cancel"
                /\ UNCHANGED <<todo, fetched>>
    /\ UNCHANGED <<fate, asked, beatPc, closePc, answered, flags, ctxDone, conn,
                   isoOpen, delivered, bounds>>

\* The handler's next message goes out.  Bytes count as delivered, and an
\* ejected medium as unmapped, once their message was written.
SendNext ==
    /\ readPc = "handle" /\ todo # <<>> /\ Head(todo).kind # "fetch"
    /\ LET m == Head(todo) IN
         /\ Sent(m)
         /\ todo' = Tail(todo)
         /\ delivered' = IF m.kind = "data" THEN delivered + m.count * m.size
                         ELSE delivered
         /\ mapped' = (mapped /\ m.kind # "eject")
    /\ UNCHANGED <<readPc, fate, asked, beatPc, closePc, announced, transport,
                   ctxDone, conn, isoOpen, fetched, bounds>>

SendNextFails ==
    /\ readPc = "handle" /\ todo # <<>> /\ Head(todo).kind # "fetch"
    /\ SendFails
    /\ readPc' = "cancel"
    /\ UNCHANGED <<todo, fate, asked, beatPc, closePc, answered, flags, ctxDone,
                   conn, image, bounds>>

\* handle returned: an error or a context that is done ends the loop.
HandleReturns ==
    /\ readPc = "handle" /\ todo = <<>>
    /\ readPc' = IF fate = "error" \/ ctxDone THEN "cancel" ELSE "read"
    /\ UNCHANGED <<todo, fate, asked, beatPc, closePc, answered, flags, ctxDone,
                   conn, image, bounds>>

----------------------------------------------------------------------------
(* teardown, run by Close and by the end of readLoop, and heartBeatLoop *)

\* The step that follows each step of teardown.
After(place, last) ==
    CASE place = "cancel"    -> "hangUp"
      [] place = "hangUp"    -> "dropISO"
      [] place = "dropISO"   -> "flagsDown"
      [] place = "flagsDown" -> last

TeardownStep(place) ==
    /\ ctxDone' = (ctxDone \/ place = "cancel")
    /\ conn' = IF place = "hangUp" THEN "closed" ELSE conn
    /\ isoOpen' = (isoOpen /\ place # "dropISO")
    /\ transport' = (transport /\ place # "flagsDown")
    /\ mapped' = (mapped /\ place # "flagsDown")
    /\ UNCHANGED <<announced, delivered, fetched, todo, fate, asked,
                   beatPc, answered, bounds>>

\* Mutant. readLoop ends without teardown.
ReaderTeardownSkipped ==
    /\ readPc \in Teardown
    /\ readPc' = "done"
    /\ UNCHANGED <<todo, fate, asked, beatPc, closePc, answered, flags, ctxDone,
                   conn, image, bounds>>

\* readLoop's deferred calls: teardown, then close(m.done).
ReaderTeardown ==
    /\ readPc \in Teardown
    /\ TeardownStep(readPc)
    /\ readPc' = After(readPc, "done")
    /\ UNCHANGED closePc

\* Close runs once: it says eject and close, whatever becomes of the writes,
\* and tears down.
ChannelClose ==
    /\ closePc = "idle"
    /\ closePc' = "eject"
    /\ UNCHANGED <<loopVars, beatPc, answered, flags, ctxDone, conn, image,
                   bounds>>

CloseSends ==
    /\ closePc \in {"eject", "leave"}
    /\ Sent(Plain(closePc)) \/ (SendFails /\ UNCHANGED answered)
    /\ closePc' = IF closePc = "eject" THEN "leave" ELSE "cancel"
    /\ UNCHANGED <<loopVars, beatPc, flags, ctxDone, conn, image, bounds>>

\* Mutant. Close leaves teardown to readLoop.
CloseTeardownSkipped ==
    /\ closePc = "cancel"
    /\ closePc' = "returned"
    /\ UNCHANGED <<loopVars, beatPc, answered, flags, ctxDone, conn, image,
                   bounds>>

CloseTeardown ==
    /\ closePc \in Teardown
    /\ TeardownStep(closePc)
    /\ closePc' = After(closePc, "returned")
    /\ UNCHANGED readPc

HeartBeat ==
    /\ beatPc = "ticking" /\ beats < MaxBeats
    /\ beats' = beats + 1
    /\ \/ Sent(Plain("beat")) /\ UNCHANGED beatPc
       \/ SendFails /\ beatPc' = "done" /\ UNCHANGED answered
    /\ UNCHANGED <<loopVars, closePc, flags, ctxDone, conn, image, received>>

BeatLoopEnds ==
    /\ beatPc = "ticking" /\ ctxDone
    /\ beatPc' = "done"
    /\ UNCHANGED <<loopVars, closePc, answered, flags, ctxDone, conn, image,
                   bounds>>

\* The controller or the network goes away.
PeerGone ==
    /\ conn = "open"
    /\ conn' = "dead"
    /\ UNCHANGED <<loopVars, beatPc, closePc, answered, flags, ctxDone, image,
                   bounds>>

Ended == readPc = "done" /\ closePc \in {"idle", "returned"} /\ beatPc = "done"

ChannelNext ==
    \/ \E first \in Starts, count \in Counts, size \in BlockSizes :
         ReceiveRead(first, count, size)
    \/ ReceiveConnected \/ ReceiveAuth \/ ReceiveEject \/ ReceiveShort
    \/ \E status \in {"mapped", "ejected", "fatal", "other"} :
         ReceiveStatus(status)
    \/ ReceiveFails \/ Fetch \/ SendNext \/ SendNextFails \/ HandleReturns
    \/ ReaderTeardown
    \/ ChannelClose \/ CloseSends \/ CloseTeardown
    \/ HeartBeat \/ BeatLoopEnds
    \/ PeerGone
    \/ Ended /\ UNCHANGED channelVars

\* Goroutines that can run do run; nobody makes the controller speak, the peer
\* die or the operator close.
ChannelFairness ==
    /\ WF_channelVars(ReceiveFails) /\ WF_channelVars(Fetch)
    /\ WF_channelVars(SendNext \/ SendNextFails) /\ WF_channelVars(HandleReturns)
    /\ WF_channelVars(ReaderTeardown)
    /\ WF_channelVars(CloseSends) /\ WF_channelVars(CloseTeardown)
    /\ WF_channelVars(BeatLoopEnds)

ChannelSafetySpec == ChannelInit /\ [][ChannelNext]_channelVars

ChannelSpec == ChannelSafetySpec /\ ChannelFairness

----------------------------------------------------------------------------
(* Properties *)

\* Once Done() fires nothing of the session is up any more: a status or a
\* connected message handled while Close was tearing down cannot leave the
\* medium shown as mapped or the channel as alive.
NothingUpWhenDone ==
    readPc = "done" =>
      ~mapped /\ ~transport /\ ctxDone /\ conn = "closed" /\ ~isoOpen

\* The answers are those of the requests, in their order, none skipped: the
\* answer to a request that lies past the end of the medium is an empty one.
AnswersInOrder ==
    /\ Len(answered) <= Len(asked)
    /\ \A i \in DOMAIN answered : answered[i] = asked[i]
    /\ readPc = "read" /\ conn = "open" => Len(answered) = Len(asked)

----------------------------------------------------------------------------
(* Why they hold: an inductive invariant *)

\* What teardown has done when readLoop is at one of its steps.
TeardownDone ==
    /\ readPc \in {"hangUp", "dropISO", "flagsDown", "done"} => ctxDone
    /\ readPc \in {"dropISO", "flagsDown", "done"} => conn = "closed"
    /\ readPc \in {"flagsDown", "done"} => ~isoOpen
    /\ readPc = "done" => ~mapped /\ ~transport

Headers == {i \in DOMAIN todo : todo[i].kind = "header"}

\* A handler has one header to send at most, that of the last request.
LastRequest ==
    \A i \in Headers :
        /\ asked # <<>> /\ Request(todo[i]) = asked[Len(asked)]
        /\ \A j \in Headers : j = i

\* While nothing was lost only the answer being prepared is missing.
NoneMissing ==
    conn = "open" /\ readPc \in {"read", "handle"} =>
        Len(answered) = IF readPc = "handle" /\ Headers # {} THEN Len(asked) - 1
                        ELSE Len(asked)

ChannelIInv == ChannelTypeOK /\ TeardownDone /\ LastRequest /\ NoneMissing /\ AnswersInOrder

----------------------------------------------------------------------------
(* Liveness *)

\* Close ends both loops whatever they were doing, and so does a lost peer
\* without anybody closing the session.
ChannelEnds ==
    (closePc # "idle" \/ conn = "dead")
        ~> (closePc \in {"idle", "returned"} /\ readPc = "done" /\ beatPc = "done")
=============================================================================
