------------------------------- MODULE WsConn -------------------------------
(***************************************************************************)
(* The WebSocket client (wsx/wsx.go) beside its users: the goroutine that  *)
(* dials, waits for the key challenge and then reads until an error makes  *)
(* it close (idrac/session.go, idrac/vmedia.go), goroutines that write,    *)
(* and the one that calls Close.  A frame from the peer is a record; the   *)
(* payload is the number of its message and its place in it.  readFrame    *)
(* takes two steps, so that a deadline may come between header and         *)
(* payload.                                                                *)
(***************************************************************************)
EXTENDS Naturals, Sequences

CONSTANTS
    Writers,      \* goroutines that send a message
    reader, closer,
    None,
    MaxMessages,  \* messages the peer sends
    MaxPings,     \* pings the peer sends
    InFlight,     \* frames under way to the client
    SendBuffer    \* frames the socket takes before Write blocks

ASSUME WsAssumption ==
    /\ reader # closer /\ reader \notin Writers /\ closer \notin Writers
    /\ None \notin Writers \cup {reader, closer}
    /\ MaxMessages \in Nat /\ MaxPings \in Nat
    /\ InFlight \in Nat \ {0} /\ SendBuffer \in Nat \ {0}

VARIABLES
    pc,          \* where each goroutine is
    socket,      \* "none", "open" or "closed"
    deadline,    \* "none", "wait" (awaitKeyRequest), "set" or "expired"
    readMu,      \* who holds it
    writeMu,     \* who holds it
    peerClosed,  \* the peer's close frame was read
    sentClose,   \* a close frame was or is being written
    once,        \* closeOnce: "free", "taken" or "done"
    header,      \* the frame whose header was read, or None
    assembled,   \* fragments of the message ReadMessage is at
    received,    \* messages ReadMessage returned
    cut,         \* the wait for the challenge ended inside a frame
    in,          \* frames on their way from the peer
    out,         \* frames in the socket's send buffer
    sent,        \* the frames written from the first close frame on
    peer         \* the other side; parts counts the frames of each message

vars == <<pc, socket, deadline, readMu, writeMu, peerClosed, sentClose, once,
          header, assembled, received, cut, in, out, sent, peer>>

Procs == Writers \cup {reader, closer}

\* A frame is data or control; a data frame starts (part 1) or continues a
\* message, and fin ends it.
Data(message, part, fin) == [kind |-> "data", message |-> message, part |-> part, fin |-> fin]
Control(kind) == [kind |-> kind, message |-> 0, part |-> 0, fin |-> TRUE]

Frames == [kind : {"data", "ping", "pong", "close", "garbage"},
           message : Nat, part : Nat, fin : BOOLEAN]

ASSUME FramesAssumption == None \notin Frames

ReaderPlaces == {"tcp", "upgrade", "failed", "challenge", "waiting", "waiting pong",
                 "idle", "reading", "pong", "echo", "failing", "done"}
CloserPlaces == {"start", "closing", "lock", "draining", "drain pong", "drop", "done"}
WriterPlaces == {"start", "done"}

PlacesOK ==
    /\ pc \in [Procs -> ReaderPlaces \cup CloserPlaces]
    /\ pc[reader] \in ReaderPlaces /\ pc[closer] \in CloserPlaces
    /\ \A w \in Writers : pc[w] \in WriterPlaces

FlagsOK ==
    /\ socket \in {"none", "open", "closed"}
    /\ deadline \in {"none", "wait", "set", "expired"}
    /\ readMu \in {reader, closer, None} /\ writeMu \in Procs \cup {None}
    /\ once \in {"free", "taken", "done"}
    /\ peerClosed \in BOOLEAN /\ sentClose \in BOOLEAN /\ cut \in BOOLEAN

Peers == [alive : BOOLEAN, reading : BOOLEAN, parts : Seq(Nat), part : Nat,
          pings : Nat, closed : BOOLEAN]

FramesOK ==
    /\ header \in Frames \cup {None} /\ in \in Seq(Frames)
    /\ assembled \in Seq(Nat \X Nat) /\ received \in Seq(Seq(Nat \X Nat))
    /\ out \in Seq({"data", "pong", "close"}) /\ sent \in Seq({"pong", "close"})
    /\ peer \in Peers
    /\ Len(in) <= InFlight + (IF cut THEN 1 ELSE 0) /\ Len(out) <= SendBuffer

TypeOK == PlacesOK /\ FlagsOK /\ FramesOK

Init ==
    /\ pc = [p \in Procs |-> IF p = reader THEN "tcp" ELSE "start"]
    /\ socket = "none"
    /\ deadline = "none"
    /\ readMu = None /\ writeMu = None
    /\ peerClosed = FALSE /\ sentClose = FALSE
    /\ once = "free"
    /\ header = None
    /\ assembled = <<>> /\ received = <<>>
    /\ cut = FALSE
    /\ in = <<>> /\ out = <<>> /\ sent = <<>>
    /\ peer = [alive |-> TRUE, reading |-> TRUE, parts |-> <<>>, part |-> 0,
               pings |-> 0, closed |-> FALSE]

Goto(p, label) == pc' = [pc EXCEPT ![p] = label]
At(p, label) == pc[p] = label

Wire == <<header, assembled, received, cut, in, out, sent, peer>>
Flags == <<peerClosed, sentClose, once>>

----------------------------------------------------------------------------
\* Dial: TCP, TLS and the upgrade, each of which may fail and then leaves no
\* socket.  The deadline that covers them is cleared.
DialTCP ==
    /\ At(reader, "tcp")
    /\ \/ Goto(reader, "upgrade") /\ socket' = "open"
       \/ Goto(reader, "failed") /\ UNCHANGED socket
    /\ UNCHANGED <<deadline, readMu, writeMu, Flags, Wire>>

DialUpgrade ==
    /\ At(reader, "upgrade")
    /\ \/ Goto(reader, "challenge") /\ UNCHANGED socket
       \/ Goto(reader, "failed") /\ socket' = "closed"
    /\ UNCHANGED <<deadline, readMu, writeMu, Flags, Wire>>

\* awaitKeyRequest: the first message is awaited with a short deadline.  Until
\* the session is returned nobody else uses the connection.
AwaitKeyRequest ==
    /\ At(reader, "challenge")
    /\ Goto(reader, "waiting")
    /\ deadline' = "wait"
    /\ readMu' = reader
    /\ UNCHANGED <<socket, writeMu, Flags, Wire>>

\* The wait is over without a message.  If the header of a frame was read, its
\* payload is taken for the header of the next.
WaitExpires ==
    /\ At(reader, "waiting")
    /\ cut' = (header # None \/ assembled # <<>>)
    /\ header' = None /\ assembled' = <<>>
    /\ in' = IF header = None THEN in ELSE <<Control("garbage")>> \o in
    /\ deadline' = "none"
    /\ readMu' = None
    /\ Goto(reader, "idle")
    /\ UNCHANGED <<socket, writeMu, Flags, received, out, sent, peer>>

----------------------------------------------------------------------------
Established == pc[reader] \notin {"tcp", "upgrade", "challenge", "waiting", "waiting pong", "failed"}

\* A read or a write on the socket fails.  Frames that were buffered when the
\* deadline passed are read as if it passed later.
Dead == socket # "open" \/ deadline = "expired"
ReadFails == Dead \/ (~peer.alive /\ in = <<>>)
WriteFails == Dead \/ ~peer.alive

\* readFrame, by ReadMessage or by the loop of Close: first the header.
CanRead(p) ==
    \/ p = reader /\ pc[p] \in {"reading", "waiting"}
    \/ p = closer /\ At(p, "draining")

ReadHeader(p) ==
    /\ CanRead(p)
    /\ header = None /\ in # <<>> /\ ~Dead
    /\ header' = Head(in)
    /\ in' = Tail(in)
    /\ UNCHANGED <<pc, socket, deadline, readMu, writeMu, Flags, assembled, received, cut, out, sent, peer>>

\* What follows the payload: another turn of the loop, or the message.
ReadAgain(p) ==
    /\ pc' = pc
    /\ UNCHANGED <<deadline, readMu, received>>

Return(messages) ==
    /\ received' = received \o messages
    /\ Goto(reader, "idle")
    /\ readMu' = None
    /\ deadline' = IF deadline = "wait" THEN "none" ELSE deadline

Fail ==
    /\ Goto(reader, "failing")
    /\ readMu' = None
    /\ UNCHANGED <<deadline, received>>

\* As ReadMessage would be if a message began with any data frame.
ReadDataUnassembled ==
    /\ CanRead(reader) /\ header # None /\ ~Dead
    /\ header.kind = "data"
    /\ header' = None
    /\ assembled' = <<>>
    /\ Return(<<Append(assembled, <<header.message, header.part>>)>>)
    /\ UNCHANGED <<socket, writeMu, Flags, cut, in, out, sent, peer>>

\* ReadMessage: a data frame, alone or one of a fragmented message.
ReadData ==
    /\ CanRead(reader) /\ header # None /\ ~Dead
    /\ header.kind = "data"
    /\ header' = None
    /\ \/ /\ (header.part = 1) # (assembled = <<>>)
          /\ assembled' = <<>>
          /\ Fail
       \/ /\ (header.part = 1) = (assembled = <<>>)
          /\ \/ /\ header.fin
                /\ assembled' = <<>>
                /\ Return(<<Append(assembled, <<header.message, header.part>>)>>)
             \/ /\ ~header.fin
                /\ assembled' = Append(assembled, <<header.message, header.part>>)
                /\ ReadAgain(reader)
    /\ UNCHANGED <<socket, writeMu, Flags, cut, in, out, sent, peer>>

\* ReadMessage: a ping is answered, a pong is ignored, the end of the stream is
\* acknowledged, and anything else is an error.
ReadControl ==
    /\ CanRead(reader) /\ header # None /\ ~Dead
    /\ header.kind # "data"
    /\ header' = None
    /\ \/ /\ header.kind = "ping"
          /\ Goto(reader, IF At(reader, "waiting") THEN "waiting pong" ELSE "pong")
          /\ UNCHANGED <<deadline, readMu, received, assembled, peerClosed>>
       \/ /\ header.kind = "pong"
          /\ ReadAgain(reader) /\ UNCHANGED <<assembled, peerClosed>>
       \/ /\ header.kind = "close"
          /\ peerClosed' = TRUE
          /\ Goto(reader, "echo")
          /\ UNCHANGED <<deadline, readMu, received, assembled>>
       \/ /\ header.kind = "garbage"
          /\ assembled' = <<>>
          /\ Fail /\ UNCHANGED peerClosed
    /\ UNCHANGED <<socket, writeMu, sentClose, once, cut, in, out, sent, peer>>

\* ReadMessage returns the error of a read.
ReadError ==
    /\ CanRead(reader) /\ ReadFails
    /\ header' = None /\ assembled' = <<>>
    /\ Fail
    /\ UNCHANGED <<socket, writeMu, Flags, cut, in, out, sent, peer>>

\* ReadMessage is called again.
ReadMessage ==
    /\ At(reader, "idle")
    /\ readMu = None
    /\ \/ peerClosed /\ Goto(reader, "failing") /\ UNCHANGED readMu
       \/ ~peerClosed /\ Goto(reader, "reading") /\ readMu' = reader
    /\ UNCHANGED <<socket, deadline, writeMu, Flags, Wire>>

\* The owner of the loop closes the connection (ReaderCloses), or waits for
\* the Close that is under way.
ReaderGivesUp ==
    /\ At(reader, "failing")
    /\ once = "done"
    /\ Goto(reader, "done")
    /\ UNCHANGED <<socket, deadline, readMu, writeMu, Flags, Wire>>

----------------------------------------------------------------------------
\* writeFrame.  Under the lock the close flag is looked at and set; then Write
\* takes the frame, or blocks while the buffer is full.
Wants(p) ==
    CASE pc[p] \in {"pong", "waiting pong", "drain pong"} -> "pong"
      [] pc[p] \in {"echo", "closing"} -> "close"
      [] pc[p] = "start" /\ p \in Writers -> "data"
      [] OTHER -> "nothing"

WriteEnds(p) ==
    CASE pc[p] = "pong" -> "reading"
      [] pc[p] = "waiting pong" -> "waiting"
      [] pc[p] = "echo" -> "failing"
      [] pc[p] = "closing" -> "lock"
      [] pc[p] = "drain pong" -> "draining"
      [] OTHER -> "done"

WriteFailed(p) ==
    CASE pc[p] \in {"pong", "waiting pong", "echo"} -> "failing"
      [] pc[p] = "closing" -> "drop"
      [] pc[p] = "drain pong" -> "draining"
      [] OTHER -> "done"

Releases(p, label) == IF p = reader /\ label = "failing" THEN None ELSE readMu

\* As writeFrame would be if only Write set the close flag.
WriteLockUnmarked(p) ==
    /\ Wants(p) # "nothing"
    /\ Wants(p) = "data" => Established
    /\ writeMu = None
    /\ writeMu' = p
    /\ UNCHANGED <<pc, readMu, sentClose, socket, deadline, peerClosed, once, Wire>>

\* The lock is taken; after a close frame no data and no second close follow.
WriteLock(p) ==
    /\ Wants(p) # "nothing"
    /\ Wants(p) = "data" => Established
    /\ writeMu = None
    /\ \/ /\ sentClose /\ Wants(p) # "pong"
          /\ Goto(p, IF Wants(p) = "close" THEN WriteEnds(p) ELSE "done")
          /\ readMu' = Releases(p, WriteEnds(p))
          /\ UNCHANGED <<writeMu, sentClose>>
       \/ /\ ~sentClose \/ Wants(p) = "pong"
          /\ writeMu' = p
          /\ sentClose' = (sentClose \/ Wants(p) = "close")
          /\ UNCHANGED <<pc, readMu>>
    /\ UNCHANGED <<socket, deadline, peerClosed, once, Wire>>

Write(p) ==
    /\ writeMu = p
    /\ ~WriteFails
    /\ Len(out) < SendBuffer
    /\ out' = Append(out, Wants(p))
    /\ sent' = IF sent = <<>> /\ Wants(p) # "close" THEN sent ELSE Append(sent, Wants(p))
    /\ writeMu' = None
    /\ Goto(p, WriteEnds(p))
    /\ readMu' = Releases(p, WriteEnds(p))
    /\ UNCHANGED <<socket, deadline, Flags, header, assembled, received, cut, in, peer>>

WriteError(p) ==
    /\ writeMu = p
    /\ WriteFails
    /\ writeMu' = None
    /\ Goto(p, WriteFailed(p))
    /\ readMu' = Releases(p, WriteFailed(p))
    /\ UNCHANGED <<socket, deadline, Flags, Wire>>

\* As Close would be if the deadline were set for the answer only.
CloseBeginUnbounded ==
    /\ At(closer, "start")
    /\ Established
    /\ once = "free"
    /\ once' = "taken"
    /\ Goto(closer, "closing")
    /\ UNCHANGED <<socket, deadline, readMu, writeMu, peerClosed, sentClose, Wire>>

----------------------------------------------------------------------------
\* Close, whoever calls it first.  The deadline comes first: it bounds the
\* writes and reads of everyone.
CloseBegin ==
    /\ At(closer, "start")
    /\ Established
    /\ once = "free"
    /\ once' = "taken"
    /\ deadline' = "set"
    /\ Goto(closer, "closing")
    /\ UNCHANGED <<socket, readMu, writeMu, peerClosed, sentClose, Wire>>

ReaderCloses == At(reader, "failing") /\ CloseBegin

\* As Close would be if it dropped TCP after the close frame.
CloseLockNot ==
    /\ At(closer, "lock")
    /\ Goto(closer, "drop")
    /\ UNCHANGED <<socket, deadline, readMu, writeMu, Flags, Wire>>

CloseLock ==
    /\ At(closer, "lock")
    /\ readMu = None
    /\ readMu' = closer
    /\ Goto(closer, "draining")
    /\ UNCHANGED <<socket, deadline, writeMu, Flags, Wire>>

\* The loop of Close: it ends when the peer has closed or a read fails.
DrainEnds ==
    /\ At(closer, "draining")
    /\ peerClosed \/ ReadFails
    /\ header' = None
    /\ readMu' = None
    /\ Goto(closer, "drop")
    /\ UNCHANGED <<socket, deadline, writeMu, Flags, assembled, received, cut, in, out, sent, peer>>

\* A ping is answered, the peer's close noted and any other frame skipped.  A
\* malformed one ends the loop without the peer's close; the remains of a frame
\* that was cut may be malformed or pass for a frame.
DrainFrame ==
    /\ At(closer, "draining")
    /\ header # None /\ ~Dead
    /\ header' = None
    /\ peerClosed' = (peerClosed \/ header.kind = "close")
    /\ \/ header.kind = "ping" /\ Goto(closer, "drain pong") /\ UNCHANGED readMu
       \/ header.kind # "ping" /\ UNCHANGED <<pc, readMu>>
       \/ header.kind = "garbage" /\ Goto(closer, "drop") /\ readMu' = None
    /\ UNCHANGED <<socket, deadline, writeMu, sentClose, once, assembled, received, cut, in, out, sent, peer>>

CloseDrop ==
    /\ At(closer, "drop")
    /\ socket' = "closed"
    /\ once' = "done"
    /\ Goto(closer, "done")
    /\ UNCHANGED <<deadline, readMu, writeMu, peerClosed, sentClose, Wire>>

Expire ==
    /\ deadline = "set"
    /\ deadline' = "expired"
    /\ UNCHANGED <<pc, socket, readMu, writeMu, Flags, Wire>>

----------------------------------------------------------------------------
\* The peer: it sends whole messages in order, fragmented or not, with control
\* frames anywhere between; it may stop reading, or vanish.
PeerSend(frame) ==
    /\ socket = "open" /\ pc[reader] # "upgrade"
    /\ peer.alive /\ ~peer.closed
    /\ Len(in) < InFlight
    /\ in' = Append(in, frame)

PeerSendsData ==
    /\ Len(peer.parts) < MaxMessages
    /\ \E fin \in BOOLEAN :
          /\ peer.part = 1 => fin
          /\ PeerSend(Data(Len(peer.parts) + 1, peer.part + 1, fin))
          /\ peer' = IF fin THEN [peer EXCEPT !.parts = Append(@, peer.part + 1), !.part = 0]
                            ELSE [peer EXCEPT !.part = @ + 1]
    /\ UNCHANGED <<pc, socket, deadline, readMu, writeMu, Flags, header, assembled, received, cut, out, sent>>

PeerPings ==
    /\ peer.pings < MaxPings
    /\ \E kind \in {"ping", "pong"} : PeerSend(Control(kind))
    /\ peer' = [peer EXCEPT !.pings = @ + 1]
    /\ UNCHANGED <<pc, socket, deadline, readMu, writeMu, Flags, header, assembled, received, cut, out, sent>>

PeerCloses ==
    /\ PeerSend(Control("close"))
    /\ peer' = [peer EXCEPT !.closed = TRUE]
    /\ UNCHANGED <<pc, socket, deadline, readMu, writeMu, Flags, header, assembled, received, cut, out, sent>>

PeerReads ==
    /\ peer.alive /\ peer.reading /\ out # <<>>
    /\ out' = Tail(out)
    /\ UNCHANGED <<pc, socket, deadline, readMu, writeMu, Flags, header, assembled, received, cut, in, sent, peer>>

PeerStalls ==
    /\ peer.reading
    /\ peer' = [peer EXCEPT !.reading = FALSE]
    /\ UNCHANGED <<pc, socket, deadline, readMu, writeMu, Flags, header, assembled, received, cut, in, out, sent>>

PeerVanishes ==
    /\ peer.alive /\ socket = "open"
    /\ peer' = [peer EXCEPT !.alive = FALSE]
    /\ UNCHANGED <<pc, socket, deadline, readMu, writeMu, Flags, header, assembled, received, cut, in, out, sent>>

----------------------------------------------------------------------------
ReaderStep ==
    \/ DialTCP \/ DialUpgrade \/ AwaitKeyRequest \/ WaitExpires
    \/ ReadMessage \/ ReadHeader(reader) \/ ReadData \/ ReadControl \/ ReadError
    \/ WriteLock(reader) \/ Write(reader) \/ WriteError(reader)
    \/ ReaderGivesUp

WriterStep(w) == WriteLock(w) \/ Write(w) \/ WriteError(w)

CloserStep ==
    \/ WriteLock(closer) \/ Write(closer) \/ WriteError(closer)
    \/ CloseLock \/ ReadHeader(closer) \/ DrainFrame \/ DrainEnds \/ CloseDrop

PeerStep ==
    \/ PeerSendsData \/ PeerPings \/ PeerCloses \/ PeerReads
    \/ PeerStalls \/ PeerVanishes

Next ==
    \/ ReaderStep
    \/ \E w \in Writers : WriterStep(w)
    \/ CloseBegin \/ CloserStep
    \/ Expire
    \/ PeerStep

SafetySpec == Init /\ [][Next]_vars

\* Goroutines that can run do, and a deadline expires.  Nothing is assumed of
\* the peer, nor that anyone but the failed reader calls Close.
Spec ==
    /\ SafetySpec
    /\ WF_vars(ReaderStep) /\ WF_vars(ReaderCloses)
    /\ WF_vars(CloserStep) /\ WF_vars(Expire)
    /\ \A w \in Writers : WF_vars(WriterStep(w))

----------------------------------------------------------------------------
\* ReadMessage returns the peer's messages whole, in order and without a gap,
\* however they are fragmented and mixed with control frames, and while Close
\* takes frames off the same stream.  The wait for the key challenge breaks
\* this when it ends inside a frame.
MessagesWhole ==
    ~cut =>
        /\ Len(received) <= Len(peer.parts)
        /\ \A k \in 1..Len(received) :
              received[k] = [i \in 1..peer.parts[k] |-> <<k, i>>]

\* After a close frame, whether of Close or in answer to the peer's, the client
\* sends nothing but pongs, whatever other goroutines were about to write.
NothingAfterClose ==
    \A i, j \in 1..Len(sent) : i < j /\ sent[i] = "close" => sent[j] = "pong"

\* Close drops TCP only when the peer has closed too, so that it has read what
\* was sent before, unless the peer is gone or did not answer in time, or the
\* stream was cut inside a frame and is unreadable since.  A dial that fails
\* leaves no socket open.
OrderlyEnd ==
    /\ once = "done" =>
         socket = "closed" /\ (peerClosed \/ deadline = "expired" \/ ~peer.alive \/ cut)
    /\ pc[reader] = "failed" => socket # "open"

----------------------------------------------------------------------------
(* Why they hold: an inductive invariant *)

\* Whoever is in the middle of a write holds the lock and knows what it writes:
\* data only if no close frame was begun, and the first close frame alone.
Writing ==
    /\ sent # <<>> => sentClose
    /\ \A j \in 2..Len(sent) : sent[j] = "pong"
    /\ \A p \in Procs : writeMu = p =>
         /\ Wants(p) # "nothing"
         /\ Wants(p) = "data" => ~sentClose
         /\ Wants(p) = "close" => sentClose /\ sent = <<>>

\* Close runs on an established connection under its deadline, and comes to drop
\* the socket, which nobody else does, for a reason.
Ending ==
    /\ once = "free" <=> At(closer, "start")
    /\ once = "done" <=> At(closer, "done")
    /\ once # "free" <=> deadline \in {"set", "expired"}
    /\ once # "free" => Established
    /\ At(reader, "tcp") => socket = "none"
    /\ pc[reader] \in {"upgrade", "challenge", "waiting", "waiting pong"} => socket = "open"
    /\ At(reader, "failed") => socket # "open"
    /\ Established => socket = IF once = "done" THEN "closed" ELSE "open"
    /\ At(closer, "drop") \/ once = "done" =>
         peerClosed \/ deadline = "expired" \/ ~peer.alive \/ cut

\* ReadMessage and the loop of Close exclude each other.
Reading ==
    /\ pc[reader] \in {"waiting", "waiting pong", "reading", "pong", "echo"} => readMu = reader
    /\ readMu = closer <=> pc[closer] \in {"draining", "drain pong"}
    /\ peerClosed => Established /\ pc[reader] \notin {"reading", "pong"}
    /\ cut => Established

\* The peer sends no malformed frame: the remains of one that was cut pass for it.
WellFormed ==
    ~cut =>
        /\ header # None => header.kind # "garbage"
        /\ \A i \in 1..Len(in) : in[i].kind # "garbage"

\* The reader takes no more messages off the stream: its wait was cut, the stream
\* is in the hands of Close, or it is at its end.
Spoiled ==
    \/ cut \/ readMu = closer \/ peerClosed
    \/ Established /\ Dead
    \/ ~peer.alive /\ in = <<>> /\ header = None
    \/ pc[reader] \in {"echo", "failing", "done", "failed"}

\* The frames the reader has before it, and the places, a message and a part of
\* it, that are due next to the reader, after a frame, and to the peer.
Stream == IF header = None THEN in ELSE <<header>> \o in
Due == <<Len(received) + 1, Len(assembled) + 1>>
DueAfter(frame, place) ==
    IF frame.kind # "data" THEN place
    ELSE IF frame.fin THEN <<frame.message + 1, 1>> ELSE <<frame.message, frame.part + 1>>
PeerDue == <<Len(peer.parts) + 1, peer.part + 1>>

\* The frames lead through the places d from the reader's place to the peer's.
Leads(frames, d) ==
    /\ d[1] = Due /\ d[Len(frames) + 1] = PeerDue
    /\ \A i \in 1..Len(frames) :
         /\ frames[i].kind = "data" =>
              /\ d[i] = <<frames[i].message, frames[i].part>>
              /\ frames[i].fin => /\ frames[i].message <= Len(peer.parts)
                                  /\ peer.parts[frames[i].message] = frames[i].part
         /\ d[i + 1] = DueAfter(frames[i], d[i])

PlacesDue == (1..MaxMessages + 1) \X (1..2)

\* What the reader has is the beginning of what the peer sent, and what it has
\* before it is the rest.
InStep ==
    ~Spoiled =>
        /\ \A i \in 1..Len(assembled) : assembled[i] = <<Len(received) + 1, i>>
        /\ \E d \in [1..Len(Stream) + 1 -> PlacesDue] : Leads(Stream, d)

PeerWithinBounds == Len(peer.parts) <= MaxMessages /\ peer.part \in {0, 1}

IInv ==
    /\ TypeOK /\ Writing /\ Ending /\ Reading /\ WellFormed
    /\ PeerWithinBounds /\ InStep /\ MessagesWhole

----------------------------------------------------------------------------
(* Liveness *)

\* Close returns although a writer may be blocked behind a peer that has stopped
\* reading and a reader behind one that has stopped sending, and every
\* goroutine on the connection comes to its end.
CloseReturns ==
    once = "taken" ~> (once = "done" /\ \A p \in Procs : pc[p] = "done")
============================================================================
