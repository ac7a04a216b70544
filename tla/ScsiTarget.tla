----------------------------- MODULE ScsiTarget -----------------------------
(***************************************************************************)
(* The virtual CD of an iLO console (internal/vmedia/session.go, iso.go):   *)
(* Session.run answers the SCSI commands that the iLO, here the host, sends *)
(* on its socket, keepalive writes a header every second on the same one,   *)
(* and Close may come from outside at any moment.                           *)
(*                                                                          *)
(* The host is seen through the replies it parses: a header announces how   *)
(* many octets of payload follow it.                                        *)
(*                                                                          *)
(* The names that every specification has begin with Cd here, so that       *)
(* IloSessionProofs can extend this module and IloSession together.         *)
(***************************************************************************)
EXTENDS Naturals, FiniteSets, FiniteSetsExt

CONSTANTS
    Size,       \* octets of the image
    Sector,     \* sectorSize
    Chunk,      \* octets that read sends in one piece (131072)
    Blocks,     \* bound: the block numbers and counts the host asks for
    MaxBytes,   \* bound: the host reads on while no more than this was read
    Absent

ASSUME SizeAssumption ==
    /\ Size \in Nat \ {0} /\ Sector \in Nat \ {0} /\ Chunk \in Nat \ {0}
    /\ Blocks \subseteq Nat
    /\ Absent \notin Nat

\* A command of the host.  GET EVENT STATUS allocates room for its reply, and
\* READ TOC may allocate none.
Commands ==
    [op : {"sync", "prevent", "diagnostic", "testUnitReady", "readCapacity",
           "start", "eject", "modeSense", "unknown"}]
      \cup [op : {"read"}, lba : Blocks, blocks : Blocks]
      \cup [op : {"readTOC"}, allocation : {0, 20}]
      \cup [op : {"getEventStatus"}, immediate : BOOLEAN, allocation : {0, 4, 8}]

VARIABLES
    loop,       \* where run is: "top", "waiting" for a command, "serving" one,
                \* "streaming" a long read, "closing", "done" or "ended"
    command,    \* the command being served
    mediaState, eventState,   \* of cdImage
    offset,     \* octets of the long read that were sent
    writeMu,    \* held over a long read; any other writer holds it for a step
    stop,       \* stopOnce: "no", run by "loop" or "outside", or "over"
    done,       \* closed
    transportAlive, deviceReady, readBytes, deliveredBytes,   \* health
    beat,       \* where keepalive is: "first" header, "ticking" or "ended"
    ctxDone,    \* the context
    connOpen, isoOpen,
    gone,       \* the host is gone: reads and writes fail
    host        \* history, what the host was told: payload octets it still
                \* expects, whether a header came in their place, the last
                \* block announced, whether its last read was served

mediaVars  == <<mediaState, eventState>>
healthVars == <<deviceReady, readBytes, deliveredBytes>>
endVars    == <<stop, done, transportAlive, connOpen, isoOpen>>
cdVars == <<loop, command, mediaVars, offset, writeMu, endVars, healthVars, beat,
           ctxDone, gone, host>>

\* What the host may have been told.
Hosts == [expects : 0..Size, torn : BOOLEAN, last : Nat \cup {Absent},
          served : BOOLEAN \cup {Absent}]

\* The type of the state, and what the host may count.
CdTypeOK ==
    /\ loop \in {"top", "waiting", "serving", "streaming", "closing", "done", "ended"}
    /\ command \in Commands \cup {Absent}
    /\ mediaState \in 0..2 /\ eventState \in {0, 1, 2, 4}
    /\ offset \in 0..Size
    /\ stop \in {"no", "loop", "outside", "over"}
    /\ beat \in {"first", "ticking", "ended"}
    /\ {writeMu, done, transportAlive, deviceReady, ctxDone, connOpen, isoOpen, gone}
         \subseteq BOOLEAN
    /\ readBytes \in Nat /\ deliveredBytes \in 0..readBytes
    /\ host \in Hosts

\* Start, on an open image that is not empty.
CdInit ==
    /\ loop = "top" /\ command = Absent
    /\ mediaState = 0 /\ eventState = 0
    /\ offset = 0 /\ writeMu = FALSE
    /\ stop = "no" /\ done = FALSE /\ transportAlive = TRUE
    /\ deviceReady = FALSE /\ readBytes = 0 /\ deliveredBytes = 0
    /\ beat = "first"
    /\ ctxDone = FALSE /\ connOpen = TRUE /\ isoOpen = TRUE /\ gone = FALSE
    /\ host = [expects |-> 0, torn |-> FALSE, last |-> Absent, served |-> Absent]

----------------------------------------------------------------------------
(* Writing *)

\* The octets that a read asks for, and whether the image has them.
Length == command.blocks * Sector
InRange == command.lba * Sector + Length <= Size
Reads == command.op = "read" /\ command.blocks > 0 /\ InRange

Writable == connOpen /\ ~gone

\* What the host makes of a header with n octets of payload behind it.
Header(n) == [host EXCEPT !.expects = n, !.torn = @ \/ host.expects > 0]

\* sendSense: header and payload in one write; the host's view becomes view.
\* It runs under writeMu, and so does keepalive's write.
SendSense(view) ==
    /\ ~writeMu /\ Writable
    /\ host' = view
    /\ loop' = "top"

\* A reply that cannot be written ends run.
ReplyFails ==
    /\ loop = "serving" /\ ~writeMu /\ ~Writable
    /\ command.op # "diagnostic" /\ ~(Reads /\ Length <= Chunk)
    /\ loop' = "closing"
    /\ UNCHANGED <<command, mediaVars, offset, writeMu, endVars, healthVars, beat,
                   ctxDone, gone, host>>

----------------------------------------------------------------------------
(* run and process *)

\* The context is looked at between two commands.
Top ==
    /\ loop = "top"
    /\ loop' = IF ctxDone THEN "closing" ELSE "waiting"
    /\ UNCHANGED <<command, mediaVars, offset, writeMu, endVars, healthVars, beat,
                   ctxDone, gone, host>>

\* updateMediaState: the image has not been empty since it was opened.
UpdateMediaState ==
    /\ mediaState' = Min({mediaState + 1, 2})
    /\ eventState' = IF eventState = 4 THEN 1 ELSE Min({eventState + 1, 2})

\* A command arrives.
Receive(c) ==
    /\ loop = "waiting" /\ Writable
    /\ c.op = "read" => readBytes <= MaxBytes
    /\ command' = c
    /\ loop' = "serving"
    /\ IF c.op = "sync" THEN UNCHANGED mediaVars ELSE UpdateMediaState
    /\ UNCHANGED <<offset, writeMu, endVars, healthVars, beat, ctxDone, gone, host>>

\* The socket is closed, or the host is gone.
ReceiveFails ==
    /\ loop = "waiting" /\ ~Writable
    /\ loop' = "closing"
    /\ UNCHANGED <<command, mediaVars, offset, writeMu, endVars, healthVars, beat,
                   ctxDone, gone, host>>

\* Commands answered by a header alone, or with a payload of fixed form.
Simple ==
    /\ loop = "serving"
    /\ \/ command.op \in {"sync", "prevent", "start", "modeSense", "unknown", "readTOC"}
       \/ command.op = "getEventStatus" /\ (~command.immediate \/ command.allocation = 0)
    /\ SendSense(Header(0))
    /\ UNCHANGED <<command, mediaVars, offset, writeMu, endVars, healthVars, beat,
                   ctxDone, gone>>

\* SEND DIAGNOSTIC is not answered.
Diagnostic ==
    /\ loop = "serving" /\ command.op = "diagnostic"
    /\ loop' = "top"
    /\ UNCHANGED <<command, mediaVars, offset, writeMu, endVars, healthVars, beat,
                   ctxDone, gone, host>>

\* testUnitReady: UpdateMediaState has made mediaState 1, and the reply is a unit
\* attention, or 2.
TestUnitReady ==
    /\ loop = "serving" /\ command.op = "testUnitReady"
    /\ SendSense(Header(0))
    /\ mediaState' = 2
    /\ deviceReady' = (deviceReady \/ mediaState = 2)
    /\ UNCHANGED <<command, eventState, offset, writeMu, endVars, readBytes,
                   deliveredBytes, beat, ctxDone, gone>>

\* Mutant. The number of blocks is rounded up.
CapacityRoundedUp == (Size + Sector - 1) \div Sector

\* The whole blocks of the image.
Capacity == Size \div Sector

\* readCapacity
ReadCapacity ==
    /\ loop = "serving" /\ command.op = "readCapacity"
    /\ SendSense(IF mediaState = 1 \/ (mediaState = 2 /\ Capacity = 0) THEN Header(0)
                 ELSE [Header(0) EXCEPT !.last = Capacity - 1])
    /\ UNCHANGED <<command, mediaVars, offset, writeMu, endVars, healthVars, beat,
                   ctxDone, gone>>

\* getEventStatus tells of the insertion once.
GetEventStatus ==
    /\ loop = "serving" /\ command.op = "getEventStatus"
    /\ command.immediate /\ command.allocation > 0
    /\ SendSense(Header(0))
    /\ eventState' = IF eventState = 1 /\ command.allocation > 4 THEN 2
                     ELSE eventState
    /\ UNCHANGED <<command, mediaState, offset, writeMu, endVars, healthVars, beat,
                   ctxDone, gone>>

\* startStopUnit, asked to eject: the reply is sent, then run ends.
Eject ==
    /\ loop = "serving" /\ command.op = "eject"
    /\ ~writeMu /\ Writable
    /\ host' = Header(0)
    /\ mediaState' = 0 /\ eventState' = 4
    /\ loop' = "closing"
    /\ UNCHANGED <<command, offset, writeMu, endVars, healthVars, beat, ctxDone, gone>>

----------------------------------------------------------------------------
(* read *)

\* Absent asked for, or something beyond the end.
ReadNothing ==
    /\ loop = "serving" /\ command.op = "read"
    /\ command.blocks = 0 \/ ~InRange
    /\ SendSense([Header(0) EXCEPT !.served = IF command.blocks = 0 THEN Absent ELSE FALSE])
    /\ UNCHANGED <<command, mediaVars, offset, writeMu, endVars, healthVars, beat,
                   ctxDone, gone>>

\* A short read is fetched and then sent in one write, of which n octets of
\* payload leave.
ReadShort(n) ==
    /\ loop = "serving" /\ Reads /\ Length <= Chunk
    /\ isoOpen /\ ~writeMu
    /\ n <= Length /\ (n = Length <=> Writable)
    /\ readBytes' = readBytes + Length
    /\ deliveredBytes' = deliveredBytes + n
    /\ IF n = Length
       THEN /\ SendSense([Header(0) EXCEPT !.served = TRUE])
            /\ deviceReady' = TRUE
       ELSE /\ loop' = "closing"
            /\ UNCHANGED <<host, deviceReady>>
    /\ UNCHANGED <<command, mediaVars, offset, writeMu, endVars, beat, ctxDone, gone>>

\* Mutant. The lock is not kept over a long read.
ReadLongUnlocked ==
    /\ loop = "serving" /\ Reads /\ Length > Chunk
    /\ ~writeMu /\ Writable
    /\ host' = [Header(Length) EXCEPT !.served = TRUE]
    /\ offset' = 0
    /\ loop' = "streaming"
    /\ UNCHANGED <<command, mediaVars, writeMu, endVars, healthVars, beat, ctxDone, gone>>

\* A long read takes the lock and announces its length,
ReadLong ==
    /\ loop = "serving" /\ Reads /\ Length > Chunk
    /\ ~writeMu /\ Writable
    /\ writeMu' = TRUE
    /\ host' = [Header(Length) EXCEPT !.served = TRUE]
    /\ offset' = 0
    /\ loop' = "streaming"
    /\ UNCHANGED <<command, mediaVars, endVars, healthVars, beat, ctxDone, gone>>

\* the next piece of it,
Piece == Min({Chunk, Length - offset})

\* which is read from the image and sent,
StreamPiece ==
    /\ loop = "streaming" /\ offset < Length
    /\ isoOpen /\ Writable
    /\ readBytes' = readBytes + Piece
    /\ deliveredBytes' = deliveredBytes + Piece
    /\ offset' = offset + Piece
    /\ host' = [host EXCEPT !.expects = @ - Piece]
    /\ UNCHANGED <<loop, command, mediaVars, writeMu, endVars, deviceReady, beat,
                   ctxDone, gone>>

\* until nothing is left.
StreamOver ==
    /\ loop = "streaming" /\ offset >= Length
    /\ deviceReady' = TRUE
    /\ writeMu' = FALSE
    /\ loop' = "top"
    /\ UNCHANGED <<command, mediaVars, offset, endVars, readBytes, deliveredBytes,
                   beat, ctxDone, gone, host>>

\* The write fails after n octets of the piece; the lock is released.
StreamFails(n) ==
    /\ loop = "streaming" /\ offset < Length
    /\ isoOpen /\ ~Writable
    /\ n < Piece
    /\ readBytes' = readBytes + Piece
    /\ deliveredBytes' = deliveredBytes + n
    /\ writeMu' = FALSE
    /\ loop' = "closing"
    /\ UNCHANGED <<command, mediaVars, offset, endVars, deviceReady, beat, ctxDone,
                   gone, host>>

\* ReadAt fails, because the image was closed or the disk fails.
ReadAtFails ==
    /\ \/ loop = "serving" /\ Reads /\ Length <= Chunk
       \/ loop = "streaming" /\ offset < Length
    /\ writeMu' = FALSE
    /\ loop' = "closing"
    /\ UNCHANGED <<command, mediaVars, offset, endVars, healthVars, beat, ctxDone,
                   gone, host>>

----------------------------------------------------------------------------
(* Close, run's end, keepalive *)

\* Close, in run's deferred call or from outside: the first one closes the
\* socket and then the image.
CloseConn(who) ==
    /\ stop = "no"
    /\ who = "loop" => loop = "closing"
    /\ stop' = who
    /\ connOpen' = FALSE
    /\ UNCHANGED <<loop, command, mediaVars, offset, writeMu, done, transportAlive,
                   isoOpen, healthVars, beat, ctxDone, gone, host>>

CloseIso ==
    /\ stop \in {"loop", "outside"}
    /\ isoOpen' = FALSE
    /\ stop' = "over"
    /\ UNCHANGED <<loop, command, mediaVars, offset, writeMu, done, transportAlive,
                   connOpen, healthVars, beat, ctxDone, gone, host>>

\* stopOnce.Do returns when it is over, whoever ran it; done is closed
CloseDone ==
    /\ loop = "closing" /\ stop = "over"
    /\ done' = TRUE
    /\ loop' = "done"
    /\ UNCHANGED <<command, mediaVars, offset, writeMu, stop, transportAlive, connOpen,
                   isoOpen, healthVars, beat, ctxDone, gone, host>>

\* and the transport is reported dead.
TransportDead ==
    /\ loop = "done"
    /\ transportAlive' = FALSE
    /\ loop' = "ended"
    /\ UNCHANGED <<command, mediaVars, offset, writeMu, stop, done, connOpen, isoOpen,
                   healthVars, beat, ctxDone, gone, host>>

\* Mutant. The first header is tried until it is written.
KeepaliveDeaf ==
    /\ beat \in {"first", "ticking"} /\ ~writeMu
    /\ IF Writable THEN host' = Header(0) /\ beat' = "ticking"
       ELSE UNCHANGED <<beat, host>>
    /\ UNCHANGED <<loop, command, mediaVars, offset, writeMu, endVars, healthVars,
                   ctxDone, gone>>

\* keepalive's header, at once and at every tick.
Keepalive ==
    /\ beat \in {"first", "ticking"} /\ ~writeMu
    /\ IF Writable THEN host' = Header(0) /\ beat' = "ticking"
       ELSE beat' = "ended" /\ UNCHANGED host
    /\ UNCHANGED <<loop, command, mediaVars, offset, writeMu, endVars, healthVars,
                   ctxDone, gone>>

KeepaliveEnds ==
    /\ beat = "ticking" /\ (ctxDone \/ done)
    /\ beat' = "ended"
    /\ UNCHANGED <<loop, command, mediaVars, offset, writeMu, endVars, healthVars,
                   ctxDone, gone, host>>

\* The caller of Start cancels the context.
Cancel ==
    /\ ~ctxDone
    /\ ctxDone' = TRUE
    /\ UNCHANGED <<loop, command, mediaVars, offset, writeMu, endVars, healthVars, beat,
                   gone, host>>

\* External: the host goes away.
HostGone ==
    /\ ~gone
    /\ gone' = TRUE
    /\ UNCHANGED <<loop, command, mediaVars, offset, writeMu, endVars, healthVars, beat,
                   ctxDone, host>>

----------------------------------------------------------------------------
Serve ==
    \/ Simple \/ Diagnostic \/ TestUnitReady \/ ReadCapacity \/ GetEventStatus \/ Eject
    \/ ReadNothing \/ ReadLong \/ StreamPiece \/ StreamOver \/ ReplyFails \/ ReadAtFails
    \/ \E n \in 0..Chunk : ReadShort(n) \/ StreamFails(n)

LoopStep == Top \/ ReceiveFails \/ Serve \/ CloseConn("loop") \/ CloseDone \/ TransportDead

Ended == loop = "ended" /\ beat = "ended" /\ stop = "over"

CdNext ==
    \/ LoopStep
    \/ \E c \in Commands : Receive(c)
    \/ CloseConn("outside") \/ CloseIso
    \/ Keepalive \/ KeepaliveEnds
    \/ Cancel \/ HostGone
    \/ Ended /\ UNCHANGED cdVars

CdSafetySpec == CdInit /\ [][CdNext]_cdVars

CdSpec ==
    /\ CdSafetySpec
    /\ WF_cdVars(LoopStep) /\ WF_cdVars(CloseIso) /\ WF_cdVars(Keepalive \/ KeepaliveEnds)

----------------------------------------------------------------------------
(* Properties *)

\* No header is written where the host expects payload: keepalive never cuts
\* into the pieces of a long read, except when read has given up on it and the
\* socket is about to be closed.
FramesWhole == host.torn => loop \in {"closing", "done", "ended"}

\* The announced capacity is exact: a read that was served lies within it, and
\* one that was refused does not.
CapacityExact ==
    (loop = "top" /\ command # Absent /\ command.op = "read" /\ command.blocks > 0
       /\ host.last # Absent)
    => (host.served <=> command.lba + command.blocks <= host.last + 1)

----------------------------------------------------------------------------
(* Why they hold: an inductive invariant *)

Ending == {"closing", "done", "ended"}

\* A long read has the lock, and the host expects what is left of it.
Streaming ==
    loop = "streaming" =>
        /\ writeMu /\ command \in Commands /\ Reads
        /\ offset <= Length /\ host.expects = Length - offset
        /\ host.served = TRUE

LockKept == writeMu => loop = "streaming"

\* Payload is outstanding in a long read, or where one was given up.
Outstanding == host.expects > 0 => loop \in {"streaming"} \cup Ending

\* The first command but a synchronisation has noticed the medium.
Noticed ==
    loop = "serving" =>
        /\ command \in Commands
        /\ command.op # "sync" => mediaState # 0

Announced == host.last # Absent => host.last + 1 = Capacity

\* The last read was served if, and only if, the image has all of it.
Answered ==
    (loop = "top" /\ command # Absent /\ command.op = "read" /\ command.blocks > 0)
    => host.served = InRange

CdIInv ==
    /\ CdTypeOK /\ Streaming /\ LockKept /\ Outstanding /\ FramesWhole
    /\ Noticed /\ Announced /\ Answered

----------------------------------------------------------------------------
(* Liveness *)

\* Close from outside, an ejection, after which process tells run to stop, and a host
\* that is gone each end both goroutines, whatever they are doing.
SessionEnds ==
    (stop = "outside" \/ eventState = 4 \/ gone)
        ~> (loop = "ended" /\ beat = "ended")
=============================================================================
