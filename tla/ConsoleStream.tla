--------------------------- MODULE ConsoleStream ---------------------------
(****************************************************************************)
(* How an iDRAC console is read: the WebSocket carries RFB bytes and Dell's *)
(* control messages, transport (internal/idrac/transport.go) takes them     *)
(* apart, rfb.Conn reads what is left through a bufio.Reader, and           *)
(* Session.handshake and readLoop (session.go) drive the two.               *)
(*                                                                          *)
(* A byte of the RFB stream is its position in it; the bytes of a control   *)
(* message are Foreign.  Positions 1..HandshakeLen are the handshake, the   *)
(* rest is cut into RFB messages of the given kinds, one from each of       *)
(* Offsets to the next.  The firmware chooses how the stream is cut into    *)
(* WebSocket messages and where its control messages go; it is external.    *)
(*                                                                          *)
(* The names that every specification has begin with Stream here, so that   *)
(* IdracSessionProofs can extend this module and IdracSession together.     *)
(****************************************************************************)
EXTENDS Naturals, Sequences, SequencesExt, FiniteSetsExt

CONSTANTS
    HandshakeLen,  \* bytes of the RFB handshake
    Kinds,         \* "update" or "other", for each RFB message that follows
    Offsets,       \* where each of them starts, and where the last one ends
    BufferSize,    \* size of the bufio.Reader
    MaxChunk,      \* bound: bytes in one WebSocket message
    MaxControls,   \* bound: control messages the firmware sends
    Habits         \* what a firmware may do, see habit

ASSUME StreamAssumption ==
    /\ HandshakeLen \in Nat \ {0}
    /\ Kinds \in Seq({"update", "other"}) /\ Kinds # <<>>
    /\ Offsets \in Seq(Nat) /\ Len(Offsets) = Len(Kinds) + 1
    /\ Offsets[1] = HandshakeLen + 1
    /\ \A i, j \in DOMAIN Offsets : i < j => Offsets[i] < Offsets[j]
    /\ BufferSize \in Nat \ {0}
    /\ MaxChunk \in Nat
    /\ Habits \subseteq SUBSET {"packs", "resembles"}

Foreign == 0
Messages == DOMAIN Kinds

LengthOf(k) == Offsets[k + 1] - Offsets[k]
LastByte == Offsets[Len(Offsets)] - 1
Opens(b) == {k \in Messages : Offsets[k] = b}

VARIABLES
    phase,      \* where the session stands: "await" the key request, "shake"
                \* hands, "top" of readLoop, reading the "kind" or "body" of a
                \* message, or "lost"
    current,    \* the RFB message being read
    need,       \* bytes c.read still has to return
    consumed,   \* history: the bytes the RFB layer has read
    buffered,   \* what the bufio.Reader holds
    pending,    \* transport.pending
    boundary,   \* transport.boundary
    handshake,  \* transport.handshake
    handled,    \* history: what the control handler was given
    controls,   \* history: the control messages the firmware sent
    emitted,    \* RFB bytes the firmware has sent
    owesKey,    \* the firmware holds the stream back until it has the key
    requested,  \* the firmware owes the client an update
    confused,   \* history: a message came that the transport cannot tell apart
    habit       \* "packs": parts of two RFB messages in one WebSocket message;
                \* "resembles": pixel data that begins like a control message

clientVars   == <<phase, current, need, consumed, buffered>>
demuxVars    == <<pending, boundary, handshake, handled>>
firmwareVars == <<controls, emitted, owesKey, requested, confused>>
streamVars == <<clientVars, demuxVars, firmwareVars, habit>>

\* Dell's control messages: two of fixed length, one of variable length.
Subtypes == {"key", "power", "list"}

\* What a message of pixels looks like to IsControlFrame: "begins" has the first
\* octets of a control message, "mimics" those and the length of a fixed one.
Looks == {"plain", "begins", "mimics"}

\* The type of the state.
StreamTypeOK ==
    /\ phase \in {"await", "shake", "top", "kind", "body", "lost"}
    /\ current \in Messages /\ need \in Nat
    /\ emitted \in 0..LastByte
    /\ {consumed, buffered, pending} \subseteq Seq(0..LastByte)
    /\ controls \in Seq(Subtypes) /\ handled \in Seq(Subtypes \cup {"pixels"})
    /\ {boundary, handshake, owesKey, requested} \subseteq BOOLEAN
    /\ habit \in Habits

\* The socket is open and handshake() has called SetHandshake(true).  Some
\* firmware asks for no key.
StreamInit ==
    /\ phase = "await" /\ current = 1 /\ need = 0
    /\ consumed = <<>> /\ buffered = <<>>
    /\ pending = <<>> /\ boundary = FALSE /\ handshake = TRUE /\ handled = <<>>
    /\ controls = <<>> /\ emitted = 0 /\ requested = FALSE /\ confused = FALSE
    /\ owesKey \in BOOLEAN
    /\ habit \in Habits

----------------------------------------------------------------------------
(* External: what the firmware may send in its next WebSocket message *)

BetweenMessages == Opens(emitted + 1) # {} \/ emitted = LastByte

\* A control message, of any kind at any time; the key request is repeated when
\* the key is refreshed.  In the middle of an RFB message one of variable length
\* cannot be told from pixels, and none is looked for before the key request.
FirmwareControl(subtype) ==
    /\ Len(controls) < MaxControls
    /\ controls' = Append(controls, subtype)
    /\ confused' = (\/ confused
                    \/ phase = "await" /\ subtype # "key"
                    \/ /\ subtype = "list"
                       /\ emitted >= HandshakeLen /\ ~BetweenMessages)
    /\ UNCHANGED <<emitted, requested>>

Chunk(n) == [i \in 1..n |-> emitted + i]

\* The next n bytes of the stream, once the key has come.  The first byte of
\* an RFB message is its type, so only a later one can look like Dell's; two or
\* three octets can be a control message of fixed length to the letter.  An
\* update is sent when one was requested.
FirmwareData(n, looks) ==
    LET updates == {k \in Messages : /\ Kinds[k] = "update"
                                     /\ Offsets[k] \in emitted + 1 .. emitted + n}
    IN  /\ ~owesKey
        /\ emitted + n <= (IF emitted < HandshakeLen THEN HandshakeLen
                           ELSE LastByte)
        /\ "packs" \notin habit => \A i \in 2..n : Opens(emitted + i) = {}
        /\ looks # "plain" =>
             /\ "resembles" \in habit /\ n >= 2
             /\ emitted >= HandshakeLen /\ Opens(emitted + 1) = {}
        /\ looks = "mimics" => n <= 3
        /\ updates # {} => requested /\ Cardinality(updates) = 1
        /\ emitted' = emitted + n
        /\ requested' = (requested /\ updates = {})
        /\ confused' = (confused \/ looks = "mimics")
        /\ UNCHANGED controls

----------------------------------------------------------------------------
(* Session.handshake *)

\* c.read(n) begins.
Reading(p, n) == phase' = p /\ need' = n

\* awaitKeyRequest answers the key request,
AwaitKeyRequest ==
    /\ phase = "await"
    /\ FirmwareControl("key")
    /\ owesKey' = FALSE
    /\ handled' = Append(handled, "key")
    /\ Reading("shake", HandshakeLen)
    /\ UNCHANGED <<current, consumed, buffered, pending, boundary, handshake>>

\* hands any other message to the RFB layer, another control message too,
AwaitControl(subtype) ==
    /\ phase = "await" /\ subtype # "key"
    /\ FirmwareControl(subtype)
    /\ pending' = <<Foreign>> \o pending
    /\ Reading("shake", HandshakeLen)
    /\ UNCHANGED <<current, consumed, buffered, boundary, handshake, handled,
                   owesKey>>

AwaitData(n) ==
    /\ phase = "await"
    /\ FirmwareData(n, "plain")
    /\ pending' = Chunk(n) \o pending
    /\ Reading("shake", HandshakeLen)
    /\ UNCHANGED <<current, consumed, buffered, boundary, handshake, handled,
                   owesKey>>

\* and sends the key unprompted when nothing came in time.
AwaitTimeout ==
    /\ phase = "await"
    /\ owesKey' = FALSE
    /\ Reading("shake", HandshakeLen)
    /\ UNCHANGED <<current, consumed, buffered, demuxVars, controls, emitted,
                   requested, confused>>

----------------------------------------------------------------------------
(* transport.Read, called when the bufio.Reader is empty *)

Asking == need > 0 /\ buffered = <<>> /\ phase # "lost"

\* Mutant. Control messages are routed between messages only.
RouteControlAtBoundary(fixed) == handshake \/ boundary

\* routeControl, for a message that IsControlFrame takes for one of Dell's.
RouteControl(fixed) == handshake \/ boundary \/ fixed

\* A control message: all but the client list have a fixed length.  handleControl
\* answers a key request.
ReadControl(subtype) ==
    /\ Asking /\ pending = <<>>
    /\ FirmwareControl(subtype)
    /\ IF RouteControl(subtype # "list")
       THEN /\ handled' = Append(handled, subtype)
            /\ owesKey' = (owesKey /\ subtype # "key")
            /\ UNCHANGED pending
       ELSE /\ pending' = <<Foreign>>
            /\ UNCHANGED <<handled, owesKey>>
    /\ UNCHANGED <<clientVars, boundary, handshake>>

\* RFB data, which may look like a control message.  Octets that are one to the
\* letter go to the handler even inside an RFB message.
ReadData(n, looks) ==
    /\ Asking /\ pending = <<>>
    /\ FirmwareData(n, looks)
    /\ IF looks # "plain" /\ RouteControl(looks = "mimics")
       THEN handled' = Append(handled, "pixels") /\ UNCHANGED pending
       ELSE pending' = Chunk(n) /\ UNCHANGED handled
    /\ UNCHANGED <<clientVars, boundary, handshake, owesKey>>

\* The socket fails: readLoop marks the session disconnected.
SocketFails ==
    /\ Asking \/ phase = "await"
    /\ phase' = "lost"
    /\ UNCHANGED <<current, need, consumed, buffered, demuxVars, firmwareVars>>

\* Mutant. The boundary stays declared.
HandOutOpen ==
    /\ Asking /\ pending # <<>>
    /\ LET n == Min({Len(pending), Max({BufferSize, need})}) IN
         /\ buffered' = SubSeq(pending, 1, n)
         /\ pending' = SubSeq(pending, n + 1, Len(pending))
    /\ UNCHANGED <<phase, current, need, consumed, boundary, handshake, handled,
                   firmwareVars>>

\* Bytes are handed out.  bufio.Reader reads up to its size ahead, unless the
\* caller wants more than that: then it reads into the caller's slice.
HandOut ==
    /\ Asking /\ pending # <<>>
    /\ LET n == Min({Len(pending), Max({BufferSize, need})}) IN
         /\ buffered' = SubSeq(pending, 1, n)
         /\ pending' = SubSeq(pending, n + 1, Len(pending))
    /\ boundary' = FALSE
    /\ UNCHANGED <<phase, current, need, consumed, handshake, handled,
                   firmwareVars>>

----------------------------------------------------------------------------
(* rfb.Conn and readLoop *)

\* readLoop declares the boundary before each message.
LoopTop ==
    /\ phase = "top"
    /\ boundary' = TRUE
    /\ Reading("kind", 1)
    /\ UNCHANGED <<current, consumed, buffered, pending, handshake, handled,
                   firmwareVars>>

\* Mutant. readLoop asks for no further update.
MessageReadNoRequest(k) ==
    /\ phase' = "top"
    /\ UNCHANGED requested

\* A whole RFB message was read.  An update is followed by the next request.
MessageRead(k) ==
    /\ phase' = "top"
    /\ requested' = (requested \/ Kinds[k] = "update")

\* io.ReadFull takes what the bufio.Reader holds.
Consume ==
    /\ need > 0 /\ buffered # <<>> /\ phase # "lost"
    /\ LET n     == Min({need, Len(buffered)})
           bytes == SubSeq(buffered, 1, n)
       IN /\ consumed' = consumed \o bytes
          /\ buffered' = SubSeq(buffered, n + 1, Len(buffered))
          /\ \/ /\ n < need                               \* not all yet
                /\ need' = need - n
                /\ UNCHANGED <<phase, current, requested, handshake>>
             \/ /\ n = need /\ phase = "shake"            \* console ready
                /\ phase' = IF Foreign \in Range(consumed') THEN "lost" ELSE "top"
                /\ need' = 0
                /\ requested' = TRUE
                /\ handshake' = FALSE
                /\ UNCHANGED current
             \/ /\ n = need /\ phase = "kind"             \* type of the message
                /\ UNCHANGED handshake
                /\ IF Opens(bytes[1]) = {}                \* unknown type
                   THEN /\ phase' = "lost"
                        /\ UNCHANGED <<current, need, requested>>
                   ELSE \E k \in Opens(bytes[1]) :
                          /\ current' = k
                          /\ need' = LengthOf(k) - 1
                          /\ IF LengthOf(k) = 1 THEN MessageRead(k)
                             ELSE phase' = "body" /\ UNCHANGED requested
             \/ /\ n = need /\ phase = "body"             \* its body
                /\ need' = 0
                /\ MessageRead(current)
                /\ UNCHANGED <<current, handshake>>
    /\ UNCHANGED <<pending, boundary, handled, controls, emitted, owesKey, confused>>

Finished == phase = "lost" \/ (Asking /\ emitted = LastByte)

Step ==
    \/ AwaitKeyRequest \/ AwaitTimeout
    \/ \E subtype \in Subtypes : AwaitControl(subtype)
    \/ \E n \in 1..MaxChunk : AwaitData(n)
    \/ \E subtype \in Subtypes : ReadControl(subtype)
    \/ \E n \in 1..MaxChunk, looks \in Looks : ReadData(n, looks)
    \/ SocketFails \/ HandOut \/ LoopTop \/ Consume

StreamNext ==
    \/ Step /\ UNCHANGED habit
    \/ Finished /\ UNCHANGED streamVars

StreamSpec == StreamInit /\ [][StreamNext]_streamVars

----------------------------------------------------------------------------
(* Properties *)

(* All three hold until the firmware confuses the transport: with pixels in *)
(* a WebSocket message of their own that are a control message of fixed     *)
(* length to the letter, with a control message of variable length in the   *)
(* middle of an RFB message, or with one instead of the key request.        *)

\* The RFB layer gets every byte of the RFB stream, in order, and none of a
\* control message: inside a protocol message the transport passes pixel data
\* through even when it begins like a control message.
StreamIntact ==
    ~confused => consumed \o buffered \o pending = [i \in 1..emitted |-> i]

\* Every control message reaches the handler, in order, and nothing else does.
ControlsHandled == ~confused => handled = controls

\* The two sides never wait for each other.  When the handshake reads and nothing
\* has come, the key was sent; when readLoop waits for a message that the firmware
\* has not begun, the firmware owes it an update, so the picture does not freeze.
NoMutualWait ==
    ~confused =>
      /\ phase = "shake" => ~owesKey
      /\ phase = "kind" /\ Asking /\ pending = <<>> /\ BetweenMessages =>
           requested

----------------------------------------------------------------------------
(* Why they hold: an inductive invariant *)

\* No firmware both packs messages and sends pixels that look like control messages.
NeverBoth == \A h \in Habits : h # {"packs", "resembles"}

\* The bytes of s are those of the stream that follow position p.
From(p, s) == \A i \in DOMAIN s : s[i] = p + i

\* The bytes that were sent are read, then buffered, then pending.
InOrder ==
    /\ From(0, consumed)
    /\ From(Len(consumed), buffered)
    /\ From(Len(consumed) + Len(buffered), pending)
    /\ Len(consumed) + Len(buffered) + Len(pending) = emitted

\* How far the session has read in each of its phases.
Place ==
    /\ phase = "await" => emitted = 0 /\ need = 0 /\ handshake /\ ~requested
    /\ phase = "shake" =>
         /\ need = HandshakeLen - Len(consumed) /\ need > 0
         /\ emitted <= HandshakeLen /\ handshake /\ ~requested
    /\ phase \in {"top", "kind"} =>
         \E k \in DOMAIN Offsets : Len(consumed) + 1 = Offsets[k]
    /\ phase = "top" => need = 0
    /\ phase = "kind" => need = 1
    /\ phase = "body" =>
         /\ Offsets[current] <= Len(consumed)
         /\ need = Offsets[current + 1] - 1 - Len(consumed) /\ need > 0
    /\ phase \in {"top", "kind", "body"} => ~handshake

\* The boundary stands until the first bytes of a message were handed out.  Where
\* messages are not packed together, nothing is left over when one was read.
Declared ==
    /\ phase = "kind" /\ buffered = <<>> => boundary
    /\ "packs" \notin habit =>
         /\ \A b \in Len(consumed) + 2 .. emitted : Opens(b) = {}
         /\ phase = "top" => buffered = <<>>
         /\ phase = "body" \/ (phase = "kind" /\ buffered # <<>>) => ~boundary

\* From the first message on the firmware owes an update, or one is on its way.
Sought ==
    phase \in {"top", "kind", "body"} =>
        \/ requested
        \/ \E k \in Messages : /\ Kinds[k] = "update" /\ Offsets[k] <= emitted
                               /\ Len(consumed) + 1 < Offsets[k + 1]

Handled == handled = controls

\* Until the transport is confused.
Clear ==
    /\ StreamTypeOK /\ InOrder /\ Handled /\ Place /\ Declared /\ Sought
    /\ phase = "shake" => ~owesKey

StreamIInv == confused \in BOOLEAN /\ (~confused => Clear)
=============================================================================
