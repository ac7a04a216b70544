---------------------------- MODULE VideoDecoder ----------------------------
(***************************************************************************)
(* The iLO video decoder (kvm/decoder.go) and the reader that feeds it     *)
(* (kvm/videostream.go, the read loops of the two sessions), one step per  *)
(* symbol of the bit stream.  The stream is arbitrary: it is what the      *)
(* firmware, a lossy cipher change or a lost byte make of it.  Positions,  *)
(* sizes and the components of a colour are data and left out; the colour  *)
(* a symbol completes is any of Colors.                                    *)
(***************************************************************************)
EXTENDS ColorCache

CONSTANTS
    BlockSize,   \* pixels of a block, 256 in the code
    HalfBlock,   \* pixels of a block of half height, 128 in the code
    FatalLimit   \* symbols in LATCHED until a refresh is asked for, 32768

ASSUME BlockAssumption ==
    /\ BlockSize \in Nat /\ HalfBlock \in 1..BlockSize
    /\ FatalLimit \in Nat \ {0}

VARIABLES
    decoderState,  \* the state the next symbol is read in
    fan,           \* where the PIXFAN row of stateTable leads with a 1
    cache,         \* the colour cache
    pixelCount,    \* pixels of the current block, stopped just past its end
    blockSize,     \* blockHeight * blockWidth
    lastColor,     \* the colour of the last pixel
    fatalCount,    \* symbols read in LATCHED since the last request
    wanted,        \* refreshRequests has grown during this Feed
    halt,          \* the firmware has ended the stream
    follower,      \* a shared-session peer, which cannot ask for a frame
    asked          \* SendRefresh was called since the decoder was last reset

vars == <<decoderState, fan, cache, pixelCount, blockSize, lastColor,
          fatalCount, wanted, halt, follower, asked>>

\* stateTable: the bits a state reads, and the next states for a code of zero
\* and for any other.  HUNT (43), which nothing leads to, is left out.
stateTable == [
    RESET |-> <<0, "START", "START">>,
    START |-> <<1, "PIXELS", "CMD">>,
    PIXELS |-> <<1, "PIXFAN", "PIXLRU1">>,
    PIXLRU1 |-> <<1, "PIXELS", "PIXRPT1">>,
    PIXLRU0 |-> <<1, "PIXELS", "PIXRPT1">>,
    PIXCODE1 |-> <<1, "PIXRPT", "PIXRPT">>,
    PIXCODE2 |-> <<2, "PIXRPT", "PIXRPT">>,
    PIXCODE3 |-> <<3, "PIXRPT", "PIXRPT">>,
    PIXCODE4 |-> <<4, "PIXRPT", "PIXRPT">>,
    PIXGREY |-> <<1, "PIXRPT", "PIXRPT">>,
    PIXRGBR |-> <<1, "PIXRGBG", "PIXRGBG">>,
    PIXRGBG |-> <<1, "PIXRGBB", "PIXRGBB">>,
    PIXRGBB |-> <<1, "PIXRPT", "PIXRPT">>,
    PIXRPT |-> <<1, "PIXELS", "PIXRPT1">>,
    PIXRPT1 |-> <<1, "PIXDUP", "PIXRPTSTD1">>,
    PIXRPTSTD1 |-> <<3, "PIXELS", "PIXELS">>,
    PIXRPTSTD2 |-> <<3, "PIXELS", "PIXELS">>,
    PIXRPTNSTD |-> <<8, "PIXELS", "PIXELS">>,
    PIXDUP |-> <<0, "PIXELS", "PIXELS">>,
    PIXFAN |-> <<1, "PIXSPEC", "PIXSPEC">>,  \* the last one is fan
    PIXCODE |-> <<0, "PIXCODE", "PIXCODE">>,
    PIXSPEC |-> <<1, "PIXGREY", "PIXRGBR">>,
    CMD |-> <<1, "CMD0", "MOVEXY0">>,
    CMD0 |-> <<1, "CMDX", "EXTCMD">>,
    MOVEXY0 |-> <<1, "MOVEXY1", "MOVEXY1">>,
    MOVEXY1 |-> <<1, "START", "START">>,
    EXTCMD |-> <<1, "BLKRPT", "EXTCMD1">>,
    CMDX |-> <<1, "MOVESHORTX", "MOVELONGX">>,
    MOVESHORTX |-> <<1, "START", "START">>,
    MOVELONGX |-> <<1, "START", "START">>,
    BLKRPT |-> <<1, "BLKDUP", "BLKRPT1">>,
    BLKRPT1 |-> <<1, "BLKRPTSTD", "BLKRPTNSTD">>,
    BLKRPTSTD |-> <<1, "START", "START">>,
    BLKRPTNSTD |-> <<1, "START", "START">>,
    BLKDUP |-> <<0, "START", "START">>,
    EXTCMD1 |-> <<1, "EXTCMD2", "FIRMWARE">>,
    FIRMWARE |-> <<1, "CORP", "CORP">>,
    CORP |-> <<1, "START", "FIRMWARE">>,
    EXTCMD2 |-> <<1, "MODE0", "TIMEOUT">>,
    TIMEOUT |-> <<0, "START", "START">>,
    MODE0 |-> <<1, "MODE1", "MODE1">>,
    MODE1 |-> <<1, "MODE2", "MODE2">>,
    MODE2 |-> <<1, "START", "START">>,
    PRINT0 |-> <<1, "PRINT1", "PRINT1">>,
    PRINT1 |-> <<1, "START", "PRINT1">>,
    LATCHED |-> <<1, "LATCHED", "LATCHED">>,
    EXIT |-> <<0, "EXIT", "EXIT">>]

States == DOMAIN stateTable

bitsToRead(s) == stateTable[s][1]

\* The codes of a state.  A field of which only the zero matters has one bit.
Codes(s) == 0..(2 ^ bitsToRead(s) - 1)

\* The next state stateTable gives for a code.
Follow(code) ==
    IF code = 0 THEN stateTable[decoderState][2]
    ELSE IF decoderState = "PIXFAN" THEN fan ELSE stateTable[decoderState][3]

TypeOK ==
    /\ decoderState \in States
    /\ fan \in States
    /\ IsCache(cache)
    /\ blockSize \in {BlockSize, HalfBlock}
    /\ pixelCount \in 0..(blockSize + 1)
    /\ lastColor \in Colors
    /\ fatalCount \in 0..FatalLimit
    /\ wanted \in BOOLEAN /\ halt \in BOOLEAN
    /\ follower \in BOOLEAN /\ asked \in BOOLEAN

\* NewDecoder.
Init ==
    /\ decoderState = "RESET"
    /\ fan = "PIXCODE"
    /\ cache = Empty
    /\ pixelCount = 0
    /\ blockSize = BlockSize
    /\ lastColor \in Colors
    /\ fatalCount = 0
    /\ wanted = FALSE
    /\ halt = FALSE
    /\ follower \in BOOLEAN
    /\ asked = FALSE

\* storePixel, n times: the colour is remembered and the pixels are counted.
Stored(n) ==
    IF pixelCount + n > blockSize THEN blockSize + 1 ELSE pixelCount + n

\* As step would be if pruning did not set the fan.
ConcludeStaleFan(next, count, colors, fanned) ==
    \/ /\ next = "PIXELS" /\ count = blockSize
       /\ decoderState' = "START"
       /\ pixelCount' = 0
       /\ cache' = Prune(colors)
       /\ fan' = fanned
    \/ /\ ~(next = "PIXELS" /\ count = blockSize)
       /\ decoderState' = next
       /\ pixelCount' = count
       /\ cache' = colors
       /\ fan' = fanned

\* The end of step: a block that is exactly full when the next pixel would be
\* read is painted, and the cache is pruned.
Conclude(next, count, colors, fanned) ==
    \/ /\ next = "PIXELS" /\ count = blockSize
       /\ decoderState' = "START"
       /\ pixelCount' = 0
       /\ cache' = Prune(colors)
       /\ fan' = Pixcode(cache')
    \/ /\ ~(next = "PIXELS" /\ count = blockSize)
       /\ decoderState' = next
       /\ pixelCount' = count
       /\ cache' = colors
       /\ fan' = fanned

----------------------------------------------------------------------------
\* step, one action per kind of state.  Each leaves this alone unless it says
\* otherwise.
Aside == UNCHANGED <<blockSize, halt, follower>>
Latch == UNCHANGED <<fatalCount, wanted, asked>>

\* RESET.
Reset ==
    /\ decoderState = "RESET"
    /\ decoderState' = Follow(0)
    /\ cache' = Empty
    /\ pixelCount' = 0
    /\ fatalCount' = 0
    /\ asked' = FALSE
    /\ Aside /\ UNCHANGED <<fan, lastColor, wanted>>

\* States whose symbol only selects the next state, or a position.  TIMEOUT is
\* among them: countBytes counts symbols, several of which lie between two
\* TIMEOUTs, so that its test for two in a row cannot succeed.
Selecting ==
    {"START", "PIXELS", "PIXFAN", "PIXSPEC", "PIXRGBR", "PIXRGBG", "PIXRPT",
     "PIXRPT1", "CMD", "CMD0", "MOVEXY0", "MOVEXY1", "EXTCMD", "CMDX",
     "MOVESHORTX", "MOVELONGX", "BLKRPT", "BLKRPT1", "EXTCMD1", "FIRMWARE",
     "EXTCMD2", "TIMEOUT", "MODE0", "MODE1", "PRINT0", "PRINT1"}

Select(code) ==
    /\ decoderState \in Selecting
    /\ Conclude(Follow(code), pixelCount, cache, fan)
    /\ Aside /\ Latch /\ UNCHANGED lastColor

\* PIXCODE.
PixelCode ==
    /\ decoderState = "PIXCODE"
    /\ decoderState' = Pixcode(cache)
    /\ Aside /\ Latch /\ UNCHANGED <<fan, cache, pixelCount, lastColor>>

\* The place in the cache a symbol of a cache state means.
Place(code) ==
    IF Active(cache) = 1 THEN cache[CHOOSE c \in DOMAIN cache : TRUE].usage
    ELSE IF decoderState = "PIXLRU0" THEN 0
    ELSE IF decoderState = "PIXLRU1" THEN 1
    ELSE IF code # 0 THEN code + 1 ELSE 0

Caching == {"PIXLRU0", "PIXLRU1", "PIXCODE1", "PIXCODE2", "PIXCODE3", "PIXCODE4"}

\* A pixel of a cached colour; a place that holds none latches the decoder.
CachedPixel(code) ==
    /\ decoderState \in Caching
    /\ \/ \E color \in Named(cache, Place(code)) :
              /\ lastColor' = color
              /\ Conclude(Follow(code), Stored(1),
                          Touch(cache, color, Place(code)), fan)
       \/ /\ Named(cache, Place(code)) = {}
          /\ decoderState' = "LATCHED"
          /\ UNCHANGED <<fan, cache, pixelCount, lastColor>>
    /\ Aside /\ Latch

\* PIXGREY and PIXRGBB: a pixel of a colour sent in full.  A colour the cache
\* has already should have been named by its place.
NewPixel(color) ==
    /\ decoderState \in {"PIXGREY", "PIXRGBB"}
    /\ cache' \in Lru(cache, color)
    /\ fan' = Pixcode(cache')
    /\ \/ /\ color \in DOMAIN cache
          /\ decoderState' = "LATCHED"
          /\ UNCHANGED <<pixelCount, lastColor>>
       \/ /\ color \notin DOMAIN cache
          /\ decoderState' = Follow(0)
          /\ pixelCount' = Stored(1)
          /\ lastColor' = color
    /\ Aside /\ Latch

\* PIXRPTSTD1, PIXRPTSTD2, PIXRPTNSTD and PIXDUP: more pixels of the last
\* colour.  They may be more than the block has room for.
Repeats(code) ==
    CASE decoderState = "PIXRPTSTD1" -> code + 2
      [] decoderState = "PIXRPTSTD2" -> code + 8
      [] decoderState = "PIXRPTNSTD" -> code
      [] decoderState = "PIXDUP" -> 1

Repeat(code) ==
    /\ decoderState \in {"PIXRPTSTD1", "PIXRPTSTD2", "PIXRPTNSTD", "PIXDUP"}
    /\ ~(decoderState = "PIXRPTSTD1" /\ code \in 6..7)
    /\ Conclude(Follow(code), Stored(Repeats(code)), cache, fan)
    /\ Aside /\ Latch /\ UNCHANGED lastColor

RepeatLonger(code) ==
    /\ decoderState = "PIXRPTSTD1"
    /\ code \in 6..7
    /\ decoderState' = IF code = 7 THEN "PIXRPTNSTD" ELSE "PIXRPTSTD2"
    /\ Aside /\ Latch /\ UNCHANGED <<fan, cache, pixelCount, lastColor>>

\* BLKDUP, BLKRPTSTD and BLKRPTNSTD: nextBlock paints the last block again.
RepeatBlock ==
    /\ decoderState \in {"BLKDUP", "BLKRPTSTD", "BLKRPTNSTD"}
    /\ decoderState' = "START"
    /\ pixelCount' = 0
    /\ Aside /\ Latch /\ UNCHANGED <<fan, cache, lastColor>>

\* MODE2: switchVideoMode and setHalfHeight.  The fan is not recomputed.
Mode ==
    /\ decoderState = "MODE2"
    /\ decoderState' = Follow(0)
    /\ cache' = Empty
    /\ pixelCount' = 0
    /\ blockSize' \in {BlockSize, HalfBlock}
    /\ Latch /\ UNCHANGED <<fan, lastColor, halt, follower>>

\* CORP: another octet of the command follows, or processCommand runs it.
\* The commands that clear the screen, align the stream or set the colour depth,
\* the cipher or the header's flags change data only.
Commands == {"exit", "print", "other"}

Command(command) ==
    /\ decoderState = "CORP"
    /\ decoderState' = CASE command = "exit" -> "EXIT"
                         [] command = "print" -> "PRINT0"
                         [] OTHER -> Follow(0)
    /\ Aside /\ Latch /\ UNCHANGED <<fan, cache, pixelCount, lastColor>>

CommandOctet ==
    /\ decoderState = "CORP"
    /\ decoderState' = Follow(1)
    /\ Aside /\ Latch /\ UNCHANGED <<fan, cache, pixelCount, lastColor>>

\* As LATCHED would be without refreshRequests.
LatchedQuietly ==
    /\ decoderState = "LATCHED"
    /\ fatalCount' = IF fatalCount = FatalLimit THEN 1 ELSE fatalCount + 1
    /\ Aside /\ UNCHANGED <<decoderState, fan, cache, pixelCount, lastColor, wanted, asked>>

\* LATCHED: the stream makes no sense until it resynchronises; after enough
\* symbols a full frame is wanted, again and again.
Latched ==
    /\ decoderState = "LATCHED"
    /\ wanted' = (wanted \/ fatalCount = FatalLimit)
    /\ fatalCount' = IF fatalCount = FatalLimit THEN 1 ELSE fatalCount + 1
    /\ Aside /\ UNCHANGED <<decoderState, fan, cache, pixelCount, lastColor, asked>>

\* EXIT.
Exit ==
    /\ decoderState = "EXIT"
    /\ halt' = TRUE
    /\ Latch /\ UNCHANGED <<decoderState, fan, cache, pixelCount, lastColor, blockSize, follower>>

Symbol ==
    /\ ~halt
    /\ \/ Reset
       \/ PixelCode
       \/ RepeatBlock
       \/ Mode
       \/ CommandOctet
       \/ Latched
       \/ Exit
       \/ \E code \in Codes(decoderState) :
              Select(code) \/ CachedPixel(code) \/ Repeat(code) \/ RepeatLonger(code)
       \/ \E color \in Colors : NewPixel(color)
       \/ \E command \in Commands : Command(command)

\* getBit: a run of zero bits resynchronises the stream, wherever it is.
Resync ==
    /\ ~halt
    /\ bitsToRead(decoderState) > 0
    /\ decoderState' = "RESET"
    /\ Aside /\ Latch /\ UNCHANGED <<fan, cache, pixelCount, lastColor>>

\* VideoStream.Feed returns, and the reader sends what the decoder wants.
FeedEnds ==
    /\ wanted
    /\ wanted' = FALSE
    /\ asked' = (asked \/ ~follower)
    /\ Aside /\ UNCHANGED <<decoderState, fan, cache, pixelCount, lastColor, fatalCount>>

Next == Symbol \/ Resync \/ FeedEnds

SafetySpec == Init /\ [][Next]_vars

\* The firmware goes on sending, and the reader goes on reading.
Spec == SafetySpec /\ WF_vars(Symbol) /\ WF_vars(FeedEnds)

----------------------------------------------------------------------------
\* The colours in the order of their usage.
Listed(m) == [i \in 1..Active(m) |-> CHOOSE c \in DOMAIN m : m[c].usage = i - 1]
ByUsage == Listed(cache)

List == INSTANCE MoveToFront WITH
    list <- ByUsage,
    fresh <- Cardinality(Counted(cache)),
    shown <- lastColor

\* Usages that age and block counters that are pruned implement the list that
\* the encoder keeps: a place always names the colour the encoder means, and a
\* block's end forgets exactly the colours it did not use.
KeepsList == List!Spec

\* The width of a place that PIXFAN leads to is the one for the number of
\* colours in the cache, after insertions, evictions and pruning alike.
FanFresh == cache # Empty => fan = Pixcode(cache)

----------------------------------------------------------------------------
(* Why they hold: an inductive invariant *)

WithinSlots == Active(cache) <= Slots

IInv == TypeOK /\ Ordered(cache) /\ WithinSlots /\ FanFresh

----------------------------------------------------------------------------
(* Liveness *)

\* A viewer that has lost the thread of the stream does not stay latched for
\* good: it recovers, or it asks the firmware for a full frame.
LatchedAsks ==
    (decoderState = "LATCHED" /\ ~follower) ~> (decoderState # "LATCHED" \/ asked)
============================================================================
