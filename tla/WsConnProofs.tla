---------------------------- MODULE WsConnProofs ----------------------------
(***************************************************************************)
(* Proofs about the WebSocket client, for any number of writers, messages, *)
(* pings, frames in flight and frames buffered.  The inductive invariant   *)
(* IInv is stated in WsConn.                                               *)
(***************************************************************************)
EXTENDS WsConn, SequenceTheorems, TLAPS

\* What a step of the peer leaves of its state.
LEMMA PeerFields ==
    ASSUME NEW q \in Peers
    PROVE  /\ LET r == [q EXCEPT !.reading = FALSE]
              IN  r \in Peers /\ r.parts = q.parts /\ r.part = q.part /\ r.alive = q.alive
           /\ LET r == [q EXCEPT !.alive = FALSE]
              IN  r \in Peers /\ r.parts = q.parts /\ r.part = q.part /\ r.alive = FALSE
           /\ LET r == [q EXCEPT !.closed = TRUE]
              IN  r \in Peers /\ r.parts = q.parts /\ r.part = q.part /\ r.alive = q.alive
           /\ LET r == [q EXCEPT !.pings = @ + 1]
              IN  r \in Peers /\ r.parts = q.parts /\ r.part = q.part /\ r.alive = q.alive
  <1>1. LET r == [q EXCEPT !.reading = FALSE]
        IN  r \in Peers /\ r.parts = q.parts /\ r.part = q.part /\ r.alive = q.alive
    BY DEF Peers
  <1>2. LET r == [q EXCEPT !.alive = FALSE]
        IN  r \in Peers /\ r.parts = q.parts /\ r.part = q.part /\ r.alive = FALSE
    BY DEF Peers
  <1>3. LET r == [q EXCEPT !.closed = TRUE]
        IN  r \in Peers /\ r.parts = q.parts /\ r.part = q.part /\ r.alive = q.alive
    BY DEF Peers
  <1>4. LET r == [q EXCEPT !.pings = @ + 1]
        IN  r \in Peers /\ r.parts = q.parts /\ r.part = q.part /\ r.alive = q.alive
    BY DEF Peers
  <1> QED
    BY <1>1, <1>2, <1>3, <1>4

\* A data frame ends the peer's message or goes on with it.
LEMMA PeerData ==
    ASSUME NEW q \in Peers
    PROVE  /\ LET r == [q EXCEPT !.part = @ + 1]
              IN  /\ r \in Peers /\ r.parts = q.parts
                  /\ r.part = q.part + 1 /\ r.alive = q.alive
           /\ LET r == [q EXCEPT !.parts = Append(@, q.part + 1), !.part = 0]
              IN  /\ r \in Peers /\ r.parts = Append(q.parts, q.part + 1)
                  /\ r.part = 0 /\ r.alive = q.alive
  <1>1. LET r == [q EXCEPT !.part = @ + 1]
        IN  /\ r \in Peers /\ r.parts = q.parts
            /\ r.part = q.part + 1 /\ r.alive = q.alive
    BY DEF Peers
  <1>2. Append(q.parts, q.part + 1) \in Seq(Nat)
    BY DEF Peers
  <1>3. LET r == [q EXCEPT !.parts = Append(@, q.part + 1), !.part = 0]
        IN  /\ r \in Peers /\ r.parts = Append(q.parts, q.part + 1)
            /\ r.part = 0 /\ r.alive = q.alive
    BY <1>2 DEF Peers
  <1> QED
    BY <1>1, <1>3

\* A step that touches neither the frames nor what was made of them leaves the
\* reader in step.
LEMMA StreamStays ==
    ASSUME InStep, Spoiled => Spoiled',
           UNCHANGED <<header, in, assembled, received>>,
           UNCHANGED <<peer.parts, peer.part>>
    PROVE  InStep'
  <1>1. Stream' = Stream /\ Due' = Due /\ PeerDue' = PeerDue
    BY DEF Stream, Due, PeerDue
  <1>2. \A d : Leads(Stream, d) => Leads(Stream, d)'
    BY <1>1 DEF Leads
  <1> QED
    BY <1>1, <1>2 DEF InStep

\* The header of a frame is taken off the front of the stream.
LEMMA StreamHeader ==
    ASSUME FramesOK, header = None, in # <<>>, header' = Head(in), in' = Tail(in)
    PROVE  Stream' = Stream
  <1> USE FramesAssumption DEF FramesOK
  <1>1. /\ Head(in) \in Frames
        /\ Tail(in) \in Seq(Frames)
        /\ Len(Tail(in)) = Len(in) - 1
        /\ \A i \in 1..Len(Tail(in)) : Tail(in)[i] = in[i + 1]
    BY HeadTailProperties
  <1>2. <<Head(in)>> \o Tail(in) = in
    BY <1>1
  <1> QED
    BY <1>1, <1>2 DEF Stream

\* The payload of a frame is read, and the frame with it is off the stream.
LEMMA StreamTakes ==
    ASSUME FramesOK, header # None, header' = None, in' = in,
           UNCHANGED <<peer.parts, peer.part>>,
           Due' = DueAfter(header, Due),
           NEW d \in [1..Len(Stream) + 1 -> PlacesDue], Leads(Stream, d)
    PROVE  \E e \in [1..Len(Stream') + 1 -> PlacesDue] : Leads(Stream, e)'
  <1>1. Stream = <<header>> \o in /\ Stream' = in /\ in \in Seq(Frames) /\ header \in Frames
    BY DEF Stream, FramesOK
  <1>2. PICK n \in Nat : n = Len(in)
    BY <1>1
  <1>3. /\ Len(Stream) = n + 1
        /\ Stream[1] = header
        /\ \A i \in 1..n : Stream[i + 1] = in[i]
    BY <1>1, <1>2
  <1>4. /\ \A i \in 1..n : i + 1 \in 1..n + 1
        /\ 1 \in 1..n + 1
    BY <1>2
  <1>5. PICK e \in [1..n + 1 -> PlacesDue] : \A i \in 1..n + 1 : e[i] = d[i + 1]
    <2> DEFINE f == [i \in 1..n + 1 |-> d[i + 1]]
    <2>1. f \in [1..n + 1 -> PlacesDue]
      BY <1>3
    <2>2. \A i \in 1..n + 1 : f[i] = d[i + 1]
      OBVIOUS
    <2> QED
      BY <2>1, <2>2
  <1>6. e[1] = Due'
    <2>1. d[1 + 1] = DueAfter(header, d[1]) /\ d[1] = Due
      BY <1>3, <1>4 DEF Leads
    <2> QED
      BY <2>1, <1>4, <1>5
  <1>7. e[n + 1] = PeerDue'
    <2>1. d[n + 1 + 1] = PeerDue
      BY <1>3 DEF Leads
    <2>2. n + 1 \in 1..n + 1
      BY <1>2
    <2> QED
      BY <2>1, <2>2, <1>5 DEF PeerDue
  <1>8. ASSUME NEW i \in 1..n
        PROVE  /\ in[i].kind = "data" =>
                    /\ e[i] = <<in[i].message, in[i].part>>
                    /\ in[i].fin => /\ in[i].message <= Len(peer.parts)
                                    /\ peer.parts[in[i].message] = in[i].part
               /\ e[i + 1] = DueAfter(in[i], e[i])
    <2>1. i + 1 \in 1..Len(Stream) /\ Stream[i + 1] = in[i]
      BY <1>3, <1>4
    <2>2. i \in 1..n + 1 /\ i + 1 \in 1..n + 1
      BY <1>2
    <2>3. e[i] = d[i + 1] /\ e[i + 1] = d[i + 1 + 1]
      BY <1>5, <2>2
    <2> QED
      BY <2>1, <2>3 DEF Leads
  <1>9. Leads(Stream, e)'
    BY <1>1, <1>2, <1>6, <1>7, <1>8 DEF Leads
  <1> QED
    BY <1>1, <1>2, <1>9

\* The peer puts a frame at the end of the stream: the one that is due.
LEMMA StreamGrows ==
    ASSUME FramesOK, NEW frame \in Frames,
           header' = header, in' = Append(in, frame), Due' = Due,
           PeerDue' = DueAfter(frame, PeerDue), PeerDue' \in PlacesDue,
           Len(peer.parts) <= Len(peer'.parts),
           \A m \in 1..Len(peer.parts) : peer'.parts[m] = peer.parts[m],
           Len(peer'.parts) \in Nat,
           frame.kind = "data" =>
               /\ PeerDue = <<frame.message, frame.part>>
               /\ frame.fin => /\ frame.message <= Len(peer'.parts)
                               /\ peer'.parts[frame.message] = frame.part,
           NEW d \in [1..Len(Stream) + 1 -> PlacesDue], Leads(Stream, d)
    PROVE  \E e \in [1..Len(Stream') + 1 -> PlacesDue] : Leads(Stream, e)'
  <1>1. /\ Stream' = Append(Stream, frame) /\ Stream \in Seq(Frames)
        /\ Len(peer.parts) \in Nat
    <2>1. Len(peer.parts) \in Nat
      BY DEF FramesOK, Peers
    <2>2. in \in Seq(Frames) /\ header \in Frames \cup {None}
      BY DEF FramesOK
    <2>3. CASE header = None
      BY <2>2, <2>3 DEF Stream
    <2>4. CASE header # None
      <3>1. Stream = <<header>> \o in /\ Stream' = <<header>> \o Append(in, frame)
        BY <2>4 DEF Stream
      <3>2. header \in Frames
        BY <2>2, <2>4
      <3>3. <<header>> \o in \in Seq(Frames)
        BY <3>2, <2>2
      <3>4. <<header>> \o Append(in, frame) = Append(<<header>> \o in, frame)
        BY <3>2, <2>2
      <3> QED
        BY <2>1, <3>1, <3>3, <3>4
    <2> QED
      BY <2>1, <2>3, <2>4
  <1>2. PICK n \in Nat : n = Len(Stream)
    BY <1>1
  <1>3. /\ Len(Stream') = n + 1
        /\ Stream'[n + 1] = frame
        /\ \A i \in 1..n : Stream'[i] = Stream[i] /\ Stream[i] \in Frames
    BY <1>1, <1>2
  <1>4. PICK e \in [1..n + 1 + 1 -> PlacesDue] :
             e[n + 1 + 1] = PeerDue' /\ \A i \in 1..n + 1 : e[i] = d[i]
    <2> DEFINE f == [i \in 1..n + 1 + 1 |-> IF i = n + 1 + 1 THEN PeerDue' ELSE d[i]]
    <2>1. f \in [1..n + 1 + 1 -> PlacesDue]
      BY <1>2
    <2>2. f[n + 1 + 1] = PeerDue' /\ \A i \in 1..n + 1 : f[i] = d[i]
      BY <1>2
    <2> QED
      BY <2>1, <2>2
  <1>5. e[1] = Due' /\ e[n + 1] = PeerDue
    <2>1. 1 \in 1..n + 1 /\ n + 1 \in 1..n + 1
      BY <1>2
    <2> QED
      BY <1>2, <1>4, <2>1 DEF Leads
  <1>6. ASSUME NEW i \in 1..n
        PROVE  /\ Stream[i].kind = "data" =>
                    /\ e[i] = <<Stream[i].message, Stream[i].part>>
                    /\ Stream[i].fin =>
                         /\ Stream[i].message <= Len(peer'.parts)
                         /\ peer'.parts[Stream[i].message] = Stream[i].part
               /\ e[i + 1] = DueAfter(Stream[i], e[i])
    <2>1. i \in 1..n + 1 /\ i + 1 \in 1..n + 1
      BY <1>2
    <2>2. e[i] = d[i] /\ e[i + 1] = d[i + 1] /\ d[i] \in PlacesDue
      BY <1>2, <1>4, <2>1
    <2>3. Stream[i].kind = "data" =>
             /\ d[i] = <<Stream[i].message, Stream[i].part>>
             /\ Stream[i].fin => /\ Stream[i].message <= Len(peer.parts)
                                 /\ peer.parts[Stream[i].message] = Stream[i].part
      BY <1>2 DEF Leads
    <2>4. Stream[i].kind = "data" => Stream[i].message \in Nat /\ Stream[i].message >= 1
      BY <2>2, <2>3, WsAssumption DEF PlacesDue
    <2>5. d[i + 1] = DueAfter(Stream[i], d[i])
      BY <1>2 DEF Leads
    <2>6. Stream[i].kind = "data" /\ Stream[i].fin =>
             Stream[i].message \in 1..Len(peer.parts)
      BY <1>1, <2>3, <2>4
    <2>7. Stream[i].kind = "data" /\ Stream[i].fin =>
             /\ Stream[i].message <= Len(peer'.parts)
             /\ peer'.parts[Stream[i].message] = Stream[i].part
      <3> SUFFICES ASSUME Stream[i].kind = "data", Stream[i].fin
                   PROVE  /\ Stream[i].message <= Len(peer'.parts)
                          /\ peer'.parts[Stream[i].message] = Stream[i].part
        OBVIOUS
      <3>1. peer'.parts[Stream[i].message] = peer.parts[Stream[i].message]
        BY <2>6
      <3>2. /\ Stream[i].message <= Len(peer.parts)
            /\ peer.parts[Stream[i].message] = Stream[i].part
        BY <2>3
      <3>3. Stream[i].message \in Nat
        BY <2>4
      <3> QED
        BY <1>1, <3>1, <3>2, <3>3
    <2> QED
      BY <2>2, <2>3, <2>5, <2>7
  <1>7. Leads(Stream, e)'
    <2>1. \A i \in 1..n + 1 : i = n + 1 \/ i \in 1..n
      BY <1>2
    <2>2. ASSUME NEW i \in 1..n + 1
          PROVE  /\ Stream'[i].kind = "data" =>
                      /\ e[i] = <<Stream'[i].message, Stream'[i].part>>
                      /\ Stream'[i].fin =>
                           /\ Stream'[i].message <= Len(peer'.parts)
                           /\ peer'.parts[Stream'[i].message] = Stream'[i].part
                 /\ e[i + 1] = DueAfter(Stream'[i], e[i])
      <3>1. CASE i = n + 1
        BY <3>1, <1>3, <1>4, <1>5
      <3>2. CASE i \in 1..n
        <4>1. Stream'[i] = Stream[i]
          BY <3>2, <1>3
        <4> QED
          BY <3>2, <4>1, <1>6
      <3> QED
        BY <2>1, <3>1, <3>2
    <2> QED
      BY <1>3, <1>4, <1>5, <2>2 DEF Leads
  <1> QED
    BY <1>3, <1>7

\* The peer's place is one of those that can be due.
LEMMA PeerPlace ==
    ASSUME FramesOK, NEW d \in [1..Len(Stream) + 1 -> PlacesDue], Leads(Stream, d)
    PROVE  PeerDue \in PlacesDue
  <1>1. Len(Stream) \in Nat
    BY DEF Stream, FramesOK
  <1> QED
    BY <1>1 DEF Leads

\* The data frame the reader is at is the one that is due.
LEMMA DueNext ==
    ASSUME FramesOK, header # None, header.kind = "data",
           NEW d, Leads(Stream, d)
    PROVE  /\ Due = <<header.message, header.part>>
           /\ header.fin => /\ header.message <= Len(peer.parts)
                            /\ peer.parts[header.message] = header.part
  <1>1. 1 \in 1..Len(Stream) /\ Stream[1] = header
    BY DEF Stream, FramesOK
  <1>2. /\ d[1] = Due
        /\ d[1] = <<header.message, header.part>>
        /\ header.fin => /\ header.message <= Len(peer.parts)
                         /\ peer.parts[header.message] = header.part
    BY <1>1 DEF Leads
  <1> QED
    BY <1>2

\* The last fragment makes a whole message of the peer's.
LEMMA MessageComplete ==
    ASSUME FramesOK, InStep, ~Spoiled, header # None, header.kind = "data", header.fin
    PROVE  /\ Len(received) + 1 <= Len(peer.parts)
           /\ Append(assembled, <<header.message, header.part>>)
                = [i \in 1..peer.parts[Len(received) + 1] |-> <<Len(received) + 1, i>>]
  <1>1. /\ header.message = Len(received) + 1 /\ header.part = Len(assembled) + 1
        /\ header.message <= Len(peer.parts)
        /\ peer.parts[header.message] = header.part
    BY DueNext DEF InStep, Due
  <1>2. \A i \in 1..Len(assembled) : assembled[i] = <<Len(received) + 1, i>>
    BY DEF InStep
  <1>3. assembled \in Seq(Nat \X Nat) /\ <<Len(received) + 1, Len(assembled) + 1>> \in Nat \X Nat
    BY DEF FramesOK
  <1> DEFINE whole == Append(assembled, <<header.message, header.part>>)
  <1>4. whole \in Seq(Nat \X Nat) /\ Len(whole) = Len(assembled) + 1
    BY <1>1, <1>3
  <1>5. \A i \in 1..Len(assembled) + 1 : whole[i] = <<Len(received) + 1, i>>
    BY <1>1, <1>2, <1>3
  <1>6. whole = [i \in 1..Len(assembled) + 1 |-> <<Len(received) + 1, i>>]
    <2> HIDE DEF whole
    <2> QED
      BY <1>4, <1>5
  <1> QED
    BY <1>1, <1>6

\* Whoever is writing goes on writing the same frame while others move.
LEMMA WritingStays ==
    ASSUME Writing, UNCHANGED <<writeMu, sent, sentClose>>,
           \A p \in Procs : writeMu = p => pc'[p] = pc[p]
    PROVE  Writing'
  BY DEF Writing, Wants

\* A connection that is about to be dialled satisfies the invariant.
LEMMA InitIInv == Init => IInv
  <1> SUFFICES ASSUME Init PROVE IInv
    OBVIOUS
  <1> USE WsAssumption, FramesAssumption DEF Init, Procs, At
  <1>1. PlacesOK /\ FlagsOK
    BY DEF PlacesOK, FlagsOK, ReaderPlaces, CloserPlaces, WriterPlaces
  <1>2. FramesOK /\ PeerWithinBounds
    BY DEF FramesOK, Peers, PeerWithinBounds
  <1>3. Writing
    BY DEF Writing
  <1>4. Ending /\ Reading
    BY DEF Ending, Reading, Established
  <1>5. InStep
    <2>1. /\ Stream = <<>> /\ Len(Stream) = 0 /\ Len(assembled) = 0
          /\ Due = <<1, 1>> /\ PeerDue = <<1, 1>>
      BY DEF Stream, Due, PeerDue
    <2>2. <<1, 1>> \in PlacesDue
      BY DEF PlacesDue
    <2>3. [i \in 1..1 |-> <<1, 1>>] \in [1..Len(Stream) + 1 -> PlacesDue]
      BY <2>1, <2>2
    <2>4. Leads(Stream, [i \in 1..1 |-> <<1, 1>>])
      BY <2>1 DEF Leads
    <2> QED
      BY <2>1, <2>3, <2>4 DEF InStep
  <1>6. MessagesWhole /\ WellFormed
    BY DEF MessagesWhole, WellFormed
  <1> QED
    BY <1>1, <1>2, <1>3, <1>4, <1>5, <1>6 DEF IInv, TypeOK

\* Nothing malformed is on its way before a frame was cut.
LEMMA WellFormedStays ==
    ASSUME FramesOK, Reading, WellFormed, [Next]_vars PROVE WellFormed'
  <1> USE FramesAssumption DEF Wire, Flags
  <1>1. ASSUME UNCHANGED <<header, in, cut>> PROVE WellFormed'
    BY <1>1 DEF WellFormed
  <1>2. ASSUME header' = None, UNCHANGED <<in, cut>> PROVE WellFormed'
    BY <1>2 DEF WellFormed
  <1>3. ASSUME WaitExpires PROVE WellFormed'
    BY <1>3 DEF WaitExpires, WellFormed, Reading, Established, At
  <1>4. ASSUME NEW p \in Procs, ReadHeader(p) PROVE WellFormed'
    <2>1. /\ in # <<>> /\ in \in Seq(Frames) /\ header' = Head(in) /\ in' = Tail(in)
          /\ cut' = cut
      BY <1>4 DEF ReadHeader, FramesOK
    <2>2. /\ Head(in) = in[1] /\ 1 \in 1..Len(in) /\ Len(in') = Len(in) - 1
          /\ \A i \in 1..Len(in') : in'[i] = in[i + 1] /\ i + 1 \in 1..Len(in)
      BY <2>1
    <2> QED
      BY <2>1, <2>2 DEF WellFormed
  <1>5. ASSUME NEW frame \in Frames, frame.kind # "garbage", PeerSend(frame),
               UNCHANGED <<header, cut>>
        PROVE  WellFormed'
    <2>1. in \in Seq(Frames) /\ in' = Append(in, frame)
      BY <1>5 DEF PeerSend, FramesOK
    <2>2. \A i \in 1..Len(in') : (i \in 1..Len(in) /\ in'[i] = in[i]) \/ in'[i] = frame
      BY <2>1
    <2> QED
      BY <1>5, <2>2 DEF WellFormed
  <1>6. CASE PeerSendsData
    <2>1. PICK fin \in BOOLEAN : PeerSend(Data(Len(peer.parts) + 1, peer.part + 1, fin))
      BY <1>6 DEF PeerSendsData
    <2>2. Len(peer.parts) + 1 \in Nat /\ peer.part + 1 \in Nat
      BY DEF FramesOK, Peers
    <2> HIDE DEF Wire, Flags
    <2>3. /\ Data(Len(peer.parts) + 1, peer.part + 1, fin) \in Frames
          /\ Data(Len(peer.parts) + 1, peer.part + 1, fin).kind = "data"
      BY <2>2 DEF Data, Frames
    <2>4. UNCHANGED <<header, cut>>
      BY <1>6 DEF PeerSendsData
    <2> QED
      BY <1>5, <2>1, <2>3, <2>4
  <1>7. CASE PeerPings \/ PeerCloses
    <2>1. PICK kind \in {"ping", "pong", "close"} : PeerSend(Control(kind))
      BY <1>7 DEF PeerPings, PeerCloses
    <2>2. Control(kind) \in Frames /\ Control(kind).kind # "garbage"
      BY DEF Control, Frames
    <2>3. UNCHANGED <<header, cut>>
      BY <1>7 DEF PeerPings, PeerCloses
    <2> QED
      BY <1>5, <2>1, <2>2, <2>3
  <1>8. CASE ReadData \/ ReadControl \/ ReadError \/ DrainEnds \/ DrainFrame
    BY <1>2, <1>8 DEF ReadData, ReadControl, ReadError, DrainEnds, DrainFrame
  <1>9. CASE \E p \in Procs : WriteLock(p) \/ Write(p) \/ WriteError(p)
    BY <1>1, <1>9 DEF WriteLock, Write, WriteError
  <1>10. CASE \/ DialTCP \/ DialUpgrade \/ AwaitKeyRequest \/ ReadMessage \/ ReaderGivesUp
              \/ CloseBegin \/ CloseLock \/ CloseDrop \/ Expire
              \/ PeerReads \/ PeerStalls \/ PeerVanishes \/ UNCHANGED vars
    BY <1>1, <1>10 DEF DialTCP, DialUpgrade, AwaitKeyRequest, ReadMessage, ReaderGivesUp,
       CloseBegin, CloseLock, CloseDrop, Expire, PeerReads, PeerStalls, PeerVanishes, vars
  <1> QED
    BY <1>3, <1>4, <1>6, <1>7, <1>8, <1>9, <1>10
       DEF Next, ReaderStep, WriterStep, CloserStep, PeerStep, Procs

\* Every step of the client's goroutines, of the deadline and of the peer keeps
\* the invariant.
LEMMA NextIInv == IInv /\ [Next]_vars => IInv'
  <1> SUFFICES ASSUME IInv, [Next]_vars PROVE IInv'
    OBVIOUS
  <1> USE WsAssumption, FramesAssumption DEF IInv, TypeOK, Procs, Goto, At, Wire, Flags
  <1>g. WellFormed'
    BY WellFormedStays
  <1>1. ASSUME DialTCP PROVE IInv'
    <2>1. PlacesOK'
      BY <1>1 DEF PlacesOK, ReaderPlaces, CloserPlaces, WriterPlaces, DialTCP
    <2>2. FlagsOK'
      BY <1>1 DEF FlagsOK, DialTCP
    <2>3. FramesOK'
      BY <1>1 DEF FramesOK, DialTCP
    <2>4. Writing'
      <3>1. \A p \in Procs : writeMu = p => pc'[p] = pc[p]
        BY <1>1 DEF PlacesOK, Writing, Wants, DialTCP
      <3>2. UNCHANGED <<writeMu, sent, sentClose>>
        BY <1>1 DEF DialTCP
      <3> QED
        BY <3>1, <3>2, WritingStays
    <2>5. Ending'
      BY <1>1 DEF PlacesOK, FlagsOK, Ending, Established, Dead, ReaderPlaces,
         CloserPlaces, WriterPlaces, DialTCP
    <2>6. Reading'
      BY <1>1 DEF PlacesOK, FlagsOK, Reading, Ending, Established,
         ReaderPlaces, CloserPlaces, WriterPlaces, DialTCP
    <2>7. PeerWithinBounds'
      BY <1>1 DEF PeerWithinBounds, DialTCP
    <2>8. InStep'
      <3>1. Spoiled => Spoiled'
        BY <1>1 DEF Spoiled, Established, Dead, PlacesOK, FlagsOK, Reading,
           Ending, ReaderPlaces, CloserPlaces, WriterPlaces, DialTCP
      <3>2. UNCHANGED <<header, in, assembled, received, peer.parts, peer.part>>
        BY <1>1 DEF DialTCP
      <3> QED
        BY <3>1, <3>2, StreamStays
    <2>9. MessagesWhole'
      BY <1>1 DEF MessagesWhole, DialTCP
    <2> QED
      BY <2>1, <2>2, <2>3, <2>4, <2>5, <2>6, <2>7, <2>8, <2>9, <1>g
  <1>2. ASSUME DialUpgrade PROVE IInv'
    <2>1. PlacesOK'
      BY <1>2 DEF PlacesOK, ReaderPlaces, CloserPlaces, WriterPlaces,
         DialUpgrade
    <2>2. FlagsOK'
      BY <1>2 DEF FlagsOK, DialUpgrade
    <2>3. FramesOK'
      BY <1>2 DEF FramesOK, DialUpgrade
    <2>4. Writing'
      <3>1. \A p \in Procs : writeMu = p => pc'[p] = pc[p]
        BY <1>2 DEF PlacesOK, Writing, Wants, DialUpgrade
      <3>2. UNCHANGED <<writeMu, sent, sentClose>>
        BY <1>2 DEF DialUpgrade
      <3> QED
        BY <3>1, <3>2, WritingStays
    <2>5. Ending'
      BY <1>2 DEF PlacesOK, FlagsOK, Ending, Established, Dead, ReaderPlaces,
         CloserPlaces, WriterPlaces, DialUpgrade
    <2>6. Reading'
      BY <1>2 DEF PlacesOK, FlagsOK, Reading, Ending, Established,
         ReaderPlaces, CloserPlaces, WriterPlaces, DialUpgrade
    <2>7. PeerWithinBounds'
      BY <1>2 DEF PeerWithinBounds, DialUpgrade
    <2>8. InStep'
      <3>1. Spoiled => Spoiled'
        BY <1>2 DEF Spoiled, Established, Dead, PlacesOK, FlagsOK, Reading,
           Ending, ReaderPlaces, CloserPlaces, WriterPlaces, DialUpgrade
      <3>2. UNCHANGED <<header, in, assembled, received, peer.parts, peer.part>>
        BY <1>2 DEF DialUpgrade
      <3> QED
        BY <3>1, <3>2, StreamStays
    <2>9. MessagesWhole'
      BY <1>2 DEF MessagesWhole, DialUpgrade
    <2> QED
      BY <2>1, <2>2, <2>3, <2>4, <2>5, <2>6, <2>7, <2>8, <2>9, <1>g
  <1>3. ASSUME AwaitKeyRequest PROVE IInv'
    <2>1. PlacesOK'
      BY <1>3 DEF PlacesOK, ReaderPlaces, CloserPlaces, WriterPlaces,
         AwaitKeyRequest
    <2>2. FlagsOK'
      BY <1>3 DEF FlagsOK, AwaitKeyRequest
    <2>3. FramesOK'
      BY <1>3 DEF FramesOK, AwaitKeyRequest
    <2>4. Writing'
      <3>1. \A p \in Procs : writeMu = p => pc'[p] = pc[p]
        BY <1>3 DEF PlacesOK, Writing, Wants, AwaitKeyRequest
      <3>2. UNCHANGED <<writeMu, sent, sentClose>>
        BY <1>3 DEF AwaitKeyRequest
      <3> QED
        BY <3>1, <3>2, WritingStays
    <2>5. Ending'
      BY <1>3 DEF PlacesOK, FlagsOK, Ending, Established, Dead, ReaderPlaces,
         CloserPlaces, WriterPlaces, AwaitKeyRequest
    <2>6. Reading'
      BY <1>3 DEF PlacesOK, FlagsOK, Reading, Ending, Established,
         ReaderPlaces, CloserPlaces, WriterPlaces, AwaitKeyRequest
    <2>7. PeerWithinBounds'
      BY <1>3 DEF PeerWithinBounds, AwaitKeyRequest
    <2>8. InStep'
      <3>1. Spoiled => Spoiled'
        BY <1>3 DEF Spoiled, Established, Dead, PlacesOK, FlagsOK, Reading,
           Ending, ReaderPlaces, CloserPlaces, WriterPlaces, AwaitKeyRequest
      <3>2. UNCHANGED <<header, in, assembled, received, peer.parts, peer.part>>
        BY <1>3 DEF AwaitKeyRequest
      <3> QED
        BY <3>1, <3>2, StreamStays
    <2>9. MessagesWhole'
      BY <1>3 DEF MessagesWhole, AwaitKeyRequest
    <2> QED
      BY <2>1, <2>2, <2>3, <2>4, <2>5, <2>6, <2>7, <2>8, <2>9, <1>g
  <1>4. ASSUME WaitExpires PROVE IInv'
    <2>1. PlacesOK'
      BY <1>4 DEF PlacesOK, ReaderPlaces, CloserPlaces, WriterPlaces,
         WaitExpires
    <2>2. FlagsOK'
      BY <1>4 DEF FlagsOK, WaitExpires
    <2>b. Control("garbage") \in Frames
      BY DEF Control, Frames
    <2>3. FramesOK'
      <3>1. in' \in Seq(Frames) /\ Len(in') <= InFlight + (IF cut' THEN 1 ELSE 0)
        <4>1. ~cut
          BY <1>4 DEF Reading, Established, WaitExpires
        <4>2. CASE header = None
          BY <4>1, <4>2, <1>4 DEF FramesOK, WaitExpires
        <4>3. CASE header # None
          <5>1. in' = <<Control("garbage")>> \o in /\ cut'
            BY <4>3, <1>4 DEF WaitExpires
          <5>2. in' \in Seq(Frames) /\ Len(in') = Len(in) + 1
            BY <5>1, <2>b DEF FramesOK
          <5> QED
            BY <4>1, <5>1, <5>2 DEF FramesOK
        <4> QED
          BY <4>2, <4>3
      <3> QED
        BY <3>1, <1>4 DEF FramesOK, WaitExpires
    <2>4. Writing'
      <3>1. \A p \in Procs : writeMu = p => pc'[p] = pc[p]
        BY <1>4 DEF PlacesOK, Writing, Wants, WaitExpires
      <3>2. UNCHANGED <<writeMu, sent, sentClose>>
        BY <1>4 DEF WaitExpires
      <3> QED
        BY <3>1, <3>2, WritingStays
    <2>5. Ending'
      BY <1>4 DEF PlacesOK, FlagsOK, Ending, Established, Dead, ReaderPlaces,
         CloserPlaces, WriterPlaces, WaitExpires
    <2>6. Reading'
      BY <1>4 DEF PlacesOK, FlagsOK, Reading, Ending, Established,
         ReaderPlaces, CloserPlaces, WriterPlaces, WaitExpires
    <2>7. PeerWithinBounds'
      BY <1>4 DEF PeerWithinBounds, WaitExpires
    <2>8. InStep'
      <3>1. CASE cut'
        BY <3>1 DEF InStep, Spoiled
      <3>2. CASE ~cut'
        <4>1. Spoiled => Spoiled'
          BY <1>4, <3>2 DEF Spoiled, Established, Dead, FlagsOK, Reading, WaitExpires
        <4>2. UNCHANGED <<header, in, assembled, received, peer>>
          BY <1>4, <3>2 DEF WaitExpires
        <4> QED
          BY <4>1, <4>2, StreamStays
      <3> QED
        BY <3>1, <3>2
    <2>9. MessagesWhole'
      BY <1>4 DEF MessagesWhole, Reading, Established, FlagsOK, WaitExpires
    <2> QED
      BY <2>1, <2>2, <2>3, <2>4, <2>5, <2>6, <2>7, <2>8, <2>9, <1>g
  <1>5. ASSUME NEW p \in Procs, ReadHeader(p) PROVE IInv'
    <2>1. PlacesOK'
      BY <1>5 DEF PlacesOK, ReaderPlaces, CloserPlaces, WriterPlaces,
         ReadHeader, CanRead
    <2>2. FlagsOK'
      BY <1>5 DEF FlagsOK, ReadHeader, CanRead
    <2>3. FramesOK'
      BY <1>5 DEF FramesOK, ReadHeader, CanRead
    <2>4. Writing'
      <3>1. \A q \in Procs : writeMu = q => pc'[q] = pc[q]
        BY <1>5 DEF PlacesOK, Writing, Wants, ReadHeader, CanRead
      <3>2. UNCHANGED <<writeMu, sent, sentClose>>
        BY <1>5 DEF ReadHeader
      <3> QED
        BY <3>1, <3>2, WritingStays
    <2>5. Ending'
      BY <1>5 DEF PlacesOK, FlagsOK, Ending, Established, Dead, ReaderPlaces,
         CloserPlaces, WriterPlaces, ReadHeader, CanRead
    <2>6. Reading'
      BY <1>5 DEF PlacesOK, FlagsOK, Reading, Ending, Established,
         ReaderPlaces, CloserPlaces, WriterPlaces, ReadHeader, CanRead
    <2>7. PeerWithinBounds'
      BY <1>5 DEF PeerWithinBounds, ReadHeader, CanRead
    <2>8. InStep'
      <3>1. Stream' = Stream
        BY <1>5, StreamHeader DEF ReadHeader
      <3>2. Spoiled => Spoiled'
        BY <1>5 DEF Spoiled, Established, Dead, ReadHeader
      <3>3. UNCHANGED <<Due, PeerDue, peer, assembled, received>>
        BY <1>5 DEF Due, PeerDue, ReadHeader
      <3>4. \A d : Leads(Stream, d) => Leads(Stream, d)'
        BY <3>1, <3>3 DEF Leads
      <3> QED
        BY <3>1, <3>2, <3>3, <3>4 DEF InStep
    <2>9. MessagesWhole'
      BY <1>5 DEF MessagesWhole, ReadHeader, CanRead
    <2> QED
      BY <2>1, <2>2, <2>3, <2>4, <2>5, <2>6, <2>7, <2>8, <2>9, <1>g
  <1>6. ASSUME ReadData PROVE IInv'
    <2>m. /\ pc[reader] \in {"reading", "waiting"} /\ pc'[closer] = pc[closer]
          /\ header # None /\ header.kind = "data" /\ header' = None /\ ~Dead
          /\ \/ /\ pc'[reader] = "failing" /\ readMu' = None
                /\ UNCHANGED <<deadline, received>> /\ assembled' = <<>>
             \/ /\ pc'[reader] = "idle" /\ readMu' = None
                /\ deadline' = IF deadline = "wait" THEN "none" ELSE deadline
                /\ header.fin /\ assembled' = <<>>
                /\ received' = received \o <<Append(assembled, <<header.message, header.part>>)>>
             \/ /\ pc'[reader] = pc[reader] /\ UNCHANGED <<deadline, readMu, received>>
                /\ ~header.fin
                /\ assembled' = Append(assembled, <<header.message, header.part>>)
      BY <1>6 DEF PlacesOK, ReadData, CanRead, Return, Fail, ReadAgain
    <2>u. UNCHANGED <<socket, writeMu, peerClosed, sentClose, once, cut, in, out, sent,
                    peer>>
      BY <1>6 DEF ReadData
    <2>1. PlacesOK'
      BY <1>6 DEF PlacesOK, ReaderPlaces, CloserPlaces, WriterPlaces,
         ReadData, CanRead, Return, Fail, ReadAgain
    <2>2. FlagsOK'
      BY <1>6 DEF FlagsOK, ReadData, CanRead, Return, Fail, ReadAgain
    <2>b. header \in Frames /\ <<header.message, header.part>> \in Nat \X Nat
      BY <1>6 DEF FramesOK, Frames, ReadData
    <2>c. Append(assembled, <<header.message, header.part>>) \in Seq(Nat \X Nat)
      BY <2>b, AppendProperties DEF FramesOK
    <2>3. FramesOK'
      <3> DEFINE message == Append(assembled, <<header.message, header.part>>)
      <3>1. assembled' \in {<<>>, message} /\ received' \in {received, received \o <<message>>}
        BY <2>m
      <3>2. received \o <<message>> \in Seq(Seq(Nat \X Nat))
        BY <2>c DEF FramesOK
      <3>3. header' = None
        BY <2>m
      <3> HIDE DEF message
      <3> QED
        <4>1. assembled' \in Seq(Nat \X Nat)
          <5>1. <<>> \in Seq(Nat \X Nat)
            OBVIOUS
          <5> QED
            BY <2>c, <3>1, <5>1 DEF message
        <4>2. received' \in Seq(Seq(Nat \X Nat))
          BY <3>1, <3>2 DEF FramesOK
        <4> QED
          BY <2>u, <3>3, <4>1, <4>2 DEF FramesOK
    <2>4. Writing'
      <3>1. \A p \in Procs : writeMu = p => pc'[p] = pc[p]
        BY <1>6 DEF PlacesOK, Writing, Wants, ReadData, CanRead, Return, Fail,
           ReadAgain
      <3>2. UNCHANGED <<writeMu, sent, sentClose>>
        BY <1>6 DEF ReadData
      <3> QED
        BY <3>1, <3>2, WritingStays
    <2>5. Ending'
      BY <2>m, <2>u DEF PlacesOK, FlagsOK, Ending, Established, Dead
    <2>6. Reading'
      BY <2>m, <2>u DEF PlacesOK, FlagsOK, Reading, Ending, Established
    <2>7. PeerWithinBounds'
      BY <1>6 DEF PeerWithinBounds, ReadData, CanRead, Return, Fail, ReadAgain
    <2>8. InStep'
      <3> SUFFICES ASSUME ~Spoiled'
                   PROVE  /\ \A i \in 1..Len(assembled') :
                                assembled'[i] = <<Len(received') + 1, i>>
                          /\ \E d \in [1..Len(Stream') + 1 -> PlacesDue] :
                                Leads(Stream, d)'
        BY DEF InStep
      <3>1. ~Spoiled
        BY <2>m, <2>u DEF Spoiled, Reading, FlagsOK, PlacesOK
      <3>2. PICK d \in [1..Len(Stream) + 1 -> PlacesDue] : Leads(Stream, d)
        BY <3>1 DEF InStep
      <3>3. Due = <<header.message, header.part>>
        BY <3>2, <2>m, DueNext
      <3>4. assembled' = IF header.fin THEN <<>>
                         ELSE Append(assembled, <<header.message, header.part>>)
        BY <2>m DEF Spoiled
      <3>5. Len(received') = IF header.fin THEN Len(received) + 1 ELSE Len(received)
        BY <2>m, <2>c DEF Spoiled, FramesOK
      <3>6. header' = None /\ in' = in /\ UNCHANGED peer /\ header # None
        BY <2>m, <2>u
      <3>7. \A i \in 1..Len(assembled') : assembled'[i] = <<Len(received') + 1, i>>
        <4>1. /\ assembled \in Seq(Nat \X Nat)
              /\ \A i \in 1..Len(assembled) : assembled[i] = <<Len(received) + 1, i>>
          BY <3>1 DEF InStep, FramesOK
        <4>2. CASE header.fin
          BY <4>2, <3>4
        <4>3. CASE ~header.fin
          <5>1. /\ assembled' = Append(assembled, <<Len(received) + 1, Len(assembled) + 1>>)
                /\ Len(received') = Len(received)
            BY <4>3, <3>3, <3>4, <3>5 DEF Due
          <5>2. Len(assembled') = Len(assembled) + 1 /\ Len(assembled) \in Nat
            BY <4>1, <5>1
          <5>3. \A i \in 1..Len(assembled') : i \in 1..Len(assembled) \/ i = Len(assembled) + 1
            BY <5>2
          <5> QED
            BY <4>1, <5>1, <5>2, <5>3
        <4> QED
          BY <4>2, <4>3
      <3>8. Due' = DueAfter(header, Due)
        <4>1. CASE header.fin
          BY <4>1, <3>3, <3>4, <3>5, <2>m DEF Due, DueAfter
        <4>2. CASE ~header.fin
          BY <4>2, <3>3, <3>4, <3>5, <2>c, <2>m DEF Due, DueAfter, FramesOK
        <4> QED
          BY <4>1, <4>2
      <3> QED
        BY <3>2, <3>6, <3>7, <3>8, StreamTakes
    <2>9. MessagesWhole'
      <3> SUFFICES ASSUME ~cut'
                   PROVE  /\ Len(received') <= Len(peer'.parts)
                          /\ \A j \in 1..Len(received') :
                                received'[j] = [i \in 1..peer'.parts[j] |-> <<j, i>>]
        BY DEF MessagesWhole
      <3>1. ~cut /\ UNCHANGED peer
        BY <1>6 DEF ReadData
      <3>2. CASE received' = received
        BY <3>1, <3>2 DEF MessagesWhole
      <3>3. CASE received' # received
        <4>1. /\ header.fin /\ header.kind = "data" /\ header # None
              /\ received' = received \o <<Append(assembled, <<header.message, header.part>>)>>
          BY <2>m, <3>3
        <4>2. ~Spoiled
          BY <3>1, <2>m DEF Spoiled, Reading, Established
        <4>3. /\ Len(received) + 1 <= Len(peer.parts)
              /\ Append(assembled, <<header.message, header.part>>)
                   = [i \in 1..peer.parts[Len(received) + 1] |-> <<Len(received) + 1, i>>]
          BY <4>1, <4>2, MessageComplete
        <4>4. /\ Len(received') = Len(received) + 1 /\ Len(received) \in Nat
              /\ \A j \in 1..Len(received) : received'[j] = received[j]
              /\ received'[Len(received) + 1]
                   = Append(assembled, <<header.message, header.part>>)
          BY <4>1, <2>b DEF FramesOK
        <4>5. \A j \in 1..Len(received') : j \in 1..Len(received) \/ j = Len(received) + 1
          BY <4>4
        <4> QED
          BY <3>1, <4>3, <4>4, <4>5 DEF MessagesWhole
      <3> QED
        BY <3>2, <3>3
    <2> QED
      BY <2>1, <2>2, <2>3, <2>4, <2>5, <2>6, <2>7, <2>8, <2>9, <1>g
  <1>7. ASSUME ReadControl PROVE IInv'
    <2>m. /\ pc[reader] \in {"reading", "waiting"} /\ pc'[closer] = pc[closer]
          /\ header \in Frames /\ header.kind # "data" /\ header' = None /\ ~Dead
          /\ \/ /\ pc'[reader] = IF At(reader, "waiting") THEN "waiting pong" ELSE "pong"
                /\ UNCHANGED <<deadline, readMu, received, assembled, peerClosed>>
             \/ /\ pc'[reader] = pc[reader]
                /\ UNCHANGED <<deadline, readMu, received, assembled, peerClosed>>
             \/ /\ pc'[reader] = "echo" /\ peerClosed'
                /\ UNCHANGED <<deadline, readMu, received, assembled>>
             \/ /\ pc'[reader] = "failing" /\ readMu' = None
                /\ assembled' = <<>> /\ UNCHANGED <<deadline, received, peerClosed>>
      BY <1>7 DEF PlacesOK, FramesOK, ReadControl, CanRead, Fail, ReadAgain
    <2>u. UNCHANGED <<socket, writeMu, sentClose, once, cut, in, out, sent, peer>>
      BY <1>7 DEF ReadControl
    <2>1. PlacesOK'
      BY <1>7 DEF PlacesOK, ReaderPlaces, CloserPlaces, WriterPlaces,
         ReadControl, CanRead, Fail, ReadAgain
    <2>2. FlagsOK'
      BY <1>7 DEF FlagsOK, ReadControl, CanRead, Fail, ReadAgain
    <2>3. FramesOK'
      <3>1. assembled' \in {assembled, <<>>} /\ received' = received /\ header' = None
        BY <2>m
      <3> QED
        <4>1. assembled' \in Seq(Nat \X Nat) /\ received' \in Seq(Seq(Nat \X Nat))
          <5>1. <<>> \in Seq(Nat \X Nat)
            OBVIOUS
          <5> QED
            BY <3>1, <5>1 DEF FramesOK
        <4> QED
          BY <2>u, <3>1, <4>1 DEF FramesOK
    <2>4. Writing'
      <3>1. \A p \in Procs : writeMu = p => pc'[p] = pc[p]
        BY <1>7 DEF PlacesOK, Writing, Wants, ReadControl, CanRead, Fail,
           ReadAgain
      <3>2. UNCHANGED <<writeMu, sent, sentClose>>
        BY <1>7 DEF ReadControl
      <3> QED
        BY <3>1, <3>2, WritingStays
    <2>a. /\ pc[reader] \in {"reading", "waiting"} /\ pc'[closer] = pc[closer]
          /\ pc'[reader] \in {"waiting", "waiting pong", "reading", "pong", "echo", "failing"}
          /\ pc'[reader] \in {"waiting", "waiting pong"} => pc[reader] = "waiting"
          /\ deadline' = deadline
          /\ pc'[reader] # "failing" => readMu' = readMu
          /\ readMu' \in {readMu, None}
      BY <2>m DEF At
    <2>b. /\ peerClosed => peerClosed'
          /\ peerClosed' => peerClosed \/ pc'[reader] = "echo"
      <3>1. \/ peerClosed' = peerClosed
            \/ peerClosed' = TRUE /\ pc'[reader] = "echo"
        BY <1>7 DEF PlacesOK, ReadControl, ReadAgain, Fail
      <3>2. peerClosed \in BOOLEAN /\ peerClosed' \in BOOLEAN
        BY <2>2 DEF FlagsOK
      <3>3. CASE peerClosed' = peerClosed
        BY <3>3
      <3>4. CASE peerClosed' = TRUE /\ pc'[reader] = "echo"
        BY <3>4
      <3> QED
        BY <3>1, <3>3, <3>4
    <2>5. Ending'
      BY <2>a, <2>b, <2>u DEF FlagsOK, Ending, Established
    <2>6. Reading'
      BY <2>a, <2>b, <2>u DEF Reading, Established
    <2>7. PeerWithinBounds'
      BY <1>7 DEF PeerWithinBounds, ReadControl, CanRead, Fail, ReadAgain
    <2>8. InStep'
      <3> SUFFICES ASSUME ~Spoiled'
                   PROVE  /\ \A i \in 1..Len(assembled') :
                                assembled'[i] = <<Len(received') + 1, i>>
                          /\ \E d \in [1..Len(Stream') + 1 -> PlacesDue] :
                                Leads(Stream, d)'
        BY DEF InStep
      <3>1. ~Spoiled
        BY <2>m, <2>u DEF Spoiled, Reading, FlagsOK, PlacesOK
      <3>2. PICK d \in [1..Len(Stream) + 1 -> PlacesDue] : Leads(Stream, d)
        BY <3>1 DEF InStep
      <3>3. UNCHANGED <<assembled, received>>
        BY <2>m DEF Spoiled
      <3>4. header' = None /\ in' = in /\ UNCHANGED peer /\ header # None
        BY <2>m, <2>u
      <3>5. Due' = DueAfter(header, Due)
        BY <3>3, <2>m DEF Due, DueAfter
      <3> QED
        BY <3>1, <3>2, <3>3, <3>4, <3>5, StreamTakes DEF InStep
    <2>9. MessagesWhole'
      BY <1>7 DEF MessagesWhole, ReadControl, CanRead, Fail, ReadAgain
    <2> QED
      BY <2>1, <2>2, <2>3, <2>4, <2>5, <2>6, <2>7, <2>8, <2>9, <1>g
  <1>8. ASSUME ReadError PROVE IInv'
    <2>1. PlacesOK'
      BY <1>8 DEF PlacesOK, ReaderPlaces, CloserPlaces, WriterPlaces,
         ReadError, CanRead, Fail, ReadFails
    <2>2. FlagsOK'
      BY <1>8 DEF FlagsOK, ReadError, CanRead, Fail, ReadFails
    <2>3. FramesOK'
      BY <1>8 DEF FramesOK, ReadError, CanRead, Fail, ReadFails
    <2>4. Writing'
      <3>1. \A p \in Procs : writeMu = p => pc'[p] = pc[p]
        BY <1>8 DEF PlacesOK, Writing, Wants, ReadError, CanRead, Fail,
           ReadFails
      <3>2. UNCHANGED <<writeMu, sent, sentClose>>
        BY <1>8 DEF ReadError
      <3> QED
        BY <3>1, <3>2, WritingStays
    <2>5. Ending'
      BY <1>8 DEF PlacesOK, FlagsOK, Ending, Established, Dead, ReaderPlaces,
         CloserPlaces, WriterPlaces, ReadError, CanRead, Fail, ReadFails
    <2>6. Reading'
      BY <1>8 DEF PlacesOK, FlagsOK, Reading, Ending, Established,
         ReaderPlaces, CloserPlaces, WriterPlaces, ReadError, CanRead, Fail,
         ReadFails
    <2>7. PeerWithinBounds'
      BY <1>8 DEF PeerWithinBounds, ReadError, CanRead, Fail, ReadFails
    <2>8. InStep'
      <3>1. Spoiled'
        BY <1>8 DEF Spoiled, Established, Dead, PlacesOK, FlagsOK, Reading,
           Ending, ReaderPlaces, CloserPlaces, WriterPlaces, ReadError,
           CanRead, Fail, ReadFails
      <3> QED
        BY <3>1 DEF InStep
    <2>9. MessagesWhole'
      BY <1>8 DEF MessagesWhole, ReadError, CanRead, Fail, ReadFails
    <2> QED
      BY <2>1, <2>2, <2>3, <2>4, <2>5, <2>6, <2>7, <2>8, <2>9, <1>g
  <1>9. ASSUME ReadMessage PROVE IInv'
    <2>1. PlacesOK'
      BY <1>9 DEF PlacesOK, ReaderPlaces, CloserPlaces, WriterPlaces,
         ReadMessage
    <2>2. FlagsOK'
      BY <1>9 DEF FlagsOK, ReadMessage
    <2>3. FramesOK'
      BY <1>9 DEF FramesOK, ReadMessage
    <2>4. Writing'
      <3>1. \A p \in Procs : writeMu = p => pc'[p] = pc[p]
        BY <1>9 DEF PlacesOK, Writing, Wants, ReadMessage
      <3>2. UNCHANGED <<writeMu, sent, sentClose>>
        BY <1>9 DEF ReadMessage
      <3> QED
        BY <3>1, <3>2, WritingStays
    <2>5. Ending'
      BY <1>9 DEF PlacesOK, FlagsOK, Ending, Established, Dead, ReaderPlaces,
         CloserPlaces, WriterPlaces, ReadMessage
    <2>6. Reading'
      BY <1>9 DEF PlacesOK, FlagsOK, Reading, Ending, Established,
         ReaderPlaces, CloserPlaces, WriterPlaces, ReadMessage
    <2>7. PeerWithinBounds'
      BY <1>9 DEF PeerWithinBounds, ReadMessage
    <2>8. InStep'
      <3>1. Spoiled => Spoiled'
        BY <1>9 DEF Spoiled, Established, Dead, PlacesOK, FlagsOK, Reading,
           Ending, ReaderPlaces, CloserPlaces, WriterPlaces, ReadMessage
      <3>2. UNCHANGED <<header, in, assembled, received, peer.parts, peer.part>>
        BY <1>9 DEF ReadMessage
      <3> QED
        BY <3>1, <3>2, StreamStays
    <2>9. MessagesWhole'
      BY <1>9 DEF MessagesWhole, ReadMessage
    <2> QED
      BY <2>1, <2>2, <2>3, <2>4, <2>5, <2>6, <2>7, <2>8, <2>9, <1>g
  <1>10. ASSUME ReaderGivesUp PROVE IInv'
    <2>1. PlacesOK'
      BY <1>10 DEF PlacesOK, ReaderPlaces, CloserPlaces, WriterPlaces,
         ReaderGivesUp
    <2>2. FlagsOK'
      BY <1>10 DEF FlagsOK, ReaderGivesUp
    <2>3. FramesOK'
      BY <1>10 DEF FramesOK, ReaderGivesUp
    <2>4. Writing'
      <3>1. \A p \in Procs : writeMu = p => pc'[p] = pc[p]
        BY <1>10 DEF PlacesOK, Writing, Wants, ReaderGivesUp
      <3>2. UNCHANGED <<writeMu, sent, sentClose>>
        BY <1>10 DEF ReaderGivesUp
      <3> QED
        BY <3>1, <3>2, WritingStays
    <2>5. Ending'
      BY <1>10 DEF PlacesOK, FlagsOK, Ending, Established, Dead, ReaderPlaces,
         CloserPlaces, WriterPlaces, ReaderGivesUp
    <2>6. Reading'
      BY <1>10 DEF PlacesOK, FlagsOK, Reading, Ending, Established,
         ReaderPlaces, CloserPlaces, WriterPlaces, ReaderGivesUp
    <2>7. PeerWithinBounds'
      BY <1>10 DEF PeerWithinBounds, ReaderGivesUp
    <2>8. InStep'
      <3>1. Spoiled => Spoiled'
        BY <1>10 DEF Spoiled, Established, Dead, PlacesOK, FlagsOK, Reading,
           Ending, ReaderPlaces, CloserPlaces, WriterPlaces, ReaderGivesUp
      <3>2. UNCHANGED <<header, in, assembled, received, peer.parts, peer.part>>
        BY <1>10 DEF ReaderGivesUp
      <3> QED
        BY <3>1, <3>2, StreamStays
    <2>9. MessagesWhole'
      BY <1>10 DEF MessagesWhole, ReaderGivesUp
    <2> QED
      BY <2>1, <2>2, <2>3, <2>4, <2>5, <2>6, <2>7, <2>8, <2>9, <1>g
  <1>11. ASSUME NEW p \in Procs, WriteLock(p) PROVE IInv'
    <2>m. \/ pc' = pc /\ readMu' = readMu
          \/ /\ p = closer
             /\ pc[closer] = "closing" /\ pc'[closer] = "lock"
             /\ pc'[reader] = pc[reader] /\ readMu' = readMu
          \/ /\ p = reader
             /\ pc[reader] = "echo" /\ pc'[reader] = "failing" /\ readMu' = None
             /\ pc'[closer] = pc[closer]
          \/ /\ p \in Writers
             /\ pc'[reader] = pc[reader] /\ pc'[closer] = pc[closer] /\ readMu' = readMu
      BY <1>11 DEF PlacesOK, ReaderPlaces, CloserPlaces, Wants, WriteEnds,
         Releases, WriteLock
    <2>u. UNCHANGED <<socket, deadline, peerClosed, once, header, assembled,
                    received, cut, in, out, sent, peer>>
      BY <1>11 DEF WriteLock
    <2>1. PlacesOK'
      BY <1>11 DEF PlacesOK, ReaderPlaces, CloserPlaces, WriterPlaces,
         WriteLock, Wants, WriteEnds, Releases
    <2>2. FlagsOK'
      BY <1>11 DEF FlagsOK, WriteLock, Wants, WriteEnds, Releases
    <2>3. FramesOK'
      BY <1>11 DEF FramesOK, WriteLock, Wants, WriteEnds, Releases
    <2>4. Writing'
      <3>1. CASE UNCHANGED <<writeMu, sentClose>>
        <4>1. \A q \in Procs : writeMu # q
          BY <1>11 DEF WriteLock
        <4> QED
          BY <3>1, <4>1, <2>u, WritingStays
      <3>2. CASE /\ ~sentClose \/ Wants(p) = "pong"
                 /\ writeMu' = p /\ pc' = pc
                 /\ sentClose' = (sentClose \/ Wants(p) = "close")
        <4>1. Wants(p)' = Wants(p) /\ Wants(p) # "nothing"
          BY <3>2, <1>11 DEF Wants, WriteLock
        <4>2. sent' = sent /\ (sent # <<>> => sentClose)
          BY <2>u DEF Writing
        <4> QED
          BY <3>2, <4>1, <4>2 DEF Writing
      <3> QED
        BY <3>1, <3>2, <1>11 DEF WriteLock
    <2>5. Ending'
      BY <2>m, <2>u DEF PlacesOK, FlagsOK, Ending, Established
    <2>6. Reading'
      BY <2>m, <2>u DEF PlacesOK, FlagsOK, Reading, Ending, Established
    <2>7. PeerWithinBounds'
      BY <1>11 DEF PeerWithinBounds, WriteLock, Wants, WriteEnds, Releases
    <2>8. InStep'
      <3>1. Spoiled => Spoiled'
        BY <2>m, <2>u DEF Spoiled, Established, Dead, PlacesOK, FlagsOK,
           Reading, Ending, ReaderPlaces, CloserPlaces, WriterPlaces
      <3>2. UNCHANGED <<header, in, assembled, received, peer.parts, peer.part>>
        BY <2>u
      <3> QED
        BY <3>1, <3>2, StreamStays
    <2>9. MessagesWhole'
      BY <2>m, <2>u DEF MessagesWhole, WriteLock, Wants, WriteEnds, Releases
    <2> QED
      BY <2>1, <2>2, <2>3, <2>4, <2>5, <2>6, <2>7, <2>8, <2>9, <1>g
  <1>12. ASSUME NEW p \in Procs, Write(p) PROVE IInv'
    <2>m. /\ \/ /\ p = closer
                /\ \/ pc[closer] = "closing" /\ pc'[closer] = "lock"
                   \/ pc[closer] = "drain pong" /\ pc'[closer] = "draining"
                /\ pc'[reader] = pc[reader] /\ readMu' = readMu
             \/ /\ p = reader
                /\ \/ pc[reader] = "pong" /\ pc'[reader] = "reading" /\ readMu' = readMu
                   \/ pc[reader] = "waiting pong" /\ pc'[reader] = "waiting" /\ readMu' = readMu
                   \/ pc[reader] = "echo" /\ pc'[reader] = "failing" /\ readMu' = None
                /\ pc'[closer] = pc[closer]
             \/ /\ p \in Writers
                /\ pc'[reader] = pc[reader] /\ pc'[closer] = pc[closer] /\ readMu' = readMu
      <3>1. CASE p = closer
        BY <1>12, <3>1 DEF PlacesOK, CloserPlaces, Writing, Wants, WriteEnds,
           Releases, Write
      <3>2. CASE p = reader
        BY <1>12, <3>2 DEF PlacesOK, ReaderPlaces, Writing, Wants, WriteEnds,
           Releases, Write
      <3>3. CASE p \in Writers
        BY <1>12, <3>3 DEF PlacesOK, Releases, Write
      <3> QED
        BY <3>1, <3>2, <3>3
    <2>u. UNCHANGED <<socket, deadline, peerClosed, sentClose, once, header, assembled,
                    received, cut, in, peer>>
      BY <1>12 DEF Write
    <2>1. PlacesOK'
      BY <1>12 DEF PlacesOK, ReaderPlaces, CloserPlaces, WriterPlaces, Write,
         Wants, WriteEnds, Releases, WriteFails
    <2>2. FlagsOK'
      BY <1>12 DEF FlagsOK, Write, Wants, WriteEnds, Releases, WriteFails
    <2>b. Wants(p) \in {"data", "pong", "close"}
      BY <1>12 DEF Writing, Wants, Write
    <2>c. sent # <<>> \/ Wants(p) = "close" => Wants(p) \in {"pong", "close"}
      BY <1>12, <2>b DEF Writing, Write
    <2>3. FramesOK'
      BY <1>12, <2>b, <2>c DEF FramesOK, Write
    <2>4. Writing'
      <3>1. sent' # <<>> => sentClose
        BY <1>12, <2>b DEF Writing, FramesOK, Write
      <3>2. \A j \in 2..Len(sent') : sent'[j] = "pong"
        BY <1>12, <2>b DEF Writing, FramesOK, Write
      <3> QED
        BY <1>12, <3>1, <3>2 DEF Writing, Write
    <2>5. Ending'
      BY <2>m, <2>u DEF PlacesOK, FlagsOK, Ending, Established
    <2>6. Reading'
      BY <2>m, <2>u DEF PlacesOK, FlagsOK, Reading, Ending, Established
    <2>7. PeerWithinBounds'
      BY <1>12 DEF PeerWithinBounds, Write, Wants, WriteEnds, Releases,
         WriteFails
    <2>8. InStep'
      <3>1. Spoiled => Spoiled'
        BY <2>m, <2>u DEF Spoiled, Established, Dead, PlacesOK, FlagsOK,
           Reading, Ending, ReaderPlaces, CloserPlaces, WriterPlaces
      <3>2. UNCHANGED <<header, in, assembled, received, peer.parts, peer.part>>
        BY <2>u
      <3> QED
        BY <3>1, <3>2, StreamStays
    <2>9. MessagesWhole'
      BY <2>m, <2>u DEF MessagesWhole, Write, Wants, WriteEnds, Releases,
         WriteFails
    <2> QED
      BY <2>1, <2>2, <2>3, <2>4, <2>5, <2>6, <2>7, <2>8, <2>9, <1>g
  <1>13. ASSUME NEW p \in Procs, WriteError(p) PROVE IInv'
    <2>m. /\ \/ /\ p = closer
                /\ \/ pc[closer] = "closing" /\ pc'[closer] = "drop"
                   \/ pc[closer] = "drain pong" /\ pc'[closer] = "draining"
                /\ pc'[reader] = pc[reader] /\ readMu' = readMu
             \/ /\ p = reader
                /\ /\ pc[reader] \in {"pong", "waiting pong", "echo"}
                   /\ pc'[reader] = "failing" /\ readMu' = None
                /\ pc'[closer] = pc[closer]
             \/ /\ p \in Writers
                /\ pc'[reader] = pc[reader] /\ pc'[closer] = pc[closer] /\ readMu' = readMu
          /\ Dead \/ ~peer.alive
      BY <1>13 DEF PlacesOK, ReaderPlaces, CloserPlaces, Writing, Wants,
         WriteFailed, WriteFails, Releases, WriteError
    <2>u. UNCHANGED <<socket, deadline, peerClosed, sentClose, once, header, assembled,
                    received, cut, in, out, sent, peer>>
      BY <1>13 DEF WriteError
    <2>1. PlacesOK'
      BY <1>13 DEF PlacesOK, ReaderPlaces, CloserPlaces, WriterPlaces,
         WriteError, Wants, WriteFailed, Releases, WriteFails
    <2>2. FlagsOK'
      BY <1>13 DEF FlagsOK, WriteError, Wants, WriteFailed, Releases,
         WriteFails
    <2>3. FramesOK'
      BY <1>13 DEF FramesOK, WriteError, Wants, WriteFailed, Releases,
         WriteFails
    <2>4. Writing'
      BY <1>13 DEF PlacesOK, FlagsOK, Writing, ReaderPlaces, CloserPlaces,
         WriterPlaces, Wants, WriteError, WriteFailed, Releases, WriteFails
    <2>5. Ending'
      BY <2>m, <2>u DEF PlacesOK, FlagsOK, Ending, Established, Dead
    <2>6. Reading'
      BY <2>m, <2>u DEF PlacesOK, FlagsOK, Reading, Ending, Established
    <2>7. PeerWithinBounds'
      BY <1>13 DEF PeerWithinBounds, WriteError, Wants, WriteFailed, Releases,
         WriteFails
    <2>8. InStep'
      <3>1. Spoiled => Spoiled'
        BY <2>m, <2>u DEF Spoiled, Established, Dead, PlacesOK, FlagsOK,
           Reading, Ending, ReaderPlaces, CloserPlaces, WriterPlaces
      <3>2. UNCHANGED <<header, in, assembled, received, peer.parts, peer.part>>
        BY <2>u
      <3> QED
        BY <3>1, <3>2, StreamStays
    <2>9. MessagesWhole'
      BY <2>m, <2>u DEF MessagesWhole, WriteError, Wants, WriteFailed,
         Releases, WriteFails
    <2> QED
      BY <2>1, <2>2, <2>3, <2>4, <2>5, <2>6, <2>7, <2>8, <2>9, <1>g
  <1>14. ASSUME CloseBegin PROVE IInv'
    <2>1. PlacesOK'
      BY <1>14 DEF PlacesOK, ReaderPlaces, CloserPlaces, WriterPlaces,
         CloseBegin
    <2>2. FlagsOK'
      BY <1>14 DEF FlagsOK, CloseBegin
    <2>3. FramesOK'
      BY <1>14 DEF FramesOK, CloseBegin
    <2>4. Writing'
      <3>1. \A p \in Procs : writeMu = p => pc'[p] = pc[p]
        BY <1>14 DEF PlacesOK, Writing, Wants, CloseBegin
      <3>2. UNCHANGED <<writeMu, sent, sentClose>>
        BY <1>14 DEF CloseBegin
      <3> QED
        BY <3>1, <3>2, WritingStays
    <2>5. Ending'
      BY <1>14 DEF PlacesOK, FlagsOK, Ending, Established, Dead, ReaderPlaces,
         CloserPlaces, WriterPlaces, CloseBegin
    <2>6. Reading'
      BY <1>14 DEF PlacesOK, FlagsOK, Reading, Ending, Established,
         ReaderPlaces, CloserPlaces, WriterPlaces, CloseBegin
    <2>7. PeerWithinBounds'
      BY <1>14 DEF PeerWithinBounds, CloseBegin
    <2>8. InStep'
      <3>1. Spoiled => Spoiled'
        BY <1>14 DEF Spoiled, Established, Dead, PlacesOK, FlagsOK, Reading,
           Ending, ReaderPlaces, CloserPlaces, WriterPlaces, CloseBegin
      <3>2. UNCHANGED <<header, in, assembled, received, peer.parts, peer.part>>
        BY <1>14 DEF CloseBegin
      <3> QED
        BY <3>1, <3>2, StreamStays
    <2>9. MessagesWhole'
      BY <1>14 DEF MessagesWhole, CloseBegin
    <2> QED
      BY <2>1, <2>2, <2>3, <2>4, <2>5, <2>6, <2>7, <2>8, <2>9, <1>g
  <1>15. ASSUME CloseLock PROVE IInv'
    <2>1. PlacesOK'
      BY <1>15 DEF PlacesOK, ReaderPlaces, CloserPlaces, WriterPlaces,
         CloseLock
    <2>2. FlagsOK'
      BY <1>15 DEF FlagsOK, CloseLock
    <2>3. FramesOK'
      BY <1>15 DEF FramesOK, CloseLock
    <2>4. Writing'
      <3>1. \A p \in Procs : writeMu = p => pc'[p] = pc[p]
        BY <1>15 DEF PlacesOK, Writing, Wants, CloseLock
      <3>2. UNCHANGED <<writeMu, sent, sentClose>>
        BY <1>15 DEF CloseLock
      <3> QED
        BY <3>1, <3>2, WritingStays
    <2>5. Ending'
      BY <1>15 DEF PlacesOK, FlagsOK, Ending, Established, Dead, ReaderPlaces,
         CloserPlaces, WriterPlaces, CloseLock
    <2>6. Reading'
      BY <1>15 DEF PlacesOK, FlagsOK, Reading, Ending, Established,
         ReaderPlaces, CloserPlaces, WriterPlaces, CloseLock
    <2>7. PeerWithinBounds'
      BY <1>15 DEF PeerWithinBounds, CloseLock
    <2>8. InStep'
      <3>1. Spoiled => Spoiled'
        BY <1>15 DEF Spoiled, Established, Dead, PlacesOK, FlagsOK, Reading,
           Ending, ReaderPlaces, CloserPlaces, WriterPlaces, CloseLock
      <3>2. UNCHANGED <<header, in, assembled, received, peer.parts, peer.part>>
        BY <1>15 DEF CloseLock
      <3> QED
        BY <3>1, <3>2, StreamStays
    <2>9. MessagesWhole'
      BY <1>15 DEF MessagesWhole, CloseLock
    <2> QED
      BY <2>1, <2>2, <2>3, <2>4, <2>5, <2>6, <2>7, <2>8, <2>9, <1>g
  <1>16. ASSUME DrainEnds PROVE IInv'
    <2>1. PlacesOK'
      BY <1>16 DEF PlacesOK, ReaderPlaces, CloserPlaces, WriterPlaces,
         DrainEnds, ReadFails
    <2>2. FlagsOK'
      BY <1>16 DEF FlagsOK, DrainEnds, ReadFails
    <2>3. FramesOK'
      BY <1>16 DEF FramesOK, DrainEnds, ReadFails
    <2>4. Writing'
      <3>1. \A p \in Procs : writeMu = p => pc'[p] = pc[p]
        BY <1>16 DEF PlacesOK, Writing, Wants, DrainEnds, ReadFails
      <3>2. UNCHANGED <<writeMu, sent, sentClose>>
        BY <1>16 DEF DrainEnds
      <3> QED
        BY <3>1, <3>2, WritingStays
    <2>5. Ending'
      BY <1>16 DEF PlacesOK, FlagsOK, Ending, Established, Dead, ReaderPlaces,
         CloserPlaces, WriterPlaces, DrainEnds, ReadFails
    <2>6. Reading'
      BY <1>16 DEF PlacesOK, FlagsOK, Reading, Ending, Established,
         ReaderPlaces, CloserPlaces, WriterPlaces, DrainEnds, ReadFails
    <2>7. PeerWithinBounds'
      BY <1>16 DEF PeerWithinBounds, DrainEnds, ReadFails
    <2>8. InStep'
      <3>1. Spoiled'
        BY <1>16 DEF Spoiled, Established, Dead, PlacesOK, FlagsOK, Reading,
           Ending, ReaderPlaces, CloserPlaces, WriterPlaces, DrainEnds,
           ReadFails
      <3> QED
        BY <3>1 DEF InStep
    <2>9. MessagesWhole'
      BY <1>16 DEF MessagesWhole, DrainEnds, ReadFails
    <2> QED
      BY <2>1, <2>2, <2>3, <2>4, <2>5, <2>6, <2>7, <2>8, <2>9, <1>g
  <1>17. ASSUME DrainFrame PROVE IInv'
    <2>1. PlacesOK'
      BY <1>17 DEF PlacesOK, ReaderPlaces, CloserPlaces, WriterPlaces,
         DrainFrame
    <2>2. FlagsOK'
      BY <1>17 DEF FlagsOK, DrainFrame
    <2>3. FramesOK'
      BY <1>17 DEF FramesOK, DrainFrame
    <2>4. Writing'
      <3>1. \A p \in Procs : writeMu = p => pc'[p] = pc[p]
        BY <1>17 DEF PlacesOK, Writing, Wants, DrainFrame
      <3>2. UNCHANGED <<writeMu, sent, sentClose>>
        BY <1>17 DEF DrainFrame
      <3> QED
        BY <3>1, <3>2, WritingStays
    <2>5. Ending'
      BY <1>17 DEF PlacesOK, FlagsOK, Ending, Established, Dead, ReaderPlaces,
         CloserPlaces, WriterPlaces, WellFormed, DrainFrame
    <2>6. Reading'
      BY <1>17 DEF PlacesOK, FlagsOK, Reading, Ending, Established,
         ReaderPlaces, CloserPlaces, WriterPlaces, DrainFrame
    <2>7. PeerWithinBounds'
      BY <1>17 DEF PeerWithinBounds, DrainFrame
    <2>8. InStep'
      <3>1. Spoiled'
        BY <1>17 DEF Spoiled, Established, Dead, PlacesOK, FlagsOK, Reading,
           Ending, ReaderPlaces, CloserPlaces, WriterPlaces, WellFormed, DrainFrame
      <3> QED
        BY <3>1 DEF InStep
    <2>9. MessagesWhole'
      BY <1>17 DEF MessagesWhole, DrainFrame
    <2> QED
      BY <2>1, <2>2, <2>3, <2>4, <2>5, <2>6, <2>7, <2>8, <2>9, <1>g
  <1>18. ASSUME CloseDrop PROVE IInv'
    <2>1. PlacesOK'
      BY <1>18 DEF PlacesOK, ReaderPlaces, CloserPlaces, WriterPlaces,
         CloseDrop
    <2>2. FlagsOK'
      BY <1>18 DEF FlagsOK, CloseDrop
    <2>3. FramesOK'
      BY <1>18 DEF FramesOK, CloseDrop
    <2>4. Writing'
      <3>1. \A p \in Procs : writeMu = p => pc'[p] = pc[p]
        BY <1>18 DEF PlacesOK, Writing, Wants, CloseDrop
      <3>2. UNCHANGED <<writeMu, sent, sentClose>>
        BY <1>18 DEF CloseDrop
      <3> QED
        BY <3>1, <3>2, WritingStays
    <2>5. Ending'
      BY <1>18 DEF PlacesOK, FlagsOK, Ending, Established, Dead, ReaderPlaces,
         CloserPlaces, WriterPlaces, CloseDrop
    <2>6. Reading'
      BY <1>18 DEF PlacesOK, FlagsOK, Reading, Ending, Established,
         ReaderPlaces, CloserPlaces, WriterPlaces, CloseDrop
    <2>7. PeerWithinBounds'
      BY <1>18 DEF PeerWithinBounds, CloseDrop
    <2>8. InStep'
      <3>1. Spoiled => Spoiled'
        BY <1>18 DEF Spoiled, Established, Dead, PlacesOK, FlagsOK, Reading,
           Ending, ReaderPlaces, CloserPlaces, WriterPlaces, CloseDrop
      <3>2. UNCHANGED <<header, in, assembled, received, peer.parts, peer.part>>
        BY <1>18 DEF CloseDrop
      <3> QED
        BY <3>1, <3>2, StreamStays
    <2>9. MessagesWhole'
      BY <1>18 DEF MessagesWhole, CloseDrop
    <2> QED
      BY <2>1, <2>2, <2>3, <2>4, <2>5, <2>6, <2>7, <2>8, <2>9, <1>g
  <1>19. ASSUME Expire PROVE IInv'
    <2>1. PlacesOK'
      BY <1>19 DEF PlacesOK, ReaderPlaces, CloserPlaces, WriterPlaces, Expire
    <2>2. FlagsOK'
      BY <1>19 DEF FlagsOK, Expire
    <2>3. FramesOK'
      BY <1>19 DEF FramesOK, Expire
    <2>4. Writing'
      <3>1. \A p \in Procs : writeMu = p => pc'[p] = pc[p]
        BY <1>19 DEF PlacesOK, Writing, Wants, Expire
      <3>2. UNCHANGED <<writeMu, sent, sentClose>>
        BY <1>19 DEF Expire
      <3> QED
        BY <3>1, <3>2, WritingStays
    <2>5. Ending'
      BY <1>19 DEF PlacesOK, FlagsOK, Ending, Established, Dead, ReaderPlaces,
         CloserPlaces, WriterPlaces, Expire
    <2>6. Reading'
      BY <1>19 DEF PlacesOK, FlagsOK, Reading, Ending, Established,
         ReaderPlaces, CloserPlaces, WriterPlaces, Expire
    <2>7. PeerWithinBounds'
      BY <1>19 DEF PeerWithinBounds, Expire
    <2>8. InStep'
      <3>1. Spoiled => Spoiled'
        BY <1>19 DEF Spoiled, Established, Dead, PlacesOK, FlagsOK, Reading,
           Ending, ReaderPlaces, CloserPlaces, WriterPlaces, Expire
      <3>2. UNCHANGED <<header, in, assembled, received, peer.parts, peer.part>>
        BY <1>19 DEF Expire
      <3> QED
        BY <3>1, <3>2, StreamStays
    <2>9. MessagesWhole'
      BY <1>19 DEF MessagesWhole, Expire
    <2> QED
      BY <2>1, <2>2, <2>3, <2>4, <2>5, <2>6, <2>7, <2>8, <2>9, <1>g
  <1>20. ASSUME PeerSendsData PROVE IInv'
    <2> DEFINE m == Len(peer.parts) + 1
               k == peer.part + 1
    <2>a. PICK fin \in BOOLEAN :
             /\ peer.part = 1 => fin
             /\ PeerSend(Data(m, k, fin))
             /\ peer' = IF fin THEN [peer EXCEPT !.parts = Append(@, k), !.part = 0]
                               ELSE [peer EXCEPT !.part = @ + 1]
      BY <1>20 DEF PeerSendsData
    <2>b. m \in Nat /\ k \in Nat /\ m <= MaxMessages
      BY <1>20 DEF PeerSendsData, FramesOK, Peers
    <2>c. /\ Data(m, k, fin) \in Frames
          /\ Data(m, k, fin).kind = "data" /\ Data(m, k, fin).fin = fin
          /\ Data(m, k, fin).message = m /\ Data(m, k, fin).part = k
      BY <2>b DEF Data, Frames
    <2>0. /\ peer' \in Peers /\ peer'.alive = peer.alive
          /\ fin => peer'.parts = Append(peer.parts, k) /\ peer'.part = 0
          /\ ~fin => peer'.parts = peer.parts /\ peer'.part = k
      BY <2>a, PeerData DEF FramesOK
    <2>d. /\ Len(peer.parts) \in Nat /\ m \in Nat /\ k \in Nat
          /\ fin => /\ Len(peer'.parts) = m /\ peer'.parts[m] = k
                    /\ \A j \in 1..Len(peer.parts) : peer'.parts[j] = peer.parts[j]
      <3>1. peer.parts \in Seq(Nat)
        BY DEF FramesOK, Peers
      <3>2. /\ Len(Append(peer.parts, k)) = m /\ Append(peer.parts, k)[m] = k
            /\ \A j \in 1..Len(peer.parts) : Append(peer.parts, k)[j] = peer.parts[j]
        BY <3>1, <2>b
      <3>3. Len(peer.parts) \in Nat
        BY <3>1
      <3> QED
        BY <2>0, <2>b, <3>2, <3>3
    <2>1. PlacesOK'
      BY <1>20 DEF PlacesOK, ReaderPlaces, CloserPlaces, WriterPlaces,
         PeerSendsData, PeerSend
    <2>2. FlagsOK'
      BY <1>20 DEF FlagsOK, PeerSendsData, PeerSend
    <2>3. FramesOK'
      <3>1. in' = Append(in, Data(m, k, fin)) /\ Len(in) < InFlight
        BY <2>a DEF PeerSend
      <3> QED
        BY <3>1, <2>0, <2>c, <1>20 DEF FramesOK, FlagsOK, PeerSendsData
    <2>4. Writing'
      <3>1. \A p \in Procs : writeMu = p => pc'[p] = pc[p]
        BY <1>20 DEF PlacesOK, Writing, Wants, PeerSendsData, PeerSend
      <3>2. UNCHANGED <<writeMu, sent, sentClose>>
        BY <1>20 DEF PeerSendsData
      <3> QED
        BY <3>1, <3>2, WritingStays
    <2>5. Ending'
      BY <1>20, <2>0 DEF PlacesOK, FlagsOK, Ending, Established, Dead,
         ReaderPlaces, CloserPlaces, WriterPlaces, PeerSendsData, PeerSend
    <2>6. Reading'
      BY <1>20 DEF PlacesOK, FlagsOK, Reading, Ending, Established,
         ReaderPlaces, CloserPlaces, WriterPlaces, PeerSendsData, PeerSend
    <2>7. PeerWithinBounds'
      BY <2>0, <2>a, <2>b DEF PeerWithinBounds, FramesOK, Peers
    <2>8. InStep'
      <3> SUFFICES ASSUME ~Spoiled'
                   PROVE  /\ \A i \in 1..Len(assembled') :
                                assembled'[i] = <<Len(received') + 1, i>>
                          /\ \E d \in [1..Len(Stream') + 1 -> PlacesDue] :
                                Leads(Stream, d)'
        BY DEF InStep
      <3>1. /\ in' = Append(in, Data(m, k, fin))
            /\ peer.alive
            /\ UNCHANGED <<header, assembled, received>>
        BY <1>20, <2>a DEF PeerSend, PeerSendsData
      <3>2. ~Spoiled
        BY <3>1, <1>20, <2>0 DEF Spoiled, Established, Dead, PeerSendsData
      <3>3. PICK d \in [1..Len(Stream) + 1 -> PlacesDue] : Leads(Stream, d)
        BY <3>2 DEF InStep
      <3>4. Due' = Due
        BY <3>1 DEF Due
      <3>5. PeerDue = <<m, k>>
        BY DEF PeerDue
      <3>6. PeerDue' = DueAfter(Data(m, k, fin), PeerDue) /\ PeerDue' \in PlacesDue
        <4>1. Len(peer.parts) \in Nat
          BY DEF FramesOK, Peers
        <4>2. CASE fin
          <5>1. PeerDue' = <<m + 1, 1>>
            BY <4>2, <2>0, <2>d DEF PeerDue
          <5>2. DueAfter(Data(m, k, fin), PeerDue) = <<m + 1, 1>>
            BY <4>2, <2>c DEF DueAfter
          <5>3. m + 1 \in 1..MaxMessages + 1 /\ 1 \in 1..2
            BY <4>1, <2>b
          <5> QED
            BY <5>1, <5>2, <5>3 DEF PlacesDue
        <4>3. CASE ~fin
          <5>1. peer.part = 0
            BY <4>3, <2>a DEF PeerWithinBounds
          <5> QED
            BY <4>1, <4>3, <5>1, <2>0, <2>b, <2>c DEF PeerDue, PlacesDue, DueAfter
        <4> QED
          BY <4>2, <4>3
      <3>7. /\ Len(peer'.parts) \in Nat /\ Len(peer.parts) <= Len(peer'.parts)
            /\ \A j \in 1..Len(peer.parts) : peer'.parts[j] = peer.parts[j]
            /\ fin => m <= Len(peer'.parts) /\ peer'.parts[m] = k
        BY <2>0, <2>b, <2>d
      <3>8. \E e \in [1..Len(Stream') + 1 -> PlacesDue] : Leads(Stream, e)'
        <4> HIDE DEF m, k
        <4> QED
          BY <2>c, <3>1, <3>3, <3>4, <3>5, <3>6, <3>7, StreamGrows
      <3> QED
        BY <3>1, <3>2, <3>8 DEF InStep
    <2>9. MessagesWhole'
      <3>1. /\ Len(peer.parts) <= Len(peer'.parts) /\ Len(peer'.parts) \in Nat
            /\ \A j \in 1..Len(peer.parts) : peer'.parts[j] = peer.parts[j]
        BY <2>0, <2>b, <2>d
      <3>2. UNCHANGED <<received, cut>>
        BY <1>20 DEF PeerSendsData
      <3> QED
        <4>1. ~cut => /\ Len(received) <= Len(peer'.parts)
                      /\ \A j \in 1..Len(received) : j \in 1..Len(peer.parts)
          BY <2>d, <3>1 DEF MessagesWhole, FramesOK
        <4> QED
          BY <3>1, <3>2, <4>1 DEF MessagesWhole
    <2> QED
      BY <2>1, <2>2, <2>3, <2>4, <2>5, <2>6, <2>7, <2>8, <2>9, <1>g
  <1>21. ASSUME PeerPings PROVE IInv'
    <2>0. /\ peer' \in Peers /\ peer'.parts = peer.parts /\ peer'.part = peer.part
          /\ peer'.alive = peer.alive
      BY <1>21, PeerFields DEF FramesOK, PeerPings
    <2>a. PICK kind \in {"ping", "pong"} : PeerSend(Control(kind))
      BY <1>21 DEF PeerPings
    <2>c. Control(kind) \in Frames /\ Control(kind).kind # "data"
      BY DEF Control, Frames
    <2>1. PlacesOK'
      BY <1>21 DEF PlacesOK, ReaderPlaces, CloserPlaces, WriterPlaces,
         PeerPings, PeerSend
    <2>2. FlagsOK'
      BY <1>21 DEF FlagsOK, PeerPings, PeerSend
    <2>3. FramesOK'
      <3>1. in' = Append(in, Control(kind)) /\ Len(in) < InFlight
        BY <2>a DEF PeerSend
      <3> QED
        BY <3>1, <2>0, <2>c, <1>21 DEF FramesOK, FlagsOK, PeerPings
    <2>4. Writing'
      <3>1. \A p \in Procs : writeMu = p => pc'[p] = pc[p]
        BY <1>21 DEF PlacesOK, Writing, Wants, PeerPings, PeerSend
      <3>2. UNCHANGED <<writeMu, sent, sentClose>>
        BY <1>21 DEF PeerPings
      <3> QED
        BY <3>1, <3>2, WritingStays
    <2>5. Ending'
      BY <1>21, <2>0 DEF PlacesOK, FlagsOK, Ending, Established, Dead,
         ReaderPlaces, CloserPlaces, WriterPlaces, PeerPings, PeerSend
    <2>6. Reading'
      BY <1>21 DEF PlacesOK, FlagsOK, Reading, Ending, Established,
         ReaderPlaces, CloserPlaces, WriterPlaces, PeerPings, PeerSend
    <2>7. PeerWithinBounds'
      BY <1>21, <2>0 DEF PeerWithinBounds, PeerPings, PeerSend
    <2>8. InStep'
      <3> SUFFICES ASSUME ~Spoiled'
                   PROVE  /\ \A i \in 1..Len(assembled') :
                                assembled'[i] = <<Len(received') + 1, i>>
                          /\ \E d \in [1..Len(Stream') + 1 -> PlacesDue] :
                                Leads(Stream, d)'
        BY DEF InStep
      <3>1. /\ in' = Append(in, Control(kind))
            /\ peer.alive
            /\ UNCHANGED <<header, assembled, received>>
        BY <1>21, <2>a DEF PeerSend, PeerPings
      <3>2. ~Spoiled
        BY <3>1, <1>21, <2>0 DEF Spoiled, Established, Dead, PeerPings
      <3>3. PICK d \in [1..Len(Stream) + 1 -> PlacesDue] : Leads(Stream, d)
        BY <3>2 DEF InStep
      <3>4. Due' = Due
        BY <3>1 DEF Due
      <3>5. PeerDue' = PeerDue /\ Len(peer.parts) \in Nat
        BY <2>0 DEF PeerDue, FramesOK, Peers
      <3>6. PeerDue' = DueAfter(Control(kind), PeerDue)
        BY <3>5, <2>c DEF DueAfter
      <3>7. PeerDue' \in PlacesDue
        BY <3>3, <3>5, PeerPlace
      <3>8. \E e \in [1..Len(Stream') + 1 -> PlacesDue] : Leads(Stream, e)'
        <4>1. /\ Len(peer.parts) <= Len(peer'.parts) /\ Len(peer'.parts) \in Nat
              /\ \A m \in 1..Len(peer.parts) : peer'.parts[m] = peer.parts[m]
          BY <2>0, <3>5
        <4> QED
          BY <4>1, <2>c, <3>1, <3>3, <3>4, <3>6, <3>7, StreamGrows
      <3> QED
        BY <3>1, <3>2, <3>8 DEF InStep
    <2>9. MessagesWhole'
      BY <1>21, <2>0 DEF MessagesWhole, PeerPings, PeerSend
    <2> QED
      BY <2>1, <2>2, <2>3, <2>4, <2>5, <2>6, <2>7, <2>8, <2>9, <1>g
  <1>22. ASSUME PeerCloses PROVE IInv'
    <2>0. /\ peer' \in Peers /\ peer'.parts = peer.parts /\ peer'.part = peer.part
          /\ peer'.alive = peer.alive
      BY <1>22, PeerFields DEF FramesOK, PeerCloses
    <2>a. PICK kind \in {"close"} : PeerSend(Control(kind))
      BY <1>22 DEF PeerCloses
    <2>c. Control(kind) \in Frames /\ Control(kind).kind # "data"
      BY DEF Control, Frames
    <2>1. PlacesOK'
      BY <1>22 DEF PlacesOK, ReaderPlaces, CloserPlaces, WriterPlaces,
         PeerCloses, PeerSend
    <2>2. FlagsOK'
      BY <1>22 DEF FlagsOK, PeerCloses, PeerSend
    <2>3. FramesOK'
      <3>1. in' = Append(in, Control(kind)) /\ Len(in) < InFlight
        BY <2>a DEF PeerSend
      <3> QED
        BY <3>1, <2>0, <2>c, <1>22 DEF FramesOK, FlagsOK, PeerCloses
    <2>4. Writing'
      <3>1. \A p \in Procs : writeMu = p => pc'[p] = pc[p]
        BY <1>22 DEF PlacesOK, Writing, Wants, PeerCloses, PeerSend
      <3>2. UNCHANGED <<writeMu, sent, sentClose>>
        BY <1>22 DEF PeerCloses
      <3> QED
        BY <3>1, <3>2, WritingStays
    <2>5. Ending'
      BY <1>22, <2>0 DEF PlacesOK, FlagsOK, Ending, Established, Dead,
         ReaderPlaces, CloserPlaces, WriterPlaces, PeerCloses, PeerSend
    <2>6. Reading'
      BY <1>22 DEF PlacesOK, FlagsOK, Reading, Ending, Established,
         ReaderPlaces, CloserPlaces, WriterPlaces, PeerCloses, PeerSend
    <2>7. PeerWithinBounds'
      BY <1>22, <2>0 DEF PeerWithinBounds, PeerCloses, PeerSend
    <2>8. InStep'
      <3> SUFFICES ASSUME ~Spoiled'
                   PROVE  /\ \A i \in 1..Len(assembled') :
                                assembled'[i] = <<Len(received') + 1, i>>
                          /\ \E d \in [1..Len(Stream') + 1 -> PlacesDue] :
                                Leads(Stream, d)'
        BY DEF InStep
      <3>1. /\ in' = Append(in, Control(kind))
            /\ peer.alive
            /\ UNCHANGED <<header, assembled, received>>
        BY <1>22, <2>a DEF PeerSend, PeerCloses
      <3>2. ~Spoiled
        BY <3>1, <1>22, <2>0 DEF Spoiled, Established, Dead, PeerCloses
      <3>3. PICK d \in [1..Len(Stream) + 1 -> PlacesDue] : Leads(Stream, d)
        BY <3>2 DEF InStep
      <3>4. Due' = Due
        BY <3>1 DEF Due
      <3>5. PeerDue' = PeerDue /\ Len(peer.parts) \in Nat
        BY <2>0 DEF PeerDue, FramesOK, Peers
      <3>6. PeerDue' = DueAfter(Control(kind), PeerDue)
        BY <3>5, <2>c DEF DueAfter
      <3>7. PeerDue' \in PlacesDue
        BY <3>3, <3>5, PeerPlace
      <3>8. \E e \in [1..Len(Stream') + 1 -> PlacesDue] : Leads(Stream, e)'
        <4>1. /\ Len(peer.parts) <= Len(peer'.parts) /\ Len(peer'.parts) \in Nat
              /\ \A m \in 1..Len(peer.parts) : peer'.parts[m] = peer.parts[m]
          BY <2>0, <3>5
        <4> QED
          BY <4>1, <2>c, <3>1, <3>3, <3>4, <3>6, <3>7, StreamGrows
      <3> QED
        BY <3>1, <3>2, <3>8 DEF InStep
    <2>9. MessagesWhole'
      BY <1>22, <2>0 DEF MessagesWhole, PeerCloses, PeerSend
    <2> QED
      BY <2>1, <2>2, <2>3, <2>4, <2>5, <2>6, <2>7, <2>8, <2>9, <1>g
  <1>23. ASSUME PeerReads PROVE IInv'
    <2>1. PlacesOK'
      BY <1>23 DEF PlacesOK, ReaderPlaces, CloserPlaces, WriterPlaces,
         PeerReads
    <2>2. FlagsOK'
      BY <1>23 DEF FlagsOK, PeerReads
    <2>3. FramesOK'
      BY <1>23 DEF FramesOK, PeerReads
    <2>4. Writing'
      <3>1. \A p \in Procs : writeMu = p => pc'[p] = pc[p]
        BY <1>23 DEF PlacesOK, Writing, Wants, PeerReads
      <3>2. UNCHANGED <<writeMu, sent, sentClose>>
        BY <1>23 DEF PeerReads
      <3> QED
        BY <3>1, <3>2, WritingStays
    <2>5. Ending'
      BY <1>23 DEF PlacesOK, FlagsOK, Ending, Established, Dead, ReaderPlaces,
         CloserPlaces, WriterPlaces, PeerReads
    <2>6. Reading'
      BY <1>23 DEF PlacesOK, FlagsOK, Reading, Ending, Established,
         ReaderPlaces, CloserPlaces, WriterPlaces, PeerReads
    <2>7. PeerWithinBounds'
      BY <1>23 DEF PeerWithinBounds, PeerReads
    <2>8. InStep'
      <3>1. Spoiled => Spoiled'
        BY <1>23 DEF Spoiled, Established, Dead, PlacesOK, FlagsOK, Reading,
           Ending, ReaderPlaces, CloserPlaces, WriterPlaces, PeerReads
      <3>2. UNCHANGED <<header, in, assembled, received, peer.parts, peer.part>>
        BY <1>23 DEF PeerReads
      <3> QED
        BY <3>1, <3>2, StreamStays
    <2>9. MessagesWhole'
      BY <1>23 DEF MessagesWhole, PeerReads
    <2> QED
      BY <2>1, <2>2, <2>3, <2>4, <2>5, <2>6, <2>7, <2>8, <2>9, <1>g
  <1>24. ASSUME PeerStalls PROVE IInv'
    <2>0. /\ peer' \in Peers /\ peer'.parts = peer.parts /\ peer'.part = peer.part
          /\ peer'.alive = peer.alive
      BY <1>24, PeerFields DEF FramesOK, PeerStalls
    <2>1. PlacesOK'
      BY <1>24 DEF PlacesOK, ReaderPlaces, CloserPlaces, WriterPlaces,
         PeerStalls
    <2>2. FlagsOK'
      BY <1>24 DEF FlagsOK, PeerStalls
    <2>3. FramesOK'
      BY <1>24, <2>0 DEF FramesOK, PeerStalls
    <2>4. Writing'
      <3>1. \A p \in Procs : writeMu = p => pc'[p] = pc[p]
        BY <1>24 DEF PlacesOK, Writing, Wants, PeerStalls
      <3>2. UNCHANGED <<writeMu, sent, sentClose>>
        BY <1>24 DEF PeerStalls
      <3> QED
        BY <3>1, <3>2, WritingStays
    <2>5. Ending'
      BY <1>24, <2>0 DEF PlacesOK, FlagsOK, Ending, Established, Dead,
         ReaderPlaces, CloserPlaces, WriterPlaces, PeerStalls
    <2>6. Reading'
      BY <1>24 DEF PlacesOK, FlagsOK, Reading, Ending, Established,
         ReaderPlaces, CloserPlaces, WriterPlaces, PeerStalls
    <2>7. PeerWithinBounds'
      BY <1>24, <2>0 DEF PeerWithinBounds, PeerStalls
    <2>8. InStep'
      <3>1. Spoiled => Spoiled'
        BY <1>24, <2>0 DEF Spoiled, Established, Dead, PlacesOK, FlagsOK,
           Reading, Ending, ReaderPlaces, CloserPlaces, WriterPlaces,
           PeerStalls
      <3>2. UNCHANGED <<header, in, assembled, received, peer.parts, peer.part>>
        BY <1>24, <2>0 DEF PeerStalls
      <3> QED
        BY <3>1, <3>2, StreamStays
    <2>9. MessagesWhole'
      BY <1>24, <2>0 DEF MessagesWhole, PeerStalls
    <2> QED
      BY <2>1, <2>2, <2>3, <2>4, <2>5, <2>6, <2>7, <2>8, <2>9, <1>g
  <1>25. ASSUME PeerVanishes PROVE IInv'
    <2>0. /\ peer' \in Peers /\ peer'.parts = peer.parts /\ peer'.part = peer.part
          /\ peer'.alive = FALSE
      BY <1>25, PeerFields DEF FramesOK, PeerVanishes
    <2>1. PlacesOK'
      BY <1>25 DEF PlacesOK, ReaderPlaces, CloserPlaces, WriterPlaces,
         PeerVanishes
    <2>2. FlagsOK'
      BY <1>25 DEF FlagsOK, PeerVanishes
    <2>3. FramesOK'
      BY <1>25, <2>0 DEF FramesOK, PeerVanishes
    <2>4. Writing'
      <3>1. \A p \in Procs : writeMu = p => pc'[p] = pc[p]
        BY <1>25 DEF PlacesOK, Writing, Wants, PeerVanishes
      <3>2. UNCHANGED <<writeMu, sent, sentClose>>
        BY <1>25 DEF PeerVanishes
      <3> QED
        BY <3>1, <3>2, WritingStays
    <2>5. Ending'
      BY <1>25, <2>0 DEF PlacesOK, FlagsOK, Ending, Established, Dead,
         ReaderPlaces, CloserPlaces, WriterPlaces, PeerVanishes
    <2>6. Reading'
      BY <1>25 DEF PlacesOK, FlagsOK, Reading, Ending, Established,
         ReaderPlaces, CloserPlaces, WriterPlaces, PeerVanishes
    <2>7. PeerWithinBounds'
      BY <1>25, <2>0 DEF PeerWithinBounds, PeerVanishes
    <2>8. InStep'
      <3>1. Spoiled => Spoiled'
        BY <1>25, <2>0 DEF Spoiled, Established, Dead, PlacesOK, FlagsOK,
           Reading, Ending, ReaderPlaces, CloserPlaces, WriterPlaces,
           PeerVanishes
      <3>2. UNCHANGED <<header, in, assembled, received, peer.parts, peer.part>>
        BY <1>25, <2>0 DEF PeerVanishes
      <3> QED
        BY <3>1, <3>2, StreamStays
    <2>9. MessagesWhole'
      BY <1>25, <2>0 DEF MessagesWhole, PeerVanishes
    <2> QED
      BY <2>1, <2>2, <2>3, <2>4, <2>5, <2>6, <2>7, <2>8, <2>9, <1>g
  <1>26. CASE UNCHANGED vars
    <2> USE <1>26 DEF vars
    <2>1. TypeOK' /\ PeerWithinBounds' /\ MessagesWhole'
      BY DEF PlacesOK, FlagsOK, FramesOK, PeerWithinBounds, MessagesWhole
    <2>2. Writing' /\ Ending' /\ Reading'
      BY DEF Writing, Ending, Reading, Wants, Established
    <2>3. Spoiled => Spoiled'
      BY DEF Spoiled, Established, Dead
    <2>4. InStep'
      BY <2>3, StreamStays
    <2> QED
      BY <2>1, <2>2, <2>4, <1>g
  <1> QED
    BY <1>1, <1>2, <1>3, <1>4, <1>5, <1>6, <1>7, <1>8, <1>9, <1>10, <1>11,
       <1>12, <1>13, <1>14, <1>15, <1>16, <1>17, <1>18, <1>19, <1>20, <1>21,
       <1>22, <1>23, <1>24, <1>25, <1>26
       DEF Next, ReaderStep, WriterStep, CloserStep, PeerStep

\* The inductive invariant holds in every state of every connection.
THEOREM ConnInvariant == SafetySpec => []IInv
  <1> QED
    BY InitIInv, NextIInv, PTL DEF SafetySpec

\* ReadMessage returns the peer's messages whole, in order and without a gap,
\* however they are fragmented and mixed with control frames, and while Close
\* takes frames off the same stream, as long as the wait for the key challenge
\* did not end inside a frame.
THEOREM ConnMessagesWhole == SafetySpec => []MessagesWhole
  <1>1. IInv => MessagesWhole
    BY DEF IInv
  <1> QED
    BY <1>1, ConnInvariant, PTL

\* Whatever the goroutines on a connection are about to write, after a close
\* frame it sends nothing but pongs.
THEOREM ConnNothingAfterClose == SafetySpec => []NothingAfterClose
  <1>1. IInv => NothingAfterClose
    BY DEF IInv, TypeOK, FramesOK, Writing, NothingAfterClose
  <1> QED
    BY <1>1, ConnInvariant, PTL

\* Close drops TCP only when the peer has closed too, is gone or did not answer
\* before the deadline, or the stream was cut inside a frame (Close, readFrame);
\* a dial that fails leaves no socket open.
THEOREM ConnOrderlyEnd == SafetySpec => []OrderlyEnd
  <1>1. IInv => OrderlyEnd
    <2> SUFFICES ASSUME IInv PROVE OrderlyEnd
      OBVIOUS
    <2>1. once = "done" => socket = "closed"
      BY DEF IInv, Ending
    <2> QED
      BY <2>1 DEF IInv, Ending, OrderlyEnd, At
  <1> QED
    BY <1>1, ConnInvariant, PTL
=============================================================================
