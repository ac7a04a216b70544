-------------------------- MODULE IdracSessionProofs --------------------------
(***************************************************************************)
(* Proofs about a Dell console session, for any number of calling          *)
(* goroutines and MountISO calls, and, at the end, about the media channel *)
(* that a mount opens and about the stream of messages that the session    *)
(* reads.  The inductive invariants IInv and KeysIInv are stated in        *)
(* IdracSession, ChannelIInv in MediaChannel and StreamIInv in             *)
(* ConsoleStream.                                                          *)
(***************************************************************************)
EXTENDS IdracSession, MediaChannel, ConsoleStream, TLAPS

\* Whatever report is applied, its key events put down keysyms the keyboard has.
LEMMA PressAllType ==
    ASSUME NEW w \in SUBSET Keysyms, NEW e \in EventLists
    PROVE  PressAll(w, e) \in SUBSET Keysyms
  <1>1. PICK k \in Reports, r \in Reports : e = Apply(k, r)
    BY DEF EventLists
  <1>2. /\ r.keys \subseteq Usages
        /\ r.modifiers \subseteq Modifiers
    BY DEF Reports
  <1>3. \A u \in r.keys : KeysymForHID(u, Shifted(r)) \in Keysyms
    BY <1>2 DEF KeysymForHID, Keysyms
  <1>4. \A u \in r.modifiers : ModifierKeysym(u) \in Keysyms
    BY <1>2 DEF ModifierKeysym, Keysyms
  <1> QED
    BY <1>1, <1>3, <1>4 DEF PressAll, Press, Apply, Up, Down

\* A session whose Connect has just been called satisfies the invariant.
LEMMA InitIInv == Init => IInv
  <1> SUFFICES ASSUME Init PROVE IInv
    OBVIOUS
  <1> USE ActorsAssumption DEF Init, Actors
  <1>1. NoKeys \in Reports /\ NoEvents \in EventLists
    BY DEF NoKeys, Reports, EventLists, NoEvents
  <1>2. TypeOK
    BY <1>1 DEF TypeOK, Stages, Places, Returns
  <1>3. Connecting /\ Departure
    BY DEF Connecting, Departure
  <1>4. MediaHeld
    BY DEF MediaHeld, MediaReachable
  <1> QED
    BY <1>2, <1>3, <1>4 DEF IInv

\* Every step of the session's goroutines, of its callers and of the firmware
\* keeps the invariant.
LEMMA NextIInv == IInv /\ [Next]_vars => IInv'
  <1> SUFFICES ASSUME IInv, [Next]_vars PROVE IInv'
    OBVIOUS
  <1> USE ActorsAssumption DEF IInv, Actors, Goto, webVars, lifeVars, mediaVars,
          inputVars
  <1>0. NoKeys \in Reports /\ NoEvents \in EventLists
    BY DEF NoKeys, Reports, EventLists, NoEvents
  <1>1. ASSUME Login PROVE IInv'
    <2>1. TypeOK'
      <3>1. onBooks' \in BOOLEAN /\ unanswered' \in BOOLEAN
        BY <1>1 DEF TypeOK, Login
      <3>2. stage' \in Stages
        BY <1>1 DEF Stages, Login, ConnectGoto
      <3> QED
        BY <3>1, <3>2, <1>0, <1>1 DEF TypeOK, Login, ConnectGoto
    <2>2. Connecting'
      BY <1>1 DEF Connecting, Login, ConnectGoto
    <2>3. Departure'
      BY <1>1 DEF Connecting, Departure, Login, ConnectGoto
    <2>4. MediaHeld'
      BY <1>1 DEF MediaHeld, MediaReachable, Login, ConnectGoto
    <2> QED
      BY <2>1, <2>2, <2>3, <2>4
  <1>2. ASSUME Seize PROVE IInv'
    <2>1. TypeOK'
      BY <1>0, <1>2 DEF TypeOK, Stages, Places, Seize, ConnectGoto
    <2>2. Connecting'
      BY <1>2 DEF Connecting, Seize, ConnectGoto
    <2>3. Departure'
      BY <1>2 DEF Departure, Seize, ConnectGoto
    <2>4. MediaHeld'
      BY <1>2 DEF MediaHeld, MediaReachable, Seize, ConnectGoto
    <2> QED
      BY <2>1, <2>2, <2>3, <2>4
  <1>3. ASSUME ConsoleTicket PROVE IInv'
    <2>1. TypeOK'
      BY <1>0, <1>3 DEF TypeOK, Stages, Places, ConsoleTicket, ConnectGoto
    <2>2. Connecting'
      BY <1>3 DEF Connecting, ConsoleTicket, ConnectGoto
    <2>3. Departure'
      BY <1>3 DEF Departure, ConsoleTicket, ConnectGoto
    <2>4. MediaHeld'
      BY <1>3 DEF MediaHeld, MediaReachable, ConsoleTicket, ConnectGoto
    <2> QED
      BY <2>1, <2>2, <2>3, <2>4
  <1>4. ASSUME Dial PROVE IInv'
    <2>1. TypeOK'
      BY <1>0, <1>4 DEF TypeOK, Stages, Places, Dial, ConnectGoto
    <2>2. Connecting'
      BY <1>4 DEF Connecting, Dial, ConnectGoto
    <2>3. Departure'
      BY <1>4 DEF Connecting, Departure, Dial, ConnectGoto
    <2>4. MediaHeld'
      BY <1>4 DEF MediaHeld, MediaReachable, Dial, ConnectGoto
    <2> QED
      BY <2>1, <2>2, <2>3, <2>4
  <1>5. ASSUME HandshakeFails PROVE IInv'
    <2>1. TypeOK'
      BY <1>0, <1>5 DEF TypeOK, Stages, Places, HandshakeFails, ConnectGoto
    <2>2. Connecting'
      BY <1>5 DEF Connecting, HandshakeFails, ConnectGoto
    <2>3. Departure'
      BY <1>5 DEF Departure, HandshakeFails, ConnectGoto
    <2>4. MediaHeld'
      BY <1>5 DEF MediaHeld, MediaReachable, HandshakeFails, ConnectGoto
    <2> QED
      BY <2>1, <2>2, <2>3, <2>4
  <1>6. ASSUME HandshakeSucceeds PROVE IInv'
    <2>1. TypeOK'
      BY <1>0, <1>6 DEF TypeOK, Stages, Places, HandshakeSucceeds
    <2>2. Connecting'
      BY <1>6 DEF Connecting, HandshakeSucceeds
    <2>3. Departure'
      BY <1>6 DEF Departure, HandshakeSucceeds
    <2>4. MediaHeld'
      BY <1>6 DEF Connecting, MediaHeld, MediaReachable, HandshakeSucceeds
    <2> QED
      BY <2>1, <2>2, <2>3, <2>4
  <1>7. ASSUME ConnectUndo PROVE IInv'
    <2>1. TypeOK'
      BY <1>0, <1>7 DEF TypeOK, Stages, Places, ConnectUndo, ConnectGoto,
         Logout
    <2>2. Connecting'
      BY <1>7 DEF Connecting, ConnectUndo, ConnectGoto, Logout
    <2>3. Departure'
      BY <1>7 DEF Departure, ConnectUndo, ConnectGoto, Logout
    <2>4. MediaHeld'
      BY <1>7 DEF MediaHeld, MediaReachable, ConnectUndo, ConnectGoto, Logout
    <2> QED
      BY <2>1, <2>2, <2>3, <2>4
  <1>8. ASSUME NEW t \in Threads, NEW r \in Reports, SendKeyboardReport(t, r)
        PROVE IInv'
    <2>1. TypeOK'
      BY <1>0, <1>8 DEF TypeOK, Places, Returns, SendKeyboardReport
    <2>2. Connecting'
      BY <1>8 DEF Connecting, SendKeyboardReport
    <2>3. Departure'
      BY <1>8 DEF Departure, SendKeyboardReport
    <2>4. MediaHeld'
      BY <1>8 DEF MediaHeld, MediaReachable, SendKeyboardReport
    <2> QED
      BY <2>1, <2>2, <2>3, <2>4
  <1>9. ASSUME NEW t \in Threads, NEW u \in Usages, SendKeysym(t, u)
        PROVE IInv'
    <2>1. TypeOK'
      BY <1>0, <1>9 DEF TypeOK, Places, Reports, SendKeysym, Ready
    <2>2. Connecting'
      BY <1>9 DEF Connecting, SendKeysym, Ready
    <2>3. Departure'
      BY <1>9 DEF Departure, SendKeysym, Ready
    <2>4. MediaHeld'
      BY <1>9 DEF MediaHeld, MediaReachable, SendKeysym, Ready
    <2> QED
      BY <2>1, <2>2, <2>3, <2>4
  <1>10. ASSUME NEW t \in Threads, FocusLost(t) PROVE IInv'
    <2>1. TypeOK'
      BY <1>0, <1>10 DEF TypeOK, Places, FocusLost, Ready
    <2>2. Connecting'
      BY <1>10 DEF Connecting, FocusLost, Ready
    <2>3. Departure'
      BY <1>10 DEF Departure, FocusLost, Ready
    <2>4. MediaHeld'
      BY <1>10 DEF MediaHeld, MediaReachable, FocusLost, Ready
    <2> QED
      BY <2>1, <2>2, <2>3, <2>4
  <1>11. ASSUME NEW t \in Threads, Close(t) PROVE IInv'
    <2>1. TypeOK'
      BY <1>0, <1>11 DEF TypeOK, Places, Returns, Close, ReleaseHeldKeys
    <2>2. Connecting'
      BY <1>11 DEF Connecting, Close, ReleaseHeldKeys
    <2>3. Departure'
      BY <1>11 DEF Departure, Close, ReleaseHeldKeys
    <2>4. MediaHeld'
      BY <1>11 DEF MediaHeld, MediaReachable, Close, ReleaseHeldKeys
    <2> QED
      BY <2>1, <2>2, <2>3, <2>4
  <1>12. ASSUME NEW t \in Threads, UnmountISO(t) PROVE IInv'
    <2>1. TypeOK'
      BY <1>0, <1>12 DEF TypeOK, Places, Returns, UnmountISO
    <2>2. Connecting'
      BY <1>12 DEF Connecting, UnmountISO
    <2>3. Departure'
      BY <1>12 DEF Departure, UnmountISO
    <2>4. MediaHeld'
      BY <1>12 DEF MediaHeld, MediaReachable, UnmountISO
    <2> QED
      BY <2>1, <2>2, <2>3, <2>4
  <1>13. ASSUME NEW a \in Actors, ReportReady(a) PROVE IInv'
    <2>1. TypeOK'
      BY <1>0, <1>13 DEF TypeOK, Places, Returns, ReportReady, Ready
    <2>2. Connecting'
      BY <1>13 DEF Connecting, ReportReady, Ready
    <2>3. Departure'
      BY <1>13 DEF TypeOK, Departure, Returns, ReportReady, Ready
    <2>4. MediaHeld'
      BY <1>13 DEF MediaHeld, MediaReachable, ReportReady, Ready
    <2> QED
      BY <2>1, <2>2, <2>3, <2>4
  <1>14. ASSUME NEW a \in Actors, ReportApply(a) PROVE IInv'
    <2>1. TypeOK'
      BY <1>0, <1>14 DEF TypeOK, Places, EventLists, ReportApply
    <2>2. Connecting'
      BY <1>14 DEF Connecting, ReportApply
    <2>3. Departure'
      BY <1>14 DEF Departure, ReportApply
    <2>4. MediaHeld'
      BY <1>14 DEF MediaHeld, MediaReachable, ReportApply
    <2> QED
      BY <2>1, <2>2, <2>3, <2>4
  <1>15. ASSUME NEW a \in Actors, ReportWrite(a) PROVE IInv'
    <2>1. TypeOK'
      BY <1>0, <1>15, PressAllType DEF TypeOK, Places, Returns, ReportWrite
    <2>2. Connecting'
      BY <1>15 DEF Connecting, ReportWrite
    <2>3. Departure'
      BY <1>15 DEF TypeOK, Departure, Returns, ReportWrite
    <2>4. MediaHeld'
      BY <1>15 DEF MediaHeld, MediaReachable, ReportWrite
    <2> QED
      BY <2>1, <2>2, <2>3, <2>4
  <1>16. ASSUME NEW t \in Threads, KeysymDown(t) PROVE IInv'
    <2>1. TypeOK'
      <3>1. pc' \in [Actors -> Places]
        BY <1>16 DEF TypeOK, Places, KeysymDown
      <3>2. report[t].keys \subseteq Usages
        BY <1>16 DEF TypeOK, Reports
      <3>3. \A u \in Usages : KeysymForHID(u, FALSE) \in Keysyms
        BY <1>16 DEF KeysymForHID, Keysyms
      <3>4. TypedKeysyms(t) \subseteq Keysyms
        BY <3>2, <3>3 DEF TypedKeysyms
      <3> QED
        BY <3>1, <3>2, <3>3, <3>4, <1>0, <1>16 DEF TypeOK, KeysymDown
    <2>2. Connecting'
      BY <1>16 DEF Connecting, KeysymDown
    <2>3. Departure'
      BY <1>16 DEF Departure, KeysymDown
    <2>4. MediaHeld'
      BY <1>16 DEF MediaHeld, MediaReachable, KeysymDown
    <2> QED
      BY <2>1, <2>2, <2>3, <2>4
  <1>17. ASSUME NEW t \in Threads, KeysymUp(t) PROVE IInv'
    <2>1. TypeOK'
      BY <1>0, <1>17 DEF TypeOK, Places, KeysymUp
    <2>2. Connecting'
      BY <1>17 DEF Connecting, KeysymUp
    <2>3. Departure'
      BY <1>17 DEF Departure, KeysymUp
    <2>4. MediaHeld'
      BY <1>17 DEF MediaHeld, MediaReachable, KeysymUp
    <2> QED
      BY <2>1, <2>2, <2>3, <2>4
  <1>18. ASSUME NEW t \in Threads, FocusReset(t) PROVE IInv'
    <2>1. TypeOK'
      BY <1>0, <1>18 DEF TypeOK, Places, FocusReset
    <2>2. Connecting'
      BY <1>18 DEF Connecting, FocusReset
    <2>3. Departure'
      BY <1>18 DEF Departure, FocusReset
    <2>4. MediaHeld'
      BY <1>18 DEF MediaHeld, MediaReachable, FocusReset
    <2> QED
      BY <2>1, <2>2, <2>3, <2>4
  <1>19. ASSUME NEW t \in Threads, FocusOut(t) PROVE IInv'
    <2>1. TypeOK'
      BY <1>0, <1>19 DEF TypeOK, Places, FocusOut
    <2>2. Connecting'
      BY <1>19 DEF Connecting, FocusOut
    <2>3. Departure'
      BY <1>19 DEF Departure, FocusOut
    <2>4. MediaHeld'
      BY <1>19 DEF MediaHeld, MediaReachable, FocusOut
    <2> QED
      BY <2>1, <2>2, <2>3, <2>4
  <1>20. ASSUME NEW t \in Threads, CloseMark(t) PROVE IInv'
    <2>1. TypeOK'
      BY <1>0, <1>20 DEF TypeOK, Places, Returns, CloseMark
    <2>2. Connecting'
      BY <1>20 DEF Connecting, CloseMark
    <2>3. Departure'
      BY <1>20 DEF Departure, CloseMark
    <2>4. MediaHeld'
      BY <1>20 DEF MediaHeld, MediaReachable, CloseMark
    <2> QED
      BY <2>1, <2>2, <2>3, <2>4
  <1>21. ASSUME NEW t \in Threads, CloseLeave(t) PROVE IInv'
    <2>1. TypeOK'
      BY <1>0, <1>21 DEF TypeOK, Places, CloseLeave
    <2>2. Connecting'
      BY <1>21 DEF Connecting, CloseLeave
    <2>3. Departure'
      BY <1>21 DEF TypeOK, Connecting, Departure, CloseLeave
    <2>4. MediaHeld'
      BY <1>21 DEF MediaHeld, MediaReachable, CloseLeave
    <2> QED
      BY <2>1, <2>2, <2>3, <2>4
  <1>22. ASSUME NEW t \in Threads, CloseCancel(t) PROVE IInv'
    <2>1. TypeOK'
      BY <1>0, <1>22 DEF TypeOK, Places, CloseCancel
    <2>2. Connecting'
      BY <1>22 DEF Connecting, CloseCancel
    <2>3. Departure'
      BY <1>22 DEF Departure, CloseCancel
    <2>4. MediaHeld'
      BY <1>22 DEF MediaHeld, MediaReachable, CloseCancel
    <2> QED
      BY <2>1, <2>2, <2>3, <2>4
  <1>23. ASSUME NEW t \in Threads, CloseHangUp(t) PROVE IInv'
    <2>1. TypeOK'
      BY <1>0, <1>23 DEF TypeOK, Places, CloseHangUp
    <2>2. Connecting'
      BY <1>23 DEF Connecting, CloseHangUp
    <2>3. Departure'
      BY <1>23 DEF Departure, CloseHangUp
    <2>4. MediaHeld'
      BY <1>23 DEF MediaHeld, MediaReachable, CloseHangUp
    <2> QED
      BY <2>1, <2>2, <2>3, <2>4
  <1>24. ASSUME NEW t \in Threads, CloseLogout(t) PROVE IInv'
    <2>1. TypeOK'
      BY <1>0, <1>24 DEF TypeOK, Places, CloseLogout, Logout
    <2>2. Connecting'
      BY <1>24 DEF Connecting, CloseLogout, Logout
    <2>3. Departure'
      BY <1>24 DEF Departure, CloseLogout, Logout
    <2>4. MediaHeld'
      BY <1>24 DEF MediaHeld, MediaReachable, CloseLogout, Logout
    <2> QED
      BY <2>1, <2>2, <2>3, <2>4
  <1>25. ASSUME NEW t \in Threads, CloseDisconnect(t) PROVE IInv'
    <2>1. TypeOK'
      <3>1. pc' \in [Actors -> Places]
        BY <1>25 DEF TypeOK, Places, CloseDisconnect
      <3> QED
        BY <3>1, <1>0, <1>25 DEF TypeOK, CloseDisconnect
    <2>2. Connecting'
      BY <1>25 DEF Connecting, CloseDisconnect
    <2>3. Departure'
      BY <1>25 DEF Departure, CloseDisconnect
    <2>4. MediaHeld'
      BY <1>25 DEF MediaHeld, MediaReachable, CloseDisconnect
    <2> QED
      BY <2>1, <2>2, <2>3, <2>4
  <1>26. ASSUME NEW t \in Threads, UnmountTake(t) PROVE IInv'
    <2>1. TypeOK'
      BY <1>0, <1>26 DEF TypeOK, Places, UnmountTake, MediaMuFree
    <2>2. Connecting'
      BY <1>26 DEF Connecting, UnmountTake, MediaMuFree
    <2>3. Departure'
      BY <1>26 DEF Departure, UnmountTake, MediaMuFree
    <2>4. MediaHeld'
      BY <1>26 DEF TypeOK, MediaHeld, MediaReachable, UnmountTake, MediaMuFree
    <2> QED
      BY <2>1, <2>2, <2>3, <2>4
  <1>27. ASSUME NEW t \in Threads, UnmountClose(t) PROVE IInv'
    <2>1. TypeOK'
      BY <1>0, <1>27 DEF TypeOK, Places, Returns, UnmountClose
    <2>2. Connecting'
      BY <1>27 DEF Connecting, UnmountClose
    <2>3. Departure'
      BY <1>27 DEF TypeOK, Departure, Returns, UnmountClose
    <2>4. MediaHeld'
      BY <1>27 DEF TypeOK, MediaHeld, MediaReachable, UnmountClose
    <2> QED
      BY <2>1, <2>2, <2>3, <2>4
  <1>28. ASSUME ReadCut PROVE IInv'
    <2>1. TypeOK'
      BY <1>0, <1>28 DEF TypeOK, Places, ReadCut
    <2>2. Connecting'
      BY <1>28 DEF Connecting, ReadCut
    <2>3. Departure'
      BY <1>28 DEF Connecting, Departure, ReadCut
    <2>4. MediaHeld'
      BY <1>28 DEF MediaHeld, MediaReachable, ReadCut
    <2> QED
      BY <2>1, <2>2, <2>3, <2>4
  <1>29. ASSUME ReaderRelease PROVE IInv'
    <2>1. TypeOK'
      BY <1>0, <1>29 DEF TypeOK, Places, Returns, ReaderRelease,
         ReleaseHeldKeys
    <2>2. Connecting'
      BY <1>29 DEF Connecting, ReaderRelease, ReleaseHeldKeys
    <2>3. Departure'
      BY <1>29 DEF Departure, ReaderRelease, ReleaseHeldKeys
    <2>4. MediaHeld'
      BY <1>29 DEF MediaHeld, MediaReachable, ReaderRelease, ReleaseHeldKeys
    <2> QED
      BY <2>1, <2>2, <2>3, <2>4
  <1>30. ASSUME ReaderDown PROVE IInv'
    <2>1. TypeOK'
      <3>1. pc' \in [Actors -> Places]
        BY <1>30 DEF TypeOK, Places, ReaderDown
      <3>2. connected' \in BOOLEAN
        BY <1>30 DEF ReaderDown
      <3>3. UNCHANGED <<after, report, events, keyboard, wire, stage, onBooks,
                         unanswered, heart>>
        BY <1>30 DEF ReaderDown
      <3>4. UNCHANGED <<socket, closed, cancelled, closing, left, lost,
                         mountPc, watchPc, slot, taken, alive>>
        BY <1>30 DEF ReaderDown
      <3> QED
        BY <3>1, <3>2, <3>3, <3>4, <1>0 DEF TypeOK
    <2>2. Connecting'
      BY <1>30 DEF Connecting, ReaderDown
    <2>3. Departure'
      BY <1>30 DEF Departure, ReaderDown
    <2>4. MediaHeld'
      BY <1>30 DEF MediaHeld, MediaReachable, ReaderDown
    <2> QED
      BY <2>1, <2>2, <2>3, <2>4
  <1>31. ASSUME ReaderDrop PROVE IInv'
    <2>1. TypeOK'
      BY <1>0, <1>31 DEF TypeOK, Places, ReaderDrop
    <2>2. Connecting'
      BY <1>31 DEF Connecting, ReaderDrop
    <2>3. Departure'
      BY <1>31 DEF Departure, ReaderDrop
    <2>4. MediaHeld'
      BY <1>31 DEF MediaHeld, MediaReachable, ReaderDrop
    <2> QED
      BY <2>1, <2>2, <2>3, <2>4
  <1>32. ASSUME ReaderEnd PROVE IInv'
    <2>1. TypeOK'
      BY <1>0, <1>32 DEF TypeOK, Places, ReaderEnd
    <2>2. Connecting'
      BY <1>32 DEF Connecting, ReaderEnd
    <2>3. Departure'
      BY <1>32 DEF Departure, ReaderEnd
    <2>4. MediaHeld'
      BY <1>32 DEF MediaHeld, MediaReachable, ReaderEnd
    <2> QED
      BY <2>1, <2>2, <2>3, <2>4
  <1>33. ASSUME ReadStops PROVE IInv'
    <2>1. TypeOK'
      BY <1>0, <1>33 DEF TypeOK, Places, ReadStops
    <2>2. Connecting'
      BY <1>33 DEF Connecting, ReadStops
    <2>3. Departure'
      BY <1>33 DEF Departure, ReadStops
    <2>4. MediaHeld'
      BY <1>33 DEF MediaHeld, MediaReachable, ReadStops
    <2> QED
      BY <2>1, <2>2, <2>3, <2>4
  <1>34. ASSUME ReadFails PROVE IInv'
    <2>1. TypeOK'
      BY <1>0, <1>34 DEF TypeOK, Places, ReadFails
    <2>2. Connecting'
      BY <1>34 DEF Connecting, ReadFails
    <2>3. Departure'
      BY <1>34 DEF Departure, ReadFails
    <2>4. MediaHeld'
      BY <1>34 DEF MediaHeld, MediaReachable, ReadFails
    <2> QED
      BY <2>1, <2>2, <2>3, <2>4
  <1>35. ASSUME PeerVanishes PROVE IInv'
    <2>1. TypeOK'
      BY <1>0, <1>35 DEF TypeOK, Places, PeerVanishes
    <2>2. Connecting'
      BY <1>35 DEF Connecting, PeerVanishes
    <2>3. Departure'
      BY <1>35 DEF Departure, PeerVanishes
    <2>4. MediaHeld'
      BY <1>35 DEF MediaHeld, MediaReachable, PeerVanishes
    <2> QED
      BY <2>1, <2>2, <2>3, <2>4
  <1>36. ASSUME HeartBeatEnds PROVE IInv'
    <2>1. TypeOK'
      BY <1>0, <1>36 DEF TypeOK, Places, HeartBeatEnds
    <2>2. Connecting'
      BY <1>36 DEF Connecting, HeartBeatEnds
    <2>3. Departure'
      BY <1>36 DEF Departure, HeartBeatEnds
    <2>4. MediaHeld'
      BY <1>36 DEF MediaHeld, MediaReachable, HeartBeatEnds
    <2> QED
      BY <2>1, <2>2, <2>3, <2>4
  <1>37. ASSUME NEW m \in Mounts, MountISO(m) PROVE IInv'
    <2>1. TypeOK'
      BY <1>0, <1>37 DEF TypeOK, Places, MountISO, Ready
    <2>2. Connecting'
      BY <1>37 DEF Connecting, MountISO, Ready
    <2>3. Departure'
      BY <1>37 DEF Departure, MountISO, Ready
    <2>4. MediaHeld'
      BY <1>37 DEF MediaHeld, MediaReachable, MountISO, Ready
    <2> QED
      BY <2>1, <2>2, <2>3, <2>4
  <1>38. ASSUME NEW m \in Mounts, MountLock(m) PROVE IInv'
    <2>1. TypeOK'
      BY <1>0, <1>38 DEF TypeOK, Places, MountLock, MediaMuFree
    <2>2. Connecting'
      BY <1>38 DEF Connecting, MountLock, MediaMuFree
    <2>3. Departure'
      BY <1>38 DEF Departure, MountLock, MediaMuFree
    <2>4. MediaHeld'
      BY <1>38 DEF MediaHeld, MediaReachable, MountLock, MediaMuFree
    <2> QED
      BY <2>1, <2>2, <2>3, <2>4
  <1>39. ASSUME NEW m \in Mounts, MountSucceeds(m) PROVE IInv'
    <2>1. TypeOK'
      BY <1>0, <1>39 DEF TypeOK, Places, MountSucceeds
    <2>2. Connecting'
      BY <1>39 DEF Connecting, MountSucceeds
    <2>3. Departure'
      BY <1>39 DEF Departure, MountSucceeds
    <2>4. MediaHeld'
      BY <1>39 DEF TypeOK, MediaHeld, MediaReachable, MountSucceeds
    <2> QED
      BY <2>1, <2>2, <2>3, <2>4
  <1>40. ASSUME NEW m \in Mounts, MountFails(m) PROVE IInv'
    <2>1. TypeOK'
      BY <1>0, <1>40 DEF TypeOK, Places, MountFails
    <2>2. Connecting'
      BY <1>40 DEF Connecting, MountFails
    <2>3. Departure'
      BY <1>40 DEF Departure, MountFails
    <2>4. MediaHeld'
      BY <1>40 DEF MediaHeld, MediaReachable, MountFails
    <2> QED
      BY <2>1, <2>2, <2>3, <2>4
  <1>41. ASSUME NEW m \in Mounts, MediaEndsItself(m) PROVE IInv'
    <2>1. TypeOK'
      BY <1>0, <1>41 DEF TypeOK, Places, MediaEndsItself
    <2>2. Connecting'
      BY <1>41 DEF Connecting, MediaEndsItself
    <2>3. Departure'
      BY <1>41 DEF Departure, MediaEndsItself
    <2>4. MediaHeld'
      BY <1>41 DEF MediaHeld, MediaReachable, MediaEndsItself
    <2> QED
      BY <2>1, <2>2, <2>3, <2>4
  <1>42. ASSUME NEW m \in Mounts, WatchMedia(m) PROVE IInv'
    <2>1. TypeOK'
      BY <1>0, <1>42 DEF TypeOK, Places, WatchMedia
    <2>2. Connecting'
      BY <1>42 DEF Connecting, WatchMedia
    <2>3. Departure'
      BY <1>42 DEF Departure, WatchMedia
    <2>4. MediaHeld'
      BY <1>42 DEF MediaHeld, MediaReachable, WatchMedia
    <2> QED
      BY <2>1, <2>2, <2>3, <2>4
  <1>43. ASSUME NEW m \in Mounts, WatchClear(m) PROVE IInv'
    <2>1. TypeOK'
      BY <1>0, <1>43 DEF TypeOK, Places, WatchClear, MediaMuFree
    <2>2. Connecting'
      BY <1>43 DEF Connecting, WatchClear, MediaMuFree
    <2>3. Departure'
      BY <1>43 DEF Departure, WatchClear, MediaMuFree
    <2>4. MediaHeld'
      BY <1>43 DEF MediaHeld, MediaReachable, WatchClear, MediaMuFree
    <2> QED
      BY <2>1, <2>2, <2>3, <2>4
  <1>44. CASE UNCHANGED vars
    BY <1>44 DEF vars, TypeOK, Connecting, Departure, MediaHeld,
       MediaReachable
  <1> QED
    BY <1>1, <1>2, <1>3, <1>4, <1>5, <1>6, <1>7, <1>8, <1>9, <1>10, <1>11,
       <1>12, <1>13, <1>14, <1>15, <1>16, <1>17, <1>18, <1>19, <1>20, <1>21,
       <1>22, <1>23, <1>24, <1>25, <1>26, <1>27, <1>28, <1>29, <1>30, <1>31,
       <1>32, <1>33, <1>34, <1>35, <1>36, <1>37, <1>38, <1>39, <1>40, <1>41,
       <1>42, <1>43, <1>44
       DEF Next, Connect, Call, ThreadStep, Continue, ReaderStep, MediaDialed

\* The inductive invariant holds in every state of every session.
THEOREM SessionInvariant == SafetySpec => []IInv
  <1> QED
    BY InitIInv, NextIInv, PTL DEF SafetySpec

\* The comments at Logout and in Close: a session closed on a working connection
\* has told the viewers that it is leaving, and neither a closed session nor a
\* Connect that failed keeps its socket, or its web login unless a request went
\* unanswered; for any number of concurrent callers and mounts.
THEOREM SessionNothingOnTheBooks == SafetySpec => []NothingOnTheBooks
  <1>1. IInv => NothingOnTheBooks
    BY DEF IInv, Connecting, Departure, NothingOnTheBooks
  <1> QED
    BY <1>1, SessionInvariant, PTL

\* A media channel that is up is in the slot or in the hands of the UnmountISO
\* that took it: no interleaving of mounts, watchers and unmounts drops one.
THEOREM SessionMediaReachable == SafetySpec => []MediaReachable
  <1>1. IInv => MediaReachable
    BY DEF IInv, MediaHeld
  <1> QED
    BY <1>1, SessionInvariant, PTL

\* The keys that a report puts down and lets go leave no others down than its
\* own, if no keysym depends on shift: releases name what was pressed.
LEMMA KeyEvents ==
    ASSUME Shiftable = {}, NEW k \in Reports, NEW r \in Reports,
           NEW w \in SUBSET Names(k)
    PROVE  PressAll(w, Apply(k, r)) \subseteq Names(r)
  <1>1. \A u, shift : KeysymForHID(u, shift) = <<u, FALSE>>
    BY DEF KeysymForHID
  <1>2. \A keysym \in PressAll(w, Apply(k, r)) :
           \/ \E u \in r.keys \cup r.modifiers : keysym = <<u, FALSE>>
           \/ keysym \in w
    BY <1>1 DEF PressAll, Press, Apply, Up, Down, ModifierKeysym
  <1>3. \A u \in k.keys \cup k.modifiers :
           <<u, FALSE>> \in PressAll(w, Apply(k, r)) =>
               u \in r.keys \cup r.modifiers
    BY <1>1 DEF PressAll, Press, Apply, Up, Down, ModifierKeysym
  <1> QED
    BY <1>2, <1>3 DEF Names

\* A report that holds nothing names no key.
LEMMA KeysLetGo ==
    /\ Names(NoKeys) = {}
    /\ \A r \in Reports : ~Held(r) => r = NoKeys
  BY DEF Names, NoKeys, Held, Reports

\* One caller's steps, and those of the session's goroutines beside it, keep the
\* invariant about the keys.
LEMMA NextKeysIInv ==
    ASSUME NEW t \in Threads, Threads = {t}, Shiftable = {}
    PROVE  KeysIInv /\ [Next]_vars => KeysIInv'
  <1> SUFFICES ASSUME KeysIInv, [Next]_vars PROVE KeysIInv'
    OBVIOUS
  <1> USE ActorsAssumption DEF KeysIInv, IInv, Actors, Goto, webVars, lifeVars,
          mediaVars, inputVars
  <1>0. IInv'
    BY NextIInv
  <1>1. ASSUME Login PROVE ClosingOrder' /\ KeysFollow'
    <2>1. ClosingOrder'
      BY <1>1 DEF ClosingOrder, Login, ConnectGoto
    <2>2. KeysFollow'
      BY <1>1 DEF Connecting, ClosingOrder, KeysFollow, Login, ConnectGoto
    <2> QED
      BY <2>1, <2>2
  <1>2. ASSUME Seize PROVE ClosingOrder' /\ KeysFollow'
    <2>1. ClosingOrder'
      BY <1>2 DEF ClosingOrder, Seize, ConnectGoto
    <2>2. KeysFollow'
      BY <1>2 DEF Connecting, ClosingOrder, KeysFollow, Seize, ConnectGoto
    <2> QED
      BY <2>1, <2>2
  <1>3. ASSUME ConsoleTicket PROVE ClosingOrder' /\ KeysFollow'
    <2>1. ClosingOrder'
      BY <1>3 DEF ClosingOrder, ConsoleTicket, ConnectGoto
    <2>2. KeysFollow'
      BY <1>3 DEF Connecting, ClosingOrder, KeysFollow, ConsoleTicket,
         ConnectGoto
    <2> QED
      BY <2>1, <2>2
  <1>4. ASSUME Dial PROVE ClosingOrder' /\ KeysFollow'
    <2>1. ClosingOrder'
      BY <1>4 DEF ClosingOrder, Dial, ConnectGoto
    <2>2. KeysFollow'
      BY <1>4 DEF Connecting, ClosingOrder, KeysFollow, Dial, ConnectGoto
    <2> QED
      BY <2>1, <2>2
  <1>5. ASSUME HandshakeFails PROVE ClosingOrder' /\ KeysFollow'
    <2>1. ClosingOrder'
      BY <1>5 DEF ClosingOrder, HandshakeFails, ConnectGoto
    <2>2. KeysFollow'
      BY <1>5 DEF Connecting, ClosingOrder, KeysFollow, HandshakeFails,
         ConnectGoto
    <2> QED
      BY <2>1, <2>2
  <1>6. ASSUME HandshakeSucceeds PROVE ClosingOrder' /\ KeysFollow'
    <2>1. ClosingOrder'
      BY <1>6 DEF ClosingOrder, HandshakeSucceeds
    <2>2. KeysFollow'
      BY <1>6 DEF Connecting, ClosingOrder, KeysFollow, HandshakeSucceeds
    <2> QED
      BY <2>1, <2>2
  <1>7. ASSUME ConnectUndo PROVE ClosingOrder' /\ KeysFollow'
    <2>1. ClosingOrder'
      BY <1>7 DEF ClosingOrder, ConnectUndo, ConnectGoto, Logout
    <2>2. KeysFollow'
      BY <1>7 DEF Connecting, ClosingOrder, KeysFollow, ConnectUndo,
         ConnectGoto, Logout
    <2> QED
      BY <2>1, <2>2
  <1>8. ASSUME NEW r \in Reports, SendKeyboardReport(t, r)
        PROVE ClosingOrder' /\ KeysFollow'
    <2>1. ClosingOrder'
      BY <1>8 DEF TypeOK, ClosingOrder, SendKeyboardReport
    <2>2. KeysFollow'
      BY <1>8 DEF ClosingOrder, KeysFollow, SendKeyboardReport
    <2> QED
      BY <2>1, <2>2
  <1>9. ASSUME NEW u \in Usages, SendKeysym(t, u)
        PROVE ClosingOrder' /\ KeysFollow'
    <2>1. ClosingOrder'
      BY <1>9 DEF ClosingOrder, SendKeysym, Ready
    <2>2. KeysFollow'
      BY <1>9 DEF ClosingOrder, KeysFollow, SendKeysym, Ready
    <2> QED
      BY <2>1, <2>2
  <1>10. ASSUME FocusLost(t) PROVE ClosingOrder' /\ KeysFollow'
    <2>1. ClosingOrder'
      BY <1>10 DEF ClosingOrder, FocusLost, Ready
    <2>2. KeysFollow'
      BY <1>10 DEF ClosingOrder, KeysFollow, FocusLost, Ready
    <2> QED
      BY <2>1, <2>2
  <1>11. ASSUME Close(t) PROVE ClosingOrder' /\ KeysFollow'
    <2>1. ClosingOrder'
      BY <1>11 DEF TypeOK, ClosingOrder, Close, ReleaseHeldKeys
    <2>2. KeysFollow'
      BY <1>11, KeysLetGo DEF TypeOK, ClosingOrder, KeysFollow, Close,
         ReleaseHeldKeys
    <2> QED
      BY <2>1, <2>2
  <1>12. ASSUME UnmountISO(t) PROVE ClosingOrder' /\ KeysFollow'
    <2>1. ClosingOrder'
      BY <1>12 DEF TypeOK, ClosingOrder, UnmountISO
    <2>2. KeysFollow'
      BY <1>12 DEF ClosingOrder, KeysFollow, UnmountISO
    <2> QED
      BY <2>1, <2>2
  <1>13. ASSUME NEW a \in Actors, ReportReady(a)
        PROVE ClosingOrder' /\ KeysFollow'
    <2>1. ClosingOrder'
      BY <1>13 DEF ClosingOrder, Returns, ReportReady, Ready
    <2>2. KeysFollow'
      BY <1>13 DEF TypeOK, Connecting, Departure, ClosingOrder, KeysFollow,
         Returns, ReportReady, Ready
    <2> QED
      BY <2>1, <2>2
  <1>14. ASSUME NEW a \in Actors, ReportApply(a)
        PROVE ClosingOrder' /\ KeysFollow'
    <2>1. ClosingOrder'
      BY <1>14 DEF ClosingOrder, ReportApply
    <2>2. KeysFollow'
      <3>1. CASE a = t
        <4>1. ~lost => wire \in SUBSET Names(keyboard)
          BY <3>1, <1>14 DEF KeysFollow, ReportApply
        <4>2. ~lost => PressAll(wire, Apply(keyboard, report[t])) \subseteq
                         Names(report[t])
          BY <4>1, KeyEvents DEF TypeOK
        <4> QED
          BY <3>1, <4>2, <1>14 DEF TypeOK, ClosingOrder, KeysFollow,
             ReportApply
      <3>2. CASE a = reader
        BY <3>2, <1>14 DEF TypeOK, KeysFollow, ReportApply
      <3> QED
        BY <3>1, <3>2
    <2> QED
      BY <2>1, <2>2
  <1>15. ASSUME NEW a \in Actors, ReportWrite(a)
        PROVE ClosingOrder' /\ KeysFollow'
    <2>1. ClosingOrder'
      BY <1>15 DEF ClosingOrder, Returns, ReportWrite
    <2>2. KeysFollow'
      BY <1>15, KeysLetGo DEF TypeOK, Connecting, Departure, ClosingOrder,
         KeysFollow, Returns, ReportWrite
    <2> QED
      BY <2>1, <2>2
  <1>16. ASSUME KeysymDown(t) PROVE ClosingOrder' /\ KeysFollow'
    <2>1. ClosingOrder'
      BY <1>16 DEF ClosingOrder, KeysymDown
    <2>2. KeysFollow'
      BY <1>16 DEF TypeOK, ClosingOrder, KeysFollow, KeysymDown, TypedKeysyms
    <2> QED
      BY <2>1, <2>2
  <1>17. ASSUME KeysymUp(t) PROVE ClosingOrder' /\ KeysFollow'
    <2>1. ClosingOrder'
      BY <1>17 DEF ClosingOrder, KeysymUp
    <2>2. KeysFollow'
      BY <1>17 DEF TypeOK, Connecting, Departure, ClosingOrder, KeysFollow,
         KeysymUp, TypedKeysyms
    <2> QED
      BY <2>1, <2>2
  <1>18. ASSUME FocusReset(t) PROVE ClosingOrder' /\ KeysFollow'
    <2>1. ClosingOrder'
      BY <1>18 DEF ClosingOrder, FocusReset
    <2>2. KeysFollow'
      BY <1>18, KeysLetGo DEF TypeOK, ClosingOrder, KeysFollow, FocusReset
    <2> QED
      BY <2>1, <2>2
  <1>19. ASSUME FocusOut(t) PROVE ClosingOrder' /\ KeysFollow'
    <2>1. ClosingOrder'
      BY <1>19 DEF ClosingOrder, FocusOut
    <2>2. KeysFollow'
      BY <1>19 DEF Connecting, Departure, ClosingOrder, KeysFollow, FocusOut
    <2> QED
      BY <2>1, <2>2
  <1>20. ASSUME CloseMark(t) PROVE ClosingOrder' /\ KeysFollow'
    <2>1. ClosingOrder'
      BY <1>20 DEF TypeOK, ClosingOrder, CloseMark
    <2>2. KeysFollow'
      BY <1>20 DEF ClosingOrder, KeysFollow, CloseMark
    <2> QED
      BY <2>1, <2>2
  <1>21. ASSUME CloseLeave(t) PROVE ClosingOrder' /\ KeysFollow'
    <2>1. ClosingOrder'
      BY <1>21 DEF TypeOK, ClosingOrder, CloseLeave
    <2>2. KeysFollow'
      BY <1>21 DEF ClosingOrder, KeysFollow, CloseLeave
    <2> QED
      BY <2>1, <2>2
  <1>22. ASSUME CloseCancel(t) PROVE ClosingOrder' /\ KeysFollow'
    <2>1. ClosingOrder'
      BY <1>22 DEF ClosingOrder, CloseCancel
    <2>2. KeysFollow'
      BY <1>22 DEF ClosingOrder, KeysFollow, CloseCancel
    <2> QED
      BY <2>1, <2>2
  <1>23. ASSUME CloseHangUp(t) PROVE ClosingOrder' /\ KeysFollow'
    <2>1. ClosingOrder'
      BY <1>23 DEF ClosingOrder, CloseHangUp
    <2>2. KeysFollow'
      BY <1>23 DEF ClosingOrder, KeysFollow, CloseHangUp
    <2> QED
      BY <2>1, <2>2
  <1>24. ASSUME CloseLogout(t) PROVE ClosingOrder' /\ KeysFollow'
    <2>1. ClosingOrder'
      BY <1>24 DEF ClosingOrder, CloseLogout, Logout
    <2>2. KeysFollow'
      BY <1>24 DEF ClosingOrder, KeysFollow, CloseLogout, Logout
    <2> QED
      BY <2>1, <2>2
  <1>25. ASSUME CloseDisconnect(t) PROVE ClosingOrder' /\ KeysFollow'
    <2>1. ClosingOrder'
      BY <1>25 DEF Departure, ClosingOrder, CloseDisconnect
    <2>2. KeysFollow'
      BY <1>25 DEF ClosingOrder, KeysFollow, CloseDisconnect
    <2> QED
      BY <2>1, <2>2
  <1>26. ASSUME UnmountTake(t) PROVE ClosingOrder' /\ KeysFollow'
    <2>1. ClosingOrder'
      BY <1>26 DEF ClosingOrder, UnmountTake, MediaMuFree
    <2>2. KeysFollow'
      BY <1>26 DEF ClosingOrder, KeysFollow, UnmountTake, MediaMuFree
    <2> QED
      BY <2>1, <2>2
  <1>27. ASSUME UnmountClose(t) PROVE ClosingOrder' /\ KeysFollow'
    <2>1. ClosingOrder'
      BY <1>27 DEF ClosingOrder, Returns, UnmountClose
    <2>2. KeysFollow'
      BY <1>27 DEF ClosingOrder, KeysFollow, Returns, UnmountClose
    <2> QED
      BY <2>1, <2>2
  <1>28. ASSUME ReadCut PROVE ClosingOrder' /\ KeysFollow'
    <2>1. ClosingOrder'
      BY <1>28 DEF ClosingOrder, ReadCut
    <2>2. KeysFollow'
      BY <1>28 DEF Connecting, Departure, ClosingOrder, KeysFollow, ReadCut
    <2> QED
      BY <2>1, <2>2
  <1>29. ASSUME ReaderRelease PROVE ClosingOrder' /\ KeysFollow'
    <2>1. ClosingOrder'
      BY <1>29 DEF ClosingOrder, ReaderRelease, ReleaseHeldKeys
    <2>2. KeysFollow'
      BY <1>29 DEF Departure, ClosingOrder, KeysFollow, ReaderRelease,
         ReleaseHeldKeys
    <2> QED
      BY <2>1, <2>2
  <1>30. ASSUME ReaderDown PROVE ClosingOrder' /\ KeysFollow'
    <2>1. ClosingOrder'
      BY <1>30 DEF Departure, ClosingOrder, ReaderDown
    <2>2. KeysFollow'
      BY <1>30 DEF Departure, ClosingOrder, KeysFollow, ReaderDown
    <2> QED
      BY <2>1, <2>2
  <1>31. ASSUME ReaderDrop PROVE ClosingOrder' /\ KeysFollow'
    <2>1. ClosingOrder'
      BY <1>31 DEF ClosingOrder, ReaderDrop
    <2>2. KeysFollow'
      BY <1>31 DEF Departure, ClosingOrder, KeysFollow, ReaderDrop
    <2> QED
      BY <2>1, <2>2
  <1>32. ASSUME ReaderEnd PROVE ClosingOrder' /\ KeysFollow'
    <2>1. ClosingOrder'
      BY <1>32 DEF ClosingOrder, ReaderEnd
    <2>2. KeysFollow'
      BY <1>32 DEF TypeOK, ClosingOrder, KeysFollow, ReaderEnd, TypedKeysyms
    <2> QED
      BY <2>1, <2>2
  <1>33. ASSUME ReadStops PROVE ClosingOrder' /\ KeysFollow'
    <2>1. ClosingOrder'
      BY <1>33 DEF ClosingOrder, ReadStops
    <2>2. KeysFollow'
      BY <1>33 DEF TypeOK, ClosingOrder, KeysFollow, ReadStops, TypedKeysyms
    <2> QED
      BY <2>1, <2>2
  <1>34. ASSUME ReadFails PROVE ClosingOrder' /\ KeysFollow'
    <2>1. ClosingOrder'
      BY <1>34 DEF ClosingOrder, ReadFails
    <2>2. KeysFollow'
      BY <1>34 DEF ClosingOrder, KeysFollow, ReadFails, TypedKeysyms
    <2> QED
      BY <2>1, <2>2
  <1>35. ASSUME PeerVanishes PROVE ClosingOrder' /\ KeysFollow'
    <2>1. ClosingOrder'
      BY <1>35 DEF ClosingOrder, PeerVanishes
    <2>2. KeysFollow'
      BY <1>35 DEF ClosingOrder, KeysFollow, PeerVanishes, TypedKeysyms
    <2> QED
      BY <2>1, <2>2
  <1>36. ASSUME HeartBeatEnds PROVE ClosingOrder' /\ KeysFollow'
    <2>1. ClosingOrder'
      BY <1>36 DEF ClosingOrder, HeartBeatEnds
    <2>2. KeysFollow'
      BY <1>36 DEF ClosingOrder, KeysFollow, HeartBeatEnds, TypedKeysyms
    <2> QED
      BY <2>1, <2>2
  <1>37. ASSUME NEW m \in Mounts, MountISO(m)
        PROVE ClosingOrder' /\ KeysFollow'
    <2>1. ClosingOrder'
      BY <1>37 DEF ClosingOrder, MountISO, Ready
    <2>2. KeysFollow'
      BY <1>37 DEF ClosingOrder, KeysFollow, MountISO, Ready, TypedKeysyms
    <2> QED
      BY <2>1, <2>2
  <1>38. ASSUME NEW m \in Mounts, MountLock(m)
        PROVE ClosingOrder' /\ KeysFollow'
    <2>1. ClosingOrder'
      BY <1>38 DEF ClosingOrder, MountLock, MediaMuFree
    <2>2. KeysFollow'
      BY <1>38 DEF ClosingOrder, KeysFollow, MountLock, MediaMuFree,
         TypedKeysyms
    <2> QED
      BY <2>1, <2>2
  <1>39. ASSUME NEW m \in Mounts, MountSucceeds(m)
        PROVE ClosingOrder' /\ KeysFollow'
    <2>1. ClosingOrder'
      BY <1>39 DEF ClosingOrder, MountSucceeds
    <2>2. KeysFollow'
      BY <1>39 DEF ClosingOrder, KeysFollow, MountSucceeds, TypedKeysyms
    <2> QED
      BY <2>1, <2>2
  <1>40. ASSUME NEW m \in Mounts, MountFails(m)
        PROVE ClosingOrder' /\ KeysFollow'
    <2>1. ClosingOrder'
      BY <1>40 DEF ClosingOrder, MountFails
    <2>2. KeysFollow'
      BY <1>40 DEF ClosingOrder, KeysFollow, MountFails, TypedKeysyms
    <2> QED
      BY <2>1, <2>2
  <1>41. ASSUME NEW m \in Mounts, MediaEndsItself(m)
        PROVE ClosingOrder' /\ KeysFollow'
    <2>1. ClosingOrder'
      BY <1>41 DEF ClosingOrder, MediaEndsItself
    <2>2. KeysFollow'
      BY <1>41 DEF ClosingOrder, KeysFollow, MediaEndsItself, TypedKeysyms
    <2> QED
      BY <2>1, <2>2
  <1>42. ASSUME NEW m \in Mounts, WatchMedia(m)
        PROVE ClosingOrder' /\ KeysFollow'
    <2>1. ClosingOrder'
      BY <1>42 DEF ClosingOrder, WatchMedia
    <2>2. KeysFollow'
      BY <1>42 DEF ClosingOrder, KeysFollow, WatchMedia, TypedKeysyms
    <2> QED
      BY <2>1, <2>2
  <1>43. ASSUME NEW m \in Mounts, WatchClear(m)
        PROVE ClosingOrder' /\ KeysFollow'
    <2>1. ClosingOrder'
      BY <1>43 DEF ClosingOrder, WatchClear, MediaMuFree
    <2>2. KeysFollow'
      BY <1>43 DEF ClosingOrder, KeysFollow, WatchClear, MediaMuFree,
         TypedKeysyms
    <2> QED
      BY <2>1, <2>2
  <1>44. ASSUME UNCHANGED vars PROVE ClosingOrder' /\ KeysFollow'
    <2>1. ClosingOrder'
      BY <1>44 DEF vars, ClosingOrder
    <2>2. TypedKeysyms(t)' = TypedKeysyms(t)
      BY <1>44 DEF vars, TypedKeysyms
    <2>3. KeysFollow'
      BY <1>44, <2>2 DEF vars, KeysFollow
    <2> QED
      BY <2>1, <2>3
  <1> QED
    BY <1>0, <1>1, <1>2, <1>3, <1>4, <1>5, <1>6, <1>7, <1>8, <1>9, <1>10,
       <1>11, <1>12, <1>13, <1>14, <1>15, <1>16, <1>17, <1>18, <1>19, <1>20,
       <1>21, <1>22, <1>23, <1>24, <1>25, <1>26, <1>27, <1>28, <1>29, <1>30,
       <1>31, <1>32, <1>33, <1>34, <1>35, <1>36, <1>37, <1>38, <1>39, <1>40,
       <1>41, <1>42, <1>43, <1>44
       DEF Next, Connect, Call, ThreadStep, Continue, ReaderStep, MediaDialed

\* The comment at releaseHeldKeys: Close "puts every key the session is holding
\* back up".  So it does for a caller that does not overlap its calls, and for
\* keys whose keysym does not depend on shift, however many keys, modifiers and
\* mounts there are and whatever the session's own goroutines do.  With two
\* callers or shifted keysyms it does not.
THEOREM SessionNoKeyStuck ==
    ASSUME NEW t \in Threads, Threads = {t}, Shiftable = {}
    PROVE  SafetySpec => []NoKeyStuck
  <1>1. Init => KeysIInv
    BY InitIInv, KeysLetGo, ActorsAssumption
       DEF Init, KeysIInv, ClosingOrder, KeysFollow, Actors
  <1>2. KeysIInv /\ [Next]_vars => KeysIInv'
    BY NextKeysIInv
  <1>3. KeysIInv => NoKeyStuck
    BY DEF KeysIInv, ClosingOrder, KeysFollow, NoKeyStuck
  <1> QED
    BY <1>1, <1>2, <1>3, PTL DEF SafetySpec

----------------------------------------------------------------------------
(***************************************************************************)
(* The media channel of the session (MediaChannel), for an image, a block  *)
(* and a request of any size and any number of messages.                   *)
(***************************************************************************)

\* A medium has blocks, none of which a trimmed request exceeds.
LEMMA Trimmed ==
    ASSUME NEW first \in Nat, NEW count \in Nat
    PROVE  /\ Blocks \in Nat
           /\ Clamp(first, count) \in Nat
           /\ first + Clamp(first, count) <= Blocks \/ Clamp(first, count) = 0
           /\ Min({InitialBlocks, Blocks}) \in 0..Blocks
  <1>1. Blocks \in Nat
    BY SizesAssumption DEF SizesAssumption, Blocks
  <1>2. PICK b \in Nat : b = Blocks
    BY <1>1
  <1>3. Clamp(first, count) \in Nat
        /\ (first + Clamp(first, count) <= b \/ Clamp(first, count) = 0)
    BY <1>2 DEF Clamp
  <1>4. Min({InitialBlocks, b}) \in 0..b
    BY SizesAssumption DEF SizesAssumption, Min
  <1> QED
    BY <1>2, <1>3, <1>4

\* A handler's work, in which the header of request r is the only header.
Answer(work, r) ==
    /\ work \in Seq(Work)
    /\ \E k \in DOMAIN work :
         /\ work[k].kind = "header" /\ Request(work[k]) = r
         /\ \A j \in DOMAIN work : work[j].kind = "header" => j = k

\* sendBlocks sends one header, before the data of a request for some.
LEMMA BlocksSent ==
    ASSUME NEW first \in Nat, NEW count \in Nat, NEW size \in Nat
    PROVE  /\ Answer(SendBlocks(first, count, size), [first |-> first, count |-> count, size |-> size])
           /\ Answer(<<Plain("inquiry")>> \o SendBlocks(first, count, size),
                     [first |-> first, count |-> count, size |-> size])
  <1> DEFINE r == [first |-> first, count |-> count, size |-> size]
             fetch == Message("fetch", first, count, size)
             header == Message("header", first, count, size)
             data == Message("data", first, count, size)
             inquiry == Plain("inquiry")
  <1>1. /\ fetch \in Work /\ fetch.kind = "fetch"
        /\ header \in Work /\ header.kind = "header" /\ Request(header) = r
        /\ data \in Work /\ data.kind = "data"
        /\ inquiry \in Work /\ inquiry.kind = "inquiry"
    BY DEF Message, Plain, Work, Request
  <1> HIDE DEF fetch, header, data, inquiry, r
  <1>2. Answer(<<header>>, r) /\ Answer(<<fetch, header, data>>, r)
    <2>1. Answer(<<header>>, r)
      BY <1>1 DEF Answer
    <2>2. <<fetch, header, data>> \in Seq(Work)
      BY <1>1
    <2>3. DOMAIN <<fetch, header, data>> = 1..3
      OBVIOUS
    <2>4. <<fetch, header, data>>[2] = header
      OBVIOUS
    <2>5. \A j \in 1..3 : <<fetch, header, data>>[j].kind = "header" => j = 2
      BY <1>1
    <2> QED
      BY <1>1, <2>1, <2>2, <2>3, <2>4, <2>5 DEF Answer
  <1>3. ASSUME NEW s \in Seq(Work), Answer(s, r)
        PROVE  Answer(<<inquiry>> \o s, r)
    <2> DEFINE w == <<inquiry>> \o s
    <2>1. /\ w \in Seq(Work) /\ Len(w) = Len(s) + 1 /\ w[1] = inquiry
          /\ \A i \in 1..Len(s) : w[i + 1] = s[i]
      BY <1>1
    <2>2. PICK k \in 1..Len(s) :
            /\ s[k].kind = "header" /\ Request(s[k]) = r
            /\ \A j \in 1..Len(s) : s[j].kind = "header" => j = k
      BY <1>3 DEF Answer
    <2>3. k + 1 \in DOMAIN w /\ w[k + 1].kind = "header" /\ Request(w[k + 1]) = r
      BY <2>1, <2>2
    <2>4. ASSUME NEW j \in DOMAIN w, w[j].kind = "header" PROVE j = k + 1
      <3>1. j # 1
        BY <1>1, <2>1, <2>4
      <3>2. j - 1 \in 1..Len(s) /\ w[j] = s[j - 1]
        BY <2>1, <3>1
      <3> QED
        BY <2>2, <2>4, <3>2
    <2> QED
      BY <2>1, <2>3, <2>4 DEF Answer
  <1>4. SendBlocks(first, count, size) = IF count = 0 THEN <<header>> ELSE <<fetch, header, data>>
    BY DEF SendBlocks, header, fetch, data
  <1>5. Answer(SendBlocks(first, count, size), r) /\ SendBlocks(first, count, size) \in Seq(Work)
    BY <1>2, <1>4 DEF Answer
  <1>6. Answer(SendBlocks(first, count, size), r) /\ Answer(<<inquiry>> \o SendBlocks(first, count, size), r)
    BY <1>3, <1>5
  <1> QED
    BY <1>6 DEF r, inquiry

\* The channel has just been dialled.
LEMMA ChannelStart == ChannelInit => ChannelIInv
  <1> SUFFICES ASSUME ChannelInit PROVE ChannelIInv
    OBVIOUS
  <1>1. todo = <<>> /\ asked = <<>> /\ answered = <<>> /\ readPc = "read"
    BY DEF ChannelInit
  <1>2. ChannelTypeOK
    <2>1. /\ todo \in Seq(Work) /\ asked \in Seq(Requests) /\ answered \in Seq(Requests)
          /\ \A i \in DOMAIN asked : FALSE
      BY <1>1
    <2>2. {announced, mapped, transport, ctxDone, isoOpen} \subseteq BOOLEAN
      BY DEF ChannelInit
    <2> QED
      BY <2>1, <2>2 DEF ChannelInit, ChannelTypeOK, Teardown
  <1>3. Headers = {}
    BY <1>1 DEF Headers
  <1>4. LastRequest /\ NoneMissing /\ AnswersInOrder
    BY <1>1, <1>3 DEF LastRequest, NoneMissing, AnswersInOrder
  <1> QED
    BY <1>1, <1>2, <1>4 DEF ChannelIInv, TeardownDone

\* What the invariant says of the sequences and the counters.
LEMMA ChannelKept ==
    ASSUME ChannelIInv
    PROVE  /\ ChannelTypeOK /\ TeardownDone /\ LastRequest /\ NoneMissing /\ AnswersInOrder
           /\ todo \in Seq(Work) /\ asked \in Seq(Requests) /\ answered \in Seq(Requests)
           /\ Len(todo) \in Nat /\ Len(asked) \in Nat /\ Len(answered) \in Nat
  BY DEF ChannelIInv, ChannelTypeOK

\* What is appended to a list of requests is its last.
LEMMA Longer ==
    ASSUME NEW S, NEW s \in Seq(S), NEW r \in S
    PROVE  /\ Append(s, r) \in Seq(S) /\ Len(Append(s, r)) = Len(s) + 1
           /\ Append(s, r)[Len(s) + 1] = r
           /\ \A i \in 1..Len(s) : Append(s, r)[i] = s[i]
  OBVIOUS

\* A list with one more request that lies within the medium.
LEMMA MoreAsked ==
    ASSUME ChannelIInv, NEW r \in Requests, r.first + r.count <= Blocks \/ r.count = 0,
           asked' = Append(asked, r)
    PROVE  /\ asked' \in Seq(Requests)
           /\ \A i \in DOMAIN asked' :
                asked'[i].first + asked'[i].count <= Blocks \/ asked'[i].count = 0
  <1>1. /\ asked' \in Seq(Requests) /\ Len(asked') = Len(asked) + 1
        /\ asked'[Len(asked) + 1] = r /\ \A i \in 1..Len(asked) : asked'[i] = asked[i]
    BY Longer, ChannelKept
  <1>2. SUFFICES ASSUME NEW i \in 1..(Len(asked) + 1)
                 PROVE  asked'[i].first + asked'[i].count <= Blocks \/ asked'[i].count = 0
    BY <1>1, ChannelKept
  <1>3. CASE i = Len(asked) + 1
    BY <1>1, <1>3
  <1>4. CASE i # Len(asked) + 1
    <2>1. i \in DOMAIN asked /\ asked'[i] = asked[i]
      BY <1>1, <1>4, ChannelKept
    <2> QED
      BY <2>1, ChannelKept DEF ChannelTypeOK
  <1> QED
    BY <1>3, <1>4

\* A step that leaves the work and the answers alone, and reads on only where it did.
LEMMA ChannelAside ==
    ASSUME ChannelIInv, ChannelTypeOK', TeardownDone', UNCHANGED <<todo, asked, answered>>,
           readPc' \in {"read", "handle"} => readPc' = readPc,
           conn' = "open" => conn = "open"
    PROVE  ChannelIInv'
  <1>1. Headers' = Headers
    BY DEF Headers
  <1> QED
    BY <1>1, ChannelKept DEF ChannelIInv, LastRequest, NoneMissing, AnswersInOrder

\* A message that is no request for blocks, whose handler answers none.
LEMMA ChannelOther ==
    ASSUME ChannelIInv, ChannelTypeOK', readPc = "read", readPc' = "handle",
           UNCHANGED <<asked, answered, conn>>,
           todo' = <<>> \/ \E kind \in {"auth", "eject"} : todo' = <<Plain(kind)>>
    PROVE  ChannelIInv'
  <1>1. Headers' = {}
    BY DEF Headers, Plain, Message
  <1> QED
    BY <1>1, ChannelKept DEF ChannelIInv, LastRequest, NoneMissing, AnswersInOrder,
       TeardownDone

\* A message whose handler answers one request more.
LEMMA ChannelAnswer ==
    ASSUME ChannelIInv, ChannelTypeOK', readPc = "read", readPc' = "handle",
           UNCHANGED <<answered, conn>>, NEW r \in Requests,
           Answer(todo', r), asked' = Append(asked, r)
    PROVE  ChannelIInv'
  <1>1. asked' # <<>> /\ Len(asked') = Len(asked) + 1 /\ asked'[Len(asked')] = r
        /\ \A i \in 1..Len(asked) : asked'[i] = asked[i]
    BY ChannelKept
  <1>2. PICK k \in DOMAIN todo' :
          /\ todo'[k].kind = "header" /\ Request(todo'[k]) = r
          /\ \A j \in DOMAIN todo' : todo'[j].kind = "header" => j = k
    BY DEF Answer
  <1>3. Headers' = {k}
    BY <1>2 DEF Headers
  <1>4. LastRequest'
    BY <1>1, <1>2, <1>3 DEF LastRequest, Request
  <1>5. NoneMissing'
    BY <1>1, <1>3, ChannelKept DEF NoneMissing
  <1>6. AnswersInOrder'
    BY <1>1, ChannelKept DEF AnswersInOrder
  <1> QED
    BY <1>4, <1>5, <1>6 DEF ChannelIInv, TeardownDone

\* The handler's first step is done; the header it may have been was answered.
LEMMA ChannelSent ==
    ASSUME ChannelIInv, ChannelTypeOK', readPc = "handle", readPc' = "handle",
           UNCHANGED <<asked, conn, ctxDone, isoOpen>>, todo # <<>>, todo' = Tail(todo),
           IF todo[1].kind = "header" /\ conn = "open"
           THEN answered' = Append(answered, Request(todo[1]))
           ELSE UNCHANGED answered
    PROVE  ChannelIInv'
  <1> USE ChannelKept
  <1>1. /\ Len(todo') = Len(todo) - 1 /\ Len(todo) >= 1
        /\ \A i \in 1..Len(todo') : todo'[i] = todo[i + 1]
    OBVIOUS
  <1>2. \A i \in 1..Len(todo') : i \in Headers' <=> i + 1 \in Headers
    BY <1>1 DEF Headers
  <1>3. LastRequest'
    <2> SUFFICES ASSUME NEW i \in Headers'
                 PROVE  /\ asked # <<>> /\ Request(todo'[i]) = asked[Len(asked)]
                        /\ \A j \in Headers' : j = i
      BY DEF LastRequest, Request
    <2>1. i \in 1..Len(todo') /\ i + 1 \in Headers
      BY <1>1, <1>2 DEF Headers
    <2>2. \A j \in Headers' : j \in 1..Len(todo') /\ j + 1 \in Headers
      BY <1>1, <1>2 DEF Headers
    <2>3. todo'[i] = todo[i + 1]
      BY <1>1, <2>1
    <2>4. /\ asked # <<>> /\ Request(todo[i + 1]) = asked[Len(asked)]
          /\ \A j \in Headers : j = i + 1
      BY <2>1 DEF LastRequest
    <2>5. ASSUME NEW j \in Headers' PROVE j = i
      <3>1. j \in 1..Len(todo') /\ j + 1 = i + 1
        BY <2>2, <2>4, <2>5
      <3> QED
        BY <1>1, <2>1, <3>1
    <2> QED
      BY <2>3, <2>4, <2>5 DEF Request
  <1>4. CASE todo[1].kind = "header"
    <2>1. 1 \in Headers
      BY <1>1, <1>4 DEF Headers
    <2>2. Headers' = {}
      <3>1. \A j \in Headers' : j \in 1..Len(todo') /\ j + 1 \in Headers
        BY <1>1, <1>2 DEF Headers
      <3>2. \A j \in Headers : j = 1
        BY <2>1 DEF LastRequest
      <3> QED
        BY <3>1, <3>2
    <2>3. asked # <<>> /\ Request(todo[1]) = asked[Len(asked)]
      BY <2>1 DEF LastRequest
    <2>4. CASE conn = "open"
      <3>1. answered' = Append(answered, asked[Len(asked)]) /\ Len(answered) = Len(asked) - 1
        BY <1>4, <2>1, <2>3, <2>4 DEF NoneMissing
      <3>2. /\ Len(answered') = Len(asked) /\ answered'[Len(asked)] = asked[Len(asked)]
            /\ \A i \in 1..Len(answered) : answered'[i] = answered[i]
        BY <2>3, <3>1
      <3>3. AnswersInOrder'
        BY <3>1, <3>2 DEF AnswersInOrder
      <3>4. NoneMissing'
        BY <2>2, <3>2 DEF NoneMissing
      <3> QED
        BY <1>3, <3>3, <3>4 DEF ChannelIInv, TeardownDone
    <2>5. CASE conn # "open"
      BY <1>3, <1>4, <2>5 DEF ChannelIInv, TeardownDone, NoneMissing, AnswersInOrder
    <2> QED
      BY <2>4, <2>5
  <1>5. CASE todo[1].kind # "header"
    <2>1. Headers # {} => Headers' # {}
      <3>1. SUFFICES ASSUME NEW j \in Headers PROVE Headers' # {}
        OBVIOUS
      <3>2. j \in 1..Len(todo) /\ j # 1
        BY <1>5 DEF Headers
      <3>3. j - 1 \in 1..Len(todo') /\ (j - 1) + 1 = j
        BY <1>1, <3>2
      <3> QED
        BY <1>2, <3>1, <3>3
    <2>2. Headers' # {} => Headers # {}
      BY <1>1, <1>2 DEF Headers
    <2>3. NoneMissing'
      BY <1>5, <2>1, <2>2 DEF NoneMissing
    <2> QED
      BY <1>3, <1>5, <2>3 DEF ChannelIInv, TeardownDone, AnswersInOrder
  <1> QED
    BY <1>4, <1>5

\* The invariant is inductive.
LEMMA ChannelStep == ChannelIInv /\ [ChannelNext]_channelVars => ChannelIInv'
  <1> SUFFICES ASSUME ChannelIInv, [ChannelNext]_channelVars PROVE ChannelIInv'
    OBVIOUS
  <1> USE DEF flags, image, loopVars, bounds
  <1>0. /\ readPc \in {"read", "handle", "done"} \cup Teardown
        /\ fate \in {"nil", "error"} /\ todo \in Seq(Work)
        /\ asked \in Seq(Requests) /\ answered \in Seq(Requests)
        /\ announced \in BOOLEAN /\ mapped \in BOOLEAN /\ transport \in BOOLEAN
        /\ ctxDone \in BOOLEAN /\ isoOpen \in BOOLEAN
        /\ delivered \in Nat /\ fetched \in Nat
    BY ChannelKept DEF ChannelTypeOK
  <1>1. ASSUME NEW first \in Starts, NEW count \in Counts, NEW blockSize \in BlockSizes,
               ReceiveRead(first, count, blockSize)
        PROVE  ChannelIInv'
    <2> DEFINE n == Clamp(first, count)
               size == IF blockSize = 0 THEN CdBlock ELSE blockSize
               r == [first |-> first, count |-> n, size |-> size]
    <2>1. first \in Nat /\ count \in Nat /\ size \in Nat
      BY SizesAssumption DEF SizesAssumption
    <2>2. n \in Nat /\ (first + n <= Blocks \/ n = 0)
      BY <2>1, Trimmed
    <2>3. readPc = "read" /\ readPc' = "handle" /\ UNCHANGED <<answered, conn>>
      BY <1>1 DEF ReceiveRead, Receive, Handle
    <2>4. CASE todo' = <<>> /\ UNCHANGED asked
      <3>1. ChannelTypeOK'
        BY <1>1, <2>4, <1>0, ChannelKept DEF ReceiveRead, Receive, Handle, ChannelTypeOK
      <3> QED
        BY <2>3, <2>4, <3>1, ChannelOther
    <2>5. CASE todo' = SendBlocks(first, n, size) /\ asked' = Append(asked, r)
      <3>1. r \in Requests /\ Answer(todo', r)
        BY <2>1, <2>2, <2>5, BlocksSent DEF Requests
      <3>2. todo' \in Seq(Work)
        BY <3>1 DEF Answer
      <3>3. /\ asked' \in Seq(Requests)
            /\ \A i \in DOMAIN asked' :
                 asked'[i].first + asked'[i].count <= Blocks \/ asked'[i].count = 0
        BY <2>2, <2>5, <3>1, MoreAsked
      <3>4. ChannelTypeOK'
        BY <1>1, <1>0, <2>3, <3>2, <3>3, ChannelKept DEF ReceiveRead, Receive, Handle,
           ChannelTypeOK
      <3> QED
        BY <2>3, <2>5, <3>1, <3>4, ChannelAnswer
    <2> QED
      BY <1>1, <2>4, <2>5 DEF ReceiveRead, Handle
  <1>2. CASE ReceiveConnected
    <2>1. readPc = "read" /\ readPc' = "handle" /\ UNCHANGED <<answered, conn>>
      BY <1>2 DEF ReceiveConnected, OtherMessage, Receive, Handle, AnnounceMedium
    <2>2. CASE announced /\ Handle(<<>>, "nil") /\ UNCHANGED asked
      <3>1. ChannelTypeOK'
        BY <1>2, <2>2, <1>0, ChannelKept DEF ReceiveConnected, OtherMessage, Receive,
           Handle, ChannelTypeOK
      <3> QED
        BY <2>1, <2>2, <3>1, ChannelOther DEF Handle
    <2>3. CASE AnnounceMedium
      <3> DEFINE n == Min({InitialBlocks, Blocks})
                 r == [first |-> 0, count |-> n, size |-> CdBlock]
      <3>1. n \in Nat /\ 0 + n <= Blocks
        <4>1. Blocks \in Nat /\ n \in 0..Blocks
          BY 0 \in Nat, Trimmed
        <4> QED
          BY <4>1
      <3>2. todo' = <<Plain("inquiry")>> \o SendBlocks(0, n, CdBlock) /\ asked' = Append(asked, r)
            /\ fate' = "nil"
        BY <2>3 DEF AnnounceMedium, Handle
      <3>3. r \in Requests /\ Answer(todo', r)
        BY <3>1, <3>2, BlocksSent, SizesAssumption DEF Requests, SizesAssumption
      <3>4. todo' \in Seq(Work)
        BY <3>3 DEF Answer
      <3>5. /\ asked' \in Seq(Requests)
            /\ \A i \in DOMAIN asked' :
                 asked'[i].first + asked'[i].count <= Blocks \/ asked'[i].count = 0
        BY <3>1, <3>2, <3>3, MoreAsked
      <3>6. ChannelTypeOK'
        BY <1>2, <1>0, <2>1, <3>2, <3>4, <3>5, ChannelKept DEF ReceiveConnected,
           OtherMessage, Receive, ChannelTypeOK
      <3> QED
        BY <2>1, <3>2, <3>3, <3>6, ChannelAnswer
    <2> QED
      BY <1>2, <2>2, <2>3 DEF ReceiveConnected
  <1>3. ASSUME \/ ReceiveAuth \/ ReceiveEject \/ ReceiveShort
               \/ \E status \in {"mapped", "ejected", "fatal", "other"} : ReceiveStatus(status)
        PROVE  ChannelIInv'
    <2>1. /\ readPc = "read" /\ readPc' = "handle" /\ UNCHANGED <<asked, answered, conn>>
          /\ todo' = <<>> \/ \E kind \in {"auth", "eject"} : todo' = <<Plain(kind)>>
      BY <1>3 DEF ReceiveAuth, ReceiveEject, ReceiveShort, ReceiveStatus, OtherMessage,
         Receive, Handle
    <2>2. todo' \in Seq(Work)
      <3>1. \A kind \in {"auth", "eject"} : Plain(kind) \in Work
        BY DEF Plain, Message, Work
      <3>2. \A w \in Work : <<w>> \in Seq(Work)
        OBVIOUS
      <3>3. <<>> \in Seq(Work)
        OBVIOUS
      <3> QED
        BY <2>1, <3>1, <3>2, <3>3
    <2>3. fate' \in {"nil", "error"} /\ mapped' \in BOOLEAN
      BY <1>0, <1>3 DEF ReceiveAuth, ReceiveEject, ReceiveShort, ReceiveStatus,
         OtherMessage, Receive, Handle
    <2>4. UNCHANGED <<announced, transport, beatPc, closePc, ctxDone, isoOpen, delivered, fetched>>
      BY <1>3 DEF ReceiveAuth, ReceiveEject, ReceiveShort, ReceiveStatus, OtherMessage
    <2>5. ChannelTypeOK'
      BY <1>0, <2>1, <2>2, <2>3, <2>4, ChannelKept DEF ChannelTypeOK
    <2> QED
      BY <2>1, <2>5, ChannelOther
  <1>4. CASE ReceiveFails \/ SendNextFails \/ HandleReturns
    <2>1. ChannelTypeOK'
      BY <1>0, <1>4, ChannelKept DEF ReceiveFails, SendNextFails, HandleReturns,
         ChannelTypeOK, Teardown
    <2>2. TeardownDone'
      BY <1>4, ChannelKept DEF ReceiveFails, SendNextFails, HandleReturns, TeardownDone
    <2>3. CASE readPc' = "read"
      <3>1. todo = <<>> /\ readPc = "handle" /\ UNCHANGED <<todo, asked, answered, conn>>
        BY <1>4, <2>3 DEF ReceiveFails, SendNextFails, HandleReturns
      <3>2. Headers = {} /\ Headers' = {}
        BY <3>1 DEF Headers
      <3>3. NoneMissing' /\ AnswersInOrder' /\ LastRequest'
        BY <2>3, <3>1, <3>2, ChannelKept DEF NoneMissing, AnswersInOrder, LastRequest
      <3> QED
        BY <2>1, <2>2, <3>3 DEF ChannelIInv
    <2>4. CASE readPc' # "read"
      <3>1. readPc' = "cancel" /\ UNCHANGED <<todo, asked, answered, conn>>
        BY <1>4, <2>4 DEF ReceiveFails, SendNextFails, HandleReturns
      <3> QED
        BY <2>1, <2>2, <3>1, ChannelAside
    <2> QED
      BY <2>3, <2>4
  <1>5. CASE Fetch
    <2>1. /\ readPc = "handle" /\ todo # <<>> /\ todo[1].kind = "fetch"
          /\ UNCHANGED <<asked, answered, conn, ctxDone, isoOpen, mapped, transport>>
      BY <1>5 DEF Fetch
    <2>2. todo[1] \in Work /\ Tail(todo) \in Seq(Work)
      BY <1>0, <2>1
    <2>3. CASE todo' = Tail(todo) /\ UNCHANGED readPc
      <3>1. todo[1].count * todo[1].size \in Nat
        BY <2>2, SizesAssumption DEF SizesAssumption, Work
      <3>2. fetched' \in Nat
        BY <1>0, <1>5, <3>1 DEF Fetch
      <3>3. ChannelTypeOK'
        BY <1>0, <1>5, <2>1, <2>2, <2>3, <3>2, ChannelKept DEF Fetch, ChannelTypeOK
      <3> QED
        BY <2>1, <2>3, <3>3, ChannelSent
    <2>4. CASE readPc' = "cancel" /\ UNCHANGED <<todo, fetched>>
      <3>1. ChannelTypeOK'
        BY <1>0, <1>5, <2>4, ChannelKept DEF Fetch, ChannelTypeOK, Teardown
      <3>2. TeardownDone'
        BY <2>1, <2>4, ChannelKept DEF TeardownDone
      <3> QED
        BY <2>1, <2>4, <3>1, <3>2, ChannelAside
    <2> QED
      BY <1>5, <2>3, <2>4 DEF Fetch
  <1>6. CASE SendNext
    <2>1. /\ readPc = "handle" /\ readPc' = "handle" /\ todo # <<>> /\ todo' = Tail(todo)
          /\ Sent(todo[1]) /\ UNCHANGED <<asked, conn, ctxDone, isoOpen>>
      BY <1>6 DEF SendNext
    <2>2. todo[1] \in Work /\ Tail(todo) \in Seq(Work)
      BY <1>0, <2>1
    <2>3. IF todo[1].kind = "header" /\ conn = "open"
          THEN answered' = Append(answered, Request(todo[1])) ELSE UNCHANGED answered
      BY <2>1 DEF Sent
    <2>4. answered' \in Seq(Requests)
      <3>1. Request(todo[1]) \in Requests
        BY <2>2 DEF Request, Work, Requests
      <3> QED
        BY <1>0, <2>3, <3>1, Longer
    <2>5. delivered' \in Nat
      <3>1. todo[1].count * todo[1].size \in Nat
        BY <2>2, SizesAssumption DEF SizesAssumption, Work
      <3> QED
        BY <1>0, <1>6, <3>1 DEF SendNext
    <2>6. mapped' \in BOOLEAN
      BY <1>6 DEF SendNext
    <2>7. UNCHANGED <<fate, beatPc, closePc, announced, transport, fetched>>
      BY <1>6 DEF SendNext
    <2>8. ChannelTypeOK'
      BY <1>0, <2>1, <2>2, <2>4, <2>5, <2>6, <2>7, ChannelKept DEF ChannelTypeOK
    <2> QED
      BY <2>1, <2>3, <2>8, ChannelSent
  <1>7. CASE ReaderTeardown
    <2>1. /\ UNCHANGED <<todo, asked, answered, announced, delivered, fetched, fate, beatPc, closePc>>
          /\ ctxDone' = (ctxDone \/ readPc = "cancel")
          /\ conn' = IF readPc = "hangUp" THEN "closed" ELSE conn
          /\ isoOpen' = (isoOpen /\ readPc # "dropISO")
          /\ transport' = (transport /\ readPc # "flagsDown")
          /\ mapped' = (mapped /\ readPc # "flagsDown")
      BY <1>7 DEF ReaderTeardown, TeardownStep
    <2>2. \/ readPc = "cancel" /\ readPc' = "hangUp"
          \/ readPc = "hangUp" /\ readPc' = "dropISO"
          \/ readPc = "dropISO" /\ readPc' = "flagsDown"
          \/ readPc = "flagsDown" /\ readPc' = "done"
      BY <1>7 DEF ReaderTeardown, Teardown, After
    <2>3. ctxDone' \in BOOLEAN /\ isoOpen' \in BOOLEAN /\ transport' \in BOOLEAN /\ mapped' \in BOOLEAN
      BY <2>1
    <2>4. ChannelTypeOK'
      BY <1>0, <2>1, <2>2, <2>3, ChannelKept DEF ChannelTypeOK, Teardown
    <2>5. TeardownDone'
      BY <2>1, <2>2, ChannelKept DEF TeardownDone
    <2> QED
      BY <2>1, <2>2, <2>4, <2>5, ChannelAside
  <1>8. CASE CloseTeardown
    <2>1. /\ UNCHANGED <<readPc, todo, asked, answered, announced, delivered, fetched, fate, beatPc>>
          /\ ctxDone' = (ctxDone \/ closePc = "cancel")
          /\ conn' = IF closePc = "hangUp" THEN "closed" ELSE conn
          /\ isoOpen' = (isoOpen /\ closePc # "dropISO")
          /\ transport' = (transport /\ closePc # "flagsDown")
          /\ mapped' = (mapped /\ closePc # "flagsDown")
      BY <1>8 DEF CloseTeardown, TeardownStep
    <2>2. closePc' \in {"hangUp", "dropISO", "flagsDown", "returned"}
      BY <1>8 DEF CloseTeardown, Teardown, After
    <2>3. ctxDone' \in BOOLEAN /\ isoOpen' \in BOOLEAN /\ transport' \in BOOLEAN /\ mapped' \in BOOLEAN
      BY <2>1
    <2>4. ChannelTypeOK'
      BY <1>0, <2>1, <2>2, <2>3, ChannelKept DEF ChannelTypeOK, Teardown
    <2>5. TeardownDone'
      BY <2>1, ChannelKept DEF TeardownDone
    <2> QED
      BY <2>1, <2>4, <2>5, ChannelAside
  <1>9. CASE ChannelClose \/ CloseSends \/ HeartBeat \/ BeatLoopEnds \/ PeerGone
    <2>1. UNCHANGED <<readPc, todo, asked, fate, announced, mapped, transport, ctxDone, isoOpen,
                      delivered, fetched>>
      BY <1>9 DEF ChannelClose, CloseSends, HeartBeat, BeatLoopEnds, PeerGone
    <2>2. UNCHANGED answered
      BY <1>9 DEF ChannelClose, CloseSends, HeartBeat, BeatLoopEnds, PeerGone, Sent,
         Plain, Message
    <2>3. /\ conn' = conn \/ (conn = "open" /\ conn' = "dead")
          /\ beatPc' \in {"ticking", "done"}
          /\ closePc' \in {"idle", "eject", "leave", "returned"} \cup Teardown
      BY <1>9, ChannelKept DEF ChannelClose, CloseSends, HeartBeat, BeatLoopEnds,
         PeerGone, ChannelTypeOK, Teardown
    <2>4. ChannelTypeOK'
      BY <2>1, <2>2, <2>3, ChannelKept DEF ChannelTypeOK
    <2>5. TeardownDone'
      BY <2>1, <2>3, ChannelKept DEF TeardownDone
    <2> QED
      BY <2>1, <2>2, <2>3, <2>4, <2>5, ChannelAside
  <1>10. CASE UNCHANGED channelVars
    <2>1. ChannelTypeOK' /\ TeardownDone'
      BY <1>10, ChannelKept DEF channelVars, ChannelTypeOK, TeardownDone
    <2> QED
      BY <1>10, <2>1, ChannelAside DEF channelVars
  <1> QED
    BY <1>1, <1>2, <1>3, <1>4, <1>5, <1>6, <1>7, <1>8, <1>9, <1>10 DEF ChannelNext

\* The invariant holds in every state of the media channel.
THEOREM ChannelInvariant == ChannelSafetySpec => []ChannelIInv
  BY ChannelStart, ChannelStep, PTL DEF ChannelSafetySpec

\* When the channel reports that it is done, neither a message that was handled while
\* Close tore it down nor a lost peer has left anything of it up.
THEOREM ChannelNothingUpWhenDone == ChannelSafetySpec => []NothingUpWhenDone
  <1>1. ChannelIInv => NothingUpWhenDone
    BY DEF ChannelIInv, TeardownDone, NothingUpWhenDone
  <1> QED
    BY <1>1, ChannelInvariant, PTL

\* The controller gets an answer to each of its requests in their order, whatever the
\* sizes of the medium, of a block and of a request.
THEOREM ChannelAnswersInOrder == ChannelSafetySpec => []AnswersInOrder
  <1>1. ChannelIInv => AnswersInOrder
    BY DEF ChannelIInv
  <1> QED
    BY <1>1, ChannelInvariant, PTL

----------------------------------------------------------------------------
(***************************************************************************)
(* How the session reads its console (ConsoleStream), for messages of any  *)
(* sizes, a buffer of any size and however the stream is cut into          *)
(* WebSocket messages.                                                     *)
(***************************************************************************)

\* Where the RFB messages start and end.
LEMMA Marks ==
    /\ HandshakeLen \in Nat /\ HandshakeLen > 0
    /\ Len(Offsets) \in Nat /\ Len(Offsets) >= 2 /\ Messages = 1 .. Len(Offsets) - 1
    /\ \A k \in 1 .. Len(Offsets) : Offsets[k] \in Nat
    /\ \A i, j \in 1 .. Len(Offsets) : i < j => Offsets[i] < Offsets[j]
    /\ \A k \in 1 .. Len(Offsets) : HandshakeLen < Offsets[k] /\ Offsets[k] <= LastByte + 1
    /\ Offsets[1] = HandshakeLen + 1 /\ Offsets[Len(Offsets)] = LastByte + 1
    /\ LastByte \in Nat /\ HandshakeLen <= LastByte
  <1>1. /\ HandshakeLen \in Nat /\ HandshakeLen > 0
        /\ Offsets \in Seq(Nat) /\ Kinds \in Seq({"update", "other"}) /\ Kinds # <<>>
        /\ Len(Offsets) = Len(Kinds) + 1 /\ Offsets[1] = HandshakeLen + 1
        /\ \A i, j \in DOMAIN Offsets : i < j => Offsets[i] < Offsets[j]
    BY StreamAssumption DEF StreamAssumption
  <1>2. /\ Len(Offsets) \in Nat /\ Len(Offsets) >= 2 /\ Messages = 1 .. Len(Offsets) - 1
        /\ DOMAIN Offsets = 1 .. Len(Offsets)
    BY <1>1 DEF Messages
  <1>3. \A k \in 1 .. Len(Offsets) : Offsets[k] \in Nat
    BY <1>1, <1>2
  <1>4. \A i, j \in 1 .. Len(Offsets) : i < j => Offsets[i] < Offsets[j]
    BY <1>1, <1>2
  <1>5. LastByte = Offsets[Len(Offsets)] - 1
    BY DEF LastByte
  <1>6. ASSUME NEW k \in 1 .. Len(Offsets)
        PROVE  HandshakeLen < Offsets[k] /\ Offsets[k] <= LastByte + 1
    <2>1. k = 1 \/ Offsets[1] < Offsets[k]
      BY <1>2, <1>4
    <2>2. k = Len(Offsets) \/ Offsets[k] < Offsets[Len(Offsets)]
      <3> DEFINE m == Len(Offsets)
      <3>0. m \in Nat /\ m >= 2 /\ k \in 1 .. m
        BY <1>2
      <3> HIDE DEF m
      <3>1. m \in 1 .. m /\ (k = m \/ k < m)
        BY <3>0
      <3> QED
        BY <1>4, <3>1 DEF m
    <2>3. Offsets[k] \in Nat /\ Offsets[Len(Offsets)] \in Nat
      BY <1>2, <1>3
    <2> QED
      BY <1>1, <1>5, <2>1, <2>2, <2>3
  <1>7. Offsets[Len(Offsets)] \in Nat /\ HandshakeLen < Offsets[Len(Offsets)]
    BY <1>2, <1>3, <1>6
  <1> QED
    BY <1>1, <1>2, <1>3, <1>4, <1>5, <1>6, <1>7

\* Of two messages the one that starts later is the later one.
LEMMA Later ==
    ASSUME NEW i \in 1 .. Len(Offsets), NEW j \in 1 .. Len(Offsets)
    PROVE  /\ Offsets[i] < Offsets[j] <=> i < j
           /\ Offsets[i] = Offsets[j] => i = j
  <1>1. Offsets[i] \in Nat /\ Offsets[j] \in Nat
    BY Marks
  <1>2. /\ i < j => Offsets[i] < Offsets[j]
        /\ j < i => Offsets[j] < Offsets[i]
    BY Marks
  <1> QED
    BY <1>1, <1>2, Marks

\* The two parts into which a sequence is cut.
LEMMA Cut ==
    ASSUME NEW S, NEW s \in Seq(S), NEW n \in 0 .. Len(s)
    PROVE  /\ SubSeq(s, 1, n) \in Seq(S) /\ Len(SubSeq(s, 1, n)) = n
           /\ \A i \in 1 .. n : SubSeq(s, 1, n)[i] = s[i]
           /\ SubSeq(s, n + 1, Len(s)) \in Seq(S)
           /\ Len(SubSeq(s, n + 1, Len(s))) = Len(s) - n
           /\ \A i \in 1 .. Len(s) - n : SubSeq(s, n + 1, Len(s))[i] = s[n + i]
  OBVIOUS

\* Two sequences, one behind the other.
LEMMA Joined ==
    ASSUME NEW S, NEW s \in Seq(S), NEW t \in Seq(S)
    PROVE  /\ s \o t \in Seq(S) /\ Len(s \o t) = Len(s) + Len(t)
           /\ \A i \in 1 .. Len(s) : (s \o t)[i] = s[i]
           /\ \A i \in 1 .. Len(t) : (s \o t)[Len(s) + i] = t[i]
  OBVIOUS

\* A chunk of the stream.
LEMMA Chunked ==
    ASSUME NEW n \in Nat, emitted \in Nat, emitted + n <= LastByte, LastByte \in Nat
    PROVE  /\ Chunk(n) \in Seq(0 .. LastByte) /\ Len(Chunk(n)) = n
           /\ \A i \in 1 .. n : Chunk(n)[i] = emitted + i
  BY DEF Chunk

\* What the invariant says of the sequences.
LEMMA StreamKept ==
    ASSUME Clear
    PROVE  /\ StreamTypeOK /\ InOrder /\ Handled /\ Place /\ Declared /\ Sought
           /\ consumed \in Seq(0 .. LastByte) /\ buffered \in Seq(0 .. LastByte)
           /\ pending \in Seq(0 .. LastByte)
           /\ Len(consumed) \in Nat /\ Len(buffered) \in Nat /\ Len(pending) \in Nat
           /\ emitted \in 0 .. LastByte /\ need \in Nat /\ current \in Messages
           /\ Len(consumed) + Len(buffered) + Len(pending) = emitted
           /\ phase = "shake" => ~owesKey
           /\ handled = controls
  BY DEF Clear, StreamTypeOK, InOrder, Handled

\* The numbers of the state, and the end of the handshake and of the stream.
LEMMA StreamNumbers ==
    ASSUME Clear
    PROVE  /\ emitted \in Nat /\ emitted <= LastByte /\ need \in Nat
           /\ LastByte \in Nat /\ HandshakeLen \in Nat
           /\ HandshakeLen > 0 /\ HandshakeLen <= LastByte
           /\ Len(consumed) \in Nat /\ Len(buffered) \in Nat /\ Len(pending) \in Nat
           /\ Len(consumed) + Len(buffered) + Len(pending) = emitted
  <1>1. /\ LastByte \in Nat /\ HandshakeLen \in Nat
        /\ HandshakeLen > 0 /\ HandshakeLen <= LastByte
    BY Marks
  <1>2. emitted \in 0 .. LastByte /\ need \in Nat
    BY StreamKept
  <1> QED
    BY <1>1, <1>2, StreamKept

\* The bytes, in order, are the stream as far as it was sent.
LEMMA IntactInOrder ==
    ASSUME StreamTypeOK, InOrder
    PROVE  consumed \o buffered \o pending = [i \in 1 .. emitted |-> i]
  <1> DEFINE s == consumed \o buffered
             t == s \o pending
  <1>1. /\ consumed \in Seq(0 .. LastByte) /\ buffered \in Seq(0 .. LastByte)
        /\ pending \in Seq(0 .. LastByte) /\ emitted \in Nat
    BY Marks DEF StreamTypeOK
  <1>2. /\ s \in Seq(0 .. LastByte) /\ Len(s) = Len(consumed) + Len(buffered)
        /\ \A i \in 1 .. Len(consumed) : s[i] = consumed[i]
        /\ \A i \in 1 .. Len(buffered) : s[Len(consumed) + i] = buffered[i]
    BY <1>1, Joined
  <1>3. \A i \in 1 .. Len(s) : s[i] = i
    <2> SUFFICES ASSUME NEW i \in 1 .. Len(s) PROVE s[i] = i
      OBVIOUS
    <2>1. CASE i <= Len(consumed)
      BY <1>1, <1>2, <2>1 DEF InOrder, From
    <2>2. CASE i > Len(consumed)
      <3>1. i - Len(consumed) \in 1 .. Len(buffered) /\ i = Len(consumed) + (i - Len(consumed))
        BY <1>1, <1>2, <2>2
      <3> QED
        BY <1>1, <1>2, <3>1 DEF InOrder, From
    <2> QED
      BY <1>1, <1>2, <2>1, <2>2
  <1> HIDE DEF s
  <1>4. /\ t \in Seq(0 .. LastByte) /\ Len(t) = Len(s) + Len(pending)
        /\ \A i \in 1 .. Len(s) : t[i] = s[i]
        /\ \A i \in 1 .. Len(pending) : t[Len(s) + i] = pending[i]
    <2>1. s \in Seq(0 .. LastByte) /\ pending \in Seq(0 .. LastByte)
      BY <1>1, <1>2
    <2> QED
      BY <2>1, Joined
  <1>5. \A i \in 1 .. Len(t) : t[i] = i
    <2> SUFFICES ASSUME NEW i \in 1 .. Len(t) PROVE t[i] = i
      OBVIOUS
    <2>1. CASE i <= Len(s)
      BY <1>2, <1>3, <1>4, <2>1
    <2>2. CASE i > Len(s)
      <3>1. i - Len(s) \in 1 .. Len(pending) /\ i = Len(s) + (i - Len(s))
        BY <1>1, <1>2, <1>4, <2>2
      <3>2. pending[i - Len(s)] = Len(consumed) + Len(buffered) + (i - Len(s))
        BY <1>1, <3>1 DEF InOrder, From
      <3> QED
        BY <1>1, <1>2, <1>4, <3>1, <3>2
    <2> QED
      BY <1>1, <1>2, <1>4, <2>1, <2>2
  <1>6. Len(t) = emitted
    BY <1>2, <1>4 DEF InOrder
  <1> HIDE DEF t
  <1>7. t = [i \in 1 .. emitted |-> i]
    BY <1>4, <1>5, <1>6
  <1> QED
    BY <1>7 DEF s, t

\* The handshake is about to begin.
LEMMA StreamStart == StreamInit => Clear
  <1> SUFFICES ASSUME StreamInit PROVE Clear
    OBVIOUS
  <1>1. /\ consumed = <<>> /\ buffered = <<>> /\ pending = <<>> /\ handled = <<>>
        /\ controls = <<>> /\ emitted = 0 /\ need = 0 /\ current = 1 /\ phase = "await"
        /\ handshake = TRUE /\ requested = FALSE /\ boundary = FALSE
        /\ owesKey \in BOOLEAN /\ habit \in Habits
    BY DEF StreamInit
  <1>2. \A S : <<>> \in Seq(S)
    OBVIOUS
  <1>3. current \in Messages /\ emitted \in 0 .. LastByte
    BY <1>1, Marks
  <1>4. StreamTypeOK
    BY <1>1, <1>2, <1>3 DEF StreamTypeOK
  <1>5. InOrder /\ Handled
    BY <1>1 DEF InOrder, From, Handled
  <1>6. Place /\ Sought
    BY <1>1 DEF Place, Sought
  <1>7. Declared
    BY <1>1 DEF Declared
  <1> QED
    BY <1>1, <1>4, <1>5, <1>6, <1>7 DEF Clear

\* Within a message no other one starts, nor does the stream end.
LEMMA Within ==
    ASSUME NEW k \in Messages, NEW p \in Nat, Offsets[k] <= p, p + 1 < Offsets[k + 1]
    PROVE  /\ Opens(p + 1) = {} /\ p # LastByte /\ p > HandshakeLen
           /\ \A j \in 1 .. Len(Offsets) : Offsets[j] # p + 1
  <1>1. k \in 1 .. Len(Offsets) /\ k + 1 \in 1 .. Len(Offsets)
    BY Marks
  <1>2. Offsets[k] \in Nat /\ Offsets[k + 1] \in Nat /\ HandshakeLen < Offsets[k]
        /\ Offsets[k + 1] <= LastByte + 1
    BY <1>1, Marks
  <1>3. ASSUME NEW j \in 1 .. Len(Offsets), Offsets[j] = p + 1 PROVE FALSE
    <2>1. Offsets[k] < Offsets[j] /\ Offsets[j] < Offsets[k + 1]
      BY <1>2, <1>3
    <2>2. k < j /\ j < k + 1
      BY <1>1, <2>1, Later
    <2> QED
      BY <1>1, <2>2, Marks
  <1>4. Opens(p + 1) = {}
    <2>1. \A j \in Messages : j \in 1 .. Len(Offsets)
      BY Marks
    <2> QED
      BY <1>3, <2>1 DEF Opens
  <1> QED
    BY <1>2, <1>3, <1>4, Marks

\* Where the session stands when it has read everything that was sent.
LEMMA Waiting ==
    ASSUME Clear, Asking, pending = <<>>
    PROVE  /\ phase \in {"shake", "kind", "body"} /\ Len(consumed) = emitted
           /\ phase = "shake" => emitted < HandshakeLen /\ handshake
           /\ phase = "kind" => /\ boundary /\ ~handshake
                                /\ \E k \in 1 .. Len(Offsets) : emitted + 1 = Offsets[k]
           /\ phase = "body" => /\ ~handshake /\ Opens(emitted + 1) = {}
                                /\ emitted # LastByte /\ emitted > HandshakeLen
  <1>1. need > 0 /\ buffered = <<>> /\ phase # "lost"
    BY DEF Asking
  <1>2. phase \in {"shake", "kind", "body"}
    BY <1>1, StreamKept DEF Place, StreamTypeOK
  <1>3. Len(consumed) = emitted
    BY <1>1, StreamKept
  <1>4. ASSUME phase = "shake" PROVE emitted < HandshakeLen /\ handshake
    BY <1>3, <1>4, StreamKept, Marks DEF Place
  <1>5. ASSUME phase = "kind"
        PROVE  boundary /\ ~handshake /\ \E k \in 1 .. Len(Offsets) : emitted + 1 = Offsets[k]
    <2>1. boundary /\ ~handshake
      BY <1>1, <1>5, StreamKept DEF Place, Declared
    <2>2. \E k \in DOMAIN Offsets : emitted + 1 = Offsets[k]
      BY <1>3, <1>5, StreamKept DEF Place
    <2> QED
      BY <2>1, <2>2, StreamAssumption DEF StreamAssumption
  <1>6. ASSUME phase = "body"
        PROVE  /\ ~handshake /\ Opens(emitted + 1) = {}
               /\ emitted # LastByte /\ emitted > HandshakeLen
    <2>1. Offsets[current] <= emitted /\ need = Offsets[current + 1] - 1 - emitted /\ need > 0
      BY <1>3, <1>6, StreamKept DEF Place
    <2>2. current \in 1 .. Len(Offsets) /\ current + 1 \in 1 .. Len(Offsets)
      BY StreamKept, Marks
    <2>3. Offsets[current + 1] \in Nat /\ emitted \in Nat
      BY <2>2, StreamKept, Marks
    <2>4. emitted + 1 < Offsets[current + 1]
      <3>1. PICK s \in Nat : s = Offsets[current + 1]
        BY <2>3
      <3>2. need \in Nat /\ need = s - 1 - emitted /\ need > 0
        BY <2>1, <3>1, StreamKept
      <3> QED
        BY <2>3, <3>1, <3>2
    <2> QED
      BY <1>6, <2>1, <2>3, <2>4, Within, StreamKept DEF Place
  <1> QED
    BY <1>2, <1>3, <1>4, <1>5, <1>6

\* A control message that comes when the session waits is routed to the handler.
LEMMA Routed ==
    ASSUME Clear, Asking, pending = <<>>, NEW subtype \in Subtypes,
           FirmwareControl(subtype), ~confused'
    PROVE  RouteControl(subtype # "list")
  <1>1. SUFFICES ASSUME subtype = "list", phase = "body" PROVE FALSE
    BY Waiting DEF RouteControl
  <1>2. emitted < HandshakeLen \/ BetweenMessages
    BY <1>1, StreamNumbers DEF FirmwareControl
  <1> QED
    BY <1>1, <1>2, Waiting, Marks DEF BetweenMessages

\* Pixels that look like a control message are passed on.
LEMMA Passed ==
    ASSUME Clear, NeverBoth, Asking, pending = <<>>, NEW n \in Nat, n > 0,
           NEW looks \in Looks, looks # "plain", FirmwareData(n, looks), ~confused'
    PROVE  ~RouteControl(looks = "mimics")
  <1>1. "resembles" \in habit /\ emitted >= HandshakeLen /\ Opens(emitted + 1) = {}
        /\ emitted + n <= LastByte
    BY Marks, StreamKept DEF FirmwareData
  <1>2. "packs" \notin habit
    <2>1. habit \in SUBSET {"packs", "resembles"} /\ habit # {"packs", "resembles"}
      BY StreamKept, StreamAssumption DEF StreamTypeOK, StreamAssumption, NeverBoth
    <2> QED
      BY <1>1, <2>1
  <1>3. phase # "shake"
    BY <1>1, Waiting, StreamKept, Marks
  <1>4. ASSUME phase = "kind" PROVE FALSE
    <2>1. PICK k \in 1 .. Len(Offsets) : emitted + 1 = Offsets[k]
      BY <1>4, Waiting
    <2>2. k \notin Messages
      BY <1>1, <2>1 DEF Opens
    <2>3. k = Len(Offsets)
      BY <2>2, Marks
    <2> QED
      BY <1>1, <2>1, <2>3, Marks, StreamKept
  <1>5. phase = "body"
    BY <1>3, <1>4, Waiting
  <1>6. ~boundary /\ ~handshake
    BY <1>2, <1>5, StreamKept, Waiting DEF Declared
  <1>7. looks # "mimics"
    BY DEF FirmwareData
  <1> QED
    BY <1>6, <1>7 DEF RouteControl

\* What a chunk of the firmware's does to the updates that are owed or on their way.
LEMMA Seeking ==
    ASSUME Clear, NEW n \in Nat, n > 0, NEW looks, FirmwareData(n, looks)
    PROVE  /\ emitted' = emitted + n /\ emitted' <= LastByte /\ UNCHANGED controls
           /\ emitted < HandshakeLen => emitted' <= HandshakeLen
           /\ requested' \in BOOLEAN /\ (requested' => requested)
           /\ requested => requested' \/ \E k \in Messages :
                Kinds[k] = "update" /\ emitted < Offsets[k] /\ Offsets[k] <= emitted'
           /\ "packs" \notin habit => \A b \in emitted + 2 .. emitted + n : Opens(b) = {}
  <1>1. emitted' = emitted + n /\ emitted' <= LastByte /\ UNCHANGED controls
        /\ (emitted < HandshakeLen => emitted' <= HandshakeLen)
    BY StreamNumbers DEF FirmwareData
  <1> DEFINE updates == {k \in Messages : /\ Kinds[k] = "update"
                                          /\ Offsets[k] \in emitted + 1 .. emitted + n}
  <1>2. requested' = (requested /\ updates = {})
    BY DEF FirmwareData
  <1>3. requested' \in BOOLEAN /\ (requested' => requested)
    BY <1>2
  <1>4. ASSUME requested, ~requested'
        PROVE  \E k \in Messages : /\ Kinds[k] = "update" /\ emitted < Offsets[k]
                                   /\ Offsets[k] <= emitted'
    <2>1. updates # {}
      BY <1>2, <1>4
    <2>2. PICK k \in Messages : Kinds[k] = "update" /\ Offsets[k] \in emitted + 1 .. emitted + n
      BY <2>1
    <2> QED
      BY <1>1, <2>2, StreamKept
  <1>5. ASSUME "packs" \notin habit, NEW b \in emitted + 2 .. emitted + n
        PROVE  Opens(b) = {}
    <2>1. \A i \in 2 .. n : Opens(emitted + i) = {}
      BY <1>5 DEF FirmwareData
    <2>2. b - emitted \in 2 .. n /\ emitted + (b - emitted) = b
      <3>1. emitted \in Nat
        BY StreamNumbers
      <3> QED
        BY <3>1
    <2> QED
      BY <2>1, <2>2
  <1> QED
    BY <1>1, <1>3, <1>4, <1>5

\* awaitKeyRequest ends, with a key request, with RFB data or because nothing came.
LEMMA StepAwait ==
    ASSUME Clear, UNCHANGED habit,
           AwaitKeyRequest \/ AwaitTimeout \/ \E n \in 1 .. MaxChunk : AwaitData(n)
    PROVE  Clear'
  <1>1. /\ phase = "await" /\ phase' = "shake" /\ need' = HandshakeLen
        /\ UNCHANGED <<current, consumed, buffered, boundary, handshake>>
    BY DEF AwaitKeyRequest, AwaitTimeout, AwaitData, Reading, demuxVars
  <1>2. /\ emitted = 0 /\ handshake /\ ~requested /\ Len(consumed) = 0 /\ Len(buffered) = 0
        /\ Len(pending) = 0 /\ handled = controls
    BY <1>1, StreamKept DEF Place
  <1>3. consumed = <<>> /\ buffered = <<>> /\ pending = <<>>
    BY <1>2, StreamKept
  <1>0. /\ LastByte \in Nat /\ HandshakeLen \in Nat /\ HandshakeLen > 0
        /\ HandshakeLen <= LastByte
    BY StreamNumbers
  <1>4. ASSUME NEW n \in 1 .. MaxChunk, AwaitData(n)
        PROVE  /\ UNCHANGED <<controls, handled>> /\ owesKey' = FALSE /\ requested' = FALSE
               /\ emitted' = n /\ emitted' <= LastByte /\ emitted' <= HandshakeLen
               /\ pending' = Chunk(n)
               /\ "packs" \notin habit => \A b \in 2 .. n : Opens(b) = {}
    <2>1. n \in Nat /\ n > 0
      BY StreamAssumption DEF StreamAssumption
    <2>2. /\ FirmwareData(n, "plain") /\ pending' = Chunk(n) \o pending
          /\ UNCHANGED <<handled, owesKey>>
      BY <1>4 DEF AwaitData
    <2>3. owesKey' = FALSE
      BY <2>2, StreamKept DEF FirmwareData, StreamTypeOK
    <2>4. /\ emitted' = emitted + n /\ emitted' <= LastByte /\ UNCHANGED controls
          /\ emitted < HandshakeLen => emitted' <= HandshakeLen
          /\ requested' \in BOOLEAN /\ (requested' => requested)
          /\ "packs" \notin habit => \A b \in emitted + 2 .. emitted + n : Opens(b) = {}
      BY <2>1, <2>2, Seeking
    <2>5. emitted + n = n /\ emitted + 2 = 2
      BY <1>2, <2>1
    <2>6. Chunk(n) \in Seq(0 .. LastByte)
      BY <1>2, <1>0, <2>1, <2>4, Chunked
    <2>7. pending' = Chunk(n)
      BY <1>3, <2>2, <2>6
    <2> QED
      BY <1>2, <1>0, <2>2, <2>3, <2>4, <2>5, <2>7
  <1>5. /\ controls' \in Seq(Subtypes) /\ handled' = controls'
        /\ handled' \in Seq(Subtypes \cup {"pixels"})
    <2>1. controls \in Seq(Subtypes) /\ handled \in Seq(Subtypes \cup {"pixels"})
      BY StreamKept DEF StreamTypeOK
    <2>2. CASE AwaitKeyRequest
      <3>1. controls' = Append(controls, "key") /\ handled' = Append(handled, "key")
        BY <2>2 DEF AwaitKeyRequest, FirmwareControl
      <3>2. "key" \in Subtypes /\ "key" \in Subtypes \cup {"pixels"}
        BY DEF Subtypes
      <3> QED
        BY <1>2, <2>1, <3>1, <3>2
    <2>3. CASE ~AwaitKeyRequest
      <3>1. UNCHANGED <<controls, handled>>
        BY <1>4, <2>3 DEF AwaitTimeout, demuxVars
      <3> QED
        BY <1>2, <2>1, <3>1
    <2> QED
      BY <2>2, <2>3
  <1>6. owesKey' = FALSE /\ requested' = FALSE
    <2>1. requested = FALSE
      BY <1>2, StreamKept DEF StreamTypeOK
    <2> QED
      BY <1>4, <2>1 DEF AwaitKeyRequest, FirmwareControl, AwaitTimeout
  <1>7. /\ emitted' \in Nat /\ emitted' <= HandshakeLen /\ emitted' <= LastByte
        /\ pending' \in Seq(0 .. LastByte) /\ Len(pending') = emitted'
        /\ \A i \in 1 .. emitted' : pending'[i] = i
        /\ "packs" \notin habit => \A b \in 2 .. emitted' : Opens(b) = {}
    <2>1. ASSUME NEW n \in 1 .. MaxChunk, AwaitData(n)
          PROVE  /\ emitted' \in Nat /\ emitted' <= HandshakeLen /\ emitted' <= LastByte
                 /\ pending' \in Seq(0 .. LastByte) /\ Len(pending') = emitted'
                 /\ \A i \in 1 .. emitted' : pending'[i] = i
                 /\ "packs" \notin habit => \A b \in 2 .. emitted' : Opens(b) = {}
      <3>1. n \in Nat /\ 0 + n <= LastByte
        <4>1. n \in Nat
          BY StreamAssumption DEF StreamAssumption
        <4>2. emitted' = n /\ emitted' <= LastByte
          BY <1>4, <2>1
        <4> QED
          BY <4>1, <4>2
      <3>2. /\ Chunk(n) \in Seq(0 .. LastByte) /\ Len(Chunk(n)) = n
            /\ \A i \in 1 .. n : Chunk(n)[i] = 0 + i
        BY <1>2, <1>0, <3>1, Chunked
      <3>3. /\ emitted' = n /\ emitted' <= LastByte /\ emitted' <= HandshakeLen
            /\ pending' = Chunk(n)
            /\ "packs" \notin habit => \A b \in 2 .. n : Opens(b) = {}
        BY <1>4, <2>1
      <3>4. \A i \in 1 .. n : 0 + i = i
        BY <3>1
      <3> QED
        BY <3>1, <3>2, <3>3, <3>4
    <2>2. CASE AwaitKeyRequest \/ AwaitTimeout
      <3>1. emitted' = 0 /\ pending' = <<>>
        BY <1>2, <1>3, <2>2 DEF AwaitKeyRequest, FirmwareControl, AwaitTimeout, demuxVars
      <3>2. <<>> \in Seq(0 .. LastByte) /\ Len(<<>>) = 0
        OBVIOUS
      <3> QED
        BY <1>0, <3>1, <3>2
    <2> QED
      BY <2>1, <2>2
  <1>8. StreamTypeOK'
    <2>1. /\ need' \in Nat /\ current' \in Messages /\ habit' \in Habits
          /\ consumed' \in Seq(0 .. LastByte) /\ buffered' \in Seq(0 .. LastByte)
          /\ boundary' \in BOOLEAN /\ handshake' \in BOOLEAN
      BY <1>1, <1>0, StreamKept DEF StreamTypeOK
    <2>2. emitted' \in 0 .. LastByte
      BY <1>0, <1>7
    <2> QED
      BY <1>1, <1>5, <1>6, <1>7, <2>1, <2>2 DEF StreamTypeOK
  <1>9. InOrder'
    <2>1. /\ consumed' = <<>> /\ buffered' = <<>>
          /\ Len(consumed') = 0 /\ Len(buffered') = 0
      BY <1>1, <1>2, <1>3
    <2>2. DOMAIN pending' = 1 .. emitted' /\ \A i \in 1 .. emitted' : i = 0 + i
      BY <1>7
    <2>3. From(0, consumed') /\ From(0, buffered') /\ From(0, pending')
      BY <1>7, <2>1, <2>2 DEF From
    <2>4. 0 + 0 + Len(pending') = emitted'
      <3>1. Len(pending') = emitted' /\ emitted' \in Nat
        BY <1>7
      <3>2. \A m \in Nat : 0 + 0 + m = m
        OBVIOUS
      <3> QED
        BY <3>1, <3>2, Zenon
    <2> QED
      BY <2>1, <2>3, <2>4 DEF InOrder
  <1>10. Place'
    BY <1>1, <1>2, <1>6, <1>7, StreamNumbers DEF Place
  <1>11. Declared'
    <2>1. Len(consumed') + 2 = 2
      BY <1>1, <1>2
    <2> QED
      BY <1>1, <1>7, <2>1 DEF Declared, Opens
  <1>12. Sought' /\ Handled' /\ (phase' = "shake" => ~owesKey')
    BY <1>1, <1>5, <1>6 DEF Sought, Handled
  <1> QED
    BY <1>8, <1>9, <1>10, <1>11, <1>12 DEF Clear

\* A step that leaves what the reader has alone and sends nothing new.
LEMMA StreamAside ==
    ASSUME Clear, StreamTypeOK', Handled', UNCHANGED habit,
           UNCHANGED <<phase, current, need, consumed, buffered, pending, emitted,
                       boundary, handshake, requested>>,
           phase = "shake" => ~owesKey'
    PROVE  Clear'
  <1>1. InOrder'
    BY StreamKept DEF InOrder, From
  <1>2. Place' /\ Declared' /\ Sought'
    BY StreamKept DEF Place, Declared, Sought, Opens
  <1> QED
    BY <1>1, <1>2 DEF Clear

\* A control message.
LEMMA StepControl ==
    ASSUME Clear, NEW subtype \in Subtypes, ReadControl(subtype), UNCHANGED habit,
           ~confused'
    PROVE  Clear'
  <1>1. Asking /\ pending = <<>> /\ FirmwareControl(subtype)
    BY DEF ReadControl
  <1>2. RouteControl(subtype # "list")
    BY <1>1, Routed
  <1>3. /\ handled' = Append(handled, subtype) /\ controls' = Append(controls, subtype)
        /\ owesKey' = (owesKey /\ subtype # "key") /\ UNCHANGED <<emitted, requested>>
        /\ UNCHANGED <<phase, current, need, consumed, buffered, pending, boundary, handshake>>
    BY <1>2 DEF ReadControl, FirmwareControl, clientVars
  <1>4. controls' \in Seq(Subtypes) /\ handled' \in Seq(Subtypes \cup {"pixels"})
    BY <1>3, StreamKept DEF StreamTypeOK
  <1>5. StreamTypeOK'
    BY <1>3, <1>4, StreamKept DEF StreamTypeOK
  <1>6. Handled'
    BY <1>3, StreamKept DEF Handled
  <1> QED
    BY <1>3, <1>5, <1>6, StreamAside, StreamKept

\* RFB data.
LEMMA StepData ==
    ASSUME Clear, NeverBoth, NEW n \in 1 .. MaxChunk, NEW looks \in Looks,
           ReadData(n, looks), UNCHANGED habit, ~confused'
    PROVE  Clear'
  <1>1. n \in Nat /\ n > 0
    BY StreamAssumption DEF StreamAssumption
  <1>2. /\ Asking /\ pending = <<>> /\ FirmwareData(n, looks) /\ ~owesKey
        /\ UNCHANGED <<phase, current, need, consumed, buffered, boundary, handshake, owesKey>>
    BY DEF ReadData, FirmwareData, clientVars
  <1>3. ~(looks # "plain" /\ RouteControl(looks = "mimics"))
    BY <1>1, <1>2, Passed
  <1>4. pending' = Chunk(n) /\ UNCHANGED handled
    BY <1>3 DEF ReadData
  <1>5. /\ emitted' = emitted + n /\ emitted' <= LastByte /\ UNCHANGED controls
        /\ emitted < HandshakeLen => emitted' <= HandshakeLen
        /\ requested' \in BOOLEAN /\ (requested' => requested)
        /\ requested => requested' \/ \E k \in Messages :
             Kinds[k] = "update" /\ emitted < Offsets[k] /\ Offsets[k] <= emitted'
        /\ "packs" \notin habit => \A b \in emitted + 2 .. emitted + n : Opens(b) = {}
    BY <1>1, <1>2, Seeking
  <1>6. emitted \in Nat /\ LastByte \in Nat /\ HandshakeLen \in Nat /\ HandshakeLen > 0
    BY StreamNumbers
  <1>7. /\ Chunk(n) \in Seq(0 .. LastByte) /\ Len(Chunk(n)) = n
        /\ \A i \in 1 .. n : Chunk(n)[i] = emitted + i
    BY <1>1, <1>5, <1>6, Chunked
  <1>8. /\ phase \in {"shake", "kind", "body"} /\ Len(consumed) = emitted /\ buffered = <<>>
        /\ phase = "shake" => emitted < HandshakeLen
    BY <1>2, Waiting DEF Asking
  <1>9. StreamTypeOK'
    <2>1. emitted' \in 0 .. LastByte
      BY <1>1, <1>5, <1>6
    <2>2. pending' \in Seq(0 .. LastByte)
      BY <1>4, <1>7
    <2> QED
      BY <1>2, <1>4, <1>5, <2>1, <2>2, StreamKept DEF StreamTypeOK
  <1>10. InOrder'
    <2>1. Len(buffered') = 0 /\ Len(consumed') = emitted /\ Len(pending') = n
      BY <1>2, <1>4, <1>7, <1>8
    <2>2. From(0, consumed') /\ From(Len(consumed'), buffered')
      BY <1>2, StreamKept DEF InOrder, From
    <2>3. emitted + 0 = emitted
      BY <1>6
    <2>4. DOMAIN pending' = 1 .. n
      BY <1>4, <1>7
    <2>5. From(emitted, pending')
      BY <1>4, <1>7, <2>4 DEF From
    <2> QED
      BY <1>5, <2>1, <2>2, <2>3, <2>5 DEF InOrder
  <1>11. Place'
    BY <1>2, <1>5, <1>8, StreamKept DEF Place
  <1>12. Declared'
    <2>1. "packs" \notin habit => \A b \in Len(consumed') + 2 .. emitted' : Opens(b) = {}
      BY <1>2, <1>5, <1>8
    <2> QED
      BY <1>2, <1>8, <2>1, StreamKept DEF Declared, Opens
  <1>13. Sought'
    <2>1. SUFFICES ASSUME phase \in {"kind", "body"}, ~requested'
                   PROVE  \E k \in Messages : /\ Kinds[k] = "update" /\ Offsets[k] <= emitted'
                                              /\ Len(consumed) + 1 < Offsets[k + 1]
      BY <1>2, <1>8 DEF Sought
    <2>2. CASE requested
      <3>1. PICK k \in Messages :
              Kinds[k] = "update" /\ emitted < Offsets[k] /\ Offsets[k] <= emitted'
        BY <1>5, <2>1, <2>2
      <3>2. k \in 1 .. Len(Offsets) /\ k + 1 \in 1 .. Len(Offsets) /\ k < k + 1
        BY Marks
      <3>3. Offsets[k] < Offsets[k + 1] /\ Offsets[k] \in Nat /\ Offsets[k + 1] \in Nat
        BY <3>2, Marks
      <3>4. emitted + 1 < Offsets[k + 1]
        BY <1>6, <3>1, <3>3
      <3> QED
        BY <1>8, <3>1, <3>4
    <2>3. CASE ~requested
      <3>1. PICK k \in Messages : /\ Kinds[k] = "update" /\ Offsets[k] <= emitted
                                  /\ Len(consumed) + 1 < Offsets[k + 1]
        BY <2>1, <2>3, StreamKept DEF Sought
      <3>2. Offsets[k] \in Nat
        BY Marks
      <3>3. Offsets[k] <= emitted'
        BY <1>1, <1>5, <1>6, <3>1, <3>2
      <3> QED
        BY <3>1, <3>3
    <2> QED
      BY <2>2, <2>3
  <1>14. Handled' /\ (phase' = "shake" => ~owesKey')
    BY <1>2, <1>4, <1>5, StreamKept DEF Handled
  <1> QED
    BY <1>9, <1>10, <1>11, <1>12, <1>13, <1>14 DEF Clear

\* The lesser of two numbers, and the greater.
LEMMA Lesser ==
    ASSUME NEW m \in Nat, NEW n \in Nat
    PROVE  /\ Min({m, n}) \in {m, n} /\ Min({m, n}) <= m /\ Min({m, n}) <= n
           /\ Max({m, n}) \in {m, n} /\ Max({m, n}) >= m /\ Max({m, n}) >= n
  <1>1. \E x \in {m, n} : \A y \in {m, n} : x <= y
    <2>1. CASE m <= n
      BY <2>1
    <2>2. CASE ~(m <= n)
      BY <2>2
    <2> QED
      BY <2>1, <2>2
  <1>2. \E x \in {m, n} : \A y \in {m, n} : x >= y
    <2>1. CASE m <= n
      BY <2>1
    <2>2. CASE ~(m <= n)
      BY <2>2
    <2> QED
      BY <2>1, <2>2
  <1>3. Min({m, n}) \in {m, n} /\ \A y \in {m, n} : Min({m, n}) <= y
    BY <1>1 DEF Min
  <1>4. Max({m, n}) \in {m, n} /\ \A y \in {m, n} : Max({m, n}) >= y
    BY <1>2 DEF Max
  <1> QED
    BY <1>3, <1>4

\* The socket fails.
LEMMA StepSocket ==
    ASSUME Clear, SocketFails, UNCHANGED habit
    PROVE  Clear'
  <1>1. /\ phase' = "lost"
        /\ UNCHANGED <<current, need, consumed, buffered, pending, boundary, handshake,
                       handled, controls, emitted, owesKey, requested>>
    BY DEF SocketFails, demuxVars, firmwareVars
  <1>2. StreamTypeOK'
    BY <1>1, StreamKept DEF StreamTypeOK
  <1>3. InOrder' /\ Handled'
    BY <1>1, StreamKept DEF InOrder, From, Handled
  <1>4. Place' /\ Declared' /\ Sought'
    BY <1>1, StreamKept DEF Place, Declared, Sought, Opens
  <1> QED
    BY <1>1, <1>2, <1>3, <1>4 DEF Clear

\* Bytes that are pending go to the reader.
LEMMA StepHandOut ==
    ASSUME Clear, HandOut, UNCHANGED habit
    PROVE  Clear'
  <1> DEFINE n == Min({Len(pending), Max({BufferSize, need})})
  <1>1. /\ need > 0 /\ buffered = <<>> /\ pending # <<>> /\ phase # "lost"
        /\ buffered' = SubSeq(pending, 1, n)
        /\ pending' = SubSeq(pending, n + 1, Len(pending))
        /\ boundary' = FALSE
        /\ UNCHANGED <<phase, current, need, consumed, handshake, handled, controls,
                       emitted, owesKey, requested>>
    BY DEF HandOut, Asking, firmwareVars
  <1>2. Len(pending) \in Nat /\ Len(pending) > 0 /\ pending \in Seq(0 .. LastByte)
    BY <1>1, StreamKept
  <1>3. n \in 1 .. Len(pending)
    <2>1. BufferSize \in Nat /\ BufferSize > 0 /\ need \in Nat
      BY StreamAssumption, StreamKept DEF StreamAssumption
    <2>2. Max({BufferSize, need}) \in Nat /\ Max({BufferSize, need}) > 0
      BY <2>1, Lesser
    <2>3. n \in {Len(pending), Max({BufferSize, need})} /\ n <= Len(pending)
      BY <1>2, <2>2, Lesser
    <2> QED
      BY <1>2, <2>2, <2>3
  <1> HIDE DEF n
  <1>4. n \in Nat /\ n > 0 /\ n \in 0 .. Len(pending)
    BY <1>2, <1>3
  <1>5. /\ buffered' \in Seq(0 .. LastByte) /\ Len(buffered') = n
        /\ \A i \in 1 .. n : buffered'[i] = pending[i]
        /\ pending' \in Seq(0 .. LastByte) /\ Len(pending') = Len(pending) - n
        /\ \A i \in 1 .. Len(pending) - n : pending'[i] = pending[n + i]
    BY <1>1, <1>2, <1>4, Cut
  <1>6. buffered' # <<>>
    BY <1>4, <1>5
  <1>7. StreamTypeOK'
    BY <1>1, <1>5, StreamKept DEF StreamTypeOK
  <1>8. InOrder'
    <2>1. \A i \in 1 .. Len(pending) : pending[i] = Len(consumed) + i
      <3>1. /\ \A i \in DOMAIN pending : pending[i] = Len(consumed) + Len(buffered) + i
            /\ Len(buffered) = 0 /\ Len(consumed) \in Nat /\ DOMAIN pending = 1 .. Len(pending)
        BY <1>1, <1>2, StreamKept DEF InOrder, From
      <3>2. \A c \in Nat : c + 0 = c
        OBVIOUS
      <3> QED
        BY <3>1, <3>2
    <2>2. Len(consumed) \in Nat /\ Len(consumed) + Len(pending) = emitted
      <3>1. Len(buffered) = 0
        BY <1>1
      <3> QED
        BY <3>1, StreamNumbers
    <2>3. From(0, consumed)
      BY StreamKept DEF InOrder
    <2>4. From(Len(consumed), buffered')
      <3>1. DOMAIN buffered' = 1 .. n
        BY <1>5
      <3>2. \A i \in 1 .. n : i \in 1 .. Len(pending)
        BY <1>2, <1>3
      <3> QED
        BY <1>5, <2>1, <3>1, <3>2 DEF From
    <2>5. From(Len(consumed) + n, pending')
      <3>1. DOMAIN pending' = 1 .. Len(pending) - n
        BY <1>2, <1>3, <1>5
      <3>2. ASSUME NEW i \in 1 .. Len(pending) - n
            PROVE  pending'[i] = Len(consumed) + n + i
        <4>1. n + i \in 1 .. Len(pending)
          BY <1>2, <1>3
        <4>2. pending'[i] = Len(consumed) + (n + i)
          BY <1>5, <2>1, <4>1
        <4> QED
          BY <1>4, <2>2, <4>2
      <3> QED
        BY <3>1, <3>2 DEF From
    <2>6. Len(consumed) + n + (Len(pending) - n) = emitted
      <3>1. \A a, b, c \in Nat : a + c + (b - c) = a + b
        OBVIOUS
      <3> QED
        BY <1>2, <1>4, <2>2, <3>1
    <2> QED
      BY <1>1, <1>5, <2>3, <2>4, <2>5, <2>6 DEF InOrder
  <1>9. Place' /\ Sought'
    BY <1>1, StreamKept DEF Place, Sought
  <1>10. Declared'
    <2>1. phase # "top"
      BY <1>1, StreamKept DEF Place
    <2> QED
      BY <1>1, <1>6, <2>1, StreamKept DEF Declared, Opens
  <1> QED
    BY <1>1, <1>7, <1>8, <1>9, <1>10, StreamKept DEF Clear, Handled

\* readLoop begins a message.
LEMMA StepTop ==
    ASSUME Clear, LoopTop, UNCHANGED habit
    PROVE  Clear'
  <1>1. /\ phase = "top" /\ phase' = "kind" /\ need' = 1 /\ boundary' = TRUE
        /\ UNCHANGED <<current, consumed, buffered, pending, handshake, handled, controls,
                       emitted, owesKey, requested>>
    BY DEF LoopTop, Reading, firmwareVars
  <1>2. StreamTypeOK' /\ Handled'
    BY <1>1, StreamKept DEF StreamTypeOK, Handled
  <1>3. InOrder'
    BY <1>1, StreamKept DEF InOrder, From
  <1>4. Place' /\ Sought'
    BY <1>1, StreamKept DEF Place, Sought
  <1>5. Declared'
    BY <1>1, StreamKept DEF Declared, Opens
  <1> QED
    BY <1>1, <1>2, <1>3, <1>4, <1>5 DEF Clear

\* What io.ReadFull has taken from the reader, and where that leaves the session.
LEMMA Consumed ==
    ASSUME Clear, Consume
    PROVE  \E n \in Nat :
             /\ n > 0 /\ n <= need /\ phase \in {"shake", "kind", "body"} /\ buffered # <<>>
             /\ Len(consumed') \in Nat /\ Len(consumed') = Len(consumed) + n
             /\ Len(consumed') <= emitted
             /\ consumed' \in Seq(0 .. LastByte) /\ buffered' \in Seq(0 .. LastByte)
             /\ InOrder' /\ Foreign \notin Range(consumed')
             /\ UNCHANGED <<pending, boundary, handled, controls, emitted, owesKey>>
             /\ \/ /\ n < need /\ need' = need - n
                   /\ UNCHANGED <<phase, current, requested, handshake>>
                \/ /\ n = need /\ phase = "shake" /\ phase' = "top" /\ need' = 0
                   /\ requested' = TRUE /\ handshake' = FALSE /\ UNCHANGED current
                \/ /\ n = need /\ phase = "kind" /\ UNCHANGED handshake
                   /\ Opens(Len(consumed) + 1) = {} /\ phase' = "lost"
                   /\ UNCHANGED <<current, need, requested>>
                \/ /\ n = need /\ phase = "kind" /\ UNCHANGED handshake
                   /\ \E k \in Opens(Len(consumed) + 1) :
                        /\ current' = k /\ need' = LengthOf(k) - 1
                        /\ \/ LengthOf(k) = 1 /\ MessageRead(k)
                           \/ LengthOf(k) # 1 /\ phase' = "body" /\ UNCHANGED requested
                \/ /\ n = need /\ phase = "body" /\ need' = 0
                   /\ MessageRead(current) /\ UNCHANGED <<current, handshake>>
  <1> DEFINE n     == Min({need, Len(buffered)})
             bytes == SubSeq(buffered, 1, n)
  <1>1. /\ need > 0 /\ buffered # <<>> /\ phase # "lost"
        /\ consumed' = consumed \o bytes
        /\ buffered' = SubSeq(buffered, n + 1, Len(buffered))
        /\ UNCHANGED <<pending, boundary, handled, controls, emitted, owesKey>>
    BY DEF Consume
  <1>2. \/ /\ n < need /\ need' = need - n
           /\ UNCHANGED <<phase, current, requested, handshake>>
        \/ /\ n = need /\ phase = "shake"
           /\ phase' = IF Foreign \in Range(consumed') THEN "lost" ELSE "top"
           /\ need' = 0 /\ requested' = TRUE /\ handshake' = FALSE /\ UNCHANGED current
        \/ /\ n = need /\ phase = "kind" /\ UNCHANGED handshake
           /\ Opens(bytes[1]) = {} /\ phase' = "lost"
           /\ UNCHANGED <<current, need, requested>>
        \/ /\ n = need /\ phase = "kind" /\ UNCHANGED handshake
           /\ \E k \in Opens(bytes[1]) :
                /\ current' = k /\ need' = LengthOf(k) - 1
                /\ \/ LengthOf(k) = 1 /\ MessageRead(k)
                   \/ LengthOf(k) # 1 /\ phase' = "body" /\ UNCHANGED requested
        \/ /\ n = need /\ phase = "body" /\ need' = 0
           /\ MessageRead(current) /\ UNCHANGED <<current, handshake>>
    BY Zenon DEF Consume
  <1>3. phase \in {"shake", "kind", "body"}
    BY <1>1, StreamKept DEF Place, StreamTypeOK
  <1>4. /\ need \in Nat /\ Len(buffered) \in Nat /\ Len(buffered) > 0
        /\ buffered \in Seq(0 .. LastByte) /\ consumed \in Seq(0 .. LastByte)
    BY <1>1, StreamKept
  <1>5. n \in Nat /\ n > 0 /\ n <= need /\ n \in 0 .. Len(buffered)
    <2>1. n \in {need, Len(buffered)} /\ n <= need /\ n <= Len(buffered)
      BY <1>4, Lesser
    <2> HIDE DEF n
    <2> QED
      BY <1>1, <1>4, <2>1
  <1> HIDE DEF n
  <1>6. /\ bytes \in Seq(0 .. LastByte) /\ Len(bytes) = n
        /\ \A i \in 1 .. n : bytes[i] = buffered[i]
        /\ buffered' \in Seq(0 .. LastByte) /\ Len(buffered') = Len(buffered) - n
        /\ \A i \in 1 .. Len(buffered) - n : buffered'[i] = buffered[n + i]
    BY <1>1, <1>4, <1>5, Cut
  <1> HIDE DEF bytes
  <1>7. /\ consumed' \in Seq(0 .. LastByte) /\ Len(consumed') = Len(consumed) + n
        /\ \A i \in 1 .. Len(consumed) : consumed'[i] = consumed[i]
        /\ \A i \in 1 .. n : consumed'[Len(consumed) + i] = bytes[i]
    <2>1. consumed \in Seq(0 .. LastByte) /\ bytes \in Seq(0 .. LastByte)
      BY <1>4, <1>6
    <2>2. /\ consumed \o bytes \in Seq(0 .. LastByte)
          /\ Len(consumed \o bytes) = Len(consumed) + Len(bytes)
          /\ \A i \in 1 .. Len(consumed) : (consumed \o bytes)[i] = consumed[i]
          /\ \A i \in 1 .. Len(bytes) : (consumed \o bytes)[Len(consumed) + i] = bytes[i]
      BY <2>1, Joined
    <2>3. consumed' = consumed \o bytes /\ Len(bytes) = n
      BY <1>1, <1>6
    <2> QED
      BY <2>2, <2>3
  <1>8. /\ Len(consumed) \in Nat /\ Len(pending) \in Nat /\ emitted \in Nat
        /\ Len(consumed) + Len(buffered) + Len(pending) = emitted
    BY StreamNumbers
  <1>9. Len(consumed') \in Nat /\ Len(consumed') <= emitted
    BY <1>4, <1>5, <1>7, <1>8
  <1>10. \A i \in 1 .. Len(buffered) : buffered[i] = Len(consumed) + i
    BY <1>4, StreamKept DEF InOrder, From
  <1>11. \A i \in 1 .. Len(consumed') : consumed'[i] = i
    <2> SUFFICES ASSUME NEW i \in 1 .. Len(consumed') PROVE consumed'[i] = i
      OBVIOUS
    <2>1. CASE i <= Len(consumed)
      <3>1. i \in 1 .. Len(consumed) /\ DOMAIN consumed = 1 .. Len(consumed)
        BY <1>4, <1>8, <1>9, <2>1
      <3>2. consumed[i] = 0 + i
        BY <3>1, StreamKept DEF InOrder, From
      <3> QED
        BY <1>7, <3>1, <3>2
    <2>2. CASE i > Len(consumed)
      <3>1. PICK j \in 1 .. n : i = Len(consumed) + j
        <4>1. i - Len(consumed) \in 1 .. n /\ i = Len(consumed) + (i - Len(consumed))
          BY <1>5, <1>7, <1>8, <1>9, <2>2
        <4> QED
          BY <4>1
      <3>2. j \in 1 .. Len(buffered)
        BY <1>4, <1>5, <3>1
      <3> QED
        BY <1>6, <1>7, <1>10, <3>1, <3>2
    <2> QED
      BY <1>8, <1>9, <2>1, <2>2
  <1>12. Foreign \notin Range(consumed')
    <2>1. DOMAIN consumed' = 1 .. Len(consumed')
      BY <1>7
    <2> QED
      BY <1>9, <1>11, <2>1 DEF Foreign, Range
  <1>13. InOrder'
    <2>1. From(0, consumed')
      <3>1. DOMAIN consumed' = 1 .. Len(consumed')
        BY <1>7
      <3>2. \A i \in 1 .. Len(consumed') : i = 0 + i
        BY <1>9
      <3> QED
        BY <1>11, <3>1, <3>2 DEF From
    <2>2. From(Len(consumed'), buffered')
      <3>1. DOMAIN buffered' = 1 .. Len(buffered) - n
        BY <1>6
      <3>2. ASSUME NEW i \in 1 .. Len(buffered) - n
            PROVE  buffered'[i] = Len(consumed') + i
        <4>1. n + i \in 1 .. Len(buffered)
          BY <1>4, <1>5
        <4>2. buffered'[i] = Len(consumed) + (n + i)
          BY <1>6, <1>10, <4>1
        <4> QED
          BY <1>5, <1>7, <1>8, <4>2
      <3> QED
        BY <3>1, <3>2 DEF From
    <2>3. Len(consumed') + Len(buffered') = Len(consumed) + Len(buffered)
      <3>1. \A c, b, m \in Nat : c + m + (b - m) = c + b
        OBVIOUS
      <3> QED
        BY <1>4, <1>5, <1>6, <1>7, <1>8, <3>1
    <2>4. From(Len(consumed') + Len(buffered'), pending')
      BY <1>1, <2>3, StreamKept DEF InOrder, From
    <2>5. Len(consumed') + Len(buffered') + Len(pending') = emitted'
      BY <1>1, <1>8, <2>3
    <2> QED
      BY <2>1, <2>2, <2>4, <2>5 DEF InOrder
  <1>14. bytes[1] = Len(consumed) + 1
    <2>1. 1 \in 1 .. n /\ 1 \in 1 .. Len(buffered)
      BY <1>4, <1>5
    <2> QED
      BY <1>6, <1>10, <2>1
  <1>15. n \in Nat /\ n > 0 /\ n <= need
    BY <1>5
  <1>16. phase = "shake" /\ n = need => phase' = "top"
    BY <1>2, <1>12, <1>15, <1>4
  <1> n \in Nat
    BY <1>15
  <1> WITNESS n \in Nat
  <1> QED
    BY <1>1, <1>2, <1>3, <1>6, <1>7, <1>9, <1>12, <1>13, <1>14, <1>15, <1>16, Zenon

\* Where messages are not packed together, nothing is left when one was read.
LEMMA NothingOver ==
    ASSUME Clear, "packs" \notin habit, NEW j \in 1 .. Len(Offsets), NEW p \in Nat,
           p > Len(consumed), p <= emitted, Offsets[j] = p + 1
    PROVE  p = emitted
  <1>1. /\ Len(consumed) \in Nat /\ emitted \in Nat /\ emitted <= LastByte
        /\ LastByte \in Nat
    BY StreamNumbers
  <1>2. CASE j \in Messages
    <2>1. j \in Opens(p + 1)
      BY <1>2 DEF Opens
    <2>2. \A b \in Len(consumed) + 2 .. emitted : Opens(b) = {}
      BY StreamKept DEF Declared
    <2>3. p + 1 \notin Len(consumed) + 2 .. emitted
      BY <2>1, <2>2
    <2> QED
      BY <1>1, <2>3
  <1>3. CASE j \notin Messages
    <2>1. j = Len(Offsets) /\ Offsets[Len(Offsets)] = LastByte + 1
      BY <1>3, Marks
    <2> QED
      BY <1>1, <2>1
  <1> QED
    BY <1>2, <1>3

\* Reading on in a message, or to its end unless it is an update, leaves an update
\* that is on its way ahead of the reader.
LEMMA SoughtOn ==
    ASSUME Clear, phase \in {"kind", "body"}, ~requested, NEW k \in Messages,
           NEW p \in Nat, Offsets[k] <= Len(consumed) + 1, p + 1 <= Offsets[k + 1],
           Kinds[k] # "update" \/ p + 1 < Offsets[k + 1]
    PROVE  \E j \in Messages : /\ Kinds[j] = "update" /\ Offsets[j] <= emitted
                               /\ p + 1 < Offsets[j + 1]
  <1>1. PICK j \in Messages : /\ Kinds[j] = "update" /\ Offsets[j] <= emitted
                              /\ Len(consumed) + 1 < Offsets[j + 1]
    BY StreamKept DEF Sought
  <1>2. /\ k \in 1 .. Len(Offsets) /\ k + 1 \in 1 .. Len(Offsets)
        /\ j \in 1 .. Len(Offsets) /\ j + 1 \in 1 .. Len(Offsets)
        /\ k \in Nat /\ j \in Nat
    BY Marks
  <1>3. /\ Offsets[k] \in Nat /\ Offsets[j + 1] \in Nat /\ Offsets[k + 1] \in Nat
        /\ Len(consumed) \in Nat
    BY <1>2, Marks, StreamNumbers
  <1>4. Offsets[k] < Offsets[j + 1]
    BY <1>1, <1>3
  <1>5. k < j + 1
    BY <1>2, <1>4, Later
  <1>6. CASE k = j
    BY <1>1, <1>6
  <1>7. CASE k # j
    <2>1. k + 1 < j + 1
      BY <1>2, <1>5, <1>7
    <2>2. Offsets[k + 1] < Offsets[j + 1]
      BY <1>2, <2>1, Later
    <2> QED
      BY <1>1, <1>3, <2>2
  <1> QED
    BY <1>6, <1>7

\* io.ReadFull takes what the reader holds.
LEMMA StepConsume ==
    ASSUME Clear, Consume, UNCHANGED habit
    PROVE  Clear'
  <1> DEFINE c == Len(consumed)
             p == Len(consumed')
  <1>1. PICK n \in Nat :
             /\ n > 0 /\ n <= need /\ phase \in {"shake", "kind", "body"} /\ buffered # <<>>
             /\ p \in Nat /\ p = c + n /\ p <= emitted
             /\ consumed' \in Seq(0 .. LastByte) /\ buffered' \in Seq(0 .. LastByte)
             /\ InOrder' /\ Foreign \notin Range(consumed')
             /\ UNCHANGED <<pending, boundary, handled, controls, emitted, owesKey>>
             /\ \/ /\ n < need /\ need' = need - n
                   /\ UNCHANGED <<phase, current, requested, handshake>>
                \/ /\ n = need /\ phase = "shake" /\ phase' = "top" /\ need' = 0
                   /\ requested' = TRUE /\ handshake' = FALSE /\ UNCHANGED current
                \/ /\ n = need /\ phase = "kind" /\ UNCHANGED handshake
                   /\ Opens(c + 1) = {} /\ phase' = "lost"
                   /\ UNCHANGED <<current, need, requested>>
                \/ /\ n = need /\ phase = "kind" /\ UNCHANGED handshake
                   /\ \E k \in Opens(c + 1) :
                        /\ current' = k /\ need' = LengthOf(k) - 1
                        /\ \/ LengthOf(k) = 1 /\ MessageRead(k)
                           \/ LengthOf(k) # 1 /\ phase' = "body" /\ UNCHANGED requested
                \/ /\ n = need /\ phase = "body" /\ need' = 0
                   /\ MessageRead(current) /\ UNCHANGED <<current, handshake>>
    BY Consumed, Zenon
  <1>2. /\ c \in Nat /\ p \in Nat /\ p = c + n /\ emitted \in Nat /\ need \in Nat
        /\ n > 0 /\ n <= need /\ p <= emitted /\ HandshakeLen \in Nat
    BY <1>1, StreamNumbers
  <1>3. phase = "shake" => need = HandshakeLen - c /\ emitted <= HandshakeLen
    BY StreamKept DEF Place
  <1>4. phase = "kind" => need = 1 /\ ~handshake
    BY StreamKept DEF Place
  <1>5. phase = "body" => /\ Offsets[current] <= c /\ need = Offsets[current + 1] - 1 - c
                          /\ ~handshake /\ current \in Messages
    BY StreamKept DEF Place
  <1>6. \A k \in Messages : /\ k \in 1 .. Len(Offsets) /\ k + 1 \in 1 .. Len(Offsets)
                            /\ Offsets[k] \in Nat /\ Offsets[k + 1] \in Nat
                            /\ Offsets[k] < Offsets[k + 1]
    <2> SUFFICES ASSUME NEW k \in Messages
                 PROVE  /\ k \in 1 .. Len(Offsets) /\ k + 1 \in 1 .. Len(Offsets)
                        /\ Offsets[k] \in Nat /\ Offsets[k + 1] \in Nat
                        /\ Offsets[k] < Offsets[k + 1]
      OBVIOUS
    <2>1. k \in 1 .. Len(Offsets) /\ k + 1 \in 1 .. Len(Offsets) /\ k < k + 1
      BY Marks
    <2>2. Offsets[k] \in Nat /\ Offsets[k + 1] \in Nat
      BY <2>1, Marks
    <2>3. Offsets[k] < Offsets[k + 1]
      BY <2>1, Later
    <2> QED
      BY <2>1, <2>2, <2>3
  <1>7. DOMAIN Offsets = 1 .. Len(Offsets)
    BY StreamAssumption DEF StreamAssumption
  <1>8. "packs" \notin habit => \A b \in p + 2 .. emitted : Opens(b) = {}
    <2>1. \A b \in p + 2 .. emitted : b \in c + 2 .. emitted
      BY <1>2
    <2> QED
      BY <2>1, StreamKept DEF Declared
  <1>9. "packs" \notin habit /\ p = emitted => buffered' = <<>>
    <2>1. Len(buffered') \in Nat /\ Len(pending') \in Nat
      BY <1>1, StreamNumbers
    <2>2. p + Len(buffered') + Len(pending') = emitted
      BY <1>1 DEF InOrder
    <2>3. p = emitted => Len(buffered') = 0
      BY <1>2, <2>1, <2>2
    <2> QED
      BY <1>1, <2>3
  <1>10. (phase = "shake" => ~owesKey) /\ handled = controls
    BY StreamKept
  <1> HIDE DEF c, p
  <1>11. ASSUME phase' \in {"shake", "top", "kind", "body", "lost"}, current' \in Messages,
                need' \in Nat, requested' \in BOOLEAN, handshake' \in BOOLEAN,
                phase' # phase => phase' # "shake",
                Place', Declared', Sought'
         PROVE  Clear'
    <2>1. StreamTypeOK'
      BY <1>1, <1>11, StreamKept DEF StreamTypeOK
    <2> QED
      BY <1>1, <1>10, <1>11, <2>1 DEF Clear, Handled
  <1>12. current \in Messages /\ requested \in BOOLEAN /\ handshake \in BOOLEAN
    BY StreamKept DEF StreamTypeOK
  <1>13. CASE n < need /\ need' = need - n /\ UNCHANGED <<phase, current, requested, handshake>>
    <2>1. phase \in {"shake", "body"} /\ need' \in Nat /\ need' > 0
      BY <1>1, <1>2, <1>4, <1>13
    <2>2. phase = "shake" => need' = HandshakeLen - p
      BY <1>2, <1>3, <1>13
    <2>3. phase = "body" => /\ Offsets[current] <= p /\ need' = Offsets[current + 1] - 1 - p
                            /\ p + 1 < Offsets[current + 1]
      <3> SUFFICES ASSUME phase = "body"
                   PROVE  /\ Offsets[current] <= p /\ need' = Offsets[current + 1] - 1 - p
                          /\ p + 1 < Offsets[current + 1]
        OBVIOUS
      <3>1. Offsets[current] \in Nat /\ Offsets[current + 1] \in Nat
        BY <1>6, <1>12
      <3> QED
        BY <1>2, <1>5, <1>13, <2>1, <3>1
    <2>4. Place'
      BY <1>1, <1>3, <1>13, <2>1, <2>2, <2>3, StreamKept DEF Place, p
    <2>5. Declared'
      BY <1>1, <1>8, <1>13, <2>1, StreamKept DEF Declared, Opens, p
    <2>6. Sought'
      <3>1. SUFFICES ASSUME phase = "body", ~requested
                     PROVE  \E j \in Messages : /\ Kinds[j] = "update" /\ Offsets[j] <= emitted
                                                /\ p + 1 < Offsets[j + 1]
        BY <1>1, <1>13, <2>1 DEF Sought, p
      <3>2. /\ Offsets[current] <= Len(consumed) + 1 /\ p + 1 <= Offsets[current + 1]
            /\ p + 1 < Offsets[current + 1]
        <4>1. Offsets[current] \in Nat /\ Offsets[current + 1] \in Nat
          BY <1>6, <1>12
        <4> QED
          BY <1>2, <1>5, <2>3, <3>1, <4>1 DEF c
      <3> QED
        BY <1>2, <1>12, <3>1, <3>2, SoughtOn
    <2> QED
      BY <1>11, <1>12, <1>13, <2>1, <2>4, <2>5, <2>6
  <1>14. CASE /\ n = need /\ phase = "shake" /\ phase' = "top" /\ need' = 0
              /\ requested' = TRUE /\ handshake' = FALSE /\ UNCHANGED current
    <2>1. p = HandshakeLen /\ p = emitted
      BY <1>2, <1>3, <1>14
    <2>2. 1 \in 1 .. Len(Offsets) /\ p + 1 = Offsets[1]
      <3>1. Offsets[1] = HandshakeLen + 1 /\ 1 \in 1 .. Len(Offsets)
        BY Marks
      <3> QED
        BY <2>1, <3>1
    <2>3. Place'
      BY <1>7, <1>14, <2>2 DEF Place, p
    <2>4. Declared'
      BY <1>1, <1>8, <1>9, <1>14, <2>1 DEF Declared, Opens, p
    <2>5. Sought'
      BY <1>14 DEF Sought
    <2> QED
      BY <1>11, <1>12, <1>14, <2>3, <2>4, <2>5
  <1>15. CASE /\ phase = "kind" /\ phase' = "lost" /\ UNCHANGED <<current, need, requested>>
              /\ UNCHANGED handshake
    <2>1. Place' /\ Sought'
      BY <1>15 DEF Place, Sought
    <2>2. Declared'
      BY <1>1, <1>8, <1>15 DEF Declared, Opens, p
    <2> QED
      BY <1>2, <1>11, <1>12, <1>15, <2>1, <2>2
  <1>16. ASSUME NEW k \in Messages, MessageRead(k), phase \in {"kind", "body"},
                Offsets[k] <= c + 1, p + 1 = Offsets[k + 1], p > c, need' = 0,
                current' \in Messages, ~handshake, UNCHANGED handshake
         PROVE  Clear'
    <2>1. phase' = "top" /\ requested' = (requested \/ Kinds[k] = "update")
      BY <1>16 DEF MessageRead
    <2>2. Place'
      BY <1>6, <1>7, <1>16, <2>1 DEF Place, p
    <2>3. "packs" \notin habit => p = emitted
      BY <1>2, <1>6, <1>16, NothingOver DEF c
    <2>4. Declared'
      BY <1>1, <1>8, <1>9, <2>1, <2>3 DEF Declared, Opens, p
    <2>5. Sought'
      <3>1. SUFFICES ASSUME ~requested, Kinds[k] # "update"
                     PROVE  \E j \in Messages : /\ Kinds[j] = "update" /\ Offsets[j] <= emitted
                                                /\ p + 1 < Offsets[j + 1]
        BY <1>1, <2>1 DEF Sought, p
      <3>2. Offsets[k] <= Len(consumed) + 1 /\ p + 1 <= Offsets[k + 1]
        BY <1>6, <1>16 DEF c
      <3> QED
        BY <1>2, <1>16, <3>1, <3>2, SoughtOn
    <2>6. need' \in Nat /\ requested' \in BOOLEAN /\ handshake' \in BOOLEAN
      BY <1>12, <1>16, <2>1
    <2> QED
      BY <1>11, <1>16, <2>1, <2>2, <2>4, <2>5, <2>6
  <1>17. ASSUME NEW k \in Opens(c + 1), n = need, phase = "kind", UNCHANGED handshake,
                current' = k, need' = LengthOf(k) - 1,
                \/ LengthOf(k) = 1 /\ MessageRead(k)
                \/ LengthOf(k) # 1 /\ phase' = "body" /\ UNCHANGED requested
         PROVE  Clear'
    <2>1. k \in Messages /\ Offsets[k] = c + 1
      BY <1>17 DEF Opens
    <2>2. p = c + 1 /\ Offsets[k] = p /\ ~handshake
      BY <1>2, <1>4, <1>17, <2>1
    <2>3. Offsets[k] \in Nat /\ Offsets[k + 1] \in Nat /\ Offsets[k] < Offsets[k + 1]
      BY <1>6, <2>1
    <2>4. PICK l \in Nat : l = LengthOf(k) /\ l > 0 /\ Offsets[k + 1] = p + l
      <3>1. LengthOf(k) = Offsets[k + 1] - Offsets[k]
        BY DEF LengthOf
      <3> QED
        BY <2>2, <2>3, <3>1
    <2>5. CASE l = 1 /\ MessageRead(k)
      BY <1>2, <1>16, <1>17, <2>1, <2>2, <2>4, <2>5
    <2>6. CASE l # 1 /\ phase' = "body" /\ UNCHANGED requested
      <3>1. need' = l - 1 /\ need' \in Nat /\ need' > 0 /\ need' = Offsets[k + 1] - 1 - p
        BY <1>2, <1>17, <2>4, <2>6
      <3>2. Offsets[k] <= p /\ p + 1 < Offsets[k + 1]
        BY <1>2, <2>2, <2>4, <2>6
      <3>3. Place'
        BY <1>17, <2>2, <2>6, <3>1, <3>2 DEF Place, p
      <3>4. Declared'
        BY <1>1, <1>8, <1>17, <2>6, StreamKept DEF Declared, Opens, p
      <3>5. Sought'
        <4>1. SUFFICES ASSUME ~requested
                       PROVE  \E j \in Messages : /\ Kinds[j] = "update"
                                                  /\ Offsets[j] <= emitted
                                                  /\ p + 1 < Offsets[j + 1]
          BY <1>1, <2>6 DEF Sought, p
        <4>2. Offsets[k] <= Len(consumed) + 1 /\ p + 1 <= Offsets[k + 1]
          BY <1>2, <2>1, <2>3, <3>2 DEF c
        <4> QED
          BY <1>2, <1>17, <2>1, <3>2, <4>1, <4>2, SoughtOn
      <3> QED
        BY <1>11, <1>12, <1>17, <2>1, <2>6, <3>1, <3>3, <3>4, <3>5
    <2> QED
      BY <1>17, <2>4, <2>5, <2>6
  <1>18. CASE /\ n = need /\ phase = "body" /\ need' = 0
              /\ MessageRead(current) /\ UNCHANGED <<current, handshake>>
    <2>1. Offsets[current] <= c + 1 /\ p + 1 = Offsets[current + 1] /\ p > c
      <3>1. Offsets[current] \in Nat /\ Offsets[current + 1] \in Nat
        BY <1>6, <1>12
      <3> QED
        BY <1>2, <1>5, <1>18, <3>1
    <2> QED
      BY <1>5, <1>12, <1>16, <1>18, <2>1
  <1> QED
    BY <1>1, <1>13, <1>14, <1>15, <1>17, <1>18

\* Confusion is never over.
LEMMA StaysConfused ==
    ASSUME confused \in BOOLEAN, [StreamNext]_streamVars
    PROVE  confused' \in BOOLEAN /\ (confused => confused')
  <1> USE DEF firmwareVars
  <1>1. ASSUME NEW subtype \in Subtypes, FirmwareControl(subtype)
        PROVE  confused' \in BOOLEAN /\ (confused => confused')
    BY <1>1 DEF FirmwareControl
  <1>2. ASSUME NEW n, NEW looks, FirmwareData(n, looks)
        PROVE  confused' \in BOOLEAN /\ (confused => confused')
    BY <1>2 DEF FirmwareData
  <1>3. CASE \/ AwaitKeyRequest
             \/ \E subtype \in Subtypes : AwaitControl(subtype) \/ ReadControl(subtype)
    BY <1>1, <1>3 DEF AwaitKeyRequest, AwaitControl, ReadControl, Subtypes
  <1>4. CASE \/ \E n \in 1 .. MaxChunk : AwaitData(n)
             \/ \E n \in 1 .. MaxChunk, looks \in Looks : ReadData(n, looks)
    BY <1>2, <1>4 DEF AwaitData, ReadData
  <1>5. CASE AwaitTimeout \/ SocketFails \/ HandOut \/ LoopTop \/ Consume
    BY <1>5 DEF AwaitTimeout, SocketFails, HandOut, LoopTop, Consume
  <1>6. CASE UNCHANGED streamVars
    BY <1>6 DEF streamVars
  <1> QED
    BY <1>3, <1>4, <1>5, <1>6 DEF StreamNext, Step

\* A step of the reader, of the session or of the socket that leaves it clear.
LEMMA StreamStep ==
    ASSUME NeverBoth, Clear, [StreamNext]_streamVars, ~confused' PROVE Clear'
  <1>1. CASE Step /\ UNCHANGED habit
    <2>1. CASE AwaitKeyRequest \/ AwaitTimeout \/ \E n \in 1 .. MaxChunk : AwaitData(n)
      BY <1>1, <2>1, StepAwait
    <2>2. CASE \E subtype \in Subtypes : AwaitControl(subtype)
      BY <2>2 DEF AwaitControl, FirmwareControl
    <2>3. CASE \E subtype \in Subtypes : ReadControl(subtype)
      BY <1>1, <2>3, StepControl
    <2>4. CASE \E n \in 1 .. MaxChunk, looks \in Looks : ReadData(n, looks)
      BY <1>1, <2>4, StepData
    <2>5. CASE SocketFails
      BY <1>1, <2>5, StepSocket
    <2>6. CASE HandOut
      BY <1>1, <2>6, StepHandOut
    <2>7. CASE LoopTop
      BY <1>1, <2>7, StepTop
    <2>8. CASE Consume
      BY <1>1, <2>8, StepConsume
    <2> QED
      BY <1>1, <2>1, <2>2, <2>3, <2>4, <2>5, <2>6, <2>7, <2>8 DEF Step
  <1>2. CASE UNCHANGED streamVars
    <2>1. UNCHANGED <<phase, current, need, consumed, buffered, pending, emitted, boundary,
                      handshake, requested, habit, handled, controls, owesKey>>
      BY <1>2 DEF streamVars, clientVars, demuxVars, firmwareVars
    <2>2. StreamTypeOK' /\ Handled'
      BY <2>1, StreamKept DEF StreamTypeOK, Handled
    <2> QED
      BY <2>1, <2>2, StreamAside, StreamKept
  <1> QED
    BY <1>1, <1>2 DEF StreamNext

\* The invariant holds throughout, as long as no firmware both packs messages and
\* sends pixels that look like control messages: until a message comes that the
\* transport cannot tell apart, the bytes are in order, the session stands where
\* it has read to, and the boundary is declared where the reader needs it.
THEOREM StreamInvariant ==
    ASSUME NeverBoth PROVE StreamSpec => []StreamIInv
  <1>1. StreamInit => StreamIInv
    BY StreamStart DEF StreamInit, StreamIInv
  <1>2. StreamIInv /\ [StreamNext]_streamVars => StreamIInv'
    BY StaysConfused, StreamStep DEF StreamIInv
  <1> QED
    BY <1>1, <1>2, PTL DEF StreamSpec

\* The RFB layer gets every byte of the RFB stream, in order, and none of a control
\* message, however the stream is cut into WebSocket messages, until one comes
\* that the transport cannot tell apart (transport.Read).
THEOREM StreamStaysIntact ==
    ASSUME NeverBoth PROVE StreamSpec => []StreamIntact
  <1>1. StreamIInv => StreamIntact
    BY IntactInOrder DEF StreamIInv, Clear, StreamIntact
  <1> QED
    BY <1>1, StreamInvariant, PTL

\* Every control message reaches the handler, in order, and nothing else does,
\* until one comes that cannot be told apart (routeControl, IsControlFrame).
THEOREM StreamControlsHandled ==
    ASSUME NeverBoth PROVE StreamSpec => []ControlsHandled
  <1>1. StreamIInv => ControlsHandled
    BY DEF StreamIInv, Clear, Handled, ControlsHandled
  <1> QED
    BY <1>1, StreamInvariant, PTL

\* The session and the firmware never wait for each other: the key was sent before
\* the handshake reads, and an update is owed when readLoop waits for the next message,
\* until a message comes that cannot be told apart.
THEOREM StreamNoMutualWait ==
    ASSUME NeverBoth PROVE StreamSpec => []NoMutualWait
  <1>1. StreamIInv => NoMutualWait
    <2> SUFFICES ASSUME StreamIInv, ~confused PROVE NoMutualWait
      BY DEF NoMutualWait
    <2> Clear
      BY DEF StreamIInv
    <2>1. phase = "shake" => ~owesKey
      BY StreamKept
    <2>2. ASSUME phase = "kind", Asking, pending = <<>>, ~requested PROVE FALSE
      <3>1. PICK k \in 1 .. Len(Offsets) : emitted + 1 = Offsets[k]
        BY <2>2, Waiting
      <3>2. Len(consumed) = emitted /\ emitted \in Nat
        BY <2>2, Waiting, StreamNumbers
      <3>3. PICK j \in Messages : Offsets[j] <= emitted /\ Len(consumed) + 1 < Offsets[j + 1]
        BY <2>2, StreamKept DEF Sought
      <3>4. /\ j \in 1 .. Len(Offsets) /\ j + 1 \in 1 .. Len(Offsets)
            /\ Offsets[j] \in Nat /\ Offsets[j + 1] \in Nat
        BY Marks
      <3>5. Offsets[j] < Offsets[k] /\ Offsets[k] < Offsets[j + 1]
        BY <3>1, <3>2, <3>3, <3>4
      <3>6. j < k /\ k < j + 1
        BY <3>4, <3>5, Later
      <3> QED
        BY <3>4, <3>6
    <2> QED
      BY <2>1, <2>2 DEF NoMutualWait
  <1> QED
    BY <1>1, StreamInvariant, PTL
=============================================================================
