-------------------------- MODULE IloSessionProofs --------------------------
(***************************************************************************)
(* Proofs about console.Session on an iLO, for any number of input,        *)
(* management and mount calls, and, at the end, about the virtual CD that  *)
(* such a console starts.  The inductive invariants, IInv and CdIInv, are  *)
(* stated in IloSession and in ScsiTarget.                                 *)
(***************************************************************************)
EXTENDS IloSession, ScsiTarget, TLAPS

\* A console that was just opened satisfies the invariant.
LEMMA InitIInv == Init => IInv
  <1> SUFFICES ASSUME Init PROVE IInv
    OBVIOUS
  <1> USE NamesAssumption DEF Init, Actors, Channels, Owners, Nothing
  <1>1. TypeOK
    BY DEF TypeOK, FlagsOK
  <1>2. MutexesHeld /\ KeysHeld /\ KeysLost /\ RequestLoggedIn
    BY DEF MutexesHeld, KeysHeld, KeysLost, RequestLoggedIn
  <1>3. Accounted /\ MediaAccounted
    BY DEF Accounted, MediaAccounted, Leaving
  <1> QED
    BY <1>1, <1>2, <1>3 DEF IInv

\* Every step of every goroutine keeps the invariant.
LEMMA NextIInv == IInv /\ [Next]_vars => IInv'
  <1> SUFFICES ASSUME IInv, [Next]_vars PROVE IInv'
    OBVIOUS
  <1> USE NamesAssumption DEF IInv, mutexes, fields, outside, Goto, Actors
  <1>1. ASSUME NEW t \in Typists, LockOperation(t) PROVE IInv'
    <2>1. TypeOK'
      BY <1>1 DEF TypeOK, FlagsOK, Channels, Owners, LockOperation
    <2>2. MutexesHeld'
      BY <1>1 DEF TypeOK, Channels, Owners, MutexesHeld, LockOperation
    <2>3. KeysHeld' /\ RequestLoggedIn'
      BY <1>1 DEF TypeOK, FlagsOK, Channels, MutexesHeld, KeysHeld,
              RequestLoggedIn, LockOperation
    <2>4. Accounted'
      BY <1>1 DEF TypeOK, FlagsOK, Channels, Accounted, MediaAccounted,
              Leaving, LockOperation
    <2>5. MediaAccounted'
      BY <1>1 DEF TypeOK, FlagsOK, Channels, MutexesHeld, MediaAccounted,
              Leaving, LockOperation
    <2>6. KeysLost'
      BY <1>1 DEF TypeOK, FlagsOK, Channels, MutexesHeld, KeysHeld, KeysLost,
              LockOperation
    <2> QED
      BY <2>1, <2>2, <2>3, <2>4, <2>5, <2>6
  <1>2. ASSUME NEW t \in Typists, ReadyConnection(t) PROVE IInv'
    <2>1. TypeOK'
      BY <1>2 DEF TypeOK, FlagsOK, Channels, Owners, ReadyConnection
    <2>2. MutexesHeld'
      BY <1>2 DEF TypeOK, Channels, Owners, MutexesHeld, ReadyConnection
    <2>3. KeysHeld' /\ RequestLoggedIn'
      BY <1>2 DEF TypeOK, FlagsOK, Channels, MutexesHeld, KeysHeld,
              RequestLoggedIn, ReadyConnection
    <2>4. Accounted'
      BY <1>2 DEF TypeOK, FlagsOK, Channels, Accounted, MediaAccounted,
              Leaving, ReadyConnection
    <2>5. MediaAccounted'
      BY <1>2 DEF TypeOK, FlagsOK, Channels, MutexesHeld, MediaAccounted,
              Leaving, ReadyConnection
    <2>6. KeysLost'
      BY <1>2 DEF TypeOK, FlagsOK, Channels, MutexesHeld, KeysHeld, KeysLost,
              ReadyConnection
    <2> QED
      BY <2>1, <2>2, <2>3, <2>4, <2>5, <2>6
  <1>3. ASSUME NEW t \in Typists, KeysUpFirst(t) PROVE IInv'
    <2>1. TypeOK'
      <3>1. amiss' \subseteq {"peer", "late", "logout"}
        BY <1>3 DEF TypeOK, KeysUpFirst, Sends
      <3>2. pc' \in [Actors -> {"rest", "ready", "up", "press", "held", "again", "once",
                               "click", "decoded", "frame", "mark", "hangUp", "logout",
                               "logoutEnds", "unmount", "release", "cancel", "ended"}]
        BY <1>3 DEF TypeOK, KeysUpFirst, Sends
      <3>3. down' \in Typists \cup {None}
        BY <1>3 DEF TypeOK, KeysUpFirst, Sends
      <3> QED
        BY <1>3, <3>1, <3>2, <3>3 DEF TypeOK, FlagsOK, Channels, Owners, KeysUpFirst, Sends
    <2>2. MutexesHeld'
      BY <1>3 DEF TypeOK, Channels, Owners, MutexesHeld, KeysUpFirst, Sends
    <2>3. KeysHeld' /\ RequestLoggedIn'
      BY <1>3 DEF TypeOK, FlagsOK, Channels, MutexesHeld, KeysHeld,
              RequestLoggedIn, KeysUpFirst, Sends
    <2>4. Accounted'
      BY <1>3 DEF TypeOK, FlagsOK, Channels, Accounted, MediaAccounted,
              Leaving, KeysUpFirst, Sends
    <2>5. MediaAccounted'
      BY <1>3 DEF TypeOK, FlagsOK, Channels, MutexesHeld, MediaAccounted,
              Leaving, KeysUpFirst, Sends
    <2>6. KeysLost'
      BY <1>3 DEF TypeOK, FlagsOK, Channels, MutexesHeld, KeysHeld, KeysLost,
              KeysUpFirst, Sends, WriteFails
    <2> QED
      BY <2>1, <2>2, <2>3, <2>4, <2>5, <2>6
  <1>4. ASSUME NEW t \in Typists, Press(t) PROVE IInv'
    <2>1. TypeOK'
      <3>1. amiss' \subseteq {"peer", "late", "logout"}
        BY <1>4 DEF TypeOK, Press, Sends
      <3>2. pc' \in [Actors -> {"rest", "ready", "up", "press", "held", "again", "once",
                               "click", "decoded", "frame", "mark", "hangUp", "logout",
                               "logoutEnds", "unmount", "release", "cancel", "ended"}]
        BY <1>4 DEF TypeOK, Press, Sends
      <3>3. down' \in Typists \cup {None}
        BY <1>4 DEF TypeOK, Press, Sends
      <3> QED
        BY <1>4, <3>1, <3>2, <3>3 DEF TypeOK, FlagsOK, Channels, Owners, Press, Sends
    <2>2. MutexesHeld'
      BY <1>4 DEF TypeOK, Channels, Owners, MutexesHeld, Press, Sends
    <2>3. KeysHeld' /\ RequestLoggedIn'
      BY <1>4 DEF TypeOK, FlagsOK, Channels, MutexesHeld, KeysHeld,
              RequestLoggedIn, Press, Sends
    <2>4. Accounted'
      BY <1>4 DEF TypeOK, FlagsOK, Channels, Accounted, MediaAccounted,
              Leaving, Press, Sends
    <2>5. MediaAccounted'
      BY <1>4 DEF TypeOK, FlagsOK, Channels, MutexesHeld, MediaAccounted,
              Leaving, Press, Sends
    <2>6. KeysLost'
      BY <1>4 DEF TypeOK, FlagsOK, Channels, MutexesHeld, KeysHeld, KeysLost,
              Press, Sends, WriteFails
    <2> QED
      BY <2>1, <2>2, <2>3, <2>4, <2>5, <2>6
  <1>5. ASSUME NEW t \in Typists, SendOnce(t) PROVE IInv'
    <2>1. TypeOK'
      <3>1. amiss' \subseteq {"peer", "late", "logout"}
        BY <1>5 DEF TypeOK, SendOnce, Sends
      <3>2. pc' \in [Actors -> {"rest", "ready", "up", "press", "held", "again", "once",
                               "click", "decoded", "frame", "mark", "hangUp", "logout",
                               "logoutEnds", "unmount", "release", "cancel", "ended"}]
        BY <1>5 DEF TypeOK, SendOnce, Sends
      <3>3. down' \in Typists \cup {None}
        BY <1>5 DEF TypeOK, SendOnce, Sends
      <3> QED
        BY <1>5, <3>1, <3>2, <3>3 DEF TypeOK, FlagsOK, Channels, Owners, SendOnce, Sends
    <2>2. MutexesHeld'
      BY <1>5 DEF TypeOK, Channels, Owners, MutexesHeld, SendOnce, Sends
    <2>3. KeysHeld' /\ RequestLoggedIn'
      BY <1>5 DEF TypeOK, FlagsOK, Channels, MutexesHeld, KeysHeld,
              RequestLoggedIn, SendOnce, Sends
    <2>4. Accounted'
      BY <1>5 DEF TypeOK, FlagsOK, Channels, Accounted, MediaAccounted,
              Leaving, SendOnce, Sends
    <2>5. MediaAccounted'
      BY <1>5 DEF TypeOK, FlagsOK, Channels, MutexesHeld, MediaAccounted,
              Leaving, SendOnce, Sends
    <2>6. KeysLost'
      BY <1>5 DEF TypeOK, FlagsOK, Channels, MutexesHeld, KeysHeld, KeysLost,
              SendOnce, Sends, WriteFails
    <2> QED
      BY <2>1, <2>2, <2>3, <2>4, <2>5, <2>6
  <1>6. ASSUME NEW t \in Typists, SendClick(t) PROVE IInv'
    <2>1. TypeOK'
      <3>1. amiss' \subseteq {"peer", "late", "logout"}
        BY <1>6 DEF TypeOK, SendClick, Sends
      <3>2. pc' \in [Actors -> {"rest", "ready", "up", "press", "held", "again", "once",
                               "click", "decoded", "frame", "mark", "hangUp", "logout",
                               "logoutEnds", "unmount", "release", "cancel", "ended"}]
        BY <1>6 DEF TypeOK, SendClick, Sends
      <3>3. down' \in Typists \cup {None}
        BY <1>6 DEF TypeOK, SendClick, Sends
      <3> QED
        BY <1>6, <3>1, <3>2, <3>3 DEF TypeOK, FlagsOK, Channels, Owners, SendClick, Sends
    <2>2. MutexesHeld'
      BY <1>6 DEF TypeOK, Channels, Owners, MutexesHeld, SendClick, Sends
    <2>3. KeysHeld' /\ RequestLoggedIn'
      BY <1>6 DEF TypeOK, FlagsOK, Channels, MutexesHeld, KeysHeld,
              RequestLoggedIn, SendClick, Sends
    <2>4. Accounted'
      BY <1>6 DEF TypeOK, FlagsOK, Channels, Accounted, MediaAccounted,
              Leaving, SendClick, Sends
    <2>5. MediaAccounted'
      BY <1>6 DEF TypeOK, FlagsOK, Channels, MutexesHeld, MediaAccounted,
              Leaving, SendClick, Sends
    <2>6. KeysLost'
      BY <1>6 DEF TypeOK, FlagsOK, Channels, MutexesHeld, KeysHeld, KeysLost,
              SendClick, Sends, WriteFails
    <2> QED
      BY <2>1, <2>2, <2>3, <2>4, <2>5, <2>6
  <1>7. ASSUME NEW t \in Typists, KeysUp(t) PROVE IInv'
    <2>1. TypeOK'
      <3>1. amiss' \subseteq {"peer", "late", "logout"}
        BY <1>7 DEF TypeOK, KeysUp, Sends
      <3>2. pc' \in [Actors -> {"rest", "ready", "up", "press", "held", "again", "once",
                               "click", "decoded", "frame", "mark", "hangUp", "logout",
                               "logoutEnds", "unmount", "release", "cancel", "ended"}]
        BY <1>7 DEF TypeOK, KeysUp, Sends
      <3>3. down' \in Typists \cup {None}
        BY <1>7 DEF TypeOK, KeysUp, Sends
      <3> QED
        BY <1>7, <3>1, <3>2, <3>3 DEF TypeOK, FlagsOK, Channels, Owners, KeysUp, Sends
    <2>2. MutexesHeld'
      BY <1>7 DEF TypeOK, Channels, Owners, MutexesHeld, KeysUp, Sends,
              WriteFails
    <2>3. KeysHeld' /\ RequestLoggedIn'
      BY <1>7 DEF TypeOK, FlagsOK, Channels, MutexesHeld, KeysHeld,
              RequestLoggedIn, KeysUp, Sends, WriteFails
    <2>4. Accounted'
      BY <1>7 DEF TypeOK, FlagsOK, Channels, Accounted, MediaAccounted,
              Leaving, KeysUp, Sends, WriteFails
    <2>5. MediaAccounted'
      BY <1>7 DEF TypeOK, FlagsOK, Channels, MutexesHeld, MediaAccounted,
              Leaving, KeysUp, Sends, WriteFails
    <2>6. KeysLost'
      BY <1>7 DEF TypeOK, FlagsOK, Channels, MutexesHeld, KeysHeld, KeysLost,
              KeysUp, Sends, WriteFails
    <2> QED
      BY <2>1, <2>2, <2>3, <2>4, <2>5, <2>6
  <1>8. ASSUME NEW t \in Typists, GivesUp(t) PROVE IInv'
    <2>1. TypeOK'
      BY <1>8 DEF TypeOK, FlagsOK, Channels, Owners, GivesUp
    <2>2. MutexesHeld'
      BY <1>8 DEF TypeOK, Channels, Owners, MutexesHeld, GivesUp
    <2>3. KeysHeld' /\ RequestLoggedIn'
      BY <1>8 DEF TypeOK, FlagsOK, Channels, MutexesHeld, KeysHeld,
              RequestLoggedIn, GivesUp
    <2>4. Accounted'
      BY <1>8 DEF TypeOK, FlagsOK, Channels, Accounted, MediaAccounted,
              Leaving, GivesUp
    <2>5. MediaAccounted'
      BY <1>8 DEF TypeOK, FlagsOK, Channels, MutexesHeld, MediaAccounted,
              Leaving, GivesUp
    <2>6. KeysLost'
      BY <1>8 DEF TypeOK, FlagsOK, Channels, MutexesHeld, KeysHeld, KeysLost,
              GivesUp
    <2> QED
      BY <2>1, <2>2, <2>3, <2>4, <2>5, <2>6
  <1>9. ASSUME NEW t \in Typists, NextKey(t) PROVE IInv'
    <2>1. TypeOK'
      BY <1>9 DEF TypeOK, FlagsOK, Channels, Owners, NextKey
    <2>2. MutexesHeld'
      BY <1>9 DEF TypeOK, Channels, Owners, MutexesHeld, NextKey
    <2>3. KeysHeld' /\ RequestLoggedIn'
      BY <1>9 DEF TypeOK, FlagsOK, Channels, MutexesHeld, KeysHeld,
              RequestLoggedIn, NextKey
    <2>4. Accounted'
      BY <1>9 DEF TypeOK, FlagsOK, Channels, Accounted, MediaAccounted,
              Leaving, NextKey
    <2>5. MediaAccounted'
      BY <1>9 DEF TypeOK, FlagsOK, Channels, MutexesHeld, MediaAccounted,
              Leaving, NextKey
    <2>6. KeysLost'
      BY <1>9 DEF TypeOK, FlagsOK, Channels, MutexesHeld, KeysHeld, KeysLost,
              NextKey
    <2> QED
      BY <2>1, <2>2, <2>3, <2>4, <2>5, <2>6
  <1>10. ASSUME NEW t \in Typists, UnlockOperation(t) PROVE IInv'
    <2>1. TypeOK'
      BY <1>10 DEF TypeOK, FlagsOK, Channels, Owners, UnlockOperation
    <2>2. MutexesHeld'
      BY <1>10 DEF TypeOK, Channels, Owners, MutexesHeld, UnlockOperation
    <2>3. KeysHeld' /\ RequestLoggedIn'
      BY <1>10 DEF TypeOK, FlagsOK, Channels, MutexesHeld, KeysHeld,
              RequestLoggedIn, UnlockOperation
    <2>4. Accounted'
      BY <1>10 DEF TypeOK, FlagsOK, Channels, Accounted, MediaAccounted,
              Leaving, UnlockOperation
    <2>5. MediaAccounted'
      BY <1>10 DEF TypeOK, FlagsOK, Channels, MutexesHeld, MediaAccounted,
              Leaving, UnlockOperation
    <2>6. KeysLost'
      BY <1>10 DEF TypeOK, FlagsOK, Channels, MutexesHeld, KeysHeld, KeysLost,
              UnlockOperation
    <2> QED
      BY <2>1, <2>2, <2>3, <2>4, <2>5, <2>6
  <1>11. CASE VideoArrives
    <2>1. TypeOK'
      BY <1>11 DEF TypeOK, FlagsOK, Channels, Owners, VideoArrives
    <2>2. MutexesHeld'
      BY <1>11 DEF TypeOK, Channels, Owners, MutexesHeld, VideoArrives
    <2>3. KeysHeld' /\ RequestLoggedIn'
      BY <1>11 DEF TypeOK, FlagsOK, Channels, MutexesHeld, KeysHeld,
              RequestLoggedIn, VideoArrives
    <2>4. Accounted'
      BY <1>11 DEF TypeOK, FlagsOK, Channels, Accounted, MediaAccounted,
              Leaving, VideoArrives
    <2>5. MediaAccounted'
      BY <1>11 DEF TypeOK, FlagsOK, Channels, MutexesHeld, MediaAccounted,
              Leaving, VideoArrives
    <2>6. KeysLost'
      BY <1>11 DEF TypeOK, FlagsOK, Channels, MutexesHeld, KeysHeld, KeysLost,
              VideoArrives
    <2> QED
      BY <2>1, <2>2, <2>3, <2>4, <2>5, <2>6
  <1>12. CASE RefreshFails
    <2>1. TypeOK'
      BY <1>12 DEF TypeOK, FlagsOK, Channels, Owners, RefreshFails
    <2>2. MutexesHeld'
      BY <1>12 DEF TypeOK, Channels, Owners, MutexesHeld, RefreshFails
    <2>3. KeysHeld' /\ RequestLoggedIn'
      BY <1>12 DEF TypeOK, FlagsOK, Channels, MutexesHeld, KeysHeld,
              RequestLoggedIn, RefreshFails
    <2>4. Accounted'
      BY <1>12 DEF TypeOK, FlagsOK, Channels, Accounted, MediaAccounted,
              Leaving, RefreshFails
    <2>5. MediaAccounted'
      BY <1>12 DEF TypeOK, FlagsOK, Channels, MutexesHeld, MediaAccounted,
              Leaving, RefreshFails
    <2>6. KeysLost'
      BY <1>12 DEF TypeOK, FlagsOK, Channels, MutexesHeld, KeysHeld, KeysLost,
              RefreshFails, WriteFails
    <2> QED
      BY <2>1, <2>2, <2>3, <2>4, <2>5, <2>6
  <1>13. CASE VideoReady
    <2>1. TypeOK'
      <3>1. FlagsOK'
        BY <1>13, Zenon DEF TypeOK, FlagsOK, VideoReady
      <3> QED
        BY <1>13, <3>1 DEF TypeOK, Channels, Owners, VideoReady
    <2>2. MutexesHeld'
      BY <1>13 DEF TypeOK, Channels, Owners, MutexesHeld, VideoReady
    <2>3. KeysHeld' /\ RequestLoggedIn'
      BY <1>13 DEF TypeOK, FlagsOK, Channels, MutexesHeld, KeysHeld,
              RequestLoggedIn, VideoReady
    <2>4. Accounted'
      BY <1>13 DEF TypeOK, FlagsOK, Channels, Accounted, MediaAccounted,
              Leaving, VideoReady
    <2>5. MediaAccounted'
      BY <1>13 DEF TypeOK, FlagsOK, Channels, MutexesHeld, MediaAccounted,
              Leaving, VideoReady
    <2>6. KeysLost'
      BY <1>13 DEF TypeOK, FlagsOK, Channels, MutexesHeld, KeysHeld, KeysLost,
              VideoReady
    <2> QED
      BY <2>1, <2>2, <2>3, <2>4, <2>5, <2>6
  <1>14. CASE FirstKeysUp
    <2>1. TypeOK'
      BY <1>14 DEF TypeOK, FlagsOK, Channels, Owners, FirstKeysUp
    <2>2. MutexesHeld'
      BY <1>14 DEF TypeOK, Channels, Owners, MutexesHeld, FirstKeysUp
    <2>3. KeysHeld' /\ RequestLoggedIn'
      BY <1>14 DEF TypeOK, FlagsOK, Channels, MutexesHeld, KeysHeld,
              RequestLoggedIn, FirstKeysUp
    <2>4. Accounted'
      BY <1>14 DEF TypeOK, FlagsOK, Channels, Accounted, MediaAccounted,
              Leaving, FirstKeysUp
    <2>5. MediaAccounted'
      BY <1>14 DEF TypeOK, FlagsOK, Channels, MutexesHeld, MediaAccounted,
              Leaving, FirstKeysUp
    <2>6. KeysLost'
      BY <1>14 DEF TypeOK, FlagsOK, Channels, MutexesHeld, KeysHeld, KeysLost,
              FirstKeysUp
    <2> QED
      BY <2>1, <2>2, <2>3, <2>4, <2>5, <2>6
  <1>15. CASE ReadFails
    <2>1. TypeOK'
      BY <1>15 DEF TypeOK, FlagsOK, Channels, Owners, ReadFails
    <2>2. MutexesHeld'
      BY <1>15 DEF TypeOK, Channels, Owners, MutexesHeld, ReadFails
    <2>3. KeysHeld' /\ RequestLoggedIn'
      BY <1>15 DEF TypeOK, FlagsOK, Channels, MutexesHeld, KeysHeld,
              RequestLoggedIn, ReadFails
    <2>4. Accounted'
      BY <1>15 DEF TypeOK, FlagsOK, Channels, Accounted, MediaAccounted,
              Leaving, ReadFails
    <2>5. MediaAccounted'
      BY <1>15 DEF TypeOK, FlagsOK, Channels, MutexesHeld, MediaAccounted,
              Leaving, ReadFails
    <2>6. KeysLost'
      BY <1>15 DEF TypeOK, FlagsOK, Channels, MutexesHeld, KeysHeld, KeysLost,
              ReadFails
    <2> QED
      BY <2>1, <2>2, <2>3, <2>4, <2>5, <2>6
  <1>16. CASE ReadStops
    <2>1. TypeOK'
      BY <1>16 DEF TypeOK, FlagsOK, Channels, Owners, ReadStops
    <2>2. MutexesHeld'
      BY <1>16 DEF TypeOK, Channels, Owners, MutexesHeld, ReadStops
    <2>3. KeysHeld' /\ RequestLoggedIn'
      BY <1>16 DEF TypeOK, FlagsOK, Channels, MutexesHeld, KeysHeld,
              RequestLoggedIn, ReadStops
    <2>4. Accounted'
      BY <1>16 DEF TypeOK, FlagsOK, Channels, Accounted, MediaAccounted,
              Leaving, ReadStops
    <2>5. MediaAccounted'
      BY <1>16 DEF TypeOK, FlagsOK, Channels, MutexesHeld, MediaAccounted,
              Leaving, ReadStops
    <2>6. KeysLost'
      BY <1>16 DEF TypeOK, FlagsOK, Channels, MutexesHeld, KeysHeld, KeysLost,
              ReadStops
    <2> QED
      BY <2>1, <2>2, <2>3, <2>4, <2>5, <2>6
  <1>17. CASE PeerGone
    <2>1. TypeOK'
      BY <1>17 DEF TypeOK, FlagsOK, Channels, Owners, PeerGone
    <2>2. MutexesHeld'
      BY <1>17 DEF TypeOK, Channels, Owners, MutexesHeld, PeerGone
    <2>3. KeysHeld' /\ RequestLoggedIn'
      BY <1>17 DEF TypeOK, FlagsOK, Channels, MutexesHeld, KeysHeld,
              RequestLoggedIn, PeerGone
    <2>4. Accounted'
      BY <1>17 DEF TypeOK, FlagsOK, Channels, Accounted, MediaAccounted,
              Leaving, PeerGone
    <2>5. MediaAccounted'
      BY <1>17 DEF TypeOK, FlagsOK, Channels, MutexesHeld, MediaAccounted,
              Leaving, PeerGone
    <2>6. KeysLost'
      BY <1>17 DEF TypeOK, FlagsOK, Channels, MutexesHeld, KeysHeld, KeysLost,
              PeerGone
    <2> QED
      BY <2>1, <2>2, <2>3, <2>4, <2>5, <2>6
  <1>18. CASE CloseKeysUp
    <2>1. TypeOK'
      BY <1>18 DEF TypeOK, FlagsOK, Channels, Owners, CloseKeysUp
    <2>2. MutexesHeld'
      BY <1>18 DEF TypeOK, Channels, Owners, MutexesHeld, CloseKeysUp
    <2>3. KeysHeld' /\ RequestLoggedIn'
      BY <1>18 DEF TypeOK, FlagsOK, Channels, MutexesHeld, KeysHeld,
              RequestLoggedIn, CloseKeysUp
    <2>4. Accounted'
      BY <1>18 DEF TypeOK, FlagsOK, Channels, Accounted, MediaAccounted,
              Leaving, CloseKeysUp
    <2>5. MediaAccounted'
      BY <1>18 DEF TypeOK, FlagsOK, Channels, MutexesHeld, MediaAccounted,
              Leaving, CloseKeysUp
    <2>6. KeysLost'
      BY <1>18 DEF TypeOK, FlagsOK, Channels, MutexesHeld, KeysHeld, KeysLost,
              CloseKeysUp
    <2> QED
      BY <2>1, <2>2, <2>3, <2>4, <2>5, <2>6
  <1>19. CASE CloseCancel
    <2>1. TypeOK'
      BY <1>19 DEF TypeOK, FlagsOK, Channels, Owners, CloseCancel
    <2>2. MutexesHeld'
      BY <1>19 DEF TypeOK, Channels, Owners, MutexesHeld, CloseCancel
    <2>3. KeysHeld' /\ RequestLoggedIn'
      BY <1>19 DEF TypeOK, FlagsOK, Channels, MutexesHeld, KeysHeld,
              RequestLoggedIn, CloseCancel
    <2>4. Accounted'
      BY <1>19 DEF TypeOK, FlagsOK, Channels, Accounted, MediaAccounted,
              Leaving, CloseCancel
    <2>5. MediaAccounted'
      BY <1>19 DEF TypeOK, FlagsOK, Channels, MutexesHeld, MediaAccounted,
              Leaving, CloseCancel
    <2>6. KeysLost'
      BY <1>19 DEF TypeOK, FlagsOK, Channels, MutexesHeld, KeysHeld, KeysLost,
              CloseCancel
    <2> QED
      BY <2>1, <2>2, <2>3, <2>4, <2>5, <2>6
  <1>20. CASE CloseMark
    <2>1. TypeOK'
      <3>1. FlagsOK'
        BY <1>20, Zenon DEF TypeOK, FlagsOK, CloseMark, TakeAll
      <3>2. [conn |-> connRef, cmd |-> cmdRef, client |-> clientRef]
              \in [conn : BOOLEAN, cmd : Channels \cup {None}, client : BOOLEAN]
        BY DEF TypeOK, FlagsOK
      <3>3. taken' \in [Actors -> [conn : BOOLEAN, cmd : Channels \cup {None},
                                   client : BOOLEAN]]
        BY <1>20, <3>2 DEF TypeOK, CloseMark, TakeAll
      <3> QED
        BY <1>20, <3>1, <3>3 DEF TypeOK, Channels, Owners, CloseMark, TakeAll
    <2>2. MutexesHeld'
      BY <1>20 DEF TypeOK, Channels, Owners, MutexesHeld, CloseMark, TakeAll
    <2>3. KeysHeld' /\ RequestLoggedIn'
      BY <1>20 DEF TypeOK, FlagsOK, Channels, MutexesHeld, KeysHeld,
              RequestLoggedIn, CloseMark, TakeAll
    <2>4. Accounted'
      BY <1>20 DEF TypeOK, FlagsOK, Channels, Accounted, MediaAccounted,
              Leaving, CloseMark, TakeAll
    <2>5. MediaAccounted'
      BY <1>20 DEF TypeOK, FlagsOK, Channels, MutexesHeld, MediaAccounted,
              Leaving, CloseMark, TakeAll
    <2>6. KeysLost'
      BY <1>20 DEF TypeOK, FlagsOK, Channels, MutexesHeld, KeysHeld, KeysLost,
              CloseMark, TakeAll
    <2> QED
      BY <2>1, <2>2, <2>3, <2>4, <2>5, <2>6
  <1>21. CASE UnmountISO
    <2>1. TypeOK'
      BY <1>21 DEF TypeOK, FlagsOK, Channels, Owners, UnmountISO
    <2>2. MutexesHeld'
      BY <1>21 DEF TypeOK, Channels, Owners, MutexesHeld, UnmountISO
    <2>3. KeysHeld' /\ RequestLoggedIn'
      BY <1>21 DEF TypeOK, FlagsOK, Channels, MutexesHeld, KeysHeld,
              RequestLoggedIn, UnmountISO
    <2>4. Accounted'
      BY <1>21 DEF TypeOK, FlagsOK, Channels, Accounted, MediaAccounted,
              Leaving, UnmountISO
    <2>5. MediaAccounted'
      BY <1>21 DEF TypeOK, FlagsOK, Channels, MutexesHeld, MediaAccounted,
              Leaving, UnmountISO
    <2>6. KeysLost'
      BY <1>21 DEF TypeOK, FlagsOK, Channels, MutexesHeld, KeysHeld, KeysLost,
              UnmountISO
    <2> QED
      BY <2>1, <2>2, <2>3, <2>4, <2>5, <2>6
  <1>22. ASSUME NEW c \in Channels, ReadCommandFails(c) PROVE IInv'
    <2>1. TypeOK'
      BY <1>22 DEF TypeOK, FlagsOK, Channels, Owners, ReadCommandFails
    <2>2. MutexesHeld'
      BY <1>22 DEF TypeOK, Channels, Owners, MutexesHeld, ReadCommandFails
    <2>3. KeysHeld' /\ RequestLoggedIn'
      BY <1>22 DEF TypeOK, FlagsOK, Channels, MutexesHeld, KeysHeld,
              RequestLoggedIn, ReadCommandFails
    <2>4. Accounted'
      BY <1>22 DEF TypeOK, FlagsOK, Channels, Accounted, MediaAccounted,
              Leaving, ReadCommandFails
    <2>5. MediaAccounted'
      BY <1>22 DEF TypeOK, FlagsOK, Channels, MutexesHeld, MediaAccounted,
              Leaving, ReadCommandFails
    <2>6. KeysLost'
      BY <1>22 DEF TypeOK, FlagsOK, Channels, MutexesHeld, KeysHeld, KeysLost,
              ReadCommandFails
    <2> QED
      BY <2>1, <2>2, <2>3, <2>4, <2>5, <2>6
  <1>23. ASSUME NEW a \in Actors, MarkDisconnected(a) PROVE IInv'
    <2>1. TypeOK'
      <3>1. FlagsOK'
        BY <1>23, Zenon DEF TypeOK, FlagsOK, MarkDisconnected, TakeAll, Resume
      <3>2. [conn |-> connRef, cmd |-> cmdRef, client |-> clientRef]
              \in [conn : BOOLEAN, cmd : Channels \cup {None}, client : BOOLEAN]
        BY DEF TypeOK, FlagsOK
      <3>3. taken' \in [Actors -> [conn : BOOLEAN, cmd : Channels \cup {None},
                                   client : BOOLEAN]]
        BY <1>23, <3>2 DEF TypeOK, MarkDisconnected, TakeAll
      <3> QED
        BY <1>23, <3>1, <3>3 DEF TypeOK, Channels, Owners, MarkDisconnected,
              TakeAll, Resume
    <2>2. MutexesHeld'
      BY <1>23 DEF TypeOK, Channels, Owners, MutexesHeld, MarkDisconnected,
              TakeAll, Resume
    <2>3. KeysHeld' /\ RequestLoggedIn'
      BY <1>23 DEF TypeOK, FlagsOK, Channels, MutexesHeld, KeysHeld,
              RequestLoggedIn, MarkDisconnected, TakeAll, Resume
    <2>4. Accounted'
      BY <1>23 DEF TypeOK, FlagsOK, Channels, Accounted, MediaAccounted,
              Leaving, MarkDisconnected, TakeAll, Resume
    <2>5. MediaAccounted'
      BY <1>23 DEF TypeOK, FlagsOK, Channels, MutexesHeld, MediaAccounted,
              Leaving, MarkDisconnected, TakeAll, Resume
    <2>6. KeysLost'
      BY <1>23 DEF TypeOK, FlagsOK, Channels, MutexesHeld, KeysHeld, KeysLost,
              MarkDisconnected, TakeAll, Resume
    <2> QED
      BY <2>1, <2>2, <2>3, <2>4, <2>5, <2>6
  <1>24. ASSUME NEW a \in Actors, HangUp(a) PROVE IInv'
    <2>1. TypeOK'
      BY <1>24 DEF TypeOK, FlagsOK, Channels, Owners, HangUp
    <2>2. MutexesHeld'
      BY <1>24 DEF TypeOK, Channels, Owners, MutexesHeld, HangUp
    <2>3. KeysHeld' /\ RequestLoggedIn'
      BY <1>24 DEF TypeOK, FlagsOK, Channels, MutexesHeld, KeysHeld,
              RequestLoggedIn, HangUp
    <2>4. Accounted'
      BY <1>24 DEF TypeOK, FlagsOK, Channels, Accounted, MediaAccounted,
              Leaving, HangUp
    <2>5. MediaAccounted'
      BY <1>24 DEF TypeOK, FlagsOK, Channels, MutexesHeld, MediaAccounted,
              Leaving, HangUp
    <2>6. KeysLost'
      BY <1>24 DEF TypeOK, FlagsOK, Channels, MutexesHeld, KeysHeld, KeysLost,
              HangUp
    <2> QED
      BY <2>1, <2>2, <2>3, <2>4, <2>5, <2>6
  <1>25. ASSUME NEW a \in Actors, Logout(a) PROVE IInv'
    <2>1. TypeOK'
      BY <1>25 DEF TypeOK, FlagsOK, Channels, Owners, Logout
    <2>2. MutexesHeld'
      BY <1>25 DEF TypeOK, Channels, Owners, MutexesHeld, Logout
    <2>3. KeysHeld' /\ RequestLoggedIn'
      BY <1>25 DEF TypeOK, FlagsOK, Channels, MutexesHeld, KeysHeld,
              RequestLoggedIn, Logout
    <2>4. Accounted'
      BY <1>25 DEF TypeOK, FlagsOK, Channels, Accounted, MediaAccounted,
              Leaving, Logout
    <2>5. MediaAccounted'
      BY <1>25 DEF TypeOK, FlagsOK, Channels, MutexesHeld, MediaAccounted,
              Leaving, Logout
    <2>6. KeysLost'
      BY <1>25 DEF TypeOK, FlagsOK, Channels, MutexesHeld, KeysHeld, KeysLost,
              Logout
    <2> QED
      BY <2>1, <2>2, <2>3, <2>4, <2>5, <2>6
  <1>26. ASSUME NEW a \in Actors, LogoutEnds(a) PROVE IInv'
    <2>1. TypeOK'
      <3>1. FlagsOK'
        BY <1>26, Zenon DEF TypeOK, FlagsOK, LogoutEnds
      <3> QED
        BY <1>26, <3>1 DEF TypeOK, Channels, Owners, LogoutEnds
    <2>2. MutexesHeld'
      BY <1>26 DEF TypeOK, Channels, Owners, MutexesHeld, LogoutEnds
    <2>3. KeysHeld' /\ RequestLoggedIn'
      BY <1>26 DEF TypeOK, FlagsOK, Channels, MutexesHeld, KeysHeld,
              RequestLoggedIn, LogoutEnds
    <2>4. Accounted'
      BY <1>26 DEF TypeOK, FlagsOK, Channels, Accounted, MediaAccounted,
              Leaving, LogoutEnds
    <2>5. MediaAccounted'
      BY <1>26 DEF TypeOK, FlagsOK, Channels, MutexesHeld, MediaAccounted,
              Leaving, LogoutEnds
    <2>6. KeysLost'
      BY <1>26 DEF TypeOK, FlagsOK, Channels, MutexesHeld, KeysHeld, KeysLost,
              LogoutEnds
    <2> QED
      BY <2>1, <2>2, <2>3, <2>4, <2>5, <2>6
  <1>27. ASSUME NEW a \in Actors, CloseVirtualMedia(a) PROVE IInv'
    <2>1. TypeOK'
      BY <1>27 DEF TypeOK, FlagsOK, Channels, Owners, CloseVirtualMedia,
              Resume
    <2>2. MutexesHeld'
      BY <1>27 DEF TypeOK, Channels, Owners, MutexesHeld, CloseVirtualMedia,
              Resume
    <2>3. KeysHeld' /\ RequestLoggedIn'
      BY <1>27 DEF TypeOK, FlagsOK, Channels, MutexesHeld, KeysHeld,
              RequestLoggedIn, CloseVirtualMedia, Resume
    <2>4. Accounted'
      BY <1>27 DEF TypeOK, FlagsOK, Channels, Accounted, MediaAccounted,
              Leaving, CloseVirtualMedia, Resume
    <2>5. MediaAccounted'
      BY <1>27 DEF TypeOK, FlagsOK, Channels, MutexesHeld, MediaAccounted,
              Leaving, CloseVirtualMedia, Resume
    <2>6. KeysLost'
      BY <1>27 DEF TypeOK, FlagsOK, Channels, MutexesHeld, KeysHeld, KeysLost,
              CloseVirtualMedia, Resume
    <2> QED
      BY <2>1, <2>2, <2>3, <2>4, <2>5, <2>6
  <1>28. ASSUME NEW g \in Managers, ManagementLock(g) PROVE IInv'
    <2>1. TypeOK'
      BY <1>28 DEF TypeOK, FlagsOK, Channels, Owners, ManagementLock
    <2>2. MutexesHeld'
      BY <1>28 DEF TypeOK, Channels, Owners, MutexesHeld, ManagementLock
    <2>3. KeysHeld' /\ RequestLoggedIn'
      BY <1>28 DEF TypeOK, FlagsOK, Channels, MutexesHeld, KeysHeld,
              RequestLoggedIn, ManagementLock
    <2>4. Accounted'
      BY <1>28 DEF TypeOK, FlagsOK, Channels, Accounted, MediaAccounted,
              Leaving, ManagementLock
    <2>5. MediaAccounted'
      BY <1>28 DEF TypeOK, FlagsOK, Channels, MutexesHeld, MediaAccounted,
              Leaving, ManagementLock
    <2>6. KeysLost'
      BY <1>28 DEF TypeOK, FlagsOK, Channels, MutexesHeld, KeysHeld, KeysLost,
              ManagementLock
    <2> QED
      BY <2>1, <2>2, <2>3, <2>4, <2>5, <2>6
  <1>29. ASSUME NEW g \in Managers, ManagementClient(g) PROVE IInv'
    <2>1. TypeOK'
      BY <1>29 DEF TypeOK, FlagsOK, Channels, Owners, ManagementClient
    <2>2. MutexesHeld'
      BY <1>29 DEF TypeOK, Channels, Owners, MutexesHeld, ManagementClient
    <2>3. KeysHeld' /\ RequestLoggedIn'
      BY <1>29 DEF TypeOK, FlagsOK, Channels, MutexesHeld, KeysHeld,
              RequestLoggedIn, ManagementClient
    <2>4. Accounted'
      BY <1>29 DEF TypeOK, FlagsOK, Channels, Accounted, MediaAccounted,
              Leaving, ManagementClient
    <2>5. MediaAccounted'
      BY <1>29 DEF TypeOK, FlagsOK, Channels, MutexesHeld, MediaAccounted,
              Leaving, ManagementClient
    <2>6. KeysLost'
      BY <1>29 DEF TypeOK, FlagsOK, Channels, MutexesHeld, KeysHeld, KeysLost,
              ManagementClient
    <2> QED
      BY <2>1, <2>2, <2>3, <2>4, <2>5, <2>6
  <1>30. ASSUME NEW g \in Managers, ManagementEnds(g) PROVE IInv'
    <2>1. TypeOK'
      BY <1>30 DEF TypeOK, FlagsOK, Channels, Owners, ManagementEnds
    <2>2. MutexesHeld'
      BY <1>30 DEF TypeOK, Channels, Owners, MutexesHeld, ManagementEnds
    <2>3. KeysHeld' /\ RequestLoggedIn'
      BY <1>30 DEF TypeOK, FlagsOK, Channels, MutexesHeld, KeysHeld,
              RequestLoggedIn, ManagementEnds
    <2>4. Accounted'
      BY <1>30 DEF TypeOK, FlagsOK, Channels, Accounted, MediaAccounted,
              Leaving, ManagementEnds
    <2>5. MediaAccounted'
      BY <1>30 DEF TypeOK, FlagsOK, Channels, MutexesHeld, MediaAccounted,
              Leaving, ManagementEnds
    <2>6. KeysLost'
      BY <1>30 DEF TypeOK, FlagsOK, Channels, MutexesHeld, KeysHeld, KeysLost,
              ManagementEnds
    <2> QED
      BY <2>1, <2>2, <2>3, <2>4, <2>5, <2>6
  <1>31. ASSUME NEW m \in Mounts, MountISO(m) PROVE IInv'
    <2>1. TypeOK'
      BY <1>31 DEF TypeOK, FlagsOK, Channels, Owners, MountISO, MountOver,
              MountGoto
    <2>2. MutexesHeld'
      BY <1>31 DEF TypeOK, Channels, Owners, MutexesHeld, MountISO, MountOver,
              MountGoto
    <2>3. KeysHeld' /\ RequestLoggedIn'
      BY <1>31 DEF TypeOK, FlagsOK, Channels, MutexesHeld, KeysHeld,
              RequestLoggedIn, MountISO, MountOver, MountGoto
    <2>4. Accounted'
      BY <1>31 DEF TypeOK, FlagsOK, Channels, Accounted, MediaAccounted,
              Leaving, MountISO, MountOver, MountGoto
    <2>5. MediaAccounted'
      BY <1>31 DEF TypeOK, FlagsOK, Channels, MutexesHeld, MediaAccounted,
              Leaving, MountISO, MountOver, MountGoto
    <2>6. KeysLost'
      BY <1>31 DEF TypeOK, FlagsOK, Channels, MutexesHeld, KeysHeld, KeysLost,
              MountISO, MountOver, MountGoto
    <2> QED
      BY <2>1, <2>2, <2>3, <2>4, <2>5, <2>6
  <1>32. ASSUME NEW m \in Mounts, MountData(m) PROVE IInv'
    <2>1. TypeOK'
      BY <1>32 DEF TypeOK, FlagsOK, Channels, Owners, MountData, MountOver,
              MountGoto
    <2>2. MutexesHeld'
      BY <1>32 DEF TypeOK, Channels, Owners, MutexesHeld, MountData,
              MountOver, MountGoto
    <2>3. KeysHeld' /\ RequestLoggedIn'
      BY <1>32 DEF TypeOK, FlagsOK, Channels, MutexesHeld, KeysHeld,
              RequestLoggedIn, MountData, MountOver, MountGoto
    <2>4. Accounted'
      BY <1>32 DEF TypeOK, FlagsOK, Channels, Accounted, MediaAccounted,
              Leaving, MountData, MountOver, MountGoto
    <2>5. MediaAccounted'
      BY <1>32 DEF TypeOK, FlagsOK, Channels, MutexesHeld, MediaAccounted,
              Leaving, MountData, MountOver, MountGoto
    <2>6. KeysLost'
      BY <1>32 DEF TypeOK, FlagsOK, Channels, MutexesHeld, KeysHeld, KeysLost,
              MountData, MountOver, MountGoto
    <2> QED
      BY <2>1, <2>2, <2>3, <2>4, <2>5, <2>6
  <1>33. ASSUME NEW m \in Mounts, EnsureCommandChannel(m) PROVE IInv'
    <2>1. TypeOK'
      BY <1>33 DEF TypeOK, FlagsOK, Channels, Owners, EnsureCommandChannel,
              MountGoto
    <2>2. MutexesHeld'
      BY <1>33 DEF TypeOK, Channels, Owners, MutexesHeld,
              EnsureCommandChannel, MountGoto
    <2>3. KeysHeld' /\ RequestLoggedIn'
      BY <1>33 DEF TypeOK, FlagsOK, Channels, MutexesHeld, KeysHeld,
              RequestLoggedIn, EnsureCommandChannel, MountGoto
    <2>4. Accounted'
      BY <1>33 DEF TypeOK, FlagsOK, Channels, Accounted, MediaAccounted,
              Leaving, EnsureCommandChannel, MountGoto
    <2>5. MediaAccounted'
      BY <1>33 DEF TypeOK, FlagsOK, Channels, MutexesHeld, MediaAccounted,
              Leaving, EnsureCommandChannel, MountGoto
    <2>6. KeysLost'
      BY <1>33 DEF TypeOK, FlagsOK, Channels, MutexesHeld, KeysHeld, KeysLost,
              EnsureCommandChannel, MountGoto
    <2> QED
      BY <2>1, <2>2, <2>3, <2>4, <2>5, <2>6
  <1>34. ASSUME NEW m \in Mounts, DialCommandChannel(m) PROVE IInv'
    <2>1. TypeOK'
      BY <1>34 DEF TypeOK, FlagsOK, Channels, Owners, DialCommandChannel,
              MountOver, MountGoto
    <2>2. MutexesHeld'
      BY <1>34 DEF TypeOK, Channels, Owners, MutexesHeld, DialCommandChannel,
              MountOver, MountGoto
    <2>3. KeysHeld' /\ RequestLoggedIn'
      BY <1>34 DEF TypeOK, FlagsOK, Channels, MutexesHeld, KeysHeld,
              RequestLoggedIn, DialCommandChannel, MountOver, MountGoto
    <2>4. Accounted'
      BY <1>34 DEF TypeOK, FlagsOK, Channels, Accounted, MediaAccounted,
              Leaving, DialCommandChannel, MountOver, MountGoto
    <2>5. MediaAccounted'
      BY <1>34 DEF TypeOK, FlagsOK, Channels, MutexesHeld, MediaAccounted,
              Leaving, DialCommandChannel, MountOver, MountGoto
    <2>6. KeysLost'
      BY <1>34 DEF TypeOK, FlagsOK, Channels, MutexesHeld, KeysHeld, KeysLost,
              DialCommandChannel, MountOver, MountGoto
    <2> QED
      BY <2>1, <2>2, <2>3, <2>4, <2>5, <2>6
  <1>35. ASSUME NEW m \in Mounts, Adopt(m) PROVE IInv'
    <2>1. TypeOK'
      BY <1>35 DEF TypeOK, FlagsOK, Channels, Owners, Adopt, MountOver,
              MountGoto
    <2>2. MutexesHeld'
      BY <1>35 DEF TypeOK, Channels, Owners, MutexesHeld, Adopt, MountOver,
              MountGoto
    <2>3. KeysHeld' /\ RequestLoggedIn'
      BY <1>35 DEF TypeOK, FlagsOK, Channels, MutexesHeld, KeysHeld,
              RequestLoggedIn, Adopt, MountOver, MountGoto
    <2>4. Accounted'
      BY <1>35 DEF TypeOK, FlagsOK, Channels, Accounted, MediaAccounted,
              Leaving, Adopt, MountOver, MountGoto
    <2>5. MediaAccounted'
      BY <1>35 DEF TypeOK, FlagsOK, Channels, MutexesHeld, MediaAccounted,
              Leaving, Adopt, MountOver, MountGoto
    <2>6. KeysLost'
      BY <1>35 DEF TypeOK, FlagsOK, Channels, MutexesHeld, KeysHeld, KeysLost,
              Adopt, MountOver, MountGoto
    <2> QED
      BY <2>1, <2>2, <2>3, <2>4, <2>5, <2>6
  <1>36. ASSUME NEW m \in Mounts, DialVirtualMedia(m) PROVE IInv'
    <2>1. TypeOK'
      BY <1>36 DEF TypeOK, FlagsOK, Channels, Owners, DialVirtualMedia,
              MountOver, MountGoto
    <2>2. MutexesHeld'
      BY <1>36 DEF TypeOK, Channels, Owners, MutexesHeld, DialVirtualMedia,
              MountOver, MountGoto
    <2>3. KeysHeld' /\ RequestLoggedIn'
      BY <1>36 DEF TypeOK, FlagsOK, Channels, MutexesHeld, KeysHeld,
              RequestLoggedIn, DialVirtualMedia, MountOver, MountGoto
    <2>4. Accounted'
      BY <1>36 DEF TypeOK, FlagsOK, Channels, Accounted, MediaAccounted,
              Leaving, DialVirtualMedia, MountOver, MountGoto
    <2>5. MediaAccounted'
      BY <1>36 DEF TypeOK, FlagsOK, Channels, MutexesHeld, MediaAccounted,
              Leaving, DialVirtualMedia, MountOver, MountGoto
    <2>6. KeysLost'
      BY <1>36 DEF TypeOK, FlagsOK, Channels, MutexesHeld, KeysHeld, KeysLost,
              DialVirtualMedia, MountOver, MountGoto
    <2> QED
      BY <2>1, <2>2, <2>3, <2>4, <2>5, <2>6
  <1>37. ASSUME NEW m \in Mounts, StartMedia(m) PROVE IInv'
    <2>1. TypeOK'
      BY <1>37 DEF TypeOK, FlagsOK, Channels, Owners, StartMedia, MountOver,
              MountGoto
    <2>2. MutexesHeld'
      BY <1>37 DEF TypeOK, Channels, Owners, MutexesHeld, StartMedia,
              MountOver, MountGoto
    <2>3. KeysHeld' /\ RequestLoggedIn'
      BY <1>37 DEF TypeOK, FlagsOK, Channels, MutexesHeld, KeysHeld,
              RequestLoggedIn, StartMedia, MountOver, MountGoto
    <2>4. Accounted'
      BY <1>37 DEF TypeOK, FlagsOK, Channels, Accounted, MediaAccounted,
              Leaving, StartMedia, MountOver, MountGoto
    <2>5. MediaAccounted'
      BY <1>37 DEF TypeOK, FlagsOK, Channels, MutexesHeld, MediaAccounted,
              Leaving, StartMedia, MountOver, MountGoto
    <2>6. KeysLost'
      BY <1>37 DEF TypeOK, FlagsOK, Channels, MutexesHeld, KeysHeld, KeysLost,
              StartMedia, MountOver, MountGoto
    <2> QED
      BY <2>1, <2>2, <2>3, <2>4, <2>5, <2>6
  <1>38. ASSUME NEW m \in Mounts, MediaEndsItself(m) PROVE IInv'
    <2>1. TypeOK'
      BY <1>38 DEF TypeOK, FlagsOK, Channels, Owners, MediaEndsItself
    <2>2. MutexesHeld'
      BY <1>38 DEF TypeOK, Channels, Owners, MutexesHeld, MediaEndsItself
    <2>3. KeysHeld' /\ RequestLoggedIn'
      BY <1>38 DEF TypeOK, FlagsOK, Channels, MutexesHeld, KeysHeld,
              RequestLoggedIn, MediaEndsItself
    <2>4. Accounted'
      BY <1>38 DEF TypeOK, FlagsOK, Channels, Accounted, MediaAccounted,
              Leaving, MediaEndsItself
    <2>5. MediaAccounted'
      BY <1>38 DEF TypeOK, FlagsOK, Channels, MutexesHeld, MediaAccounted,
              Leaving, MediaEndsItself
    <2>6. KeysLost'
      BY <1>38 DEF TypeOK, FlagsOK, Channels, MutexesHeld, KeysHeld, KeysLost,
              MediaEndsItself
    <2> QED
      BY <2>1, <2>2, <2>3, <2>4, <2>5, <2>6
  <1>39. ASSUME NEW m \in Mounts, WatchVirtualMedia(m) PROVE IInv'
    <2>1. TypeOK'
      BY <1>39 DEF TypeOK, FlagsOK, Channels, Owners, WatchVirtualMedia,
              MountGoto
    <2>2. MutexesHeld'
      BY <1>39 DEF TypeOK, Channels, Owners, MutexesHeld, WatchVirtualMedia,
              MountGoto
    <2>3. KeysHeld' /\ RequestLoggedIn'
      BY <1>39 DEF TypeOK, FlagsOK, Channels, MutexesHeld, KeysHeld,
              RequestLoggedIn, WatchVirtualMedia, MountGoto
    <2>4. Accounted'
      BY <1>39 DEF TypeOK, FlagsOK, Channels, Accounted, MediaAccounted,
              Leaving, WatchVirtualMedia, MountGoto
    <2>5. MediaAccounted'
      BY <1>39 DEF TypeOK, FlagsOK, Channels, MutexesHeld, MediaAccounted,
              Leaving, WatchVirtualMedia, MountGoto
    <2>6. KeysLost'
      BY <1>39 DEF TypeOK, FlagsOK, Channels, MutexesHeld, KeysHeld, KeysLost,
              WatchVirtualMedia, MountGoto
    <2> QED
      BY <2>1, <2>2, <2>3, <2>4, <2>5, <2>6
  <1>40. CASE UNCHANGED vars
    BY <1>40 DEF vars, TypeOK, FlagsOK, MutexesHeld, KeysHeld, KeysLost,
            RequestLoggedIn,
              Accounted, MediaAccounted, Channels
  <1> QED
    BY <1>1, <1>2, <1>3, <1>4, <1>5, <1>6, <1>7, <1>8, <1>9, <1>10, <1>11,
              <1>12, <1>13, <1>14, <1>15, <1>16, <1>17, <1>18, <1>19, <1>20,
              <1>21, <1>22, <1>23, <1>24, <1>25, <1>26, <1>27, <1>28, <1>29,
              <1>30, <1>31, <1>32, <1>33, <1>34, <1>35, <1>36, <1>37, <1>38,
              <1>39, <1>40
       DEF Next, TypistStep, DisposeStep, ReaderStep, CloseStep, ManagerStep,
           MountStep, Terminated

\* The invariant holds in every reachable state of the console.
THEOREM ConsoleInvariant == SafetySpec => []IInv
  <1> QED
    BY InitIInv, NextIInv, PTL DEF SafetySpec

\* Between operations no key is down but one that the iLO was told of before it
\* left, or that was pressed after Close had put the keys up (Close, TypeText).
THEOREM ConsoleKeysUpAtRest == SafetySpec => []KeysUpAtRest
  <1>1. IInv => KeysUpAtRest
    BY NamesAssumption DEF IInv, TypeOK, MutexesHeld, KeysHeld, KeysLost,
                          KeysUpAtRest
  <1> QED
    BY <1>1, ConsoleInvariant, PTL

\* Nobody ends another operation's chord.
THEOREM ConsoleChordUnbroken == SafetySpec => []ChordUnbroken
  <1>1. IInv => ChordUnbroken
    BY DEF IInv, KeysHeld, ChordUnbroken
  <1> QED
    BY <1>1, ConsoleInvariant, PTL

\* A management request in flight never loses its login.
THEOREM ConsoleRequestLoggedIn == SafetySpec => []RequestLoggedIn
  <1>1. IInv => RequestLoggedIn
    BY DEF IInv
  <1> QED
    BY <1>1, ConsoleInvariant, PTL

\* A console that ended holds no socket and no medium, and no login but one whose
\* logout failed (Close, markDisconnected).
THEOREM ConsoleNothingLeftBehind == SafetySpec => []NothingLeftBehind
  <1>1. ASSUME IInv, ~connected, ~Disposing, ~Mounting
        PROVE  /\ conn = "closed" /\ alive = {} /\ cmdOpen \subseteq deaf
               /\ loggedIn => "logout" \in amiss
    <2> USE <1>1, NamesAssumption DEF IInv
    <2>1. \A a \in Actors : pc[a] \notin Leaving
      BY DEF Disposing, Leaving
    <2>2. conn = "closed" /\ (loggedIn => "logout" \in amiss)
      BY <2>1 DEF Accounted, MediaAccounted, TypeOK, FlagsOK, Leaving
    <2>3. alive = {}
      BY <2>1 DEF MediaAccounted, TypeOK
    <2>4. \A m \in Mounts : mountPc[m] # "adopt"
      BY DEF MutexesHeld, Mounting
    <2>5. cmdOpen \subseteq deaf
      BY <2>1, <2>4 DEF Accounted, MediaAccounted, TypeOK, FlagsOK, Leaving, Channels
    <2> QED
      BY <2>2, <2>3, <2>5
  <1>2. IInv => NothingLeftBehind
    BY <1>1 DEF NothingLeftBehind
  <1> QED
    BY <1>2, ConsoleInvariant, PTL

----------------------------------------------------------------------------
(***************************************************************************)
(* The virtual CD of the console (ScsiTarget), which runs beside all this  *)
(* on a socket of its own, for an image, a sector and a chunk of any size  *)
(* and any blocks that the host may ask for.                               *)
(***************************************************************************)

\* Blocks and octets: a range of blocks fits the image if, and only if, it fits
\* the whole blocks of the image.
LEMMA WholeBlocks ==
    ASSUME NEW lba \in Nat, NEW blocks \in Nat
    PROVE  /\ Size \div Sector \in Nat
           /\ lba * Sector + blocks * Sector <= Size <=> lba + blocks <= Size \div Sector
  <1>1. Size \in Nat /\ Sector \in Nat /\ Sector > 0
    BY SizeAssumption DEF SizeAssumption
  <1>2. PICK q, r : q = Size \div Sector /\ r = Size % Sector
    OBVIOUS
  <1>3. q \in Nat /\ r \in 0..(Sector - 1) /\ Size = Sector * q + r
    BY <1>1, <1>2
  <1>4. PICK n \in Nat : n = lba + blocks
    OBVIOUS
  <1>5. lba * Sector + blocks * Sector = n * Sector
    BY <1>1, <1>4
  <1>6. ASSUME n <= q PROVE n * Sector <= Size
    BY <1>1, <1>3, <1>6
  <1>7. ASSUME n * Sector <= Size PROVE n <= q
    <2>1. SUFFICES ASSUME n >= q + 1 PROVE FALSE
      BY <1>3
    <2>2. n * Sector >= (q + 1) * Sector
      BY <2>1, <1>1, <1>3
    <2>3. (q + 1) * Sector = q * Sector + Sector
      BY <1>1, <1>3
    <2> QED
      BY <2>2, <2>3, <1>7, <1>1, <1>3
  <1> QED
    BY <1>2, <1>3, <1>4, <1>5, <1>6, <1>7

\* The smaller of two numbers.
LEMMA SmallerOf ==
    ASSUME NEW a \in Nat, NEW b \in Nat
    PROVE  Min({a, b}) = IF a <= b THEN a ELSE b
  BY DEF Min

\* A read has a place and a number of blocks.
LEMMA CdAsked ==
    ASSUME NEW c \in Commands, c.op = "read"
    PROVE  c.lba \in Nat /\ c.blocks \in Nat
  BY SizeAssumption DEF Commands, SizeAssumption

\* The invariant holds when the session of the virtual CD starts.
LEMMA CdStart ==
    CdInit => CdIInv
  <1> SUFFICES ASSUME CdInit PROVE CdIInv
    OBVIOUS
  <1>1. host \in Hosts /\ host.expects = 0 /\ ~host.torn /\ host.last = Absent
    BY SizeAssumption DEF CdInit, Hosts, SizeAssumption
  <1>2. CdTypeOK
    <2>1. /\ writeMu \in BOOLEAN /\ done \in BOOLEAN /\ transportAlive \in BOOLEAN
          /\ deviceReady \in BOOLEAN /\ ctxDone \in BOOLEAN /\ connOpen \in BOOLEAN
          /\ isoOpen \in BOOLEAN /\ gone \in BOOLEAN
      BY DEF CdInit
    <2>2. readBytes \in Nat /\ deliveredBytes \in 0..readBytes /\ offset \in 0..Size
      BY SizeAssumption DEF CdInit, SizeAssumption
    <2> QED
      BY <2>1, <2>2, <1>1 DEF CdInit, CdTypeOK
  <1> QED
    BY <1>1, <1>2 DEF CdInit, CdIInv, Streaming, LockKept, Outstanding,
       FramesWhole, Noticed, Announced, Answered

\* What the invariant says, in full.
LEMMA CdKept ==
    ASSUME CdIInv
    PROVE  /\ CdTypeOK /\ host \in Hosts /\ writeMu \in BOOLEAN /\ offset \in 0..Size
           /\ readBytes \in Nat /\ deliveredBytes \in 0..readBytes
           /\ host.expects \in 0..Size /\ host.torn \in BOOLEAN
           /\ mediaState \in 0..2 /\ command \in Commands \cup {Absent}
  BY DEF CdIInv, CdTypeOK, Hosts

\* The octets of a read that is served, all of which the image has.
LEMMA CdLengths ==
    ASSUME command \in Commands, Reads
    PROVE  Length \in Nat /\ Length <= Size
  <1>1. command.lba \in Nat /\ command.blocks \in Nat
    BY CdAsked DEF Reads
  <1>2. command.lba * Sector \in Nat /\ Length \in Nat
    BY <1>1, SizeAssumption DEF Length, SizeAssumption
  <1> QED
    BY <1>2, SizeAssumption DEF Reads, InRange, SizeAssumption

\* A step of Close, of keepalive's end, of the caller or of the host's going.
LEMMA CdAside ==
    ASSUME CdIInv, CdTypeOK', UNCHANGED <<loop, command, mediaState, offset, writeMu, host>>
    PROVE  CdIInv'
  BY DEF CdIInv, Streaming, LockKept, Outstanding, FramesWhole, Noticed,
     Announced, Answered, Length, InRange, Reads

\* A step that gives up, or that comes after.
LEMMA CdEnding ==
    ASSUME CdIInv, CdTypeOK', loop' \in Ending, ~writeMu', UNCHANGED host
    PROVE  CdIInv'
  BY DEF CdIInv, Streaming, LockKept, Outstanding, FramesWhole, Noticed,
     Announced, Answered, Ending

\* What the host makes of a header when it expects nothing.
LEMMA CdHeader ==
    ASSUME CdIInv, loop \notin {"streaming"} \cup Ending, NEW n \in 0..Size
    PROVE  /\ Header(n) \in Hosts /\ Header(n).expects = n /\ ~Header(n).torn
           /\ Header(n).last = host.last /\ Header(n).served = host.served
  <1>1. host \in Hosts /\ host.expects = 0 /\ ~host.torn
    BY CdKept DEF CdIInv, Outstanding, FramesWhole, Ending
  <1>2. (host.torn \/ host.expects > 0) = FALSE
    <2>1. ~(host.torn \/ host.expects > 0)
      BY <1>1
    <2> QED
      BY <2>1
  <1>3. Header(n) = [host EXCEPT !.expects = n, !.torn = FALSE]
    BY <1>2 DEF Header
  <1> QED
    BY <1>1, <1>3 DEF Hosts

\* A reply that is a header, or a header and all of its payload.
LEMMA CdReply ==
    ASSUME CdIInv, CdTypeOK', UNCHANGED <<command, writeMu>>, ~writeMu,
           loop' \in {"top", "closing"},
           host'.expects = 0, ~host'.torn,
           host'.last # Absent => host'.last + 1 = Capacity,
           (command.op = "read" /\ command.blocks > 0) => host'.served = InRange
    PROVE  CdIInv'
  BY DEF CdIInv, Streaming, LockKept, Outstanding, FramesWhole, Noticed,
     Announced, Answered, InRange, Length

\* The invariant is inductive.
LEMMA CdStep ==
    CdIInv /\ [CdNext]_cdVars => CdIInv'
  <1> SUFFICES ASSUME CdIInv, [CdNext]_cdVars PROVE CdIInv'
    OBVIOUS
  <1> USE DEF mediaVars, healthVars, endVars
  <1>1. CASE Top
    <2>1. CdTypeOK'
      BY <1>1, CdKept DEF Top, CdTypeOK
    <2> QED
      BY <1>1, <2>1 DEF Top, CdIInv, Streaming, LockKept, Outstanding,
         FramesWhole, Noticed, Announced, Answered, Ending
  <1>2. CASE \/ ReceiveFails \/ ReplyFails \/ ReadAtFails
             \/ CloseDone \/ TransportDead
    <2>1. CdTypeOK'
      BY <1>2, CdKept DEF ReceiveFails, ReplyFails, ReadAtFails, CloseDone,
         TransportDead, CdTypeOK
    <2>2. loop' \in Ending /\ ~writeMu' /\ UNCHANGED host
      BY <1>2 DEF ReceiveFails, ReplyFails, ReadAtFails, CloseDone,
         TransportDead, Ending, CdIInv, LockKept
    <2> QED
      BY <2>1, <2>2, CdEnding
  <1>3. ASSUME NEW n \in 0..Chunk, StreamFails(n)
        PROVE  CdIInv'
    <2>0. Length \in Nat /\ offset \in Nat /\ offset < Length
      <3>1. command \in Commands /\ Reads
        BY <1>3 DEF StreamFails, CdIInv, Streaming
      <3> QED
        BY <1>3, <3>1, CdKept, CdLengths DEF StreamFails
    <2>1. Piece \in Nat
      <3>1. Length - offset \in Nat /\ Chunk \in Nat
        BY <2>0, SizeAssumption DEF SizeAssumption
      <3> QED
        BY <3>1, SmallerOf DEF Piece
    <2>2. readBytes' \in Nat /\ deliveredBytes' \in 0..readBytes'
      BY <1>3, <2>1, CdKept DEF StreamFails
    <2>3. CdTypeOK'
      BY <1>3, <2>2, CdKept DEF StreamFails, CdTypeOK
    <2> QED
      BY <1>3, <2>3, CdEnding DEF StreamFails, Ending
  <1>4. CASE CloseIso \/ KeepaliveEnds \/ Cancel \/ HostGone
    <2>1. CdTypeOK'
      BY <1>4, CdKept DEF CloseIso, KeepaliveEnds, Cancel, HostGone, CdTypeOK
    <2> QED
      BY <1>4, <2>1, CdAside DEF CloseIso, KeepaliveEnds, Cancel, HostGone
  <1>5. ASSUME NEW who \in {"loop", "outside"}, CloseConn(who)
        PROVE  CdIInv'
    <2>1. CdTypeOK'
      BY <1>5, CdKept DEF CloseConn, CdTypeOK
    <2> QED
      BY <1>5, <2>1, CdAside DEF CloseConn
  <1>6. CASE Keepalive
    <2>1. CASE Writable
      <3>1. /\ host' = Header(0) /\ ~writeMu
            /\ UNCHANGED <<loop, command, mediaState, offset, writeMu>>
        BY <1>6, <2>1 DEF Keepalive
      <3>2. 0 \in 0..Size
        BY SizeAssumption DEF SizeAssumption
      <3>3. CASE loop \notin Ending
        <4>1. loop # "streaming"
          BY <3>1 DEF CdIInv, Streaming
        <4>2. /\ host' \in Hosts /\ host'.expects = 0 /\ ~host'.torn
              /\ host'.last = host.last /\ host'.served = host.served
          BY <3>1, <3>2, <3>3, <4>1, CdHeader
        <4>3. CdTypeOK'
          BY <1>6, <2>1, <4>2, CdKept DEF Keepalive, CdTypeOK
        <4> QED
          BY <3>1, <4>1, <4>2, <4>3 DEF CdIInv, Streaming, LockKept,
             Outstanding, FramesWhole, Noticed, Announced, Answered,
             InRange, Length
      <3>4. CASE loop \in Ending
        <4>1. host' \in Hosts /\ host'.last = host.last
          <5>1. (host.torn \/ host.expects > 0) \in BOOLEAN
            OBVIOUS
          <5> QED
            BY <3>1, <3>2, <5>1, CdKept DEF Header, Hosts
        <4>2. CdTypeOK'
          BY <1>6, <2>1, <4>1, CdKept DEF Keepalive, CdTypeOK
        <4> QED
          BY <3>1, <3>4, <4>1, <4>2 DEF CdIInv, Streaming, LockKept,
             Outstanding, FramesWhole, Noticed, Announced, Answered,
             Ending
      <3> QED
        BY <3>3, <3>4
    <2>2. CASE ~Writable
      <3>1. CdTypeOK'
        BY <1>6, <2>2, CdKept DEF Keepalive, CdTypeOK
      <3> QED
        BY <1>6, <2>2, <3>1, CdAside DEF Keepalive
    <2> QED
      BY <2>1, <2>2
  <1>7. ASSUME NEW c \in Commands, Receive(c)
        PROVE  CdIInv'
    <2>1. /\ mediaState' \in 0..2 /\ eventState' \in {0, 1, 2, 4}
          /\ c.op # "sync" => mediaState' # 0
      <3>1. eventState \in {0, 1, 2, 4} /\ eventState \in Nat
        BY CdKept DEF CdTypeOK
      <3>2. Min({mediaState + 1, 2}) \in 1..2 /\ Min({eventState + 1, 2}) \in 1..2
        BY <3>1, CdKept, SmallerOf
      <3>3. CASE c.op = "sync"
        BY <1>7, <3>1, <3>3, CdKept DEF Receive
      <3>4. CASE c.op # "sync"
        BY <1>7, <3>2, <3>4 DEF Receive, UpdateMediaState
      <3> QED
        BY <3>3, <3>4
    <2>2. CdTypeOK'
      BY <1>7, <2>1, CdKept DEF Receive, CdTypeOK
    <2> QED
      BY <1>7, <2>1, <2>2 DEF Receive, CdIInv, Streaming, LockKept,
         Outstanding, FramesWhole, Noticed, Announced, Answered, Ending
  <1>8. CASE \/ Simple \/ Diagnostic \/ TestUnitReady
             \/ ReadCapacity \/ GetEventStatus \/ Eject
    <2>0. command \in Commands /\ ~writeMu /\ loop = "serving" /\ command.op # "read"
      BY <1>8 DEF Simple, Diagnostic, TestUnitReady, ReadCapacity,
         GetEventStatus, Eject, SendSense, CdIInv, Noticed, LockKept
    <2>1. 0 \in 0..Size
      BY SizeAssumption DEF SizeAssumption
    <2>2. /\ Header(0) \in Hosts /\ Header(0).expects = 0 /\ ~Header(0).torn
          /\ Header(0).last = host.last
      BY <2>0, <2>1, CdHeader DEF Ending
    <2>3. CASE Diagnostic
      <3>1. CdTypeOK'
        BY <2>3, CdKept DEF Diagnostic, CdTypeOK
      <3> QED
        BY <2>0, <2>3, <3>1 DEF Diagnostic, CdIInv, Streaming, LockKept,
           Outstanding, FramesWhole, Noticed, Announced, Answered,
           Ending
    <2>4. CASE ReadCapacity
      <3>1. mediaState \in 1..2 /\ Capacity \in Nat
        BY <2>0, <2>4, CdKept, WholeBlocks DEF ReadCapacity, CdIInv, Noticed,
           Capacity
      <3>2. CASE Capacity = 0
        <4>1. host' = Header(0)
          BY <2>4, <3>1, <3>2 DEF ReadCapacity, SendSense
        <4>2. CdTypeOK'
          BY <2>2, <2>4, <4>1, CdKept DEF ReadCapacity, SendSense, CdTypeOK
        <4> QED
          BY <2>0, <2>2, <2>4, <4>1, <4>2, CdReply DEF ReadCapacity, SendSense,
             CdIInv, Announced
      <3>3. CASE Capacity # 0
        <4>1. /\ host' \in Hosts /\ host'.expects = 0 /\ ~host'.torn
              /\ host'.last # Absent => host'.last + 1 = Capacity
          <5>1. Capacity - 1 \in Nat /\ (Capacity - 1) + 1 = Capacity
            BY <3>1, <3>3
          <5>2. host' = Header(0) \/ host' = [Header(0) EXCEPT !.last = Capacity - 1]
            BY <2>4 DEF ReadCapacity, SendSense
          <5> QED
            BY <2>2, <5>1, <5>2 DEF CdIInv, Announced, Hosts
        <4>2. CdTypeOK'
          BY <2>4, <4>1, CdKept DEF ReadCapacity, SendSense, CdTypeOK
        <4> QED
          BY <2>0, <2>4, <4>1, <4>2, CdReply DEF ReadCapacity, SendSense
      <3> QED
        BY <3>2, <3>3
    <2>5. CASE Simple \/ TestUnitReady \/ GetEventStatus \/ Eject
      <3>1. /\ host' = Header(0) /\ loop' \in {"top", "closing"}
            /\ UNCHANGED <<command, writeMu>>
        BY <2>5 DEF Simple, TestUnitReady, GetEventStatus, Eject, SendSense
      <3>2. /\ mediaState' \in 0..2 /\ eventState' \in {0, 1, 2, 4} /\ deviceReady' \in BOOLEAN
        <4>1. mediaState \in 0..2 /\ eventState \in {0, 1, 2, 4} /\ deviceReady \in BOOLEAN
          BY CdKept DEF CdTypeOK
        <4>2. CASE Simple
          BY <4>1, <4>2 DEF Simple
        <4>3. CASE TestUnitReady
          BY <4>1, <4>3 DEF TestUnitReady
        <4>4. CASE GetEventStatus
          BY <4>1, <4>4 DEF GetEventStatus
        <4>5. CASE Eject
          BY <4>1, <4>5 DEF Eject
        <4> QED
          BY <2>5, <4>2, <4>3, <4>4, <4>5
      <3>3. UNCHANGED <<offset, stop, done, transportAlive, connOpen, isoOpen, readBytes,
                        deliveredBytes, beat, ctxDone, gone>>
        BY <2>5 DEF Simple, TestUnitReady, GetEventStatus, Eject
      <3>4. CdTypeOK'
        BY <2>2, <3>1, <3>2, <3>3, CdKept DEF CdTypeOK
      <3> QED
        BY <2>0, <2>2, <3>1, <3>4, CdReply DEF CdIInv, Announced
    <2> QED
      BY <1>8, <2>3, <2>4, <2>5
  <1>9. CASE ReadNothing
    <2>0. command \in Commands /\ ~writeMu /\ loop = "serving"
      BY <1>9 DEF ReadNothing, SendSense, CdIInv, Noticed
    <2>1. 0 \in 0..Size
      BY SizeAssumption DEF SizeAssumption
    <2>2. /\ Header(0) \in Hosts /\ Header(0).expects = 0 /\ ~Header(0).torn
          /\ Header(0).last = host.last
      BY <2>0, <2>1, CdHeader DEF Ending
    <2>3. /\ host' \in Hosts /\ host'.expects = 0 /\ ~host'.torn /\ host'.last = host.last
          /\ command.blocks > 0 => host'.served = FALSE
      <3>1. PICK v : v = IF command.blocks = 0 THEN Absent ELSE FALSE
        OBVIOUS
      <3>2. v \in BOOLEAN \cup {Absent}
        BY <3>1
      <3>3. command.blocks > 0 => v = FALSE
        BY <1>9, <2>0, <3>1, CdAsked DEF ReadNothing
      <3>4. host' = [Header(0) EXCEPT !.served = v]
        BY <1>9, <3>1 DEF ReadNothing, SendSense
      <3> QED
        BY <2>2, <3>2, <3>3, <3>4 DEF Hosts
    <2>4. CdTypeOK'
      BY <1>9, <2>3, CdKept DEF ReadNothing, SendSense, CdTypeOK
    <2>5. host'.last # Absent => host'.last + 1 = Capacity
      BY <2>3 DEF CdIInv, Announced
    <2>6. command.blocks > 0 => host'.served = InRange
      <3>1. SUFFICES ASSUME command.blocks > 0 PROVE host'.served = InRange
        OBVIOUS
      <3>2. command.blocks # 0
        BY <1>9, <2>0, <3>1, CdAsked DEF ReadNothing
      <3>3. InRange = FALSE
        BY <1>9, <3>2 DEF ReadNothing, InRange
      <3> QED
        BY <2>3, <3>1, <3>3
    <2> QED
      BY <1>9, <2>0, <2>3, <2>4, <2>5, <2>6, CdReply DEF ReadNothing, SendSense
  <1>10. ASSUME NEW n \in 0..Chunk, ReadShort(n)
         PROVE  CdIInv'
    <2>0. Length \in Nat /\ n \in Nat /\ command \in Commands /\ ~writeMu /\ InRange
      BY <1>10, CdLengths DEF ReadShort, CdIInv, Noticed, Reads
    <2>1. readBytes' \in Nat /\ deliveredBytes' \in 0..readBytes'
      BY <1>10, <2>0, CdKept DEF ReadShort
    <2>2. CASE n = Length
      <3>1. /\ host' \in Hosts /\ host'.expects = 0 /\ ~host'.torn
            /\ host'.last = host.last /\ host'.served = TRUE
        <4>1. 0 \in 0..Size
          BY SizeAssumption DEF SizeAssumption
        <4>2. /\ Header(0) \in Hosts /\ Header(0).expects = 0 /\ ~Header(0).torn
              /\ Header(0).last = host.last
          BY <1>10, <4>1, CdHeader DEF ReadShort, Ending
        <4> QED
          BY <1>10, <2>2, <4>2 DEF ReadShort, SendSense, Hosts
      <3>2. CdTypeOK'
        BY <1>10, <2>1, <2>2, <3>1, CdKept DEF ReadShort, SendSense, CdTypeOK
      <3>3. loop' = "top" /\ UNCHANGED <<command, writeMu>>
        BY <1>10, <2>2 DEF ReadShort, SendSense
      <3>4. host'.last # Absent => host'.last + 1 = Capacity
        BY <3>1 DEF CdIInv, Announced
      <3>5. host'.served = InRange
        BY <2>0, <3>1
      <3> QED
        BY <2>0, <3>1, <3>2, <3>3, <3>4, <3>5, CdReply
    <2>3. CASE n # Length
      <3>1. CdTypeOK'
        BY <1>10, <2>1, <2>3, CdKept DEF ReadShort, CdTypeOK
      <3> QED
        BY <1>10, <2>0, <2>3, <3>1, CdEnding DEF ReadShort, Ending
    <2> QED
      BY <2>2, <2>3
  <1>11. CASE ReadLong
    <2>0. Length \in Nat /\ Length <= Size /\ command \in Commands /\ ~writeMu
      BY <1>11, CdLengths DEF ReadLong, CdIInv, Noticed
    <2>1. /\ Header(Length) \in Hosts /\ ~Header(Length).torn
          /\ Header(Length).expects = Length
          /\ Header(Length).last = host.last
      BY <1>11, <2>0, CdHeader DEF ReadLong, Ending
    <2>2. /\ host' \in Hosts /\ host'.expects = Length /\ ~host'.torn
          /\ host'.last = host.last /\ host'.served = TRUE
      BY <1>11, <2>1 DEF ReadLong, Hosts
    <2>3. CdTypeOK'
      BY <1>11, <2>2, CdKept, SizeAssumption DEF ReadLong, CdTypeOK,
         SizeAssumption
    <2> QED
      BY <1>11, <2>0, <2>2, <2>3 DEF ReadLong, CdIInv, Streaming, LockKept,
         Outstanding, FramesWhole, Noticed, Announced, Answered,
         InRange, Length, Reads
  <1>12. CASE StreamPiece
    <2>0. /\ Length \in Nat /\ Length <= Size
          /\ offset < Length /\ host.expects = Length - offset
          /\ host.served = TRUE /\ writeMu /\ command \in Commands /\ Reads
      BY <1>12, CdLengths DEF StreamPiece, CdIInv, Streaming
    <2>1. Piece \in Nat /\ Piece <= Length - offset /\ Size \in Nat
      BY <2>0, CdKept, SmallerOf, SizeAssumption DEF Piece, SizeAssumption
    <2>2. /\ host' \in Hosts /\ host'.expects = Length - offset' /\ host'.torn = host.torn
          /\ host'.last = host.last /\ host'.served = TRUE
      BY <1>12, <2>0, <2>1, CdKept DEF StreamPiece, Hosts
    <2>3. offset' \in 0..Size /\ offset' <= Length
      BY <1>12, <2>0, <2>1, CdKept DEF StreamPiece
    <2>4. readBytes' \in Nat /\ deliveredBytes' \in 0..readBytes'
      BY <1>12, <2>1, CdKept DEF StreamPiece
    <2>5. CdTypeOK'
      BY <1>12, <2>2, <2>3, <2>4, CdKept DEF StreamPiece, CdTypeOK
    <2> QED
      BY <1>12, <2>0, <2>2, <2>3, <2>5 DEF StreamPiece, CdIInv, Streaming,
         LockKept, Outstanding, FramesWhole, Noticed, Announced,
         Answered, InRange, Length, Reads
  <1>13. CASE StreamOver
    <2>1. CdTypeOK'
      BY <1>13, CdKept DEF StreamOver, CdTypeOK
    <2>2. /\ command \in Commands /\ Reads
          /\ offset <= Length /\ host.expects = Length - offset
          /\ host.served = TRUE /\ ~host.torn
      BY <1>13 DEF StreamOver, CdIInv, Streaming, FramesWhole
    <2>3. Length \in Nat /\ offset \in Nat
      BY <2>2, CdKept, CdLengths
    <2>4. host.expects = 0
      BY <1>13, <2>2, <2>3 DEF StreamOver
    <2>5. InRange = TRUE
      BY <2>2 DEF Reads, InRange
    <2>6. UNCHANGED <<command, host>> /\ loop' = "top" /\ ~writeMu'
      BY <1>13 DEF StreamOver
    <2>7. Answered'
      BY <2>2, <2>5, <2>6 DEF Answered, InRange, Length
    <2> QED
      BY <2>1, <2>2, <2>4, <2>6, <2>7 DEF CdIInv, Streaming, LockKept,
         Outstanding, FramesWhole, Noticed, Announced
  <1>14. CASE UNCHANGED cdVars
    <2>1. CdTypeOK'
      BY <1>14, CdKept DEF cdVars, CdTypeOK
    <2> QED
      BY <1>14, <2>1, CdAside DEF cdVars
  <1> QED
    BY <1>1, <1>2, <1>3, <1>4, <1>5, <1>6, <1>7, <1>8, <1>9, <1>10, <1>11, <1>12, <1>13,
       <1>14 DEF CdNext, LoopStep, Serve

\* The invariant holds in every state of the virtual CD.
THEOREM CdInvariant ==
    CdSafetySpec => []CdIInv
  <1>1. CdInit => CdIInv
    BY CdStart
  <1>2. CdIInv /\ [CdNext]_cdVars => CdIInv'
    BY CdStep
  <1> QED
    BY <1>1, <1>2, PTL DEF CdSafetySpec

\* The write lock over a long read keeps keepalive's header out of its payload, for
\* reads of any length in chunks of any size.
THEOREM CdFramesWhole ==
    CdSafetySpec => []FramesWhole
  <1>1. CdIInv => FramesWhole
    BY DEF CdIInv
  <1> QED
    BY <1>1, CdInvariant, PTL

\* The last block that READ CAPACITY announces is the last one that read serves,
\* also for an image that does not end with a sector.
THEOREM CdCapacityExact ==
    CdSafetySpec => []CapacityExact
  <1>1. CdIInv => CapacityExact
    <2> SUFFICES ASSUME CdIInv, loop = "top", command # Absent, command.op = "read",
                        command.blocks > 0, host.last # Absent
                 PROVE  host.served <=> command.lba + command.blocks <= host.last + 1
      BY DEF CapacityExact
    <2>1. command.lba \in Nat /\ command.blocks \in Nat
      BY CdKept, CdAsked
    <2>2. host.last + 1 = Capacity
      BY DEF CdIInv, Announced
    <2>3. host.served = InRange
      BY DEF CdIInv, Answered
    <2>4. InRange <=> command.lba + command.blocks <= Capacity
      BY <2>1, WholeBlocks DEF InRange, Length, Capacity
    <2>5. host.served <=> InRange
      BY <2>3
    <2> QED
      BY <2>2, <2>4, <2>5
  <1> QED
    BY <1>1, CdInvariant, PTL
=============================================================================
