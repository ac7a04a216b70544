------------------------ MODULE ConsoleManagerProofs ------------------------
(***************************************************************************)
(* Proofs about console.Manager, for any number of OpenOnce calls, handles *)
(* and clients.  The inductive invariant IInv is stated in ConsoleManager. *)
(***************************************************************************)
EXTENDS ConsoleManager, TLAPS

\* The empty manager satisfies the invariant.
LEMMA InitIInv == Init => IInv
  <1> SUFFICES ASSUME Init PROVE IInv
    OBVIOUS
  <1> USE NoneAssumption DEF Init
  <1>1. TypeOK
    BY DEF TypeOK, OpenPlaces, CloserPlaces, SweeperPlaces, Answers
  <1>2. OneOwner
    BY DEF OneOwner, InOpen, InHand
  <1>3. Unopened /\ Stages
    BY DEF Unopened, Stages
  <1> QED
    BY <1>1, <1>2, <1>3 DEF IInv

\* Every step of every party keeps the invariant.
LEMMA NextIInv == IInv /\ [Next]_vars => IInv'
  <1> SUFFICES ASSUME IInv, [Next]_vars PROVE IInv'
    OBVIOUS
  <1> USE NoneAssumption DEF IInv, openVars, opsVars, tableVars, endVars, sweepVars
  <1>1. ASSUME NEW o \in Opens, RefuseMalformed(o) PROVE IInv'
    <2>1. TypeOK'
      BY <1>1 DEF TypeOK, RefuseMalformed, OpenPlaces, CloserPlaces, SweeperPlaces,
                  Answers
    <2>2. OneOwner'
      BY <1>1 DEF TypeOK, OneOwner, InOpen, InHand, Unopened, Stages, RefuseMalformed
    <2>3. Unopened' /\ Stages'
      BY <1>1 DEF TypeOK, Unopened, Stages, RefuseMalformed
    <2> QED
      BY <2>1, <2>2, <2>3
  <1>2. ASSUME NEW o \in Opens, RefuseMismatch(o) PROVE IInv'
    <2>1. TypeOK'
      BY <1>2 DEF TypeOK, RefuseMismatch, OpenPlaces, CloserPlaces, SweeperPlaces,
                  Answers
    <2>2. OneOwner'
      BY <1>2 DEF TypeOK, OneOwner, InOpen, InHand, Unopened, Stages, RefuseMismatch
    <2>3. Unopened' /\ Stages'
      BY <1>2 DEF TypeOK, Unopened, Stages, RefuseMismatch
    <2> QED
      BY <2>1, <2>2, <2>3
  <1>3. ASSUME NEW o \in Opens, Join(o) PROVE IInv'
    <2>1. TypeOK'
      BY <1>3 DEF TypeOK, Join, OpenPlaces, CloserPlaces, SweeperPlaces,
                  Answers
    <2>2. OneOwner'
      BY <1>3 DEF TypeOK, OneOwner, InOpen, InHand, Unopened, Stages, Join
    <2>3. Unopened' /\ Stages'
      BY <1>3 DEF TypeOK, Unopened, Stages, Join
    <2> QED
      BY <2>1, <2>2, <2>3
  <1>4. ASSUME NEW o \in Opens, Record(o) PROVE IInv'
    <2>1. TypeOK'
      BY <1>4 DEF TypeOK, Record, OpenPlaces, CloserPlaces, SweeperPlaces,
                  Answers
    <2>2. OneOwner'
      BY <1>4 DEF TypeOK, OneOwner, InOpen, InHand, Unopened, Stages, Record
    <2>3. Unopened' /\ Stages'
      BY <1>4 DEF TypeOK, Unopened, Stages, Record
    <2> QED
      BY <2>1, <2>2, <2>3
  <1>5. ASSUME NEW o \in Opens, Start(o) PROVE IInv'
    <2>1. TypeOK'
      BY <1>5 DEF TypeOK, Start, OpenPlaces, CloserPlaces, SweeperPlaces,
                  Answers
    <2>2. OneOwner'
      BY <1>5 DEF TypeOK, OneOwner, InOpen, InHand, Unopened, Stages, Start
    <2>3. Unopened' /\ Stages'
      BY <1>5 DEF TypeOK, Unopened, Stages, Start
    <2> QED
      BY <2>1, <2>2, <2>3
  <1>6. ASSUME NEW o \in Opens, ConnectFails(o) PROVE IInv'
    <2>1. TypeOK'
      BY <1>6 DEF TypeOK, ConnectFails, OpenPlaces, CloserPlaces, SweeperPlaces,
                  Answers
    <2>2. OneOwner'
      BY <1>6 DEF TypeOK, OneOwner, InOpen, InHand, Unopened, Stages, ConnectFails
    <2>3. Unopened' /\ Stages'
      BY <1>6 DEF TypeOK, Unopened, Stages, ConnectFails
    <2> QED
      BY <2>1, <2>2, <2>3
  <1>7. ASSUME NEW o \in Opens, Connects(o) PROVE IInv'
    <2>1. TypeOK'
      BY <1>7 DEF TypeOK, Connects, OpenPlaces, CloserPlaces, SweeperPlaces,
                  Answers
    <2>2. OneOwner'
      BY <1>7 DEF TypeOK, OneOwner, InOpen, InHand, Unopened, Stages, Connects
    <2>3. Unopened' /\ Stages'
      BY <1>7 DEF TypeOK, Unopened, Stages, Connects
    <2> QED
      BY <2>1, <2>2, <2>3
  <1>8. ASSUME NEW o \in Opens, Register(o) PROVE IInv'
    <2>1. TypeOK'
      BY <1>8 DEF TypeOK, Register, OpenPlaces, CloserPlaces, SweeperPlaces,
                  Answers
    <2>2. OneOwner'
      BY <1>8 DEF TypeOK, OneOwner, InOpen, InHand, Unopened, Stages, Register
    <2>3. Unopened' /\ Stages'
      BY <1>8 DEF TypeOK, Unopened, Stages, Register
    <2> QED
      BY <2>1, <2>2, <2>3
  <1>9. ASSUME NEW o \in Opens, Drop(o) PROVE IInv'
    <2>1. TypeOK'
      BY <1>9 DEF TypeOK, Drop, OpenPlaces, CloserPlaces, SweeperPlaces,
                  Answers
    <2>2. OneOwner'
      BY <1>9 DEF TypeOK, OneOwner, InOpen, InHand, Unopened, Stages, Drop
    <2>3. Unopened' /\ Stages'
      BY <1>9 DEF TypeOK, Unopened, Stages, Drop
    <2> QED
      BY <2>1, <2>2, <2>3
  <1>10. ASSUME NEW o \in Opens, Settle(o) PROVE IInv'
    <2>1. TypeOK'
      BY <1>10 DEF TypeOK, Settle, OpenPlaces, CloserPlaces, SweeperPlaces,
                  Answers
    <2>2. OneOwner'
      BY <1>10 DEF TypeOK, OneOwner, InOpen, InHand, Unopened, Stages, Settle
    <2>3. Unopened' /\ Stages'
      BY <1>10 DEF TypeOK, Unopened, Stages, Settle
    <2> QED
      BY <2>1, <2>2, <2>3
  <1>11. ASSUME NEW o \in Opens, Answer(o) PROVE IInv'
    <2>1. TypeOK'
      BY <1>11 DEF TypeOK, Answer, OpenPlaces, CloserPlaces, SweeperPlaces,
                  Answers
    <2>2. OneOwner'
      BY <1>11 DEF TypeOK, OneOwner, InOpen, InHand, Unopened, Stages, Answer
    <2>3. Unopened' /\ Stages'
      BY <1>11 DEF TypeOK, Unopened, Stages, Answer
    <2> QED
      BY <2>1, <2>2, <2>3
  <1>12. ASSUME NEW o \in Opens, Cancel(o) PROVE IInv'
    <2>1. TypeOK'
      BY <1>12 DEF TypeOK, Cancel, OpenPlaces, CloserPlaces, SweeperPlaces,
                  Answers
    <2>2. OneOwner'
      BY <1>12 DEF TypeOK, OneOwner, InOpen, InHand, Unopened, Stages, Cancel
    <2>3. Unopened' /\ Stages'
      BY <1>12 DEF TypeOK, Unopened, Stages, Cancel
    <2> QED
      BY <2>1, <2>2, <2>3
  <1>13. ASSUME NEW o \in Opens, GrowOld(o) PROVE IInv'
    <2>1. TypeOK'
      BY <1>13 DEF TypeOK, GrowOld, OpenPlaces, CloserPlaces, SweeperPlaces,
                  Answers
    <2>2. OneOwner'
      BY <1>13 DEF TypeOK, OneOwner, InOpen, InHand, Unopened, Stages, GrowOld
    <2>3. Unopened' /\ Stages'
      BY <1>13 DEF TypeOK, Unopened, Stages, GrowOld
    <2> QED
      BY <2>1, <2>2, <2>3
  <1>14. ASSUME NEW o \in Opens, Get(o) PROVE IInv'
    <2>1. TypeOK'
      BY <1>14 DEF TypeOK, Get, OpenPlaces, CloserPlaces, SweeperPlaces,
                  Answers
    <2>2. OneOwner'
      BY <1>14 DEF TypeOK, OneOwner, InOpen, InHand, Unopened, Stages, Get
    <2>3. Unopened' /\ Stages'
      BY <1>14 DEF TypeOK, Unopened, Stages, Get
    <2> QED
      BY <2>1, <2>2, <2>3
  <1>15. ASSUME NEW o \in Opens, GrowIdle(o) PROVE IInv'
    <2>1. TypeOK'
      BY <1>15 DEF TypeOK, GrowIdle, OpenPlaces, CloserPlaces, SweeperPlaces,
                  Answers
    <2>2. OneOwner'
      BY <1>15 DEF TypeOK, OneOwner, InOpen, InHand, Unopened, Stages, GrowIdle
    <2>3. Unopened' /\ Stages'
      BY <1>15 DEF TypeOK, Unopened, Stages, GrowIdle
    <2> QED
      BY <2>1, <2>2, <2>3
  <1>16. ASSUME NEW o \in Opens, SweepClose(o) PROVE IInv'
    <2>1. TypeOK'
      BY <1>16 DEF TypeOK, SweepClose, OpenPlaces, CloserPlaces, SweeperPlaces,
                  Answers
    <2>2. OneOwner'
      BY <1>16 DEF TypeOK, OneOwner, InOpen, InHand, Unopened, Stages, SweepClose
    <2>3. Unopened' /\ Stages'
      BY <1>16 DEF TypeOK, OneOwner, InHand, Unopened, Stages, SweepClose
    <2> QED
      BY <2>1, <2>2, <2>3
  <1>17. ASSUME NEW o \in Opens, CloseEntry(o) PROVE IInv'
    <2>1. TypeOK'
      BY <1>17 DEF TypeOK, CloseEntry, OpenPlaces, CloserPlaces, SweeperPlaces,
                  Answers
    <2>2. OneOwner'
      BY <1>17 DEF TypeOK, OneOwner, InOpen, InHand, Unopened, Stages, CloseEntry
    <2>3. Unopened' /\ Stages'
      BY <1>17 DEF TypeOK, OneOwner, InHand, Unopened, Stages, CloseEntry
    <2> QED
      BY <2>1, <2>2, <2>3
  <1>18. ASSUME NEW k \in Clients, CloseTaken(k) PROVE IInv'
    <2>1. TypeOK'
      BY <1>18 DEF TypeOK, CloseTaken, OpenPlaces, CloserPlaces, SweeperPlaces,
                  Answers
    <2>2. OneOwner'
      BY <1>18 DEF TypeOK, OneOwner, InOpen, InHand, Unopened, Stages, CloseTaken
    <2>3. Unopened' /\ Stages'
      BY <1>18 DEF TypeOK, OneOwner, InHand, Unopened, Stages, CloseTaken
    <2> QED
      BY <2>1, <2>2, <2>3
  <1>19. ASSUME NEW k \in Clients, NEW o \in Opens, CloseSession(k, o) PROVE IInv'
    <2>1. TypeOK'
      BY <1>19 DEF TypeOK, CloseSession, OpenPlaces, CloserPlaces, SweeperPlaces,
                  Answers
    <2>2. OneOwner'
      BY <1>19 DEF TypeOK, OneOwner, InOpen, InHand, Unopened, Stages, CloseSession
    <2>3. Unopened' /\ Stages'
      BY <1>19 DEF TypeOK, Unopened, Stages, CloseSession
    <2> QED
      BY <2>1, <2>2, <2>3
  <1>20. CASE Sweep
    <2>1. TypeOK'
      BY <1>20 DEF TypeOK, Sweep, Sweepable, OpenPlaces, CloserPlaces, SweeperPlaces,
                  Answers
    <2>2. OneOwner'
      BY <1>20 DEF TypeOK, OneOwner, InOpen, InHand, Unopened, Stages, Sweep
    <2>3. Unopened' /\ Stages'
      BY <1>20 DEF TypeOK, Unopened, Stages, Sweep
    <2> QED
      BY <2>1, <2>2, <2>3
  <1>21. CASE SweepRest
    <2>1. TypeOK'
      BY <1>21 DEF TypeOK, SweepRest, OpenPlaces, CloserPlaces, SweeperPlaces,
                  Answers
    <2>2. OneOwner'
      BY <1>21 DEF TypeOK, OneOwner, InOpen, InHand, Unopened, Stages, SweepRest
    <2>3. Unopened' /\ Stages'
      BY <1>21 DEF TypeOK, Unopened, Stages, SweepRest
    <2> QED
      BY <2>1, <2>2, <2>3
  <1>22. CASE SweepStop
    <2>1. TypeOK'
      BY <1>22 DEF TypeOK, SweepStop, OpenPlaces, CloserPlaces, SweeperPlaces,
                  Answers
    <2>2. OneOwner'
      BY <1>22 DEF TypeOK, OneOwner, InOpen, InHand, Unopened, Stages, SweepStop
    <2>3. Unopened' /\ Stages'
      BY <1>22 DEF TypeOK, Unopened, Stages, SweepStop
    <2> QED
      BY <2>1, <2>2, <2>3
  <1>23. CASE ParentCancel
    <2>1. TypeOK'
      BY <1>23 DEF TypeOK, ParentCancel, OpenPlaces, CloserPlaces, SweeperPlaces,
                  Answers
    <2>2. OneOwner'
      BY <1>23 DEF TypeOK, OneOwner, InOpen, InHand, Unopened, Stages, ParentCancel
    <2>3. Unopened' /\ Stages'
      BY <1>23 DEF TypeOK, Unopened, Stages, ParentCancel
    <2> QED
      BY <2>1, <2>2, <2>3
  <1>24. CASE CloseCancel
    <2>1. TypeOK'
      BY <1>24 DEF TypeOK, CloseCancel, OpenPlaces, CloserPlaces, SweeperPlaces,
                  Answers
    <2>2. OneOwner'
      BY <1>24 DEF TypeOK, OneOwner, InOpen, InHand, Unopened, Stages, CloseCancel
    <2>3. Unopened' /\ Stages'
      BY <1>24 DEF TypeOK, Unopened, Stages, CloseCancel
    <2> QED
      BY <2>1, <2>2, <2>3
  <1>25. CASE CloseTakeAll
    <2>1. TypeOK'
      BY <1>25 DEF TypeOK, CloseTakeAll, OpenPlaces, CloserPlaces, SweeperPlaces,
                  Answers
    <2>2. OneOwner'
      BY <1>25 DEF TypeOK, OneOwner, InOpen, InHand, Unopened, Stages, CloseTakeAll
    <2>3. Unopened' /\ Stages'
      BY <1>25 DEF TypeOK, Unopened, Stages, CloseTakeAll
    <2> QED
      BY <2>1, <2>2, <2>3
  <1>26. CASE CloseReturn
    <2>1. TypeOK'
      BY <1>26 DEF TypeOK, CloseReturn, OpenPlaces, CloserPlaces, SweeperPlaces,
                  Answers
    <2>2. OneOwner'
      BY <1>26 DEF TypeOK, OneOwner, InOpen, InHand, Unopened, Stages, CloseReturn
    <2>3. Unopened' /\ Stages'
      BY <1>26 DEF TypeOK, Unopened, Stages, CloseReturn
    <2> QED
      BY <2>1, <2>2, <2>3
  <1>27. CASE UNCHANGED vars
    BY <1>27 DEF vars, TypeOK, OneOwner, InOpen, InHand, Unopened, Stages
  <1> QED
    BY <1>1, <1>2, <1>3, <1>4, <1>5, <1>6, <1>7, <1>8, <1>9,
       <1>10, <1>11, <1>12, <1>13, <1>14, <1>15, <1>16, <1>17, <1>18,
       <1>19, <1>20, <1>21, <1>22, <1>23, <1>24, <1>25, <1>26, <1>27
       DEF Next, OpenOnce, Terminated

\* The invariant holds in every reachable state of the manager.
THEOREM ManagerInvariant == SafetySpec => []IInv
  <1> QED
    BY InitIInv, NextIInv, PTL DEF SafetySpec

\* Every live console has exactly one party that will close it.
THEOREM ManagerOneOwner == SafetySpec => []OneOwner
  <1>1. IInv => OneOwner
    BY DEF IInv
  <1> QED
    BY <1>1, ManagerInvariant, PTL

\* When Manager.Close has returned, nothing it was responsible for is alive.
THEOREM ManagerNothingLeftBehind == SafetySpec => []NothingLeftBehind
  <1>1. IInv => NothingLeftBehind
    BY DEF IInv, OneOwner, Stages, NothingLeftBehind
  <1> QED
    BY <1>1, ManagerInvariant, PTL
=============================================================================
