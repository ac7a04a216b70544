------------------------- MODULE ExecuteOnceProofs -------------------------
(***************************************************************************)
(* Proofs about the operation ledger, for any number of calls, ids and     *)
(* fingerprints and any limit.  The inductive invariant IInv is stated in  *)
(* ExecuteOnce and model-checked there.                                    *)
(***************************************************************************)
EXTENDS ExecuteOnce, FiniteSetTheorems, TLAPS

\* The eviction loop only deletes entries it may delete: they are present,
\* finished, and not the entry of the call that is settling.
LEMMA EvictionsLemma ==
    ASSUME NEW c \in Calls, NEW E \in Evictions(c)
    PROVE  /\ E \subseteq Ids
           /\ arg[c].id \notin E
           /\ \A i \in E : operations[i] # None /\ Finished(operations[i])
  <1>1. E \subseteq Evictable(c)
    BY DEF Evictions
  <1> QED
    BY <1>1 DEF Evictable, Present

\* The ledger starts empty, which satisfies the invariant.
LEMMA InitIInv == Init => IInv
  <1> SUFFICES ASSUME Init PROVE IInv
    OBVIOUS
  <1> USE NoneAssumption DEF Init
  <1>1. TypeOK
    BY DEF TypeOK, Places, Settled
  <1>2. Filed
    BY DEF Filed
  <1>3. Coherent
    BY DEF Coherent, Finished, Settled
  <1> QED
    BY <1>1, <1>2, <1>3 DEF IInv

\* Every step of every call keeps the invariant.
LEMMA NextIInv == IInv /\ [Next]_vars => IInv'
  <1> SUFFICES ASSUME IInv, [Next]_vars PROVE IInv'
    OBVIOUS
  <1> USE NoneAssumption DEF IInv, Places, Settled, Finished
  <1>1. ASSUME NEW c \in Calls, RefuseMalformed(c) PROVE IInv'
    <2>1. TypeOK'
      BY <1>1 DEF TypeOK, RefuseMalformed
    <2>2. Filed'
      BY <1>1 DEF TypeOK, Filed, Coherent, RefuseMalformed
    <2>3. Coherent'
      BY <1>1 DEF TypeOK, Coherent, RefuseMalformed
    <2> QED
      BY <2>1, <2>2, <2>3
  <1>2. ASSUME NEW c \in Calls, RefuseMismatch(c) PROVE IInv'
    <2>1. TypeOK'
      BY <1>2 DEF TypeOK, RefuseMismatch
    <2>2. Filed'
      BY <1>2 DEF TypeOK, Filed, Coherent, RefuseMismatch
    <2>3. Coherent'
      BY <1>2 DEF TypeOK, Coherent, RefuseMismatch
    <2> QED
      BY <2>1, <2>2, <2>3
  <1>3. ASSUME NEW c \in Calls, Join(c) PROVE IInv'
    <2> DEFINE r == operations[arg[c].id]
    <2>0. /\ r \in Calls /\ r # c
          /\ source[r] = r
          /\ arg[r].id = arg[c].id /\ arg[r].key = arg[c].key
          /\ pc[c] = "idle"
          /\ pc' = [pc EXCEPT ![c] = "waiting"]
          /\ source' = [source EXCEPT ![c] = r]
          /\ UNCHANGED <<arg, operations, outcome, forgotten>>
      BY <1>3 DEF TypeOK, Filed, Coherent, Join
    <2> HIDE DEF r
    <2>1. TypeOK'
      BY <2>0 DEF TypeOK
    <2>2. Filed'
      BY <2>0 DEF TypeOK, Filed, Coherent
    <2>3. Coherent'
      BY <2>0 DEF TypeOK, Coherent
    <2> QED
      BY <2>1, <2>2, <2>3
  <1>4. ASSUME NEW c \in Calls, Register(c) PROVE IInv'
    <2>1. TypeOK'
      BY <1>4 DEF TypeOK, Register
    <2>2. Filed'
      BY <1>4 DEF TypeOK, Filed, Coherent, Register
    <2>3. Coherent'
      BY <1>4 DEF TypeOK, Coherent, Register
    <2> QED
      BY <2>1, <2>2, <2>3
  <1>5. ASSUME NEW c \in Calls, Settle(c) PROVE IInv'
    <2>1. PICK result \in {"value", "error"}, E \in Evictions(c) :
            /\ outcome' = [outcome EXCEPT ![c] = result]
            /\ operations' = [i \in Ids |-> IF i \in E THEN None ELSE operations[i]]
            /\ forgotten' = forgotten \cup {operations[i] : i \in E}
      BY <1>5 DEF Settle
    <2>2. /\ E \subseteq Ids
          /\ arg[c].id \notin E
          /\ \A i \in E : operations[i] # None /\ Finished(operations[i])
      BY EvictionsLemma
    <2>3. /\ pc[c] = "running"
          /\ pc' = [pc EXCEPT ![c] = "returned"]
          /\ UNCHANGED <<arg, source>>
      BY <1>5 DEF Settle
    <2>4. source[c] = c
      BY <2>3 DEF TypeOK, Filed
    <2>5. TypeOK'
      BY <2>1, <2>2, <2>3 DEF TypeOK
    <2>6. Filed'
      <3>1. \A i \in Ids : operations'[i] # None =>
                /\ arg'[operations'[i]].id = i
                /\ source'[operations'[i]] = operations'[i]
        BY <2>1, <2>3 DEF TypeOK, Filed
      <3>2. ASSUME NEW d \in Calls, pc'[d] = "running"
            PROVE  operations'[arg'[d].id] = d
        <4>1. pc[d] = "running" /\ d # c /\ operations[arg[d].id] = d
          BY <3>2, <2>3 DEF TypeOK, Filed
        <4>2. ~ Finished(d)
          BY <4>1 DEF TypeOK, Filed, Coherent
        <4>3. arg[d].id \in Ids /\ arg[d].id \notin E
          BY <4>1, <4>2, <2>2 DEF TypeOK
        <4> QED
          BY <4>1, <4>3, <2>1, <2>3
      <3>3. ASSUME NEW d \in Calls, source'[d] = d
            PROVE  operations'[arg'[d].id] = d \/ d \in forgotten'
        <4>1. operations[arg[d].id] = d \/ d \in forgotten
          BY <3>3, <2>3 DEF Filed
        <4>2. arg[d].id \in Ids
          BY DEF TypeOK
        <4> QED
          BY <4>1, <4>2, <2>1, <2>3
      <3> QED
        BY <3>1, <3>2, <3>3 DEF Filed
    <2>7. Coherent'
      BY <2>1, <2>3, <2>4 DEF TypeOK, Coherent
    <2> QED
      BY <2>5, <2>6, <2>7
  <1>6. ASSUME NEW c \in Calls, Panic(c) PROVE IInv'
    <2>0. source[c] = c
      BY <1>6 DEF TypeOK, Filed, Panic
    <2>1. TypeOK'
      BY <1>6 DEF TypeOK, Panic
    <2>2. Filed'
      BY <1>6 DEF TypeOK, Filed, Coherent, Panic
    <2>3. Coherent'
      BY <1>6, <2>0 DEF TypeOK, Coherent, Panic
    <2> QED
      BY <2>1, <2>2, <2>3
  <1>7. ASSUME NEW c \in Calls, Answer(c) PROVE IInv'
    <2>1. TypeOK'
      BY <1>7 DEF TypeOK, Answer
    <2>2. Filed'
      BY <1>7 DEF TypeOK, Filed, Coherent, Answer
    <2>3. Coherent'
      BY <1>7 DEF TypeOK, Coherent, Answer
    <2> QED
      BY <2>1, <2>2, <2>3
  <1>8. ASSUME NEW c \in Calls, Cancel(c) PROVE IInv'
    <2>1. TypeOK'
      BY <1>8 DEF TypeOK, Cancel
    <2>2. Filed'
      BY <1>8 DEF TypeOK, Filed, Coherent, Cancel
    <2>3. Coherent'
      BY <1>8 DEF TypeOK, Coherent, Cancel
    <2> QED
      BY <2>1, <2>2, <2>3
  <1>9. CASE UNCHANGED vars
    BY <1>9 DEF vars, TypeOK, Filed, Coherent
  <1> QED
    BY <1>1, <1>2, <1>3, <1>4, <1>5, <1>6, <1>7, <1>8, <1>9
       DEF Next, Step, Terminated

\* The invariant holds in every reachable state of the ledger.
THEOREM LedgerInvariant == SafetySpec => []IInv
  <1> QED
    BY InitIInv, NextIInv, PTL DEF SafetySpec

\* ExecuteOnce never runs one operation_id in two calls at once.
THEOREM LedgerNoConcurrentExecution == SafetySpec => []NoConcurrentExecution
  <1>1. IInv => NoConcurrentExecution
    BY DEF IInv, Filed, NoConcurrentExecution
  <1> QED
    BY <1>1, LedgerInvariant, PTL

\* Every retry is answered from a settled record of the same id and arguments.
THEOREM LedgerAnsweredFromSettledTwin == SafetySpec => []AnsweredFromSettledTwin
  <1>1. IInv => AnsweredFromSettledTwin
    BY NoneAssumption
       DEF IInv, TypeOK, Coherent, AnsweredFromSettledTwin, Executed, Finished
  <1> QED
    BY <1>1, LedgerInvariant, PTL

\* An operation runs twice only if the eviction loop dropped one of the runs.
THEOREM LedgerRepeatedOnlyIfForgotten == SafetySpec => []RepeatedOnlyIfForgotten
  <1>1. IInv => RepeatedOnlyIfForgotten
    BY DEF IInv, Filed, RepeatedOnlyIfForgotten, Executed
  <1> QED
    BY <1>1, LedgerInvariant, PTL

\* While the ledger can hold every id, nothing is ever forgotten.
LEMMA NextNothingForgotten ==
    ASSUME Cardinality(Ids) <= MaxOperations, IInv, forgotten = {}, [Next]_vars
    PROVE  forgotten' = {}
  <1>1. ASSUME NEW c \in Calls, Settle(c) PROVE forgotten' = {}
    <2>1. PICK E \in Evictions(c) :
            forgotten' = forgotten \cup {operations[i] : i \in E}
      BY <1>1 DEF Settle
    <2>2. /\ Cardinality(Present) \in Nat /\ Cardinality(Ids) \in Nat
          /\ Cardinality(Present) <= Cardinality(Ids)
      BY IdsAssumption, FS_Subset, FS_CardinalityType DEF Present
    <2>3. Cardinality(Present) - MaxOperations <= 0
      BY <2>2, MaxOperationsAssumption
    <2>4. E = {}
      BY <2>3 DEF Evictions
    <2> QED
      BY <2>1, <2>4
  <1>2. ASSUME NEW c \in Calls, Step(c), ~Settle(c) PROVE forgotten' = {}
    BY <1>2 DEF Step, RefuseMalformed, RefuseMismatch, Join, Register, Panic,
                Answer, Cancel
  <1> QED
    BY <1>1, <1>2 DEF Next, Terminated, vars

\* With no more operation ids in use than the ledger holds, a retry never runs
\* an operation a second time.
THEOREM LedgerAtMostOnceWithinLimit ==
    ASSUME Cardinality(Ids) <= MaxOperations
    PROVE  SafetySpec => []AtMostOnce
  <1> DEFINE NothingForgotten == forgotten = {}
  <1>1. Init => NothingForgotten
    BY DEF Init
  <1>2. IInv /\ NothingForgotten /\ [Next]_vars => NothingForgotten'
    BY NextNothingForgotten
  <1>3. IInv /\ NothingForgotten => AtMostOnce
    BY DEF IInv, Filed, AtMostOnce, Executed
  <1> HIDE DEF NothingForgotten
  <1> QED
    BY <1>1, <1>2, <1>3, LedgerInvariant, PTL DEF SafetySpec
============================================================================
