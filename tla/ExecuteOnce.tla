---------------------------- MODULE ExecuteOnce ----------------------------
(***************************************************************************)
(* The operation ledger of a console session: Session.ExecuteOnce and the  *)
(* table s.operations (internal/console/session.go).  Every mutating MCP   *)
(* tool runs its work through it under a client-chosen operation_id, so    *)
(* that a transport retry is answered from the record of the first call.   *)
(*                                                                         *)
(* Each section the code runs under dedupeMu is one action.  A record is a *)
(* heap object in the code (waiters keep the pointer after the table has   *)
(* dropped it); here it is named by the call that created it.              *)
(***************************************************************************)
EXTENDS Integers, FiniteSets

CONSTANTS
    Calls,          \* ExecuteOnce invocations, each made at most once
    Ids,            \* well-formed operation ids
    Keys,           \* argument fingerprints
    MaxOperations,  \* the 256 of the eviction loop
    None            \* no record

ASSUME MaxOperationsAssumption == MaxOperations \in Nat \ {0}
ASSUME NoneAssumption == None \notin Calls
ASSUME CallsAssumption == IsFiniteSet(Calls)
ASSUME IdsAssumption == IsFiniteSet(Ids)

VARIABLES
    pc,          \* where each call stands
    arg,         \* its operation_id and fingerprint
    operations,  \* s.operations: operation_id -> record, None if absent
    outcome,     \* the answer of each record, "pending" until it is settled
    source,      \* the record a call waits on or was answered from
    forgotten    \* history: records the eviction loop has dropped

vars == <<pc, arg, operations, outcome, source, forgotten>>

Places == {"idle", "running", "waiting", "returned", "refused", "cancelled"}
Settled == {"value", "error", "panicked"}

\* operationRecord.finished
Finished(c) == outcome[c] \in Settled

\* The ids that have an entry, and len(s.operations).
Present == {i \in Ids : operations[i] # None}

TypeOK ==
    /\ pc \in [Calls -> Places]
    /\ arg \in [Calls -> [id : Ids, key : Keys]]
    /\ operations \in [Ids -> Calls \cup {None}]
    /\ outcome \in [Calls -> Settled \cup {"pending"}]
    /\ source \in [Calls -> Calls \cup {None}]
    /\ forgotten \in SUBSET Calls

Init ==
    /\ pc = [c \in Calls |-> "idle"]
    /\ arg \in [Calls -> [id : Ids, key : Keys]]
    /\ operations = [i \in Ids |-> None]
    /\ outcome = [c \in Calls |-> "pending"]
    /\ source = [c \in Calls |-> None]
    /\ forgotten = {}

\* An empty or overlong operation_id is turned away before the lock.
RefuseMalformed(c) ==
    /\ pc[c] = "idle"
    /\ pc' = [pc EXCEPT ![c] = "refused"]
    /\ UNCHANGED <<arg, operations, outcome, source, forgotten>>

\* The id is known but was used with other arguments.
RefuseMismatch(c) ==
    LET existing == operations[arg[c].id] IN
    /\ pc[c] = "idle"
    /\ existing # None
    /\ arg[existing].key # arg[c].key
    /\ pc' = [pc EXCEPT ![c] = "refused"]
    /\ UNCHANGED <<arg, operations, outcome, source, forgotten>>

\* Mutant. The fingerprint is not compared.
JoinAnyKey(c) ==
    LET existing == operations[arg[c].id] IN
    /\ pc[c] = "idle"
    /\ existing # None
    /\ pc' = [pc EXCEPT ![c] = "waiting"]
    /\ source' = [source EXCEPT ![c] = existing]
    /\ UNCHANGED <<arg, operations, outcome, forgotten>>

\* The id is known: take the record and wait on its done channel.
Join(c) ==
    LET existing == operations[arg[c].id] IN
    /\ pc[c] = "idle"
    /\ existing # None
    /\ arg[existing].key = arg[c].key
    /\ pc' = [pc EXCEPT ![c] = "waiting"]
    /\ source' = [source EXCEPT ![c] = existing]
    /\ UNCHANGED <<arg, operations, outcome, forgotten>>

\* The id is new: enter the record and start fn outside the lock.
Register(c) ==
    /\ pc[c] = "idle"
    /\ operations[arg[c].id] = None
    /\ pc' = [pc EXCEPT ![c] = "running"]
    /\ operations' = [operations EXCEPT ![arg[c].id] = c]
    /\ source' = [source EXCEPT ![c] = c]
    /\ UNCHANGED <<arg, outcome, forgotten>>

\* Mutant. The eviction loop forgets to test candidate.finished.
EvictableUnfinished(c) == Present \ {arg[c].id}

\* Which entries the eviction loop may delete once call c is settled: any
\* finished ones but c's own, and it stops as soon as the table is small
\* enough.  Go's map order makes the choice arbitrary.
Evictable(c) == {i \in Present \ {arg[c].id} : Finished(operations[i])}

Evictions(c) ==
    LET excess == Cardinality(Present) - MaxOperations
        room   == Cardinality(Evictable(c))
    IN  IF excess <= 0 THEN {{}}
        ELSE {E \in SUBSET Evictable(c) :
                Cardinality(E) = IF excess <= room THEN excess ELSE room}

\* Mutant. A failed operation is dropped from the table so that it can be tried again.
SettleDroppingErrors(c) ==
    /\ pc[c] = "running"
    /\ \E result \in {"value", "error"}, E \in Evictions(c) :
         /\ outcome' = [outcome EXCEPT ![c] = result]
         /\ operations' = [i \in Ids |->
              IF i \in E \/ (i = arg[c].id /\ result = "error")
              THEN None ELSE operations[i]]
         /\ forgotten' = forgotten \cup {operations[i] : i \in E}
    /\ pc' = [pc EXCEPT ![c] = "returned"]
    /\ UNCHANGED <<arg, source>>

\* fn returned: settle the record, close done, trim the table.
Settle(c) ==
    /\ pc[c] = "running"
    /\ \E result \in {"value", "error"}, E \in Evictions(c) :
         /\ outcome' = [outcome EXCEPT ![c] = result]
         /\ operations' = [i \in Ids |-> IF i \in E THEN None ELSE operations[i]]
         /\ forgotten' = forgotten \cup {operations[i] : i \in E}
    /\ pc' = [pc EXCEPT ![c] = "returned"]
    /\ UNCHANGED <<arg, source>>

\* Mutant. The panic path before it was repaired: the record stays unsettled.
PanicUnsettled(c) ==
    /\ pc[c] = "running"
    /\ pc' = [pc EXCEPT ![c] = "returned"]
    /\ UNCHANGED <<arg, operations, outcome, source, forgotten>>

\* fn panicked: the deferred function settles the record and the panic
\* travels on, to the guard of the MCP handler.  The table is not trimmed.
Panic(c) ==
    /\ pc[c] = "running"
    /\ outcome' = [outcome EXCEPT ![c] = "panicked"]
    /\ pc' = [pc EXCEPT ![c] = "returned"]
    /\ UNCHANGED <<arg, operations, source, forgotten>>

\* A waiter sees done closed and returns the record's answer.
Answer(c) ==
    /\ pc[c] = "waiting"
    /\ Finished(source[c])
    /\ pc' = [pc EXCEPT ![c] = "returned"]
    /\ UNCHANGED <<arg, operations, outcome, source, forgotten>>

\* A waiter's own context ends first (both ready: either may be taken).
Cancel(c) ==
    /\ pc[c] = "waiting"
    /\ pc' = [pc EXCEPT ![c] = "cancelled"]
    /\ UNCHANGED <<arg, operations, outcome, source, forgotten>>

Step(c) ==
    \/ RefuseMalformed(c)
    \/ RefuseMismatch(c)
    \/ Join(c)
    \/ Register(c)
    \/ Settle(c)
    \/ Panic(c)
    \/ Answer(c)
    \/ Cancel(c)

Done == \A c \in Calls : pc[c] \in {"returned", "refused", "cancelled"}

\* Every call has come back; nothing is left to do.
Terminated == Done /\ UNCHANGED vars

Next == (\E c \in Calls : Step(c)) \/ Terminated

\* fn ends: the console operations bound every wait they make, by the call's
\* context or by a deadline of their own.  A goroutine that can run does run.
Fairness ==
    \A c \in Calls : WF_vars(Settle(c) \/ Panic(c)) /\ WF_vars(Answer(c))

SafetySpec == Init /\ [][Next]_vars

Spec == SafetySpec /\ Fairness

----------------------------------------------------------------------------
(* Properties *)

\* The call ran fn, or is running it.
Executed(c) == source[c] = c

\* Two calls with one operation_id never run fn at the same time, whatever the
\* eviction loop throws out meanwhile.
NoConcurrentExecution ==
    \A c, d \in Calls :
        (pc[c] = "running" /\ pc[d] = "running" /\ arg[c].id = arg[d].id)
            => c = d

\* A retry is answered from the record of a call that had the same id and the
\* same arguments and that really ran, and only once that record is settled,
\* even when the table has dropped the record in between.
AnsweredFromSettledTwin ==
    \A c \in Calls :
        pc[c] = "returned" =>
            LET r == source[c] IN
            /\ r # None /\ Executed(r) /\ Finished(r)
            /\ arg[r].id = arg[c].id
            /\ arg[r].key = arg[c].key

\* An operation runs a second time only if the ledger has forgotten one of the
\* two runs: while a record is in the table its operation is not repeated.
RepeatedOnlyIfForgotten ==
    \A c, d \in Calls :
        (Executed(c) /\ Executed(d) /\ arg[c].id = arg[d].id /\ c # d)
            => (c \in forgotten \/ d \in forgotten)

\* What README.md says of the operation_id: a retry never runs twice.
AtMostOnce ==
    \A c, d \in Calls :
        (Executed(c) /\ Executed(d) /\ arg[c].id = arg[d].id) => c = d

\* A waiting retry always comes back, also when the call it waits for panics.
WaitersReturn ==
    \A c \in Calls : pc[c] = "waiting" ~> pc[c] \in {"returned", "cancelled"}

----------------------------------------------------------------------------
(* The inductive invariant *)

\* A record in the table sits under its own id; a running call's record is in
\* the table; a record left the table only through the eviction loop.
Filed ==
    /\ \A i \in Ids : operations[i] # None =>
            /\ arg[operations[i]].id = i
            /\ source[operations[i]] = operations[i]
    /\ \A c \in Calls : pc[c] = "running" => operations[arg[c].id] = c
    /\ \A c \in Calls :
         source[c] = c => (operations[arg[c].id] = c \/ c \in forgotten)

\* How the place of a call, its source and its outcome go together.
Coherent ==
    \A c \in Calls :
        /\ pc[c] \in {"idle", "refused"} => source[c] = None
        /\ pc[c] \in {"running", "waiting", "returned", "cancelled"}
              => /\ source[c] \in Calls
                 /\ source[source[c]] = source[c]
                 /\ arg[source[c]].id = arg[c].id
                 /\ arg[source[c]].key = arg[c].key
        /\ source[c] = c => pc[c] \in {"running", "returned"}
        /\ source[c] = c => (Finished(c) <=> pc[c] = "returned")
        /\ source[c] # c => outcome[c] = "pending"
        /\ pc[c] = "returned" => Finished(source[c])

IInv == TypeOK /\ Filed /\ Coherent

============================================================================
