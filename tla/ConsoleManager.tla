--------------------------- MODULE ConsoleManager ---------------------------
(***************************************************************************)
(* console.Manager (internal/console/manager.go): the table of open        *)
(* consoles behind the MCP bridge, the OpenOnce ledger, the sweeper that   *)
(* expires idle handles, and shutdown.                                     *)
(*                                                                         *)
(* A section run under m.mu is one action; what runs outside the lock      *)
(* (connecting, Session.Close, waiting on a channel) lies between actions. *)
(* A session, its handle and its ledger record are named by the OpenOnce   *)
(* call that made them.  Time is abstracted to the two questions the code  *)
(* asks of it: is lastUsed, or finishedAt, at least sessionTTL ago.        *)
(***************************************************************************)
EXTENDS Integers, FiniteSets

CONSTANTS
    Opens,     \* OpenOnce calls, each made at most once
    Ids,       \* operation ids of OpenOnce
    Keys,      \* argument fingerprints
    Clients,   \* callers of CloseSession and Get
    None       \* no record, no session

ASSUME NoneAssumption == None \notin Opens

VARIABLES
    pc,          \* where each OpenOnce call stands
    arg,         \* its operation_id and fingerprint
    openOps,     \* m.openOps: operation_id -> record
    answer,      \* the result of each record: "pending", "handle" or "error"
    source,      \* the record a call waits on or was answered from
    oldOps,      \* records finished at least sessionTTL ago
    forgotten,   \* history: records swept from the ledger
    console,     \* each session: "none", "live" or "closed"
    sessions,    \* m.sessions: the registered handles
    idle,        \* handles not used for at least sessionTTL
    closed,      \* m.closed
    cancelled,   \* m.ctx is done
    closer,      \* where Manager.Close stands
    entries,     \* the sessions Manager.Close has yet to close
    sweeper,     \* where the sweep goroutine stands
    expired,     \* the sessions it has yet to close
    hand         \* the session each CloseSession call is closing

openVars  == <<pc, arg, source>>
opsVars   == <<openOps, answer, oldOps, forgotten>>
tableVars == <<console, sessions, idle>>
endVars   == <<closed, cancelled, closer, entries>>
sweepVars == <<sweeper, expired>>
vars == <<openVars, opsVars, tableVars, endVars, sweepVars, hand>>

OpenPlaces == {"idle", "starting", "connecting", "opened", "dropping",
               "succeeded", "failed", "waiting", "returned", "refused", "cancelled"}
CloserPlaces == {"idle", "cancelled", "closing", "returned"}
SweeperPlaces == {"waiting", "closing", "stopped"}
Answers == {"pending", "handle", "error"}

TypeOK ==
    /\ pc \in [Opens -> OpenPlaces]
    /\ arg \in [Opens -> [id : Ids, key : Keys]]
    /\ openOps \in [Ids -> Opens \cup {None}]
    /\ answer \in [Opens -> Answers]
    /\ source \in [Opens -> Opens \cup {None}]
    /\ oldOps \in SUBSET Opens
    /\ forgotten \in SUBSET Opens
    /\ console \in [Opens -> {"none", "live", "closed"}]
    /\ sessions \in SUBSET Opens
    /\ idle \in SUBSET Opens
    /\ closed \in BOOLEAN
    /\ cancelled \in BOOLEAN
    /\ closer \in CloserPlaces
    /\ entries \in SUBSET Opens
    /\ sweeper \in SweeperPlaces
    /\ expired \in SUBSET Opens
    /\ hand \in [Clients -> Opens \cup {None}]

\* NewManager
Init ==
    /\ pc = [o \in Opens |-> "idle"]
    /\ arg \in [Opens -> [id : Ids, key : Keys]]
    /\ openOps = [i \in Ids |-> None]
    /\ answer = [o \in Opens |-> "pending"]
    /\ source = [o \in Opens |-> None]
    /\ oldOps = {}
    /\ forgotten = {}
    /\ console = [o \in Opens |-> "none"]
    /\ sessions = {}
    /\ idle = {}
    /\ closed = FALSE
    /\ cancelled = FALSE
    /\ closer = "idle"
    /\ entries = {}
    /\ sweeper = "waiting"
    /\ expired = {}
    /\ hand = [k \in Clients |-> None]

----------------------------------------------------------------------------
(* OpenOnce and Open *)

\* An empty or overlong operation_id.
RefuseMalformed(o) ==
    /\ pc[o] = "idle"
    /\ pc' = [pc EXCEPT ![o] = "refused"]
    /\ UNCHANGED <<arg, source, opsVars, tableVars, endVars, sweepVars, hand>>

\* A known operation_id with other arguments.
RefuseMismatch(o) ==
    LET existing == openOps[arg[o].id] IN
    /\ pc[o] = "idle"
    /\ existing # None
    /\ arg[existing].key # arg[o].key
    /\ pc' = [pc EXCEPT ![o] = "refused"]
    /\ UNCHANGED <<arg, source, opsVars, tableVars, endVars, sweepVars, hand>>

\* A known operation_id: wait for the record.
Join(o) ==
    LET existing == openOps[arg[o].id] IN
    /\ pc[o] = "idle"
    /\ existing # None
    /\ arg[existing].key = arg[o].key
    /\ pc' = [pc EXCEPT ![o] = "waiting"]
    /\ source' = [source EXCEPT ![o] = existing]
    /\ UNCHANGED <<arg, opsVars, tableVars, endVars, sweepVars, hand>>

\* A new operation_id: enter a record.
Record(o) ==
    /\ pc[o] = "idle"
    /\ openOps[arg[o].id] = None
    /\ pc' = [pc EXCEPT ![o] = "starting"]
    /\ openOps' = [openOps EXCEPT ![arg[o].id] = o]
    /\ source' = [source EXCEPT ![o] = o]
    /\ UNCHANGED <<arg, answer, oldOps, forgotten, tableVars, endVars,
                   sweepVars, hand>>

\* Open's first look at m.closed.
Start(o) ==
    /\ pc[o] = "starting"
    /\ pc' = [pc EXCEPT ![o] = IF closed THEN "failed" ELSE "connecting"]
    /\ UNCHANGED <<arg, source, opsVars, tableVars, endVars, sweepVars, hand>>

\* openSession fails; it cleans up after itself (see IloSession).
ConnectFails(o) ==
    /\ pc[o] = "connecting"
    /\ pc' = [pc EXCEPT ![o] = "failed"]
    /\ UNCHANGED <<arg, source, opsVars, tableVars, endVars, sweepVars, hand>>

\* openSession succeeds, possibly in a race with m.cancel; then newHandle
\* yields a handle, or fails and the session has to go again.
Connects(o) ==
    /\ pc[o] = "connecting"
    /\ console' = [console EXCEPT ![o] = "live"]
    /\ \E place \in {"opened", "dropping"} : pc' = [pc EXCEPT ![o] = place]
    /\ UNCHANGED <<arg, source, opsVars, sessions, idle, endVars, sweepVars,
                   hand>>

\* Mutant. Open does not look at m.closed a second time.
RegisterUnchecked(o) ==
    /\ pc[o] = "opened"
    /\ sessions' = sessions \cup {o}
    /\ pc' = [pc EXCEPT ![o] = "succeeded"]
    /\ UNCHANGED <<arg, source, opsVars, console, idle, endVars, sweepVars,
                   hand>>

\* Open registers the session, unless the manager was closed meanwhile.
Register(o) ==
    /\ pc[o] = "opened"
    /\ IF closed
       THEN /\ pc' = [pc EXCEPT ![o] = "dropping"]
            /\ UNCHANGED sessions
       ELSE /\ pc' = [pc EXCEPT ![o] = "succeeded"]
            /\ sessions' = sessions \cup {o}
    /\ UNCHANGED <<arg, source, opsVars, console, idle, endVars, sweepVars,
                   hand>>

\* Open closes a session it may not register.
Drop(o) ==
    /\ pc[o] = "dropping"
    /\ console' = [console EXCEPT ![o] = "closed"]
    /\ pc' = [pc EXCEPT ![o] = "failed"]
    /\ UNCHANGED <<arg, source, opsVars, sessions, idle, endVars, sweepVars,
                   hand>>

\* OpenOnce notes what Open returned and closes done.
Settle(o) ==
    /\ pc[o] \in {"succeeded", "failed"}
    /\ answer' = [answer EXCEPT ![o] =
                    IF pc[o] = "succeeded" THEN "handle" ELSE "error"]
    /\ pc' = [pc EXCEPT ![o] = "returned"]
    /\ UNCHANGED <<arg, source, openOps, oldOps, forgotten, tableVars, endVars,
                   sweepVars, hand>>

\* A waiting retry gets the record's answer, or its own context ends.
Answer(o) ==
    /\ pc[o] = "waiting"
    /\ answer[source[o]] # "pending"
    /\ pc' = [pc EXCEPT ![o] = "returned"]
    /\ UNCHANGED <<arg, source, opsVars, tableVars, endVars, sweepVars, hand>>

Cancel(o) ==
    /\ pc[o] = "waiting"
    /\ pc' = [pc EXCEPT ![o] = "cancelled"]
    /\ UNCHANGED <<arg, source, opsVars, tableVars, endVars, sweepVars, hand>>

OpenOnce(o) ==
    \/ RefuseMalformed(o) \/ RefuseMismatch(o) \/ Join(o) \/ Record(o)
    \/ Start(o) \/ ConnectFails(o) \/ Connects(o) \/ Register(o) \/ Drop(o)
    \/ Settle(o) \/ Answer(o) \/ Cancel(o)

----------------------------------------------------------------------------
(* The users of a handle *)

\* Get refreshes lastUsed; of an unknown handle it knows nothing.
Get(h) ==
    /\ h \in sessions
    /\ idle' = idle \ {h}
    /\ UNCHANGED <<openVars, opsVars, console, sessions, endVars, sweepVars,
                   hand>>

\* Mutant. CloseSession leaves the handle in the table.
CloseSessionKeeping(k, h) ==
    /\ hand[k] = None
    /\ h \in sessions
    /\ hand' = [hand EXCEPT ![k] = h]
    /\ UNCHANGED <<openVars, opsVars, tableVars, endVars, sweepVars>>

\* CloseSession takes the handle out of the table ...
CloseSession(k, h) ==
    /\ hand[k] = None
    /\ h \in sessions
    /\ sessions' = sessions \ {h}
    /\ hand' = [hand EXCEPT ![k] = h]
    /\ UNCHANGED <<openVars, opsVars, console, idle, endVars, sweepVars>>

\* ... and closes the session outside the lock.
CloseTaken(k) ==
    /\ hand[k] # None
    /\ console' = [console EXCEPT ![hand[k]] = "closed"]
    /\ hand' = [hand EXCEPT ![k] = None]
    /\ UNCHANGED <<openVars, opsVars, sessions, idle, endVars, sweepVars>>

\* sessionTTL passes without a Get, or after a record was finished.
GrowIdle(h) ==
    /\ h \in sessions \ idle
    /\ idle' = idle \cup {h}
    /\ UNCHANGED <<openVars, opsVars, console, sessions, endVars, sweepVars,
                   hand>>

GrowOld(o) ==
    /\ answer[o] # "pending"
    /\ o \notin oldOps
    /\ oldOps' = oldOps \cup {o}
    /\ UNCHANGED <<openVars, openOps, answer, forgotten, tableVars, endVars,
                   sweepVars, hand>>

----------------------------------------------------------------------------
(* sweep *)

\* The ledger entries a tick removes.
Sweepable == {i \in Ids : openOps[i] # None /\ openOps[i] \in oldOps}

\* A tick: take idle handles out of the table and old records off the ledger.
Sweep ==
    /\ sweeper = "waiting"
    /\ sweeper' = "closing"
    /\ expired' = sessions \cap idle
    /\ sessions' = sessions \ idle
    /\ openOps' = [i \in Ids |-> IF i \in Sweepable THEN None ELSE openOps[i]]
    /\ forgotten' = forgotten \cup {openOps[i] : i \in Sweepable}
    /\ UNCHANGED <<openVars, answer, oldOps, console, idle, endVars, hand>>

\* Close the expired sessions one after the other, outside the lock ...
SweepClose(h) ==
    /\ sweeper = "closing"
    /\ h \in expired
    /\ console' = [console EXCEPT ![h] = "closed"]
    /\ expired' = expired \ {h}
    /\ UNCHANGED <<openVars, opsVars, sessions, idle, endVars, sweeper, hand>>

\* ... and wait for the next tick.
SweepRest ==
    /\ sweeper = "closing"
    /\ expired = {}
    /\ sweeper' = "waiting"
    /\ UNCHANGED <<openVars, opsVars, tableVars, endVars, expired, hand>>

\* Mutant. The goroutine returns without closing m.done.
SweepLeave ==
    /\ sweeper = "waiting"
    /\ cancelled
    /\ sweeper' = "closing"
    /\ UNCHANGED <<openVars, opsVars, tableVars, endVars, expired, hand>>

\* m.ctx is done: the goroutine ends and closes m.done.
SweepStop ==
    /\ sweeper = "waiting"
    /\ cancelled
    /\ sweeper' = "stopped"
    /\ UNCHANGED <<openVars, opsVars, tableVars, endVars, expired, hand>>

----------------------------------------------------------------------------
(* Manager.Close *)

\* The parent context of NewManager ends on its own.
ParentCancel ==
    /\ ~cancelled
    /\ cancelled' = TRUE
    /\ UNCHANGED <<openVars, opsVars, tableVars, closed, closer, entries,
                   sweepVars, hand>>

\* closeOnce: m.cancel comes before the lock ...
CloseCancel ==
    /\ closer = "idle"
    /\ closer' = "cancelled"
    /\ cancelled' = TRUE
    /\ UNCHANGED <<openVars, opsVars, tableVars, closed, entries, sweepVars,
                   hand>>

\* ... under which every entry is taken and both tables are emptied ...
CloseTakeAll ==
    /\ closer = "cancelled"
    /\ closer' = "closing"
    /\ closed' = TRUE
    /\ entries' = sessions
    /\ sessions' = {}
    /\ openOps' = [i \in Ids |-> None]
    /\ UNCHANGED <<openVars, answer, oldOps, forgotten, console, idle,
                   cancelled, sweepVars, hand>>

\* ... then the sessions are closed one after the other ...
CloseEntry(h) ==
    /\ closer = "closing"
    /\ h \in entries
    /\ console' = [console EXCEPT ![h] = "closed"]
    /\ entries' = entries \ {h}
    /\ UNCHANGED <<openVars, opsVars, sessions, idle, closed, cancelled,
                   closer, sweepVars, hand>>

\* ... and the sweeper is waited for.
CloseReturn ==
    /\ closer = "closing"
    /\ entries = {}
    /\ sweeper = "stopped"
    /\ closer' = "returned"
    /\ UNCHANGED <<openVars, opsVars, tableVars, closed, cancelled, entries,
                   sweepVars, hand>>

----------------------------------------------------------------------------
\* The manager is closed and every call has come back.
Terminated ==
    /\ closer = "returned"
    /\ \A o \in Opens : pc[o] \in {"returned", "refused", "cancelled"}
    /\ \A k \in Clients : hand[k] = None
    /\ UNCHANGED vars

Next ==
    \/ \E o \in Opens : OpenOnce(o) \/ GrowOld(o) \/ Get(o) \/ GrowIdle(o)
    \/ \E o \in Opens : SweepClose(o) \/ CloseEntry(o)
    \/ \E k \in Clients : CloseTaken(k)
    \/ \E k \in Clients, o \in Opens : CloseSession(k, o)
    \/ Sweep \/ SweepRest \/ SweepStop
    \/ ParentCancel \/ CloseCancel \/ CloseTakeAll \/ CloseReturn
    \/ Terminated

SafetySpec == Init /\ [][Next]_vars

\* Connecting is bounded by connectTimeout, and Session.Close is assumed to
\* return.  The ticker keeps firing until m.ctx ends, and then Go's select
\* cannot pass over the done channel for ever.
Fairness ==
    /\ \A o \in Opens :
         /\ WF_vars(Start(o))
         /\ WF_vars(ConnectFails(o) \/ Connects(o))
         /\ WF_vars(Register(o))
         /\ WF_vars(Drop(o))
         /\ WF_vars(Settle(o))
         /\ WF_vars(Answer(o))
         /\ WF_vars(SweepClose(o))
         /\ WF_vars(CloseEntry(o))
    /\ \A k \in Clients : WF_vars(CloseTaken(k))
    /\ WF_vars(Sweep)
    /\ WF_vars(SweepRest)
    /\ SF_vars(SweepStop)
    /\ WF_vars(CloseTakeAll)
    /\ WF_vars(CloseReturn)

Spec == SafetySpec /\ Fairness

----------------------------------------------------------------------------
(* Properties *)

\* Open holds a session it has not registered yet, or may not register.
InOpen(h) == pc[h] \in {"opened", "dropping"}

\* A CloseSession call has taken the session out of the table.
InHand(h) == \E k \in Clients : hand[k] = h

\* Every live console has exactly one party responsible for closing it (the
\* table, from which somebody will take it, Open, Manager.Close, the sweeper or
\* one CloseSession call), and a closed one has none: no console leaks and none
\* is closed twice, however opening, closing, expiry and shutdown interleave.
OneOwner ==
    \A h \in Opens :
        /\ console[h] = "live" <=>
             \/ h \in sessions \/ InOpen(h) \/ h \in entries \/ h \in expired
             \/ InHand(h)
        /\ h \in sessions => ~InOpen(h) /\ h \notin entries \cup expired
        /\ InOpen(h) => h \notin entries \cup expired
        /\ h \in entries => h \notin expired
        /\ InHand(h) => ~InOpen(h) /\ h \notin sessions \cup entries \cup expired
        /\ \A k, l \in Clients : (hand[k] = h /\ hand[l] = h) => k = l

\* Once Manager.Close has returned, a console that is still alive is in the
\* hands of an Open or a CloseSession call that has not come back yet.
NothingLeftBehind ==
    closer = "returned" =>
        \A h \in Opens : console[h] = "live" =>
            InOpen(h) \/ InHand(h)

\* Manager.Close returns, it never waits for a sweeper that waits, and every
\* console ends, also one whose Open was connecting when Close took the table.
ConsolesEnd ==
    closer # "idle"
        ~> [](closer = "returned" /\ \A h \in Opens : console[h] # "live")

----------------------------------------------------------------------------
(* The inductive invariant behind OneOwner and NothingLeftBehind *)

\* A call owns no console before it connects or when it only waits for another.
Unopened ==
    \A o \in Opens :
        pc[o] \in {"idle", "starting", "connecting", "waiting", "refused",
                   "cancelled"}
            => console[o] = "none"

\* What the two clean-up lists and the table hold at each stage of shutdown.
Stages ==
    /\ closed <=> closer \in {"closing", "returned"}
    /\ closed => sessions = {}
    /\ closer # "closing" => entries = {}
    /\ sweeper # "closing" => expired = {}
    /\ closer = "returned" => sweeper = "stopped"

IInv == TypeOK /\ OneOwner /\ Unopened /\ Stages
=============================================================================
