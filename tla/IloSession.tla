----------------------------- MODULE IloSession -----------------------------
(***************************************************************************)
(* console.Session on an HPE iLO (internal/console/session.go, input.go,   *)
(* vmedia.go, management.go; kvm.Conn): a console opened by openSession.   *)
(* Input operations hold operationMu, management requests managementMu and *)
(* mounts virtualMediaMu for as long as they take; readLoop, one            *)
(* readCommandLoop per command channel, one watchVirtualMedia per medium    *)
(* and Close run beside them.  A section under s.mu is one action.          *)
(***************************************************************************)
EXTENDS Naturals, FiniteSets

CONSTANTS
    Typists,   \* goroutines calling TypeText, PressKeys, Mouse or Power
    Managers,  \* goroutines calling ManagementStatus or SetOneTimeBoot
    Mounts,    \* MountISO calls; each names the medium it starts
    reader,    \* readLoop
    closer,    \* the goroutine in Close
    first,     \* the command channel openSession dialled
    None,
    Legacy     \* protocol version 1: media need no command channel

ASSUME NamesAssumption ==
    /\ Legacy \in BOOLEAN
    /\ None \notin Typists \cup Managers \cup Mounts \cup {reader, closer, first}
    /\ reader # closer
    /\ {reader, closer} \cap (Typists \cup Managers \cup Mounts) = {}
    /\ Typists \cap (Managers \cup Mounts) = {}
    /\ Managers \cap Mounts = {}

Actors == Typists \cup {reader, closer}
Owners == Actors \cup Managers \cup Mounts \cup {None}
Channels == Mounts \cup {first}   \* command channels, by who dialled them

VARIABLES
    pc,            \* where each actor stands
    managerPc,     \* where each management call stands
    mountPc,       \* where each MountISO call stands
    operationMu, managementMu, virtualMediaMu,   \* who holds each mutex
    connected, inputReady, closed,               \* fields of the session
    cancelled,     \* s.ctx is done
    connRef, clientRef,  \* s.conn and s.client are not nil
    cmdRef,        \* s.cmdConn
    media,         \* s.virtualMedia
    conn,          \* the console socket: "open", "dead" (peer gone), "closed"
    cmdOpen,       \* command sockets that are open
    deaf,          \* history: command channels whose read failed
    alive,         \* media whose transport is up
    loggedIn,      \* the web session on the iLO
    taken,         \* what an actor took out of the session to dispose of
    down,          \* the actor whose key the iLO sees held, or None
    amiss          \* history: "peer", the iLO cut the console off; "late", a key
                   \* was pressed after Close put the keys up; "logout", a
                   \* logout was not heard

mutexes  == <<operationMu, managementMu, virtualMediaMu>>
fields   == <<connected, inputReady, closed, cancelled, connRef, clientRef,
              cmdRef>>
outside  == <<conn, cmdOpen, deaf, alive, loggedIn, amiss>>
vars == <<pc, managerPc, mountPc, mutexes, fields, media, outside, taken, down>>

Nothing == [conn |-> FALSE, cmd |-> None, client |-> FALSE]

FlagsOK ==
    /\ connected \in BOOLEAN /\ inputReady \in BOOLEAN /\ closed \in BOOLEAN
    /\ cancelled \in BOOLEAN /\ loggedIn \in BOOLEAN
    /\ connRef \in BOOLEAN /\ clientRef \in BOOLEAN

\* The type of the state.
TypeOK ==
    /\ FlagsOK
    /\ pc \in [Actors -> {"rest", "ready", "up", "press", "held", "again", "once",
                          "click", "decoded", "frame", "mark", "hangUp", "logout",
                          "logoutEnds", "unmount", "release", "cancel", "ended"}]
    /\ managerPc \in [Managers -> {"rest", "client", "request"}]
    /\ mountPc \in [Mounts -> {"idle", "data", "ensure", "cmdDial", "adopt",
                               "dial", "start", "watched", "ended"}]
    /\ operationMu \in Owners /\ managementMu \in Owners
    /\ virtualMediaMu \in Mounts \cup {None}
    /\ cmdRef \in Channels \cup {None}
    /\ cmdOpen \subseteq Channels /\ deaf \subseteq Channels
    /\ media \in Mounts \cup {None}
    /\ alive \subseteq Mounts
    /\ conn \in {"open", "dead", "closed"}
    /\ taken \in [Actors -> [conn : BOOLEAN, cmd : Channels \cup {None},
                             client : BOOLEAN]]
    /\ down \in Typists \cup {None}
    /\ amiss \subseteq {"peer", "late", "logout"}

\* openSession has returned; the command channel may have been refused.
Init ==
    /\ pc = [a \in Actors |-> "rest"]
    /\ managerPc = [g \in Managers |-> "rest"]
    /\ mountPc = [m \in Mounts |-> "idle"]
    /\ operationMu = None /\ managementMu = None /\ virtualMediaMu = None
    /\ connected = TRUE /\ inputReady = FALSE /\ closed = FALSE
    /\ cancelled = FALSE
    /\ connRef = TRUE /\ clientRef = TRUE
    /\ cmdRef \in {first, None}
    /\ media = None
    /\ conn = "open"
    /\ cmdOpen = {cmdRef} \ {None} /\ deaf = {}
    /\ alive = {} /\ loggedIn = TRUE
    /\ taken = [a \in Actors |-> Nothing]
    /\ down = None /\ amiss = {}

Goto(a, place) == pc' = [pc EXCEPT ![a] = place]

----------------------------------------------------------------------------
(* Input: TypeText and PressKeys, Mouse and Power *)

\* kvm.Conn.Write: a write to a peer that is gone may succeed or fail.
WriteOK == conn \in {"open", "dead"}
WriteFails == conn \in {"dead", "closed"}

LockOperation(t) ==
    /\ pc[t] = "rest" /\ operationMu = None
    /\ operationMu' = t
    /\ Goto(t, "ready")
    /\ UNCHANGED <<managerPc, mountPc, managementMu, virtualMediaMu, fields,
                   media, outside, taken, down>>

\* readyConnection: without a connection that is ready the call returns.
ReadyConnection(t) ==
    /\ pc[t] = "ready"
    /\ IF connected /\ connRef /\ inputReady
       THEN (Goto(t, "up") \/ Goto(t, "once")) /\ UNCHANGED operationMu
       ELSE Goto(t, "rest") /\ operationMu' = None
    /\ UNCHANGED <<managerPc, mountPc, managementMu, virtualMediaMu, fields,
                   media, outside, taken, down>>

\* One write of t: done, or failed, which disconnects the session.
Sends(t, next, key) ==
    /\ \/ /\ WriteOK
          /\ down' = IF conn = "open" THEN key ELSE down
          /\ amiss' = amiss \cup {w \in {"late"} : key = t /\ pc[closer] # "rest"}
          /\ Goto(t, next)
       \/ /\ WriteFails
          /\ Goto(t, "mark")
          /\ UNCHANGED <<down, amiss>>
    /\ UNCHANGED <<managerPc, mountPc, mutexes, fields, media, conn, cmdOpen, deaf,
                   alive, loggedIn, taken>>

KeysUpFirst(t) == pc[t] = "up" /\ Sends(t, "press", None)
Press(t) == pc[t] = "press" /\ Sends(t, "held", t)
\* A click is two mouse reports; the other actions of Mouse, and Power, send one.
SendOnce(t) ==
    /\ pc[t] = "once"
    /\ \E next \in {"click", "release"} : Sends(t, next, down)
SendClick(t) == pc[t] = "click" /\ Sends(t, "release", down)

\* The key goes up again, after the hold or because the caller gave up; in
\* that case a write that fails is ignored.  TypeText goes on to the next key.
KeysUp(t) ==
    /\ pc[t] = "held"
    /\ Sends(t, "again", None)

\* Mutant. The caller that gives up leaves the key down.
GivesUpSilently(t) ==
    /\ pc[t] = "held"
    /\ Goto(t, "release")
    /\ UNCHANGED <<managerPc, mountPc, mutexes, fields, media, outside, taken,
                   down>>

GivesUp(t) ==
    /\ pc[t] = "held"
    /\ down' = IF conn = "open" THEN None ELSE down
    /\ Goto(t, "release")
    /\ UNCHANGED <<managerPc, mountPc, mutexes, fields, media, outside, taken>>

NextKey(t) ==
    /\ pc[t] = "again"
    /\ Goto(t, "press") \/ Goto(t, "release")
    /\ UNCHANGED <<managerPc, mountPc, mutexes, fields, media, outside, taken,
                   down>>

\* The deferred unlock.
UnlockOperation(t) ==
    /\ pc[t] = "release"
    /\ operationMu' = None
    /\ Goto(t, "rest")
    /\ UNCHANGED <<managerPc, mountPc, managementMu, virtualMediaMu, fields,
                   media, outside, taken, down>>

----------------------------------------------------------------------------
(* readLoop and readCommandLoop *)

\* Bytes arrive; they are decoded before anything of the session is looked at.
VideoArrives ==
    /\ pc[reader] = "rest"
    /\ conn # "closed"
    /\ Goto(reader, "decoded")
    /\ UNCHANGED <<managerPc, mountPc, mutexes, fields, media, outside, taken,
                   down>>

\* The stream latched or changed its cipher; asking for a refresh may fail.
RefreshFails ==
    /\ pc[reader] = "decoded" /\ WriteFails
    /\ Goto(reader, "mark")
    /\ UNCHANGED <<managerPc, mountPc, mutexes, fields, media, outside, taken,
                   down>>

\* The first ready frame opens input and owes an all-keys-up.
VideoReady ==
    /\ pc[reader] = "decoded"
    /\ \/ ~inputReady /\ inputReady' = TRUE /\ Goto(reader, "frame")
       \/ UNCHANGED inputReady /\ Goto(reader, "rest")
    /\ UNCHANGED <<managerPc, mountPc, mutexes, connected, closed, cancelled,
                   connRef, clientRef, cmdRef, media, outside, taken, down>>

\* Mutant. The first all-keys-up waits for nobody.
FirstKeysUpUnlocked ==
    /\ pc[reader] = "frame"
    /\ down' = IF conn = "open" THEN None ELSE down
    /\ Goto(reader, "rest")
    /\ UNCHANGED <<managerPc, mountPc, mutexes, fields, media, outside, taken>>

\* That all-keys-up waits for the operation in progress.
FirstKeysUp ==
    /\ pc[reader] = "frame" /\ operationMu = None
    /\ down' = IF conn = "open" THEN None ELSE down
    /\ Goto(reader, "rest")
    /\ UNCHANGED <<managerPc, mountPc, mutexes, fields, media, outside, taken>>

\* A read fails: the peer is gone or the socket was closed.
ReadFails ==
    /\ pc[reader] = "rest" /\ conn # "open"
    /\ Goto(reader, "mark")
    /\ UNCHANGED <<managerPc, mountPc, mutexes, fields, media, outside, taken,
                   down>>

\* The loop sees the context done.
ReadStops ==
    /\ pc[reader] = "rest" /\ cancelled
    /\ Goto(reader, "ended")
    /\ UNCHANGED <<managerPc, mountPc, mutexes, fields, media, outside, taken,
                   down>>

PeerGone ==
    /\ conn = "open"
    /\ conn' = "dead"
    /\ amiss' = amiss \cup {"peer"}
    /\ UNCHANGED <<pc, managerPc, mountPc, mutexes, fields, media, cmdOpen, deaf,
                   alive, loggedIn, taken, down>>

\* A command channel's read fails: the session forgets it, the loop ends.
ReadCommandFails(c) ==
    /\ c \in cmdOpen \ deaf
    /\ deaf' = deaf \cup {c}
    /\ cmdRef' = IF cmdRef = c THEN None ELSE cmdRef
    /\ UNCHANGED <<pc, managerPc, mountPc, mutexes, connected, inputReady, closed,
                   cancelled, connRef, clientRef, media, conn, cmdOpen, alive,
                   loggedIn, taken, down, amiss>>

----------------------------------------------------------------------------
(* markDisconnected and Close *)

\* Takes everything that has to be closed out of the session.
TakeAll(a) ==
    /\ taken' = [taken EXCEPT ![a] = [conn |-> connRef, cmd |-> cmdRef,
                                      client |-> clientRef]]
    /\ connected' = FALSE /\ inputReady' = FALSE
    /\ connRef' = FALSE /\ clientRef' = FALSE /\ cmdRef' = None

\* Where an actor goes when it is through with markDisconnected or Close.
Resume(a) == IF a \in Typists THEN "release" ELSE "ended"

MarkDisconnected(a) ==
    /\ a # closer /\ pc[a] = "mark"
    /\ IF connected
       THEN TakeAll(a) /\ Goto(a, "hangUp")
       ELSE Goto(a, Resume(a)) /\ UNCHANGED <<taken, connected, inputReady,
                                              connRef, clientRef, cmdRef>>
    /\ UNCHANGED <<managerPc, mountPc, mutexes, closed, cancelled, media, outside,
                   down>>

HangUp(a) ==
    /\ pc[a] = "hangUp"
    /\ conn' = IF taken[a].conn THEN "closed" ELSE conn
    /\ cmdOpen' = cmdOpen \ {taken[a].cmd}
    /\ Goto(a, IF taken[a].client THEN "logout"
               ELSE IF a = closer THEN "ended" ELSE "unmount")
    /\ UNCHANGED <<managerPc, mountPc, mutexes, fields, media, deaf, alive,
                   loggedIn, taken, down, amiss>>

\* Mutant. Logout does not take managementMu.
LogoutUnlocked(a) ==
    /\ pc[a] = "logout"
    /\ Goto(a, "logoutEnds")
    /\ UNCHANGED <<managerPc, mountPc, mutexes, fields, media, outside, taken,
                   down>>

\* Logout waits for the management request in progress.
Logout(a) ==
    /\ pc[a] = "logout" /\ managementMu = None
    /\ managementMu' = a
    /\ Goto(a, "logoutEnds")
    /\ UNCHANGED <<managerPc, mountPc, operationMu, virtualMediaMu, fields, media,
                   outside, taken, down>>

\* The logout is done, or failed or ran into its two seconds, which is ignored:
\* then the login may stay.
LogoutEnds(a) ==
    /\ pc[a] = "logoutEnds"
    /\ \/ loggedIn' = FALSE /\ UNCHANGED amiss
       \/ amiss' = amiss \cup {"logout"} /\ UNCHANGED loggedIn
    /\ managementMu' = None
    /\ Goto(a, IF a = closer THEN "ended" ELSE "unmount")
    /\ UNCHANGED <<managerPc, mountPc, operationMu, virtualMediaMu, fields, media,
                   conn, cmdOpen, deaf, alive, taken, down>>

\* closeVirtualMedia; the medium is closed while virtualMediaMu is held.
CloseVirtualMedia(a) ==
    /\ pc[a] = "unmount" /\ virtualMediaMu = None
    /\ alive' = alive \ {media}
    /\ media' = None
    /\ Goto(a, IF a = closer THEN "mark" ELSE Resume(a))
    /\ UNCHANGED <<managerPc, mountPc, mutexes, fields, conn, cmdOpen, deaf,
                   loggedIn, taken, down, amiss>>

\* Close waits for the operation in progress and leaves no key held.
CloseKeysUp ==
    /\ pc[closer] = "rest" /\ operationMu = None
    /\ down' = IF connRef /\ conn = "open" THEN None ELSE down
    /\ Goto(closer, "cancel")
    /\ UNCHANGED <<managerPc, mountPc, mutexes, fields, media, outside, taken>>

CloseCancel ==
    /\ pc[closer] = "cancel"
    /\ cancelled' = TRUE
    /\ Goto(closer, "unmount")
    /\ UNCHANGED <<managerPc, mountPc, mutexes, connected, inputReady, closed,
                   connRef, clientRef, cmdRef, media, outside, taken, down>>

CloseMark ==
    /\ pc[closer] = "mark"
    /\ closed' = TRUE
    /\ TakeAll(closer)
    /\ Goto(closer, "hangUp")
    /\ UNCHANGED <<managerPc, mountPc, mutexes, cancelled, media, outside, down>>

----------------------------------------------------------------------------
(* ManagementStatus and SetOneTimeBoot *)

ManagementLock(g) ==
    /\ managerPc[g] = "rest" /\ managementMu = None
    /\ managementMu' = g
    /\ managerPc' = [managerPc EXCEPT ![g] = "client"]
    /\ UNCHANGED <<pc, mountPc, operationMu, virtualMediaMu, fields, media,
                   outside, taken, down>>

\* activeManagementClient.
ManagementClient(g) ==
    /\ managerPc[g] = "client"
    /\ IF connected /\ clientRef /\ loggedIn
       THEN managerPc' = [managerPc EXCEPT ![g] = "request"]
            /\ UNCHANGED managementMu
       ELSE managerPc' = [managerPc EXCEPT ![g] = "rest"]
            /\ managementMu' = None
    /\ UNCHANGED <<pc, mountPc, operationMu, virtualMediaMu, fields, media,
                   outside, taken, down>>

ManagementEnds(g) ==
    /\ managerPc[g] = "request"
    /\ managementMu' = None
    /\ managerPc' = [managerPc EXCEPT ![g] = "rest"]
    /\ UNCHANGED <<pc, mountPc, operationMu, virtualMediaMu, fields, media,
                   outside, taken, down>>

----------------------------------------------------------------------------
(* MountISO, UnmountISO and watchVirtualMedia *)

MountGoto(m, place) == mountPc' = [mountPc EXCEPT ![m] = place]

\* MountISO is over and unlocks.
MountOver(m, place) == MountGoto(m, place) /\ virtualMediaMu' = None

\* clearFinishedVirtualMediaLocked, and the refusal of a second medium.
MountISO(m) ==
    /\ mountPc[m] = "idle" /\ virtualMediaMu = None
    /\ IF media \in alive
       THEN MountOver(m, "ended") /\ UNCHANGED media
       ELSE MountGoto(m, "data") /\ virtualMediaMu' = m /\ media' = None
    /\ UNCHANGED <<pc, managerPc, operationMu, managementMu, fields, outside,
                   taken, down>>

\* virtualMediaDataForMount.
MountData(m) ==
    /\ mountPc[m] = "data"
    /\ IF connected /\ clientRef /\ loggedIn
       THEN MountGoto(m, IF Legacy THEN "dial" ELSE "ensure")
            /\ UNCHANGED virtualMediaMu
       ELSE MountOver(m, "ended")
    /\ UNCHANGED <<pc, managerPc, operationMu, managementMu, fields, media,
                   outside, taken, down>>

\* ensureVirtualMediaCommandChannel: look, dial without s.mu, look again.
EnsureCommandChannel(m) ==
    /\ mountPc[m] = "ensure"
    /\ MountGoto(m, IF cmdRef # None THEN "dial" ELSE "cmdDial")
    /\ UNCHANGED <<pc, managerPc, mutexes, fields, media, outside, taken, down>>

DialCommandChannel(m) ==
    /\ mountPc[m] = "cmdDial"
    /\ \/ /\ cmdOpen' = cmdOpen \cup {m}
          /\ MountGoto(m, "adopt")
          /\ UNCHANGED virtualMediaMu
       \/ MountOver(m, "ended") /\ UNCHANGED cmdOpen
    /\ UNCHANGED <<pc, managerPc, operationMu, managementMu, fields, media, conn,
                   deaf, alive, loggedIn, taken, down, amiss>>

Adopt(m) ==
    /\ mountPc[m] = "adopt"
    /\ IF connected /\ cmdRef = None
       THEN cmdRef' = m /\ UNCHANGED cmdOpen
       ELSE cmdOpen' = cmdOpen \ {m} /\ UNCHANGED cmdRef
    /\ IF connected THEN MountGoto(m, "dial") /\ UNCHANGED virtualMediaMu
       ELSE MountOver(m, "ended")
    /\ UNCHANGED <<pc, managerPc, operationMu, managementMu, connected,
                   inputReady, closed, cancelled, connRef, clientRef, media, conn,
                   deaf, alive, loggedIn, taken, down, amiss>>

\* dialVirtualMedia succeeds or fails; it may take half a minute.
DialVirtualMedia(m) ==
    /\ mountPc[m] = "dial"
    /\ \/ MountGoto(m, "start") /\ UNCHANGED virtualMediaMu
       \/ MountOver(m, "ended")
    /\ UNCHANGED <<pc, managerPc, operationMu, managementMu, fields, media,
                   outside, taken, down>>

\* Mutant. The context is not asked again.
StartMediaUnchecked(m) ==
    /\ mountPc[m] = "start"
    /\ media' = m
    /\ alive' = alive \cup {m}
    /\ MountOver(m, "watched")
    /\ UNCHANGED <<pc, managerPc, operationMu, managementMu, fields, conn,
                   cmdOpen, deaf, loggedIn, taken, down, amiss>>

\* contextIsActive is asked once more before the medium is started.
StartMedia(m) ==
    /\ mountPc[m] = "start"
    /\ IF cancelled
       THEN MountOver(m, "ended") /\ UNCHANGED <<media, alive>>
       ELSE /\ media' = m
            /\ alive' = alive \cup {m}
            /\ MountOver(m, "watched")
    /\ UNCHANGED <<pc, managerPc, operationMu, managementMu, fields, conn,
                   cmdOpen, deaf, loggedIn, taken, down, amiss>>

\* UnmountISO, called by an operator.
UnmountISO ==
    /\ virtualMediaMu = None /\ media # None
    /\ alive' = alive \ {media}
    /\ media' = None
    /\ UNCHANGED <<pc, managerPc, mountPc, mutexes, fields, conn, cmdOpen, deaf,
                   loggedIn, taken, down, amiss>>

\* The host ejects the medium or its transport breaks.
MediaEndsItself(m) ==
    /\ m \in alive
    /\ alive' = alive \ {m}
    /\ UNCHANGED <<pc, managerPc, mountPc, mutexes, fields, media, conn, cmdOpen,
                   deaf, loggedIn, taken, down, amiss>>

WatchVirtualMedia(m) ==
    /\ mountPc[m] = "watched" /\ m \notin alive /\ virtualMediaMu = None
    /\ media' = IF media = m THEN None ELSE media
    /\ MountGoto(m, "ended")
    /\ UNCHANGED <<pc, managerPc, mutexes, fields, outside, taken, down>>

----------------------------------------------------------------------------
TypistStep(t) ==
    \/ ReadyConnection(t) \/ KeysUpFirst(t) \/ Press(t) \/ SendOnce(t)
    \/ SendClick(t) \/ KeysUp(t) \/ GivesUp(t) \/ NextKey(t) \/ UnlockOperation(t)

DisposeStep(a) ==
    MarkDisconnected(a) \/ HangUp(a) \/ Logout(a) \/ LogoutEnds(a)
    \/ CloseVirtualMedia(a)

ReaderStep == RefreshFails \/ VideoReady \/ FirstKeysUp \/ ReadFails \/ ReadStops

CloseStep == CloseCancel \/ CloseMark

ManagerStep(g) == ManagementClient(g) \/ ManagementEnds(g)

MountStep(m) ==
    \/ MountData(m) \/ EnsureCommandChannel(m) \/ DialCommandChannel(m)
    \/ Adopt(m) \/ DialVirtualMedia(m) \/ StartMedia(m) \/ WatchVirtualMedia(m)

Terminated ==
    /\ pc[closer] = "ended" /\ pc[reader] = "ended"
    /\ UNCHANGED vars

Next ==
    \/ \E t \in Typists : LockOperation(t) \/ TypistStep(t)
    \/ \E a \in Actors : DisposeStep(a)
    \/ VideoArrives \/ ReaderStep \/ PeerGone
    \/ CloseKeysUp \/ CloseStep
    \/ \E c \in Channels : ReadCommandFails(c)
    \/ \E g \in Managers : ManagementLock(g) \/ ManagerStep(g)
    \/ \E m \in Mounts : MountISO(m) \/ MountStep(m) \/ MediaEndsItself(m)
    \/ UnmountISO
    \/ Terminated

SafetySpec == Init /\ [][Next]_vars

----------------------------------------------------------------------------
(* Properties *)

\* Between operations the server has no key held, nor when the console is gone:
\* every way out of TypeText and PressKeys, the caller's giving up included, puts
\* the keys up, and Close waits for them.  Two keys are left down for good: the
\* one that was held when the iLO cut the console off, and one that was pressed
\* after Close had put the keys up, which Close cuts off when it hangs up.
KeysUpAtRest ==
    operationMu = None /\ down # None =>
      conn # "open" /\ amiss \cap {"peer", "late"} # {}

\* A chord is held until its own release: neither the reader's first
\* all-keys-up nor another operation or Close ends it early.
ChordUnbroken ==
    \A t \in Typists : pc[t] = "held" /\ conn = "open" => down = t

\* A management request in flight has its login: Logout waits for it.
RequestLoggedIn == \A g \in Managers : managerPc[g] = "request" => loggedIn

Disposing == \E a \in Actors : pc[a] \in {"mark", "hangUp", "logout",
                                          "logoutEnds", "unmount"}
Mounting == virtualMediaMu \in Mounts

\* A console that ended, by Close or by losing its connection while calls were
\* under way, leaves nothing behind: no socket, no medium, and no login unless
\* its logout failed.  (A command channel whose read failed was forgotten without
\* being closed.)
NothingLeftBehind ==
    ~connected /\ ~Disposing /\ ~Mounting =>
      /\ conn = "closed" /\ alive = {} /\ cmdOpen \subseteq deaf
      /\ loggedIn => "logout" \in amiss

\* Who holds a mutex is who is in its section; readLoop and Close hold
\* operationMu only within a step.
MutexesHeld ==
    /\ operationMu \in Typists \cup {None}
    /\ \A t \in Typists : operationMu = t <=> pc[t] # "rest"
    /\ \A a \in Actors : managementMu = a <=> pc[a] = "logoutEnds"
    /\ \A g \in Managers : managementMu = g <=> managerPc[g] # "rest"
    /\ \A m \in Mounts : virtualMediaMu = m <=>
         mountPc[m] \in {"data", "ensure", "cmdDial", "adopt", "dial", "start"}

\* As long as writes reach the server, it sees the key of the typist that is
\* holding one, and no other.
KeysHeld ==
    conn = "open" => \A t \in Typists : down = t <=> pc[t] = "held"

\* A key that stays down was held when the iLO left or was pressed too late; only
\* Close hangs up a console that still works.
KeysLost ==
    /\ conn # "open" /\ down # None => amiss \cap {"peer", "late"} # {}
    /\ \A t \in Typists :
         conn = "open" /\ pc[t] = "held" /\ pc[closer] # "rest" => "late" \in amiss
    /\ \A a \in Actors \ {closer} : pc[a] \in {"mark", "hangUp"} => conn # "open"

Leaving == {"hangUp", "logout", "logoutEnds", "unmount"}

\* Whatever is open is in the session, or in the hands of who will close it.
Accounted ==
    /\ conn # "closed" =>
         connRef \/ \E a \in Actors : pc[a] = "hangUp" /\ taken[a].conn
    /\ loggedIn =>
         \/ clientRef \/ "logout" \in amiss
         \/ \E a \in Actors : /\ taken[a].client
                              /\ pc[a] \in Leaving \ {"unmount"}
    /\ \A c \in cmdOpen \ deaf :
         \/ cmdRef = c
         \/ c \in Mounts /\ mountPc[c] = "adopt"
         \/ \E a \in Actors : pc[a] = "hangUp" /\ taken[a].cmd = c

\* A medium that is up is the one in the session, and none is started behind
\* the back of an actor that has already unmounted.
MediaAccounted ==
    /\ alive \subseteq {media}
    /\ virtualMediaMu # None => media = None
    /\ ~connected => ~connRef /\ ~clientRef /\ cmdRef = None
    /\ pc[closer] \in (Leaving \cup {"mark", "ended"}) => cancelled
    /\ pc[closer] \in {"mark", "hangUp", "logout", "logoutEnds", "ended"} =>
         media = None
    /\ ~connected =>
         \/ \E a \in Actors \ {closer} : pc[a] \in Leaving
         \/ media = None /\ (cancelled \/ virtualMediaMu = None
                                       \/ mountPc[virtualMediaMu] = "data")

\* The inductive invariant behind the invariants above.
IInv ==
    TypeOK /\ MutexesHeld /\ KeysHeld /\ KeysLost /\ RequestLoggedIn
    /\ Accounted /\ MediaAccounted

=============================================================================
