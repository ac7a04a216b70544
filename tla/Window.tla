------------------------------- MODULE Window -------------------------------
(***************************************************************************)
(* The life of one session window of the desktop program (app.appWindow):  *)
(* the goroutine that connects, the loops that read the video and command  *)
(* channels or watch a Dell session, mounting and dismounting an image,    *)
(* the sharing of a legacy console, and the two ways everything ends,      *)
(* handleDisconnect and shutdown.  What can be left behind is a set of     *)
(* resources: logins, sockets, media and Dell sessions.  Status texts,     *)
(* power state and POST codes are left out.                                *)
(***************************************************************************)
EXTENDS Naturals, FiniteSets

CONSTANTS
    Mounters,   \* goroutines of chooseAndMountISO
    connector,  \* the goroutine of connectConfigured
    share,      \* the goroutine of handleLegacyShareRequest
    None

ASSUME WindowAssumption ==
    connector \notin Mounters /\ share \notin Mounters /\ connector # share

Procs == Mounters \cup {connector, share}

Kinds == {"login", "video", "cmd", "vm", "remote", "leader", "peer"}

\* A resource is known by the goroutine that made it.
Resources == [kind : Kinds, maker : Procs]

R(kind, maker) == [kind |-> kind, maker |-> maker]

ASSUME ResourcesAssumption == None \notin Resources

login == R("login", connector)
video == R("video", connector)
remote == R("remote", connector)
leader == R("leader", connector)
peer == R("peer", share)

VARIABLES
    vendor,        \* "modern", "legacy" or "dell"
    iso,           \* an image is given on the command line
    follower,      \* the console is another viewer's shared session
    pc,            \* where each goroutine is
    live,          \* resources that exist
    broken,        \* connections the network has lost
    doomed,        \* resources somebody is about to close
    local,         \* resources a goroutine holds in its variables
    slots,         \* client, conn, cmdConn, vm, remote and shareLeader
    peers,         \* peers of the share leader
    watching,      \* readLoop or watchRemote: "no", "yes" or "ended"
    reading,       \* command channels with a readCommandLoop
    connected, vmConnecting, mediaDenied, closed,
    late,          \* command channels stored by startISO after shutdown
    unheard,       \* logins that a logout has failed to end
    exited         \* the process has ended

windowVars ==
    <<vendor, iso, follower, pc, live, broken, doomed, local, slots, peers, watching,
      reading, connected, vmConnecting, mediaDenied, closed, late, unheard>>

vars == <<windowVars, exited>>

Slots == {"client", "conn", "cmd", "vm", "remote", "leader"}

ConnectorPlaces ==
    {"login", "dial", "dial busy", "accept", "command", "iso check", "iso command",
     "iso store", "iso dial", "commit", "mount", "fail", "done", "end", "stuck"}

MounterPlaces ==
    {"idle", "dialog", "iso check", "iso command", "iso store", "iso dial",
     "mounted", "watch", "remote", "mount failed", "stuck"}

SharePlaces == {"idle", "prompt", "connect", "add"}

PlacesOK ==
    /\ pc \in [Procs -> ConnectorPlaces \cup MounterPlaces \cup SharePlaces]
    /\ pc[connector] \in ConnectorPlaces /\ pc[share] \in SharePlaces
    /\ \A m \in Mounters : pc[m] \in MounterPlaces

ResourcesOK ==
    /\ live \subseteq Resources /\ broken \subseteq Resources /\ doomed \subseteq Resources
    /\ local \in [Procs -> SUBSET Resources]
    /\ slots \in [Slots -> Resources \cup {None}]
    /\ peers \subseteq Resources /\ reading \subseteq Resources /\ late \subseteq Resources
    /\ unheard \subseteq Resources

TypeOK ==
    /\ PlacesOK /\ ResourcesOK
    /\ vendor \in {"modern", "legacy", "dell"}
    /\ iso \in BOOLEAN /\ follower \in BOOLEAN
    /\ watching \in {"no", "yes", "ended"}
    /\ connected \in BOOLEAN /\ vmConnecting \in BOOLEAN
    /\ mediaDenied \in BOOLEAN /\ closed \in BOOLEAN /\ exited \in BOOLEAN

Init ==
    /\ vendor \in {"modern", "legacy", "dell"}
    /\ iso \in BOOLEAN
    /\ follower = FALSE
    /\ pc = [p \in Procs |-> IF p = connector THEN "login" ELSE "idle"]
    /\ live = {} /\ broken = {} /\ doomed = {} /\ peers = {}
    /\ local = [p \in Procs |-> {}]
    /\ slots = [s \in Slots |-> None]
    /\ watching = "no"
    /\ reading = {} /\ late = {} /\ unheard = {}
    /\ connected = FALSE /\ vmConnecting = FALSE
    /\ mediaDenied = FALSE /\ closed = FALSE /\ exited = FALSE

Taken == {slots[s] : s \in Slots} \ {None}
Emptied == [s \in Slots |-> None]

Goto(p, label) == pc' = [pc EXCEPT ![p] = label]

Fixed == UNCHANGED <<vendor, iso, unheard>>
Flags == <<connected, vmConnecting, mediaDenied, closed>>
Loops == <<watching, reading, late, peers, broken>>

\* A goroutine makes a resource and keeps it in a variable.  The name of an
\* earlier one is free again once that one is gone.
Make(p, r) ==
    /\ r \notin live
    /\ live' = live \cup {r}
    /\ local' = [local EXCEPT ![p] = @ \cup {r}]

\* A goroutine closes what it holds, on its error path.
Abandon(p) ==
    /\ doomed' = doomed \cup local[p]
    /\ local' = [local EXCEPT ![p] = {}]

\* DialWithKeys, DialLegacy: the controller takes a new channel only for a
\* login it knows.
Accepts == login \in live

\* DialLegacy: a legacy one also refuses a second medium.
DriveFree == vendor = "legacy" => \A p \in Procs : R("vm", p) \notin live

\* DialWithKeys, DialLegacy: the dial has a deadline only if its context has one,
\* and the window's has none.  A controller that takes the connection and then
\* stays silent keeps the goroutine in its read, with what it holds.
DialHangs(p) ==
    /\ pc[p] \in {"dial", "dial busy", "command", "iso command", "iso dial"}
    /\ Goto(p, "stuck")
    /\ Fixed /\ UNCHANGED <<follower, live, doomed, local, slots, Flags, Loops>>

----------------------------------------------------------------------------
\* connect.

\* Login and GetRCInfo, or idrac.Connect.
Login ==
    /\ pc[connector] = "login"
    /\ \/ /\ Make(connector, IF vendor = "dell" THEN remote ELSE login)
          /\ Goto(connector, IF vendor = "dell" THEN "commit" ELSE "dial")
       \/ /\ Goto(connector, "fail")
          /\ UNCHANGED <<live, local>>
    /\ Fixed /\ UNCHANGED <<follower, doomed, slots, Flags, Loops>>

\* The video connection stands.  Only then is it known that a joined session
\* takes no image.
Dialed(joined) ==
    /\ Make(connector, video)
    /\ follower' = joined
    /\ Goto(connector, CASE joined /\ iso -> "fail"
                         [] joined /\ ~iso -> "commit"
                         [] ~joined /\ iso -> "iso check"
                         [] OTHER -> "command")

DialGoto(label) == Goto(connector, label) /\ UNCHANGED <<live, local, follower>>

\* GetRCInfo, and the first dial; a busy console is dialled again if it is to be
\* shared or seized.
DialVideo ==
    /\ pc[connector] = "dial"
    /\ \/ Dialed(FALSE)
       \/ DialGoto("dial busy")
       \/ DialGoto("fail")
    /\ Fixed /\ UNCHANGED <<doomed, slots, Flags, Loops>>

\* An iLO hands a seized console over on the same connection, and a modern one a
\* shared console too.  A legacy one drops it: the other viewer calls back, unless
\* it has left by now, which connect takes for a joined session all the same.
NegotiateBusy ==
    /\ pc[connector] = "dial busy"
    /\ \/ Dialed(FALSE)
       \/ vendor = "legacy" /\ (Dialed(TRUE) \/ DialGoto("accept"))
       \/ DialGoto("fail")
    /\ Fixed /\ UNCHANGED <<doomed, slots, Flags, Loops>>

\* The listener waits ten seconds, and what comes in too late is closed.
AcceptSharedPeer ==
    /\ pc[connector] = "accept"
    /\ Dialed(TRUE) \/ DialGoto("fail")
    /\ Fixed /\ UNCHANGED <<doomed, slots, Flags, Loops>>

\* openCommandChannel; without it the console works all the same.
OpenCommand ==
    /\ pc[connector] = "command"
    /\ \/ Accepts /\ Make(connector, R("cmd", connector))
       \/ UNCHANGED <<live, local>>
    /\ Goto(connector, "commit")
    /\ Fixed /\ UNCHANGED <<follower, doomed, slots, Flags, Loops>>

\* As connect would be if it did not look whether the window has closed.
CommitUnchecked ==
    /\ pc[connector] = "commit"
    /\ LET held == local[connector]
           In(kind, old) == IF R(kind, connector) \in held THEN R(kind, connector) ELSE old
       IN  slots' = [client |-> In("login", None), conn |-> In("video", None),
                     cmd |-> In("cmd", slots["cmd"]), vm |-> In("vm", None),
                     remote |-> In("remote", None), leader |-> None]
    /\ local' = [local EXCEPT ![connector] = {}]
    /\ watching' = "yes"
    /\ Goto(connector, "done")
    /\ Fixed /\ UNCHANGED <<follower, live, doomed, Flags, reading, late, peers, broken>>

\* Under the lock: a window that has closed gets nothing, any other everything.
Commit ==
    /\ pc[connector] = "commit"
    /\ \/ /\ closed
          /\ Goto(connector, "fail")
          /\ UNCHANGED <<live, local, slots, watching, reading, connected, mediaDenied>>
       \/ /\ ~closed
          /\ LET led == vendor = "legacy" /\ ~follower
                 held == local[connector] \cup (IF led THEN {leader} ELSE {})
                 In(kind, old) == IF R(kind, connector) \in held THEN R(kind, connector) ELSE old
             IN  /\ slots' = [client |-> In("login", None), conn |-> In("video", None),
                              cmd |-> In("cmd", slots["cmd"]), vm |-> In("vm", None),
                              remote |-> In("remote", None), leader |-> In("leader", None)]
                 /\ live' = live \cup held
                 /\ reading' = reading \cup {r \in held : r.kind = "cmd"}
          /\ local' = [local EXCEPT ![connector] = {}]
          /\ mediaDenied' = FALSE
          /\ IF vendor = "dell" /\ iso
             THEN Goto(connector, "mount") /\ UNCHANGED watching
             ELSE Goto(connector, "done") /\ watching' = "yes"
          /\ UNCHANGED connected
    /\ Fixed /\ UNCHANGED <<follower, doomed, vmConnecting, closed, late, peers, broken>>

\* mountRemoteISO in connectIDRAC: a failure ends the new session.
MountConfigured ==
    /\ pc[connector] = "mount"
    /\ \/ /\ slots["remote"] # None
          /\ watching' = "yes"
          /\ Goto(connector, "done")
          /\ UNCHANGED <<doomed, slots>>
       \/ /\ doomed' = doomed \cup ({remote} \cap live)
          /\ slots' = [slots EXCEPT !["remote"] = None]
          /\ Goto(connector, "fail")
          /\ UNCHANGED watching
    /\ Fixed /\ UNCHANGED <<follower, live, local, Flags, reading, late, peers, broken>>

\* connect returns an error: the deferred logout, and the closes before it.
ConnectFails ==
    /\ pc[connector] = "fail"
    /\ Abandon(connector)
    /\ connected' = IF closed THEN connected ELSE FALSE
    /\ Goto(connector, "end")
    /\ Fixed /\ UNCHANGED <<follower, live, slots, vmConnecting, mediaDenied, closed, Loops>>

\* connectConfigured: the window shows that it is connected, also when it has
\* been disconnected meanwhile.
ConnectDone ==
    /\ pc[connector] = "done"
    /\ connected' = (connected \/ ~closed)
    /\ Goto(connector, "end")
    /\ Fixed /\ UNCHANGED <<follower, live, doomed, local, slots, vmConnecting, mediaDenied, closed, Loops>>

----------------------------------------------------------------------------
\* startISO, by connect or by a mount.  A legacy iLO takes the medium directly,
\* a modern one wants a command channel beside it.
IsoCheck(p) ==
    /\ pc[p] = "iso check"
    /\ Goto(p, IF vendor = "modern" /\ slots["cmd"] = None THEN "iso command" ELSE "iso dial")
    /\ Fixed /\ UNCHANGED <<follower, live, doomed, local, slots, Flags, Loops>>

IsoCommand(p) ==
    /\ pc[p] = "iso command"
    /\ \/ /\ Accepts
          /\ Make(p, R("cmd", p))
          /\ Goto(p, "iso store")
       \/ /\ Goto(p, IF p = connector THEN "fail" ELSE "mount failed")
          /\ UNCHANGED <<live, local>>
    /\ Fixed /\ UNCHANGED <<follower, doomed, slots, Flags, Loops>>

\* The channel becomes the window's, whether the window is still there or not,
\* unless another mount was faster.
IsoStore(p) ==
    /\ pc[p] = "iso store"
    /\ local' = [local EXCEPT ![p] = @ \ {R("cmd", p)}]
    /\ \/ /\ slots["cmd"] = None
          /\ slots' = [slots EXCEPT !["cmd"] = R("cmd", p)]
          /\ reading' = reading \cup {R("cmd", p)}
          /\ late' = IF closed THEN late \cup {R("cmd", p)} ELSE late
          /\ UNCHANGED doomed
       \/ /\ slots["cmd"] # None
          /\ doomed' = doomed \cup {R("cmd", p)}
          /\ UNCHANGED <<slots, reading, late>>
    /\ Goto(p, "iso dial")
    /\ Fixed /\ UNCHANGED <<follower, live, Flags, watching, peers, broken>>

IsoDial(p) ==
    /\ pc[p] = "iso dial"
    /\ \/ /\ Accepts /\ DriveFree
          /\ Make(p, R("vm", p))
          /\ Goto(p, CASE p # connector -> "mounted"
                       [] p = connector /\ vendor = "legacy" -> "command"
                       [] OTHER -> "commit")
       \/ /\ Goto(p, IF p = connector THEN "fail" ELSE "mount failed")
          /\ UNCHANGED <<live, local>>
    /\ Fixed /\ UNCHANGED <<follower, doomed, slots, Flags, Loops>>

----------------------------------------------------------------------------
\* chooseAndMountISO: the file dialog runs beside everything else.
ChooseISO(m) ==
    /\ pc[m] = "idle"
    /\ connected /\ ~vmConnecting /\ ~mediaDenied /\ slots["vm"] = None
    /\ Goto(m, "dialog")
    /\ Fixed /\ UNCHANGED <<follower, live, doomed, local, slots, Flags, Loops>>

\* mountISO or mountISORemote, once a file is chosen.  A Dell session that is
\* gone leaves the iLO path, which has no RcInfo and fails.
MountISO(m) ==
    /\ pc[m] = "dialog"
    /\ \/ /\ vmConnecting \/ slots["vm"] # None
          /\ Goto(m, "idle")
          /\ UNCHANGED vmConnecting
       \/ /\ ~vmConnecting /\ slots["vm"] = None
          /\ vmConnecting' = TRUE
          /\ Goto(m, IF vendor = "dell" THEN "mount failed" ELSE "iso check")
       \/ /\ ~vmConnecting /\ slots["remote"] # None
          /\ vmConnecting' = TRUE
          /\ Goto(m, "remote")
    /\ Fixed /\ UNCHANGED <<follower, live, doomed, local, slots, connected, mediaDenied, closed, Loops>>

\* The mount of a Dell session returns, or the one of an iLO has failed.
MountReturns(m) ==
    /\ pc[m] \in {"remote", "mount failed"}
    /\ vmConnecting' = FALSE
    /\ Goto(m, "idle")
    /\ Fixed /\ UNCHANGED <<follower, live, doomed, local, slots, connected, mediaDenied, closed, Loops>>

\* The medium of an iLO is there: the window takes it, unless it has closed.
MountDone(m) ==
    /\ pc[m] = "mounted"
    /\ vmConnecting' = FALSE
    /\ \/ /\ closed
          /\ Abandon(m)
          /\ UNCHANGED slots
       \/ /\ ~closed
          /\ slots' = [slots EXCEPT !["vm"] = R("vm", m)]
          /\ local' = [local EXCEPT ![m] = {}]
          /\ UNCHANGED doomed
    /\ Goto(m, "watch")
    /\ Fixed /\ UNCHANGED <<follower, live, connected, mediaDenied, closed, Loops>>

\* The goroutine that waits for the end of a medium.
WatchMedia(m) ==
    /\ pc[m] = "watch"
    /\ R("vm", m) \notin live
    /\ slots' = IF slots["vm"] = R("vm", m) THEN [slots EXCEPT !["vm"] = None] ELSE slots
    /\ Goto(m, "idle")
    /\ Fixed /\ UNCHANGED <<follower, live, doomed, local, Flags, Loops>>

DismountISO ==
    /\ ~vmConnecting
    /\ slots["vm"] # None
    /\ doomed' = doomed \cup ({slots["vm"]} \cap live)
    /\ slots' = [slots EXCEPT !["vm"] = None]
    /\ Fixed /\ UNCHANGED <<follower, pc, live, local, Flags, Loops>>

----------------------------------------------------------------------------
\* handleDisconnect: everything is taken under the lock and closed after it.
HandleDisconnect ==
    /\ doomed' = doomed \cup (Taken \cap live)
    /\ slots' = Emptied
    /\ connected' = FALSE /\ vmConnecting' = FALSE /\ mediaDenied' = FALSE

\* As the loop would be if an error only ended it.
ReadLoopFailsQuietly ==
    /\ watching = "yes"
    /\ {video, remote} \cap broken # {}
    /\ watching' = "ended"
    /\ Fixed /\ UNCHANGED <<follower, pc, live, local, doomed, slots, Flags, reading, late, peers, broken>>

\* readLoop: a read fails, or a new cipher cannot be set, or a refresh cannot
\* be sent.  watchRemote: the Dell session has ended.
ReadLoopFails ==
    /\ watching = "yes"
    /\ \/ {video, remote} \cap (broken \cup doomed) # {}
       \/ {video, remote} \cap live = {}
       \/ vendor = "legacy" /\ ~follower
    /\ watching' = "ended"
    /\ IF vendor = "dell" /\ slots["remote"] = None
       THEN UNCHANGED <<doomed, slots, connected, vmConnecting, mediaDenied>>
       ELSE HandleDisconnect
    /\ Fixed /\ UNCHANGED <<follower, pc, live, local, closed, reading, late, peers, broken>>

\* The loop sees that the window is closed.
ReadLoopStops ==
    /\ watching = "yes" /\ closed
    /\ watching' = "ended"
    /\ Fixed /\ UNCHANGED <<follower, pc, live, doomed, local, slots, Flags, reading, late, peers, broken>>

\* handleCommandPacket: a firmware update, a reset, a lost licence or a
\* withdrawn console permission end the console.
CommandEnds(c) ==
    /\ c \in reading \cap live
    /\ HandleDisconnect
    /\ Fixed /\ UNCHANGED <<follower, pc, live, local, closed, Loops>>

MediaWithdrawn(c) ==
    /\ c \in reading \cap live
    /\ mediaDenied' = TRUE
    /\ Fixed /\ UNCHANGED <<follower, pc, live, doomed, local, slots, connected, vmConnecting, closed, Loops>>

\* readCommandLoop ends and leaves its connection where it is.
CommandLoopEnds(c) ==
    /\ c \in reading
    /\ closed \/ c \in broken \/ c \notin live
    /\ reading' = reading \ {c}
    /\ Fixed /\ UNCHANGED <<follower, pc, live, doomed, local, slots, Flags, watching, late, peers, broken>>

----------------------------------------------------------------------------
\* handleLegacyShareRequest, one request at a time.
ShareRequest(c) ==
    /\ vendor = "legacy" /\ c \in reading \cap live
    /\ pc[share] = "idle"
    /\ slots["cmd"] # None /\ slots["leader"] # None
    /\ peer \notin live
    /\ Goto(share, "prompt")
    /\ Fixed /\ UNCHANGED <<follower, live, doomed, local, slots, Flags, Loops>>

\* confirmLegacyShare, answered by the user, by its timer or by the end of the
\* window, and SendLegacyShareDecision.
ShareDecide ==
    /\ pc[share] = "prompt"
    /\ \E accepted \in BOOLEAN :
          Goto(share, IF accepted /\ R("cmd", connector) \in live \ broken
                      THEN "connect" ELSE "idle")
    /\ Fixed /\ UNCHANGED <<follower, live, doomed, local, slots, Flags, Loops>>

\* ConnectPeer.
ConnectPeer ==
    /\ pc[share] = "connect"
    /\ \/ Make(share, peer) /\ Goto(share, "add")
       \/ Goto(share, "idle") /\ UNCHANGED <<live, local>>
    /\ Fixed /\ UNCHANGED <<follower, doomed, slots, Flags, Loops>>

\* As it would be if it did not look whether the leader has closed.
AddPeerUnchecked ==
    /\ pc[share] = "add"
    /\ peers' = peers \cup {peer}
    /\ local' = [local EXCEPT ![share] = {}]
    /\ Goto(share, "idle")
    /\ Fixed /\ UNCHANGED <<follower, live, doomed, slots, Flags, watching, reading, late, broken>>

\* addPeerConn: a leader that has closed takes no more peers.
AddPeer ==
    /\ pc[share] = "add"
    /\ \/ leader \in live /\ peers' = peers \cup {peer} /\ UNCHANGED doomed
       \/ leader \notin live /\ doomed' = doomed \cup {peer} /\ UNCHANGED peers
    /\ local' = [local EXCEPT ![share] = {}]
    /\ Goto(share, "idle")
    /\ Fixed /\ UNCHANGED <<follower, live, slots, Flags, watching, reading, late, broken>>

\* readPeer ends, or Broadcast cannot write: removePeer.
RemovePeer ==
    /\ peers # {}
    /\ peers' = {}
    /\ live' = live \ peers
    /\ Fixed /\ UNCHANGED <<follower, pc, doomed, local, slots, Flags, watching, reading, late, broken>>

----------------------------------------------------------------------------
\* The closes of handleDisconnect, shutdown or an error path, and the logout
\* that comes last in each.  The share leader closes its peers.
CloseDoomed ==
    /\ doomed \ {login} # {}
    /\ doomed' = doomed \cap {login}
    /\ broken' = broken \ (doomed \ {login})
    /\ IF leader \in doomed
       THEN live' = live \ ((doomed \ {login}) \cup peers) /\ peers' = {}
       ELSE live' = live \ (doomed \ {login}) /\ UNCHANGED peers
    /\ Fixed /\ UNCHANGED <<follower, pc, local, slots, Flags, watching, reading, late>>

\* Nobody looks at the result of a Logout: one that fails, or is not answered in
\* two seconds, leaves the login.
Logout ==
    /\ login \in doomed
    /\ doomed' = doomed \ {login}
    /\ \/ live' = live \ {login} /\ UNCHANGED unheard
       \/ unheard' = unheard \cup {login} /\ UNCHANGED live
    /\ UNCHANGED <<vendor, iso, follower, pc, local, slots, Flags, Loops>>

\* shutdown, by DestroyEvent or SessionWindow.Close.
Shutdown ==
    /\ ~closed
    /\ closed' = TRUE
    /\ doomed' = doomed \cup (Taken \cap live)
    /\ slots' = Emptied
    /\ connected' = FALSE
    /\ Fixed /\ UNCHANGED <<follower, pc, live, local, vmConnecting, mediaDenied, Loops>>

\* The network loses a connection, or a medium ends by itself.
Lose(r) ==
    /\ r \in live \ (broken \cup doomed)
    /\ r.kind \in {"video", "cmd", "remote"}
    /\ broken' = broken \cup {r}
    /\ Fixed /\ UNCHANGED <<follower, pc, live, doomed, local, slots, Flags, watching, reading, late, peers>>

MediaEnds(p) ==
    /\ R("vm", p) \in live \ local[p]
    /\ live' = live \ {R("vm", p)}
    /\ doomed' = doomed \ {R("vm", p)}
    /\ Fixed /\ UNCHANGED <<follower, pc, local, slots, Flags, Loops>>

----------------------------------------------------------------------------
ConnectStep ==
    \/ Login \/ DialVideo \/ NegotiateBusy \/ AcceptSharedPeer \/ OpenCommand \/ Commit \/ MountConfigured
    \/ ConnectFails \/ ConnectDone
    \/ IsoCheck(connector) \/ IsoCommand(connector)
    \/ IsoStore(connector) \/ IsoDial(connector)

MountStep(m) ==
    \/ MountISO(m) \/ IsoCheck(m) \/ IsoCommand(m) \/ IsoStore(m) \/ IsoDial(m)
    \/ MountReturns(m) \/ MountDone(m) \/ WatchMedia(m)

ShareStep == ShareDecide \/ ConnectPeer \/ AddPeer

ReadStep == ReadLoopFails \/ ReadLoopStops

Step ==
    \/ ConnectStep
    \/ \E m \in Mounters : ChooseISO(m) \/ MountStep(m)
    \/ DismountISO
    \/ ReadStep
    \/ \E r \in live \cup reading :
          \/ CommandEnds(r) \/ MediaWithdrawn(r) \/ CommandLoopEnds(r)
          \/ ShareRequest(r) \/ Lose(r)
    \/ ShareStep \/ RemovePeer
    \/ CloseDoomed \/ Logout
    \/ Shutdown
    \/ \E p \in Procs : MediaEnds(p) \/ DialHangs(p)

\* A goroutine runs as long as the process does.
Running(A) == ~exited /\ A /\ UNCHANGED exited

\* main: the process ends when its windows have closed, whoever still runs, also
\* in the middle of a shutdown: SessionWindow.Close returns at once from a window
\* that another goroutine is shutting down.
Exit ==
    /\ closed /\ ~exited
    /\ exited' = TRUE
    /\ UNCHANGED windowVars

Next == Running(Step) \/ Exit

SafetySpec == Init /\ [][Next]_vars

\* Goroutines that can run do: each has a poll interval, a timeout or the
\* window's context, but for a dial that hangs and the end of the process.  The
\* user, the controller and the network owe nothing.
Spec ==
    /\ SafetySpec
    /\ WF_vars(Running(ConnectStep))
    /\ WF_vars(Running(ReadStep)) /\ WF_vars(Running(ShareStep))
    /\ \A m \in Mounters : WF_vars(Running(MountStep(m)))
    /\ WF_vars(Running(CloseDoomed)) /\ WF_vars(Running(Logout))

----------------------------------------------------------------------------
\* What is the window's, a goroutine's, a peer of a leader that is still there,
\* or about to be closed.
Owned ==
    Taken \cup doomed \cup (UNION {local[p] : p \in Procs})
          \cup (IF leader \in live THEN peers ELSE {})

\* Nobody loses track of a login, socket, medium or session: all that exist are
\* somebody's, but for a login whose logout has failed, which nobody tries again.
EverythingOwned == live \subseteq Owned \cup unheard

----------------------------------------------------------------------------
(* Why it holds: an inductive invariant *)

\* Each place of the window is for one kind of resource.
SlotsInOrder ==
    /\ slots["client"] \in {login, None} /\ slots["conn"] \in {video, None}
    /\ slots["remote"] \in {remote, None} /\ slots["leader"] \in {leader, None}
    /\ slots["cmd"] \in {R("cmd", p) : p \in Procs} \cup {None}
    /\ slots["vm"] \in {R("vm", p) : p \in Mounters \cup {connector}} \cup {None}
    /\ peers \subseteq {peer}

\* What a goroutine holds it has made, and a mount and a shared session hold
\* something only where they go on to store or close it.
Holding ==
    /\ local[connector] \subseteq {login, video, remote, R("cmd", connector), R("vm", connector)}
    /\ local[share] \subseteq {peer} /\ (pc[share] # "add" => local[share] = {})
    /\ \A m \in Mounters :
         local[m] \subseteq CASE pc[m] = "iso store" -> {R("cmd", m)}
                            [] pc[m] = "mounted" -> {R("vm", m)}
                            [] OTHER -> {}

\* A window that is not connected yet has nothing, but for the command channel of
\* an image that a modern iLO is given at once, and it mounts nothing else.
Connecting == ConnectorPlaces \ {"mount", "fail", "done", "end", "stuck"}

Unconnected ==
    /\ connected => pc[connector] = "end"
    /\ pc[connector] # "end" => \A m \in Mounters : pc[m] = "idle" /\ R("vm", m) \notin live
    /\ pc[connector] \in Connecting =>
         /\ \A s \in Slots \ {"cmd"} : slots[s] = None
         /\ slots["cmd"] = None
              \/ (pc[connector] \in {"iso dial", "commit"} /\ vendor # "legacy"
                    /\ R("cmd", connector) \notin local[connector])
    /\ pc[connector] \in Connecting \ {"login", "commit"} => vendor # "dell"
    /\ pc[connector] \in {"iso command", "iso store"} => vendor = "modern"

\* A legacy iLO has one medium at a time; and while the only mount is under way
\* the window has none.
Mounting == {"dialog", "iso check", "iso command", "iso store", "iso dial", "mounted",
             "remote", "mount failed"}

OneMount == \A m, n \in Mounters : m = n

Media ==
    /\ \A m \in Mounters :
         /\ pc[m] \in {"iso check", "iso command", "iso store", "iso dial", "mounted", "watch"}
              => vendor # "dell"
         /\ pc[m] = "mounted" => R("vm", m) \in (live \cap local[m]) \ doomed
         /\ R("vm", m) \in doomed => R("vm", m) \in live
         /\ slots["vm"] = R("vm", m) => pc[m] = "watch"
         /\ pc[m] \in Mounting => slots["vm"] # R("vm", connector)
         /\ OneMount /\ pc[m] \in Mounting => slots["vm"] = None
    /\ vendor = "legacy" =>
         \A p, q \in Mounters \cup {connector} :
            R("vm", p) \in live /\ R("vm", q) \in live => p = q

\* The media that two mounts at once can make a modern iLO's window forget.
Strays ==
    IF vendor = "modern" /\ ~OneMount THEN {R("vm", m) : m \in Mounters} ELSE {}

NothingElseStray == live \subseteq Owned \cup Strays \cup unheard

IInv == TypeOK /\ SlotsInOrder /\ Holding /\ Unconnected /\ Media /\ NothingElseStray

----------------------------------------------------------------------------
(* Liveness *)

\* What a goroutine holds that never returns from its dial.
Withheld == UNION {local[p] : p \in {q \in Procs : pc[q] = "stuck"}}

\* A window that has closed lets go of everything, also of what a connect, a
\* mount or a shared-session request was just opening, if the process runs on for
\* it.  The exceptions are real: startISO stores its command channel without
\* looking whether shutdown has been there, a failed logout is not repeated, and a
\* dial that hangs keeps what its goroutine holds.
WindowEnds == closed ~> (exited \/ [](live \subseteq late \cup unheard \cup Withheld))

\* A console that is lost, while it is connected or while it is connecting, does
\* not keep its login on the controller, but for a failed logout, a dial that
\* hangs before the connect could look, and the end of the process.
LostReleased ==
    ({video, remote} \cap broken # {}) ~>
        (exited \/ {login, remote} \cap live \subseteq unheard \cup Withheld)
============================================================================
