---------------------------- MODULE WindowProofs ----------------------------
(***************************************************************************)
(* Proof that a session window of the desktop program loses track of no    *)
(* login, socket, medium or session, but for the media of two mounts at    *)
(* once on a modern iLO (Window); and that the keys the remote host holds  *)
(* are the user's once its goroutines rest, each stroke of a paste a press *)
(* of its own (WindowInput).                                               *)
(***************************************************************************)
EXTENDS Window, WindowInput, TLAPS

\* A resource is what kind it is and who made it.
LEMMA Names ==
    /\ login \in Resources /\ video \in Resources /\ remote \in Resources
    /\ leader \in Resources /\ peer \in Resources /\ None \notin Resources
    /\ login # video /\ login # remote /\ login # leader /\ login # peer
    /\ video # remote /\ video # leader /\ video # peer
    /\ remote # leader /\ remote # peer /\ leader # peer
    /\ \A p \in Procs :
         /\ R("cmd", p) \in Resources /\ R("vm", p) \in Resources
         /\ R("cmd", p) \notin {login, video, remote, leader, peer}
         /\ R("vm", p) \notin {login, video, remote, leader, peer}
         /\ R("vm", p).kind = "vm"
    /\ \A p, q \in Procs :
         /\ R("cmd", p) # R("vm", q)
         /\ R("cmd", p) = R("cmd", q) => p = q
         /\ R("vm", p) = R("vm", q) => p = q
  BY ResourcesAssumption DEF Resources, Kinds, R, Procs, login, video, remote, leader,
     peer

\* What it is to be somebody's, now and after a step.
LEMMA OwnedIs ==
    /\ \A r : r \in Owned <=>
         \/ r # None /\ \E s \in Slots : slots[s] = r
         \/ r \in doomed
         \/ \E p \in Procs : r \in local[p]
         \/ leader \in live /\ r \in peers
    /\ \A r : r \in Owned' <=>
         \/ r # None /\ \E s \in Slots : slots'[s] = r
         \/ r \in doomed'
         \/ \E p \in Procs : r \in local'[p]
         \/ leader \in live' /\ r \in peers'
  <1> DEFINE carried == UNION {local[p] : p \in Procs}
  <1>1. /\ \A r : r \in Taken <=> r # None /\ \E s \in Slots : slots[s] = r
        /\ \A r : r \in Taken' <=> r # None /\ \E s \in Slots : slots'[s] = r
    BY DEF Taken
  <1>2. /\ \A r : r \in carried <=> \E p \in Procs : r \in local[p]
        /\ \A r : r \in carried' <=> \E p \in Procs : r \in local'[p]
    OBVIOUS
  <1>3. /\ Owned = Taken \cup doomed \cup carried \cup (IF leader \in live THEN peers ELSE {})
        /\ Owned' = Taken' \cup doomed' \cup carried' \cup (IF leader \in live' THEN peers' ELSE {})
    <2>1. Owned = Taken \cup doomed \cup carried \cup (IF leader \in live THEN peers ELSE {})
      BY DEF Owned
    <2>2. Owned' = Taken' \cup doomed' \cup carried' \cup (IF leader \in live' THEN peers' ELSE {})
      BY DEF Owned
    <2> QED
      BY <2>1, <2>2
  <1> HIDE DEF carried
  <1>4. /\ \A r : r \in (IF leader \in live THEN peers ELSE {}) <=> leader \in live /\ r \in peers
        /\ \A r : r \in (IF leader \in live' THEN peers' ELSE {}) <=> leader \in live' /\ r \in peers'
    OBVIOUS
  <1>5. \A r : r \in Owned <=>
         \/ r # None /\ \E s \in Slots : slots[s] = r
         \/ r \in doomed
         \/ \E p \in Procs : r \in local[p]
         \/ leader \in live /\ r \in peers
    BY <1>1, <1>2, <1>3, <1>4
  <1>6. \A r : r \in Owned' <=>
         \/ r # None /\ \E s \in Slots : slots'[s] = r
         \/ r \in doomed'
         \/ \E p \in Procs : r \in local'[p]
         \/ leader \in live' /\ r \in peers'
    BY <1>1, <1>2, <1>3, <1>4
  <1> QED
    BY <1>5, <1>6

\* Nothing is lost if what comes to be is somebody's, and what was somebody's
\* stays so or is gone.
LEMMA StrayStays ==
    ASSUME NothingElseStray, vendor' = vendor, unheard \subseteq unheard',
           \A r : r \in live' => r \in live \/ r \in Owned',
           \A r : r \in live' /\ r \in Owned => r \in Owned' \/ r \in unheard'
    PROVE  NothingElseStray'
  BY DEF NothingElseStray, Strays

\* What a goroutine makes it holds.
LEMMA MakeAdds ==
    ASSUME ResourcesOK, NEW p \in Procs, NEW r, r \in Resources, Make(p, r)
    PROVE  /\ r \notin live /\ live' = live \cup {r}
           /\ local' \in [Procs -> SUBSET Resources]
           /\ local'[p] = local[p] \cup {r}
           /\ \A q \in Procs : q # p => local'[q] = local[q]
  BY DEF ResourcesOK, Make

\* What is made is somebody's.
LEMMA StrayMade ==
    ASSUME NothingElseStray, ResourcesOK, NEW p \in Procs, NEW r, r \in Resources,
           Make(p, r), UNCHANGED <<vendor, doomed, slots, peers>>, unheard \subseteq unheard'
    PROVE  NothingElseStray'
  <1>1. /\ live' = live \cup {r} /\ r \in local'[p]
        /\ \A q \in Procs : local[q] \subseteq local'[q]
    BY MakeAdds
  <1>2. \A x : x \in Owned => x \in Owned'
    BY <1>1, OwnedIs
  <1>3. r \in Owned'
    BY <1>1, OwnedIs
  <1> QED
    BY <1>1, <1>2, <1>3, StrayStays

\* What leaves the window is about to be closed, or was closed already.
LEMMA StrayReleased ==
    ASSUME NothingElseStray, UNCHANGED <<vendor, live, local, peers>>,
           unheard \subseteq unheard',
           doomed \subseteq doomed',
           \A s \in Slots : \/ slots'[s] = slots[s]
                            \/ slots[s] \in doomed' \/ slots[s] \notin live
    PROVE  NothingElseStray'
  <1>1. \A r : r \in live' /\ r \in Owned => r \in Owned'
    BY OwnedIs
  <1> QED
    BY <1>1, StrayStays

\* The steps of others leave the media of the mounts alone.
LEMMA MediaStays ==
    ASSUME Media, vendor' = vendor, slots'["vm"] \in {slots["vm"], None},
           \A p \in Procs : R("vm", p) \in live' => R("vm", p) \in live,
           \A m \in Mounters :
             /\ pc'[m] = pc[m]
             /\ pc[m] = "mounted" => R("vm", m) \in live' /\ R("vm", m) \in local'[m]
             /\ R("vm", m) \in doomed' => R("vm", m) \in live' /\ pc[m] # "mounted"
    PROVE  Media'
  <1>1. connector \in Procs /\ \A m \in Mounters : m \in Procs /\ R("vm", m) # None
    BY Names DEF Procs
  <1>2. R("vm", connector) # None
    BY Names DEF Procs
  <1>3. ASSUME NEW m \in Mounters
        PROVE  /\ pc'[m] \in {"iso check", "iso command", "iso store", "iso dial", "mounted", "watch"}
                    => vendor' # "dell"
               /\ pc'[m] = "mounted" => R("vm", m) \in (live' \cap local'[m]) \ doomed'
               /\ R("vm", m) \in doomed' => R("vm", m) \in live'
               /\ slots'["vm"] = R("vm", m) => pc'[m] = "watch"
               /\ pc'[m] \in Mounting => slots'["vm"] # R("vm", connector)
               /\ OneMount /\ pc'[m] \in Mounting => slots'["vm"] = None
    BY <1>1, <1>2 DEF Media
  <1>4. vendor' = "legacy" => \A p, q \in Mounters \cup {connector} :
             R("vm", p) \in live' /\ R("vm", q) \in live' => p = q
    BY <1>1 DEF Media
  <1> QED
    BY <1>3, <1>4 DEF Media

\* A window that is about to connect satisfies the invariant.
LEMMA InitIInv == Init => IInv
  <1> SUFFICES ASSUME Init PROVE IInv
    OBVIOUS
  <1> USE WindowAssumption DEF Init, Procs, Slots
  <1>1. TypeOK
    BY DEF TypeOK, PlacesOK, ResourcesOK, ConnectorPlaces, MounterPlaces, SharePlaces
  <1>2. SlotsInOrder /\ Holding
    BY DEF SlotsInOrder, Holding
  <1>3. Unconnected
    BY DEF Unconnected
  <1>4. Media
    BY Names DEF Media
  <1>5. NothingElseStray
    BY DEF NothingElseStray
  <1> QED
    BY <1>1, <1>2, <1>3, <1>4, <1>5 DEF IInv

\* connect opens something, or gives up on it.
LEMMA ConnectorOpens ==
    ASSUME IInv, NEW l \in ConnectorPlaces, Goto(connector, l),
           NEW r, r \in {login, video, remote, R("cmd", connector)},
           Make(connector, r) \/ UNCHANGED <<live, local>>,
           UNCHANGED <<vendor, doomed, slots, peers, broken, reading, late>>,
           unheard \subseteq unheard', unheard' \subseteq Resources
    PROVE  /\ PlacesOK' /\ ResourcesOK' /\ SlotsInOrder' /\ Holding' /\ Media' /\ NothingElseStray'
           /\ \A m \in Mounters : R("vm", m) \in live' => R("vm", m) \in live
  <1> USE WindowAssumption DEF IInv, TypeOK, Procs
  <1>1. /\ pc' \in [Procs -> ConnectorPlaces \cup MounterPlaces \cup SharePlaces]
        /\ pc'[connector] = l /\ \A p \in Procs : p # connector => pc'[p] = pc[p]
    BY DEF Goto, PlacesOK
  <1>2. r \in Resources /\ \A p \in Procs : r # R("vm", p)
    BY Names
  <1>3. /\ local' \in [Procs -> SUBSET Resources]
        /\ live' \subseteq live \cup {r} /\ live \subseteq live'
        /\ local'[connector] \subseteq local[connector] \cup {r}
        /\ local[connector] \subseteq local'[connector]
        /\ \A q \in Procs : q # connector => local'[q] = local[q]
    BY <1>2, MakeAdds DEF ResourcesOK
  <1>4. PlacesOK'
    BY <1>1 DEF PlacesOK
  <1>5. ResourcesOK'
    BY <1>2, <1>3 DEF ResourcesOK
  <1>6. SlotsInOrder'
    BY DEF SlotsInOrder
  <1>7. Holding'
    BY <1>1, <1>3 DEF Holding
  <1>8. Media'
    <2>1. \A m \in Mounters : R("vm", m) \in doomed' => R("vm", m) \in live' /\ pc[m] # "mounted"
      BY <1>3 DEF Media
    <2> QED
      BY <1>1, <1>2, <1>3, <2>1, MediaStays DEF Media
  <1>9. NothingElseStray'
    <2>1. CASE Make(connector, r)
      BY <2>1, <1>2, StrayMade
    <2>2. CASE UNCHANGED <<live, local>>
      BY <2>2, OwnedIs, StrayStays
    <2> QED
      BY <2>1, <2>2
  <1> QED
    BY <1>2, <1>3, <1>4, <1>5, <1>6, <1>7, <1>8, <1>9

\* A mount whose medium is the window's waits for its end.
LEMMA TakenMedia ==
    ASSUME SlotsInOrder, Media, NEW m \in Mounters, R("vm", m) \in Taken
    PROVE  pc[m] = "watch"
  <1>1. PICK s \in Slots : slots[s] = R("vm", m)
    BY DEF Taken
  <1>2. s = "vm"
    BY <1>1, Names DEF SlotsInOrder, Slots, Procs
  <1> QED
    BY <1>1, <1>2 DEF Media

\* The step of a loop that neither makes nor closes anything.
LEMMA FlagsOnly ==
    ASSUME IInv, UNCHANGED <<vendor, iso, follower, pc, live, doomed, local, slots, peers>>,
           unheard \subseteq unheard', unheard' \subseteq Resources, exited' \in BOOLEAN,
           watching' \in {watching, "ended"}, reading' \subseteq reading,
           broken' \subseteq broken \cup live, late' = late,
           connected' \in {connected, FALSE}, vmConnecting' \in BOOLEAN,
           mediaDenied' \in BOOLEAN, closed' \in BOOLEAN
    PROVE  IInv'
  <1> USE DEF IInv, TypeOK
  <1>1. PlacesOK' /\ ResourcesOK'
    BY DEF PlacesOK, ResourcesOK
  <1>2. TypeOK'
    BY <1>1
  <1>3. SlotsInOrder' /\ Holding' /\ Media'
    BY DEF SlotsInOrder, Holding, Media
  <1>4. Unconnected'
    <2>1. connected' => connected
      BY DEF TypeOK
    <2> QED
      BY <2>1 DEF Unconnected
  <1>5. NothingElseStray'
    BY OwnedIs, StrayStays
  <1> QED
    BY <1>2, <1>3, <1>4, <1>5

\* Everything is taken from the window, to be closed.
LEMMA TakenAway ==
    ASSUME IInv, UNCHANGED <<vendor, iso, follower, pc, live, local, peers, broken, reading, late>>,
           unheard \subseteq unheard', unheard' \subseteq Resources, exited' \in BOOLEAN,
           doomed' = doomed \cup (Taken \cap live), slots' = Emptied,
           watching' \in {watching, "ended"}, connected' = FALSE,
           vmConnecting' \in BOOLEAN, mediaDenied' \in BOOLEAN, closed' \in BOOLEAN
    PROVE  IInv'
  <1> USE DEF IInv, TypeOK
  <1>1. slots' \in [Slots -> Resources \cup {None}] /\ \A s \in Slots : slots'[s] = None
    BY DEF Emptied
  <1>2. PlacesOK' /\ ResourcesOK'
    BY <1>1 DEF PlacesOK, ResourcesOK
  <1>3. TypeOK'
    BY <1>2
  <1>4. SlotsInOrder' /\ Holding'
    BY <1>1 DEF SlotsInOrder, Holding, Slots
  <1>5. Unconnected'
    BY <1>1 DEF Unconnected, Slots
  <1>6. Media'
    <2>1. \A m \in Mounters : R("vm", m) \in doomed' => R("vm", m) \in live /\ pc[m] # "mounted"
      BY TakenMedia DEF Media
    <2> QED
      BY <1>1, <2>1, MediaStays DEF Media, Slots
  <1>7. NothingElseStray'
    BY <1>1, StrayReleased DEF Taken
  <1> QED
    BY <1>3, <1>4, <1>5, <1>6, <1>7

\* A logout that has failed is not forgotten.
LEMMA UnheardGrows ==
    ASSUME IInv, Step
    PROVE  unheard \subseteq unheard' /\ unheard' \subseteq Resources
  <1>1. unheard \subseteq Resources /\ login \in Resources
    BY Names DEF IInv, TypeOK, ResourcesOK
  <1>2. CASE Logout
    BY <1>1, <1>2 DEF Logout
  <1>3. CASE ~Logout
    BY <1>1, <1>3 DEF Step, ConnectStep, MountStep, ReadStep, ShareStep, Fixed,
       Login, DialVideo, NegotiateBusy, AcceptSharedPeer, OpenCommand, Commit, MountConfigured,
       ConnectFails, ConnectDone, IsoCheck, IsoCommand, IsoStore, IsoDial, ChooseISO, MountISO,
       MountReturns, MountDone, WatchMedia, DismountISO, ReadLoopFails, ReadLoopStops,
       CommandEnds, MediaWithdrawn, CommandLoopEnds, ShareRequest, Lose, ShareDecide,
       ConnectPeer, AddPeer, RemovePeer, CloseDoomed, Shutdown, MediaEnds, DialHangs
  <1> QED
    BY <1>2, <1>3

\* Every step of the goroutines, the user, the controller and the network keeps
\* the invariant.
LEMMA StepIInv == ASSUME IInv, Step, exited' = exited PROVE IInv'
  <1>a. unheard \subseteq unheard' /\ unheard' \subseteq Resources /\ exited' \in BOOLEAN
    BY UnheardGrows DEF IInv, TypeOK
  <1> USE <1>a, WindowAssumption DEF IInv, Procs, Goto, Fixed, Flags, Loops
  <1>1. ASSUME Login PROVE IInv'
    <2>1. PICK l \in {"commit", "dial", "fail"} : Goto(connector, l)
      BY <1>1 DEF Login
    <2>2. l \in ConnectorPlaces
      BY DEF ConnectorPlaces
    <2>3. /\ \E r \in {login, video, remote, R("cmd", connector)} :
                Make(connector, r) \/ UNCHANGED <<live, local>>
          /\ UNCHANGED <<vendor, iso, doomed, slots, peers, broken, reading, late, watching>>
          /\ UNCHANGED Flags /\ follower' \in BOOLEAN
      BY <1>1 DEF Login, TypeOK
    <2>4. /\ PlacesOK' /\ ResourcesOK' /\ SlotsInOrder' /\ Holding' /\ Media' /\ NothingElseStray'
          /\ \A m \in Mounters : R("vm", m) \in live' => R("vm", m) \in live
      BY <2>1, <2>2, <2>3, ConnectorOpens
    <2>5. TypeOK'
      BY <2>3, <2>4 DEF TypeOK
    <2>6. Unconnected'
      <3>1. pc'[connector] = l /\ \A m \in Mounters : pc'[m] = pc[m]
        BY <2>1 DEF TypeOK, PlacesOK
      <3>2. /\ pc[connector] = "login"
            /\ pc'[connector] \in Connecting \ {"login", "commit"} => vendor' # "dell"
        BY <1>1, <3>1 DEF Login, Connecting, TypeOK, PlacesOK
      <3> QED
        BY <3>1, <3>2, <2>3, <2>4 DEF Unconnected, Connecting, ConnectorPlaces
    <2> QED
      BY <2>4, <2>5, <2>6
  <1>2. ASSUME DialVideo PROVE IInv'
    <2>1. PICK l \in {"fail", "commit", "iso check", "command", "dial busy"} : Goto(connector, l)
      BY <1>2 DEF DialVideo, Dialed, DialGoto
    <2>2. l \in ConnectorPlaces
      BY DEF ConnectorPlaces
    <2>3. /\ \E r \in {login, video, remote, R("cmd", connector)} :
                Make(connector, r) \/ UNCHANGED <<live, local>>
          /\ UNCHANGED <<vendor, iso, doomed, slots, peers, broken, reading, late, watching>>
          /\ UNCHANGED Flags /\ follower' \in BOOLEAN
      BY <1>2 DEF DialVideo, Dialed, DialGoto, TypeOK
    <2>4. /\ PlacesOK' /\ ResourcesOK' /\ SlotsInOrder' /\ Holding' /\ Media' /\ NothingElseStray'
          /\ \A m \in Mounters : R("vm", m) \in live' => R("vm", m) \in live
      BY <2>1, <2>2, <2>3, ConnectorOpens
    <2>5. TypeOK'
      BY <2>3, <2>4 DEF TypeOK
    <2>6. Unconnected'
      <3>1. pc'[connector] = l /\ \A m \in Mounters : pc'[m] = pc[m]
        BY <2>1 DEF TypeOK, PlacesOK
      <3>2. /\ pc[connector] = "dial"
            /\ pc'[connector] \in Connecting \ {"login", "commit"} => vendor' # "dell"
        BY <1>2, <3>1 DEF DialVideo, Connecting, ConnectorPlaces, Unconnected
      <3> QED
        BY <3>1, <3>2, <2>3, <2>4 DEF Unconnected, Connecting, ConnectorPlaces
    <2> QED
      BY <2>4, <2>5, <2>6
  <1>3. ASSUME NegotiateBusy PROVE IInv'
    <2>1. PICK l \in {"fail", "commit", "iso check", "command", "accept"} : Goto(connector, l)
      BY <1>3 DEF NegotiateBusy, Dialed, DialGoto
    <2>2. l \in ConnectorPlaces
      BY DEF ConnectorPlaces
    <2>3. /\ \E r \in {login, video, remote, R("cmd", connector)} :
                Make(connector, r) \/ UNCHANGED <<live, local>>
          /\ UNCHANGED <<vendor, iso, doomed, slots, peers, broken, reading, late, watching>>
          /\ UNCHANGED Flags /\ follower' \in BOOLEAN
      BY <1>3 DEF NegotiateBusy, Dialed, DialGoto, TypeOK
    <2>4. /\ PlacesOK' /\ ResourcesOK' /\ SlotsInOrder' /\ Holding' /\ Media' /\ NothingElseStray'
          /\ \A m \in Mounters : R("vm", m) \in live' => R("vm", m) \in live
      BY <2>1, <2>2, <2>3, ConnectorOpens
    <2>5. TypeOK'
      BY <2>3, <2>4 DEF TypeOK
    <2>6. Unconnected'
      <3>1. pc'[connector] = l /\ \A m \in Mounters : pc'[m] = pc[m]
        BY <2>1 DEF TypeOK, PlacesOK
      <3>2. /\ pc[connector] = "dial busy"
            /\ pc'[connector] \in Connecting \ {"login", "commit"} => vendor' # "dell"
        BY <1>3, <3>1 DEF NegotiateBusy, Connecting, ConnectorPlaces, Unconnected
      <3> QED
        BY <3>1, <3>2, <2>3, <2>4 DEF Unconnected, Connecting, ConnectorPlaces
    <2> QED
      BY <2>4, <2>5, <2>6
  <1>4. ASSUME AcceptSharedPeer PROVE IInv'
    <2>1. PICK l \in {"fail", "commit", "iso check", "command"} : Goto(connector, l)
      BY <1>4 DEF AcceptSharedPeer, Dialed, DialGoto
    <2>2. l \in ConnectorPlaces
      BY DEF ConnectorPlaces
    <2>3. /\ \E r \in {login, video, remote, R("cmd", connector)} :
                Make(connector, r) \/ UNCHANGED <<live, local>>
          /\ UNCHANGED <<vendor, iso, doomed, slots, peers, broken, reading, late, watching>>
          /\ UNCHANGED Flags /\ follower' \in BOOLEAN
      BY <1>4 DEF AcceptSharedPeer, Dialed, DialGoto, TypeOK
    <2>4. /\ PlacesOK' /\ ResourcesOK' /\ SlotsInOrder' /\ Holding' /\ Media' /\ NothingElseStray'
          /\ \A m \in Mounters : R("vm", m) \in live' => R("vm", m) \in live
      BY <2>1, <2>2, <2>3, ConnectorOpens
    <2>5. TypeOK'
      BY <2>3, <2>4 DEF TypeOK
    <2>6. Unconnected'
      <3>1. pc'[connector] = l /\ \A m \in Mounters : pc'[m] = pc[m]
        BY <2>1 DEF TypeOK, PlacesOK
      <3>2. /\ pc[connector] = "accept"
            /\ pc'[connector] \in Connecting \ {"login", "commit"} => vendor' # "dell"
        BY <1>4, <3>1 DEF AcceptSharedPeer, Connecting, ConnectorPlaces, Unconnected
      <3> QED
        BY <3>1, <3>2, <2>3, <2>4 DEF Unconnected, Connecting, ConnectorPlaces
    <2> QED
      BY <2>4, <2>5, <2>6
  <1>5. ASSUME OpenCommand PROVE IInv'
    <2>1. PICK l \in {"commit"} : Goto(connector, l)
      BY <1>5 DEF OpenCommand
    <2>2. l \in ConnectorPlaces
      BY DEF ConnectorPlaces
    <2>3. /\ \E r \in {login, video, remote, R("cmd", connector)} :
                Make(connector, r) \/ UNCHANGED <<live, local>>
          /\ UNCHANGED <<vendor, iso, doomed, slots, peers, broken, reading, late, watching>>
          /\ UNCHANGED Flags /\ follower' \in BOOLEAN
      BY <1>5 DEF OpenCommand, TypeOK
    <2>4. /\ PlacesOK' /\ ResourcesOK' /\ SlotsInOrder' /\ Holding' /\ Media' /\ NothingElseStray'
          /\ \A m \in Mounters : R("vm", m) \in live' => R("vm", m) \in live
      BY <2>1, <2>2, <2>3, ConnectorOpens
    <2>5. TypeOK'
      BY <2>3, <2>4 DEF TypeOK
    <2>6. Unconnected'
      <3>1. pc'[connector] = l /\ \A m \in Mounters : pc'[m] = pc[m]
        BY <2>1 DEF TypeOK, PlacesOK
      <3>2. /\ pc[connector] = "command"
            /\ pc'[connector] \in Connecting \ {"login", "commit"} => vendor' # "dell"
        BY <1>5, <3>1 DEF OpenCommand
      <3> QED
        BY <3>1, <3>2, <2>3, <2>4 DEF Unconnected, Connecting, ConnectorPlaces
    <2> QED
      BY <2>4, <2>5, <2>6
  <1>6. ASSUME Commit PROVE IInv'
    <2>1. CASE closed /\ Goto(connector, "fail") /\ UNCHANGED <<live, local, slots, watching, reading, connected, mediaDenied>>
      <3>1. /\ pc' \in [Procs -> ConnectorPlaces \cup MounterPlaces \cup SharePlaces]
            /\ pc'[connector] = "fail" /\ \A p \in Procs : p # connector => pc'[p] = pc[p]
        BY <2>1 DEF TypeOK, PlacesOK, ConnectorPlaces
      <3>2. /\ UNCHANGED <<vendor, iso, live, local, slots, doomed, peers, connected, late, broken,
                           reading, watching, follower, mediaDenied, vmConnecting, closed>>
        BY <1>6, <2>1 DEF Commit
      <3>3. TypeOK'
        BY <3>1, <3>2 DEF TypeOK, PlacesOK, ResourcesOK, ConnectorPlaces
      <3>4. SlotsInOrder' /\ Holding'
        BY <3>1, <3>2 DEF SlotsInOrder, Holding
      <3>5. Unconnected'
        BY <3>1, <3>2, <1>6 DEF Unconnected, Connecting, Commit
      <3>6. Media'
        BY <3>1, <3>2 DEF Media
      <3>7. NothingElseStray'
        BY <3>2, OwnedIs, StrayStays
      <3> QED
        BY <3>3, <3>4, <3>5, <3>6, <3>7
    <2>2. CASE ~closed /\ ~(closed /\ Goto(connector, "fail"))
      <3> DEFINE mine == local[connector]
                           \cup (IF vendor = "legacy" /\ ~follower THEN {leader} ELSE {})
      <3>1. /\ pc[connector] = "commit" /\ live' = live \cup mine
            /\ slots' = [client |-> IF login \in mine THEN login ELSE None,
                         conn |-> IF video \in mine THEN video ELSE None,
                         cmd |-> IF R("cmd", connector) \in mine THEN R("cmd", connector) ELSE slots["cmd"],
                         vm |-> IF R("vm", connector) \in mine THEN R("vm", connector) ELSE None,
                         remote |-> IF remote \in mine THEN remote ELSE None,
                         leader |-> IF leader \in mine THEN leader ELSE None]
            /\ local' = [local EXCEPT ![connector] = {}]
            /\ \E l \in {"mount", "done"} : Goto(connector, l)
            /\ reading' = reading \cup {r \in mine : r.kind = "cmd"}
            /\ mediaDenied' = FALSE /\ watching' \in {watching, "yes"}
            /\ UNCHANGED <<vendor, iso, follower, doomed, vmConnecting, closed, late, peers, broken, connected>>
        BY <1>6, <2>2 DEF Commit, login, video, remote, leader
      <3>2. /\ mine \subseteq {login, video, remote, R("cmd", connector), R("vm", connector), leader}
            /\ local[connector] \subseteq mine
        BY DEF Holding
      <3> HIDE DEF mine
      <3>3. /\ pc' \in [Procs -> ConnectorPlaces \cup MounterPlaces \cup SharePlaces]
            /\ pc'[connector] \in {"mount", "done"} /\ \A p \in Procs : p # connector => pc'[p] = pc[p]
        BY <3>1 DEF TypeOK, PlacesOK, ConnectorPlaces
      <3>4. /\ local' \in [Procs -> SUBSET Resources] /\ local'[connector] = {}
            /\ \A p \in Procs : p # connector => local'[p] = local[p]
        BY <3>1 DEF TypeOK, ResourcesOK
      <3>5. PlacesOK'
        BY <3>3 DEF TypeOK, PlacesOK, ConnectorPlaces
      <3>6. ResourcesOK'
        <4>1. mine \subseteq Resources
          BY <3>2, Names
        <4>2. slots["cmd"] \in Resources \cup {None}
          BY DEF TypeOK, ResourcesOK, Slots
        <4>3. slots' \in [Slots -> Resources \cup {None}]
          BY <3>1, <4>2, Names DEF Slots
        <4> QED
          BY <3>1, <3>4, <4>1, <4>3 DEF TypeOK, ResourcesOK
      <3>7. TypeOK'
        BY <3>1, <3>5, <3>6 DEF TypeOK
      <3>8. SlotsInOrder'
        BY <3>1 DEF SlotsInOrder
      <3>9. Holding'
        BY <3>3, <3>4 DEF Holding
      <3>10. Unconnected'
        <4>1. \A m \in Mounters : R("vm", m) \in live' => R("vm", m) \in live
          BY <3>1, <3>2, Names
        <4> QED
          BY <3>1, <3>3, <4>1 DEF Unconnected, Connecting
      <3>11. Media'
        <4>1. \A m \in Mounters : pc'[m] = pc[m] /\ pc[m] = "idle"
          BY <3>1, <3>3 DEF Unconnected
        <4>2. \A p \in Mounters \cup {connector} : R("vm", p) \in live' => p = connector
          BY <3>1, <3>2, Names DEF Unconnected
        <4>3. ASSUME NEW m \in Mounters
              PROVE  /\ pc'[m] \notin Mounting \cup {"watch"}
                     /\ R("vm", m) \notin doomed' /\ slots'["vm"] # R("vm", m)
          <5>1. m \in Procs /\ m # connector /\ R("vm", m) # None
            BY Names
          <5>2. R("vm", m) \notin live /\ pc'[m] = "idle"
            BY <3>1, <3>3, <4>1 DEF Unconnected
          <5>3. R("vm", m) \notin doomed' /\ R("vm", m) \notin mine
            <6>1. R("vm", m) \in doomed => R("vm", m) \in live
              BY DEF Media
            <6>2. R("vm", m) \notin {login, video, remote, leader, R("cmd", connector)}
              BY <5>1, Names
            <6>3. R("vm", m) # R("vm", connector)
              BY <5>1, Names
            <6> QED
              BY <6>1, <6>2, <6>3, <5>2, <3>1, <3>2
          <5>4. slots'["vm"] # R("vm", m)
            BY <5>1, <3>1, <3>2, Names
          <5> QED
            BY <5>2, <5>3, <5>4 DEF Mounting
        <4> QED
          BY <4>2, <4>3 DEF Media, Mounting
      <3>12. NothingElseStray'
        <4>1. \A r \in mine : \E s \in Slots : slots'[s] = r
          BY <3>1, <3>2 DEF Slots
        <4>2. None \notin mine
          BY <3>2, Names
        <4>3. \A r \in mine : r \in Owned'
          BY <4>1, <4>2, OwnedIs
        <4>4. \A s \in Slots : slots[s] # None => s = "cmd" /\ slots'["cmd"] = slots["cmd"]
          BY <3>1 DEF Unconnected, Connecting, ConnectorPlaces, mine
        <4>5. \A r \in Owned : r \in Owned'
          <5>1. \A r : r # None /\ (\E s \in Slots : slots[s] = r) => \E s \in Slots : slots'[s] = r
            BY <4>4
          <5>2. \A p \in Procs : local[p] \subseteq local'[p] \cup mine
            BY <3>2, <3>4
          <5>3. doomed \subseteq doomed' /\ peers' = peers /\ (leader \in live => leader \in live')
            BY <3>1
          <5> QED
            BY <5>1, <5>2, <5>3, <4>3, OwnedIs
        <4> QED
          BY <3>1, <4>3, <4>5, StrayStays
      <3> QED
        BY <3>7, <3>8, <3>9, <3>10, <3>11, <3>12
    <2> QED
      BY <1>6, <2>1, <2>2 DEF Commit
  <1>7. ASSUME MountConfigured PROVE IInv'
    <2>1. PlacesOK'
      BY <1>7 DEF MountConfigured, TypeOK, PlacesOK, ConnectorPlaces
    <2>2. ResourcesOK' /\ TypeOK'
      BY <1>7, <2>1 DEF MountConfigured, TypeOK, ResourcesOK
    <2>3. SlotsInOrder'
      BY <1>7 DEF MountConfigured, SlotsInOrder, TypeOK, ResourcesOK, Slots
    <2>4. Holding'
      BY <1>7 DEF MountConfigured, Holding, TypeOK, PlacesOK
    <2>5. Unconnected'
      BY <1>7 DEF MountConfigured, Unconnected, Connecting, TypeOK, PlacesOK
    <2>6. Media'
      <3>1. \A m \in Mounters : pc'[m] = pc[m]
        BY <1>7 DEF MountConfigured, TypeOK, PlacesOK
      <3>2. slots'["vm"] \in {slots["vm"], None}
        BY <1>7 DEF MountConfigured, TypeOK, ResourcesOK, Slots
      <3>3. \A p \in Procs : R("vm", p) \in live' => R("vm", p) \in live
        BY <1>7 DEF MountConfigured
      <3>4. ASSUME NEW m \in Mounters
            PROVE  /\ pc[m] = "mounted" => R("vm", m) \in live' /\ R("vm", m) \in local'[m]
                   /\ R("vm", m) \in doomed' => R("vm", m) \in live' /\ pc[m] # "mounted"
        <4>1. R("vm", m) \notin {login, video, remote, leader, peer} \cup {R("cmd", p) : p \in Procs}
          BY Names
        <4>2. local'[m] = local[m]
          BY <1>7 DEF MountConfigured
        <4>3. /\ pc[m] = "mounted" => R("vm", m) \in (live \cap local[m]) \ doomed
              /\ R("vm", m) \in doomed => R("vm", m) \in live
          BY DEF Media
        <4>4. R("vm", m) \in doomed' => R("vm", m) \in live' /\ pc[m] # "mounted"
          BY <1>7, <4>1, <4>3 DEF MountConfigured
        <4>5. pc[m] = "mounted" => R("vm", m) \in live'
          BY <1>7, <4>1, <4>3 DEF MountConfigured
        <4> QED
          BY <4>2, <4>3, <4>4, <4>5
      <3> QED
        BY <1>7, <3>1, <3>2, <3>3, <3>4, MediaStays DEF MountConfigured
    <2>7. NothingElseStray'
      BY <1>7, StrayReleased DEF MountConfigured, TypeOK, ResourcesOK, SlotsInOrder
    <2> QED
      BY <2>2, <2>3, <2>4, <2>5, <2>6, <2>7
  <1>8. ASSUME ConnectFails PROVE IInv'
    <2>1. PlacesOK'
      BY <1>8 DEF ConnectFails, TypeOK, PlacesOK, ConnectorPlaces
    <2>2. ResourcesOK' /\ TypeOK'
      BY <1>8, <2>1 DEF ConnectFails, Abandon, TypeOK, ResourcesOK
    <2>3. SlotsInOrder'
      BY <1>8 DEF ConnectFails, SlotsInOrder
    <2>4. Holding'
      BY <1>8 DEF ConnectFails, Abandon, Holding, TypeOK, ResourcesOK, PlacesOK
    <2>5. Unconnected'
      BY <1>8 DEF ConnectFails, Unconnected, Connecting, TypeOK, PlacesOK
    <2>6. Media'
      <3>1. \A m \in Mounters : pc'[m] = pc[m]
        BY <1>8 DEF ConnectFails
      <3>2. slots'["vm"] \in {slots["vm"], None}
        BY <1>8 DEF ConnectFails
      <3>3. \A p \in Procs : R("vm", p) \in live' => R("vm", p) \in live
        BY <1>8 DEF ConnectFails
      <3>4. ASSUME NEW m \in Mounters
            PROVE  /\ pc[m] = "mounted" => R("vm", m) \in live' /\ R("vm", m) \in local'[m]
                   /\ R("vm", m) \in doomed' => R("vm", m) \in live' /\ pc[m] # "mounted"
        <4>1. R("vm", m) \notin {login, video, remote, leader, peer} \cup {R("cmd", p) : p \in Procs}
          BY Names
        <4>2. local'[m] = local[m]
          BY <1>8 DEF ConnectFails, Abandon
        <4>3. /\ pc[m] = "mounted" => R("vm", m) \in (live \cap local[m]) \ doomed
              /\ R("vm", m) \in doomed => R("vm", m) \in live
          BY DEF Media
        <4>4. R("vm", m) \in doomed' => R("vm", m) \in live' /\ pc[m] # "mounted"
          <5>1. local[connector] \subseteq {login, video, remote, R("cmd", connector), R("vm", connector)}
            BY DEF Holding
          <5>2. R("vm", m) # R("vm", connector)
            BY Names
          <5> QED
            BY <1>8, <4>1, <4>3, <5>1, <5>2 DEF ConnectFails, Abandon
        <4>5. pc[m] = "mounted" => R("vm", m) \in live'
          BY <1>8, <4>1, <4>3 DEF ConnectFails
        <4> QED
          BY <4>2, <4>3, <4>4, <4>5
      <3> QED
        BY <1>8, <3>1, <3>2, <3>3, <3>4, MediaStays DEF ConnectFails
    <2>7. NothingElseStray'
      BY <1>8, OwnedIs, StrayStays DEF ConnectFails, Abandon
    <2> QED
      BY <2>2, <2>3, <2>4, <2>5, <2>6, <2>7
  <1>9. ASSUME ConnectDone PROVE IInv'
    <2>1. PlacesOK'
      BY <1>9 DEF ConnectDone, TypeOK, PlacesOK, ConnectorPlaces
    <2>2. ResourcesOK' /\ TypeOK'
      BY <1>9, <2>1 DEF ConnectDone, TypeOK, ResourcesOK
    <2>3. SlotsInOrder'
      BY <1>9 DEF ConnectDone, SlotsInOrder
    <2>4. Holding'
      BY <1>9 DEF ConnectDone, Holding, TypeOK, PlacesOK
    <2>5. Unconnected'
      BY <1>9 DEF ConnectDone, Unconnected, Connecting, TypeOK, PlacesOK
    <2>6. Media'
      BY <1>9 DEF ConnectDone, Media, TypeOK, PlacesOK
    <2>7. NothingElseStray'
      BY <1>9, OwnedIs, StrayStays DEF ConnectDone
    <2> QED
      BY <2>2, <2>3, <2>4, <2>5, <2>6, <2>7
  <1>10. ASSUME NEW p \in Procs, IsoCheck(p) PROVE IInv'
    <2>1. PlacesOK'
      BY <1>10 DEF IsoCheck, TypeOK, PlacesOK, ConnectorPlaces, MounterPlaces, SharePlaces
    <2>2. ResourcesOK' /\ TypeOK'
      BY <1>10, <2>1 DEF IsoCheck, TypeOK, ResourcesOK
    <2>3. SlotsInOrder'
      BY <1>10 DEF IsoCheck, SlotsInOrder
    <2>4. Holding'
      BY <1>10 DEF IsoCheck, Holding, TypeOK, PlacesOK
    <2>5. Unconnected'
      BY <1>10 DEF IsoCheck, Unconnected, Connecting, TypeOK, PlacesOK
    <2>6. Media'
      BY <1>10 DEF IsoCheck, Media, Mounting, TypeOK, PlacesOK
    <2>7. NothingElseStray'
      BY <1>10, OwnedIs, StrayStays DEF IsoCheck
    <2> QED
      BY <2>2, <2>3, <2>4, <2>5, <2>6, <2>7
  <1>11. ASSUME NEW p \in Procs, IsoCommand(p) PROVE IInv'
    <2>1. /\ pc[p] = "iso command" /\ pc' \in [Procs -> ConnectorPlaces \cup MounterPlaces \cup SharePlaces]
          /\ \A q \in Procs : q # p => pc'[q] = pc[q]
          /\ \/ Make(p, R("cmd", p)) /\ pc'[p] = "iso store"
             \/ /\ UNCHANGED <<live, local>>
                /\ pc'[p] = IF p = connector THEN "fail" ELSE "mount failed"
          /\ UNCHANGED <<vendor, iso, follower, doomed, slots, peers, watching, reading, late, broken>>
          /\ UNCHANGED <<connected, vmConnecting, mediaDenied, closed>>
      BY <1>11 DEF IsoCommand, TypeOK, PlacesOK, ConnectorPlaces, MounterPlaces
    <2>2. R("cmd", p) \in Resources /\ \A q \in Procs : R("cmd", p) # R("vm", q)
      BY Names
    <2>3. /\ local' \in [Procs -> SUBSET Resources]
          /\ live \subseteq live' /\ live' \subseteq live \cup {R("cmd", p)}
          /\ local[p] \subseteq local'[p] /\ local'[p] \subseteq local[p] \cup {R("cmd", p)}
          /\ pc'[p] = "iso store" \/ local'[p] = local[p]
          /\ \A q \in Procs : q # p => local'[q] = local[q]
      BY <2>1, <2>2, MakeAdds DEF TypeOK, ResourcesOK
    <2>4. PlacesOK'
      BY <2>1 DEF TypeOK, PlacesOK, ConnectorPlaces, MounterPlaces, SharePlaces
    <2>5. TypeOK'
      BY <2>1, <2>2, <2>3, <2>4 DEF TypeOK, ResourcesOK
    <2>6. SlotsInOrder'
      BY <2>1 DEF SlotsInOrder
    <2>7. Holding'
      BY <2>1, <2>3 DEF Holding, TypeOK, PlacesOK, SharePlaces
    <2>8. Unconnected'
      <3>1. \A m \in Mounters : R("vm", m) \in live' => R("vm", m) \in live
        BY <2>2, <2>3
      <3>2. CASE p = connector
        BY <2>1, <3>1, <3>2 DEF Unconnected, Connecting, ConnectorPlaces
      <3>3. CASE p # connector
        <4>1. pc[connector] = "end"
          BY <2>1, <3>3 DEF Unconnected, TypeOK, PlacesOK, SharePlaces
        <4> QED
          BY <2>1, <3>3, <4>1 DEF Unconnected
      <3> QED
        BY <3>2, <3>3
    <2>9. Media'
      <3>1. \A q \in Procs : R("vm", q) \in live' <=> R("vm", q) \in live
        BY <2>2, <2>3
      <3> QED
        BY <2>1, <2>3, <3>1 DEF Media, Mounting
    <2>10. NothingElseStray'
      <3>1. CASE Make(p, R("cmd", p))
        BY <2>1, <2>2, <3>1, StrayMade DEF TypeOK
      <3>2. CASE UNCHANGED <<live, local>>
        BY <2>1, <3>2, OwnedIs, StrayStays
      <3> QED
        BY <2>1, <3>1, <3>2
    <2> QED
      BY <2>5, <2>6, <2>7, <2>8, <2>9, <2>10
  <1>12. ASSUME NEW p \in Procs, IsoStore(p) PROVE IInv'
    <2>1. /\ pc[p] = "iso store" /\ pc' \in [Procs -> ConnectorPlaces \cup MounterPlaces \cup SharePlaces]
          /\ pc'[p] = "iso dial" /\ \A q \in Procs : q # p => pc'[q] = pc[q]
          /\ UNCHANGED <<vendor, iso, follower, live, peers, watching, broken>>
          /\ UNCHANGED <<connected, vmConnecting, mediaDenied, closed>>
      BY <1>12 DEF IsoStore, TypeOK, PlacesOK, ConnectorPlaces
    <2>2. R("cmd", p) \in Resources /\ \A q \in Procs : R("cmd", p) # R("vm", q)
      BY Names
    <2>3. /\ local' \in [Procs -> SUBSET Resources] /\ local'[p] = local[p] \ {R("cmd", p)}
          /\ \A q \in Procs : q # p => local'[q] = local[q]
      BY <1>12 DEF IsoStore, TypeOK, ResourcesOK
    <2>4. /\ slots' \in [Slots -> Resources \cup {None}]
          /\ \A s \in Slots \ {"cmd"} : slots'[s] = slots[s]
          /\ \/ slots["cmd"] = None /\ slots'["cmd"] = R("cmd", p) /\ doomed' = doomed
             \/ slots["cmd"] # None /\ slots' = slots /\ doomed' = doomed \cup {R("cmd", p)}
      BY <1>12, <2>2 DEF IsoStore, TypeOK, ResourcesOK, Slots
    <2>5. late' \subseteq late \cup {R("cmd", p)} /\ reading' \subseteq reading \cup {R("cmd", p)}
      BY <1>12 DEF IsoStore
    <2>6. PlacesOK'
      BY <2>1 DEF TypeOK, PlacesOK, ConnectorPlaces, MounterPlaces, SharePlaces
    <2>7. TypeOK'
      BY <2>1, <2>2, <2>3, <2>4, <2>5, <2>6 DEF TypeOK, ResourcesOK
    <2>8. SlotsInOrder'
      BY <2>1, <2>4 DEF SlotsInOrder, Slots
    <2>9. Holding'
      BY <2>1, <2>3 DEF Holding
    <2>10. Unconnected'
      <3>1. CASE p = connector
        BY <2>1, <2>3, <2>4, <3>1 DEF Unconnected, Connecting, ConnectorPlaces
      <3>2. CASE p # connector
        <4>1. pc[connector] = "end"
          BY <2>1, <3>2 DEF Unconnected, TypeOK, PlacesOK, SharePlaces
        <4> QED
          BY <2>1, <3>2, <4>1 DEF Unconnected, Connecting
      <3> QED
        BY <3>1, <3>2
    <2>11. Media'
      <3>1. slots'["vm"] = slots["vm"]
        BY <2>4 DEF Slots
      <3>2. \A q \in Procs : /\ R("vm", q) \in doomed' <=> R("vm", q) \in doomed
                             /\ R("vm", q) \in local'[q] <=> R("vm", q) \in local[q]
        BY <2>2, <2>3, <2>4
      <3> QED
        BY <2>1, <3>1, <3>2 DEF Media, Mounting
    <2>12. NothingElseStray'
      <3>1. R("cmd", p) \in Owned'
        BY <2>2, <2>4, Names, OwnedIs DEF Slots
      <3>2. \A r : r # None /\ (\E s \in Slots : slots[s] = r) => \E s \in Slots : slots'[s] = r
        BY <2>4
      <3>3. \A r : r \in Owned => r \in Owned'
        BY <2>1, <2>3, <2>4, <3>1, <3>2, OwnedIs
      <3> QED
        BY <2>1, <3>3, StrayStays
    <2> QED
      BY <2>7, <2>8, <2>9, <2>10, <2>11, <2>12
  <1>13. ASSUME NEW p \in Procs, IsoDial(p) PROVE IInv'
    <2>1. /\ pc[p] = "iso dial" /\ pc' \in [Procs -> ConnectorPlaces \cup MounterPlaces \cup SharePlaces]
          /\ \A q \in Procs : q # p => pc'[q] = pc[q]
          /\ \/ /\ Make(p, R("vm", p)) /\ DriveFree
                /\ pc'[p] = IF p # connector THEN "mounted"
                            ELSE IF vendor = "legacy" THEN "command" ELSE "commit"
             \/ /\ UNCHANGED <<live, local>>
                /\ pc'[p] = IF p = connector THEN "fail" ELSE "mount failed"
          /\ UNCHANGED <<vendor, iso, follower, doomed, slots, peers, watching, reading, late, broken>>
          /\ UNCHANGED <<connected, vmConnecting, mediaDenied, closed>>
      BY <1>13 DEF IsoDial, TypeOK, PlacesOK, ConnectorPlaces, MounterPlaces
    <2>2. R("vm", p) \in Resources /\ \A q \in Procs : R("cmd", q) # R("vm", p)
      BY Names
    <2>3. /\ local' \in [Procs -> SUBSET Resources]
          /\ live \subseteq live' /\ live' \subseteq live \cup {R("vm", p)}
          /\ local[p] \subseteq local'[p] /\ local'[p] \subseteq local[p] \cup {R("vm", p)}
          /\ pc'[p] \in {"mounted", "command", "commit"} \/ (local'[p] = local[p] /\ live' = live)
          /\ \A q \in Procs : q # p => local'[q] = local[q]
      <3>1. CASE /\ Make(p, R("vm", p))
                 /\ pc'[p] = IF p # connector THEN "mounted"
                             ELSE IF vendor = "legacy" THEN "command" ELSE "commit"
        <4>1. /\ live' = live \cup {R("vm", p)} /\ local'[p] = local[p] \cup {R("vm", p)}
              /\ local' \in [Procs -> SUBSET Resources]
              /\ \A q \in Procs : q # p => local'[q] = local[q]
          BY <2>2, <3>1, MakeAdds DEF TypeOK
        <4>2. pc'[p] \in {"mounted", "command", "commit"}
          BY <3>1
        <4>3. /\ live \subseteq live' /\ live' \subseteq live \cup {R("vm", p)}
              /\ local[p] \subseteq local'[p] /\ local'[p] \subseteq local[p] \cup {R("vm", p)}
          BY <4>1
        <4> QED
          BY <4>1, <4>2, <4>3
      <3>2. CASE UNCHANGED <<live, local>>
        BY <3>2 DEF TypeOK, ResourcesOK
      <3> QED
        BY <2>1, <3>1, <3>2
    <2>4. PlacesOK'
      BY <2>1 DEF TypeOK, PlacesOK, MounterPlaces, SharePlaces
    <2>5. TypeOK'
      BY <2>1, <2>2, <2>3, <2>4 DEF TypeOK, ResourcesOK
    <2>6. SlotsInOrder'
      BY <2>1 DEF SlotsInOrder
    <2>7. Holding'
      <3>1. p \in Mounters => local[p] = {}
        BY <2>1 DEF Holding
      <3> QED
        BY <2>1, <2>3, <3>1 DEF Holding, TypeOK, PlacesOK, SharePlaces
    <2>8. Unconnected'
      <3>1. CASE p = connector
        <4>1. \A m \in Mounters : R("vm", m) \in live' => R("vm", m) \in live
          BY <2>3, <3>1, Names
        <4>2. R("cmd", connector) \in local'[connector] => R("cmd", connector) \in local[connector]
          BY <2>2, <2>3, <3>1
        <4> QED
          BY <2>1, <3>1, <4>1, <4>2 DEF Unconnected, Connecting, ConnectorPlaces
      <3>2. CASE p # connector
        <4>1. pc[connector] = "end"
          BY <2>1, <3>2 DEF Unconnected, TypeOK, PlacesOK, SharePlaces
        <4> QED
          BY <2>1, <3>2, <4>1 DEF Unconnected
      <3> QED
        BY <3>1, <3>2
    <2>9. Media'
      <3>1. CASE Make(p, R("vm", p)) /\ DriveFree
        <4>1. /\ R("vm", p) \notin live /\ R("vm", p) \in live' /\ R("vm", p) \in local'[p]
              /\ pc'[p] \in {"mounted", "command", "commit"}
          BY <2>1, <2>2, <3>1, MakeAdds DEF TypeOK
        <4>2. \A q \in Procs : q # p => (R("vm", q) \in live' <=> R("vm", q) \in live)
          BY <2>3, Names
        <4>3. vendor = "legacy" => \A q \in Procs : R("vm", q) \notin live
          BY <3>1 DEF DriveFree
        <4>4. vendor' = "legacy" => \A q, r \in Mounters \cup {connector} :
                R("vm", q) \in live' /\ R("vm", r) \in live' => q = r
          BY <2>1, <4>2, <4>3
        <4>5. ASSUME NEW m \in Mounters
              PROVE  /\ pc'[m] \in {"iso check", "iso command", "iso store", "iso dial", "mounted", "watch"}
                          => vendor' # "dell"
                     /\ pc'[m] = "mounted" => R("vm", m) \in (live' \cap local'[m]) \ doomed'
                     /\ R("vm", m) \in doomed' => R("vm", m) \in live'
                     /\ slots'["vm"] = R("vm", m) => pc'[m] = "watch"
                     /\ pc'[m] \in Mounting => slots'["vm"] # R("vm", connector)
                     /\ OneMount /\ pc'[m] \in Mounting => slots'["vm"] = None
          BY <2>1, <2>3, <4>1, <4>2, <4>5 DEF Media, Mounting
        <4> QED
          BY <4>4, <4>5 DEF Media
      <3>2. CASE UNCHANGED <<live, local>>
        <4>1. ~Make(p, R("vm", p))
          BY <3>2, <2>2, MakeAdds DEF TypeOK
        <4>2. pc'[p] = IF p = connector THEN "fail" ELSE "mount failed"
          BY <2>1, <4>1
        <4> QED
          BY <2>1, <3>2, <4>2 DEF Media, Mounting
      <3> QED
        BY <2>1, <3>1, <3>2
    <2>10. NothingElseStray'
      <3>1. CASE Make(p, R("vm", p))
        BY <2>1, <2>2, <3>1, StrayMade DEF TypeOK
      <3>2. CASE UNCHANGED <<live, local>>
        BY <2>1, <3>2, OwnedIs, StrayStays
      <3> QED
        BY <2>1, <3>1, <3>2
    <2> QED
      BY <2>5, <2>6, <2>7, <2>8, <2>9, <2>10
  <1>14. ASSUME NEW m \in Mounters, ChooseISO(m) PROVE IInv'
    <2>1. PlacesOK'
      BY <1>14 DEF ChooseISO, TypeOK, PlacesOK, MounterPlaces
    <2>2. ResourcesOK' /\ TypeOK'
      BY <1>14, <2>1 DEF ChooseISO, TypeOK, ResourcesOK
    <2>3. SlotsInOrder'
      BY <1>14 DEF ChooseISO, SlotsInOrder
    <2>4. Holding'
      BY <1>14 DEF ChooseISO, Holding, TypeOK, PlacesOK
    <2>5. Unconnected'
      BY <1>14 DEF ChooseISO, Unconnected, TypeOK, PlacesOK
    <2>6. Media'
      <3>1. /\ pc[m] = "idle" /\ \A n \in Mounters : n # m => pc'[n] = pc[n]
            /\ pc'[m] = "dialog" /\ slots["vm"] = None /\ None # R("vm", connector)
            /\ UNCHANGED <<vendor, live, doomed, local, slots>>
        BY <1>14, Names DEF ChooseISO, TypeOK, PlacesOK
      <3> QED
        BY <3>1 DEF Media
    <2>7. NothingElseStray'
      BY <1>14, OwnedIs, StrayStays DEF ChooseISO
    <2> QED
      BY <2>2, <2>3, <2>4, <2>5, <2>6, <2>7
  <1>15. ASSUME NEW m \in Mounters, MountISO(m) PROVE IInv'
    <2>1. PlacesOK'
      BY <1>15 DEF MountISO, TypeOK, PlacesOK, MounterPlaces
    <2>2. ResourcesOK' /\ TypeOK'
      BY <1>15, <2>1 DEF MountISO, TypeOK, ResourcesOK
    <2>3. SlotsInOrder'
      BY <1>15 DEF MountISO, SlotsInOrder
    <2>4. Holding'
      BY <1>15 DEF MountISO, Holding, TypeOK, PlacesOK
    <2>5. Unconnected'
      BY <1>15 DEF MountISO, Unconnected, TypeOK, PlacesOK
    <2>6. Media'
      <3>1. /\ pc[m] = "dialog" /\ \A n \in Mounters : n # m => pc'[n] = pc[n]
            /\ pc'[m] \in {"idle", "mount failed", "iso check", "remote"}
            /\ pc'[m] = "iso check" => vendor # "dell"
            /\ UNCHANGED <<vendor, live, doomed, local, slots>>
        BY <1>15 DEF MountISO, TypeOK, PlacesOK
      <3> QED
        BY <3>1 DEF Media, Mounting
    <2>7. NothingElseStray'
      BY <1>15, OwnedIs, StrayStays DEF MountISO
    <2> QED
      BY <2>2, <2>3, <2>4, <2>5, <2>6, <2>7
  <1>16. ASSUME NEW m \in Mounters, MountReturns(m) PROVE IInv'
    <2>1. PlacesOK'
      BY <1>16 DEF MountReturns, TypeOK, PlacesOK, MounterPlaces
    <2>2. ResourcesOK' /\ TypeOK'
      BY <1>16, <2>1 DEF MountReturns, TypeOK, ResourcesOK
    <2>3. SlotsInOrder'
      BY <1>16 DEF MountReturns, SlotsInOrder
    <2>4. Holding'
      BY <1>16 DEF MountReturns, Holding, TypeOK, PlacesOK
    <2>5. Unconnected'
      BY <1>16 DEF MountReturns, Unconnected, TypeOK, PlacesOK
    <2>6. Media'
      BY <1>16 DEF MountReturns, Media, Mounting, TypeOK, PlacesOK
    <2>7. NothingElseStray'
      BY <1>16, OwnedIs, StrayStays DEF MountReturns
    <2> QED
      BY <2>2, <2>3, <2>4, <2>5, <2>6, <2>7
  <1>17. ASSUME NEW m \in Mounters, MountDone(m) PROVE IInv'
    <2>1. /\ pc[m] = "mounted" /\ pc' \in [Procs -> ConnectorPlaces \cup MounterPlaces \cup SharePlaces]
          /\ pc'[m] = "watch" /\ \A q \in Procs : q # m => pc'[q] = pc[q]
          /\ vmConnecting' = FALSE
          /\ UNCHANGED <<vendor, iso, follower, live, connected, mediaDenied, closed,
                         watching, reading, late, peers, broken>>
      BY <1>17 DEF MountDone, TypeOK, PlacesOK, MounterPlaces
    <2>2. /\ R("vm", m) \in Resources /\ R("vm", m) # None
          /\ R("vm", m) \in live /\ R("vm", m) \notin doomed /\ local[m] = {R("vm", m)}
      <3>1. local[m] \subseteq {R("vm", m)}
        BY <2>1 DEF Holding
      <3>2. R("vm", m) \in (live \cap local[m]) \ doomed
        BY <2>1 DEF Media
      <3> QED
        BY <3>1, <3>2, Names
    <2>3. /\ local' \in [Procs -> SUBSET Resources] /\ local'[m] = {}
          /\ \A q \in Procs : q # m => local'[q] = local[q]
      BY <1>17 DEF MountDone, Abandon, TypeOK, ResourcesOK
    <2>4. /\ slots' \in [Slots -> Resources \cup {None}]
          /\ \A s \in Slots \ {"vm"} : slots'[s] = slots[s]
          /\ \/ slots' = slots /\ doomed' = doomed \cup {R("vm", m)}
             \/ slots'["vm"] = R("vm", m) /\ doomed' = doomed
      BY <1>17, <2>2 DEF MountDone, Abandon, TypeOK, ResourcesOK, Slots
    <2>5. PlacesOK'
      BY <2>1 DEF TypeOK, PlacesOK, MounterPlaces
    <2>6. TypeOK'
      BY <2>1, <2>2, <2>3, <2>4, <2>5 DEF TypeOK, ResourcesOK
    <2>7. SlotsInOrder'
      BY <2>1, <2>4 DEF SlotsInOrder, Slots
    <2>8. Holding'
      BY <2>1, <2>3 DEF Holding
    <2>9. Unconnected'
      <3>1. pc[connector] = "end"
        BY <2>1 DEF Unconnected
      <3> QED
        BY <2>1, <3>1 DEF Unconnected, Connecting
    <2>10. Media'
      <3>1. ASSUME NEW n \in Mounters
            PROVE  /\ pc'[n] \in {"iso check", "iso command", "iso store", "iso dial", "mounted", "watch"}
                        => vendor' # "dell"
                   /\ pc'[n] = "mounted" => R("vm", n) \in (live' \cap local'[n]) \ doomed'
                   /\ R("vm", n) \in doomed' => R("vm", n) \in live'
                   /\ slots'["vm"] = R("vm", n) => pc'[n] = "watch"
                   /\ pc'[n] \in Mounting => slots'["vm"] # R("vm", connector)
                   /\ OneMount /\ pc'[n] \in Mounting => slots'["vm"] = None
        <4>1. n # m => R("vm", n) # R("vm", m)
          BY Names
        <4>2. R("vm", m) # R("vm", connector)
          BY Names
        <4>3. OneMount => n = m
          BY DEF OneMount
        <4> QED
          BY <2>1, <2>2, <2>3, <2>4, <4>1, <4>2, <4>3 DEF Media, Mounting
      <3> QED
        BY <2>1, <3>1 DEF Media
    <2>11. NothingElseStray'
      <3>1. R("vm", m) \in Owned'
        BY <2>2, <2>4, OwnedIs DEF Slots
      <3>2. \A r : r \in Owned => r \in Owned' \/ r = slots["vm"]
        <4>1. \A r : r # None /\ (\E s \in Slots : slots[s] = r)
                     => r = slots["vm"] \/ \E s \in Slots : slots'[s] = r
          BY <2>4
        <4>2. \A p \in Procs : local[p] \subseteq local'[p] \cup {R("vm", m)}
          BY <2>2, <2>3
        <4> QED
          BY <2>1, <2>4, <3>1, <4>1, <4>2, OwnedIs
      <3>3. CASE vendor = "modern" /\ ~OneMount
        <4>1. Strays = {R("vm", n) : n \in Mounters} /\ Strays' = Strays
          BY <2>1, <3>3 DEF Strays
        <4>2. slots["vm"] \in Strays \cup {None}
          BY <2>1, <4>1 DEF SlotsInOrder, Media, Mounting
        <4>3. None \notin live
          BY Names DEF TypeOK, ResourcesOK
        <4> QED
          BY <2>1, <3>2, <4>1, <4>2, <4>3 DEF NothingElseStray
      <3>4. CASE ~(vendor = "modern" /\ ~OneMount)
        <4>1. Strays = {} /\ Strays' = {}
          BY <2>1, <3>4 DEF Strays
        <4>2. slots["vm"] \in live => slots["vm"] = R("vm", m)
          <5>1. CASE OneMount
            BY <2>1, <5>1, Names DEF Media, Mounting, TypeOK, ResourcesOK
          <5>2. CASE vendor = "legacy"
            BY <2>2, <5>2, Names DEF Media, SlotsInOrder, TypeOK, ResourcesOK
          <5> QED
            BY <2>1, <3>4, <5>1, <5>2 DEF Media, TypeOK
        <4> QED
          BY <2>1, <3>1, <3>2, <4>1, <4>2 DEF NothingElseStray
      <3> QED
        BY <3>3, <3>4
    <2> QED
      BY <2>6, <2>7, <2>8, <2>9, <2>10, <2>11
  <1>18. ASSUME NEW m \in Mounters, WatchMedia(m) PROVE IInv'
    <2>1. PlacesOK'
      BY <1>18 DEF WatchMedia, TypeOK, PlacesOK, MounterPlaces
    <2>2. ResourcesOK' /\ TypeOK'
      BY <1>18, <2>1 DEF WatchMedia, TypeOK, ResourcesOK
    <2>3. SlotsInOrder'
      BY <1>18 DEF WatchMedia, SlotsInOrder
    <2>4. Holding'
      BY <1>18 DEF WatchMedia, Holding, TypeOK, PlacesOK
    <2>5. Unconnected'
      BY <1>18 DEF WatchMedia, Unconnected, Connecting, TypeOK, PlacesOK
    <2>6. Media'
      <3>1. /\ pc[m] = "watch" /\ pc'[m] = "idle" /\ \A n \in Mounters : n # m => pc'[n] = pc[n]
            /\ slots'["vm"] = IF slots["vm"] = R("vm", m) THEN None ELSE slots["vm"]
            /\ UNCHANGED <<vendor, live, doomed, local>>
        BY <1>18 DEF WatchMedia, TypeOK, PlacesOK, ResourcesOK, Slots
      <3>2. None # R("vm", connector) /\ \A n \in Mounters : None # R("vm", n)
        BY Names
      <3> QED
        BY <3>1, <3>2 DEF Media, Mounting
    <2>7. NothingElseStray'
      BY <1>18, OwnedIs, StrayStays DEF WatchMedia
    <2> QED
      BY <2>2, <2>3, <2>4, <2>5, <2>6, <2>7
  <1>19. ASSUME DismountISO PROVE IInv'
    <2>1. PlacesOK'
      BY <1>19 DEF DismountISO, TypeOK, PlacesOK
    <2>2. ResourcesOK' /\ TypeOK'
      BY <1>19, <2>1 DEF DismountISO, TypeOK, ResourcesOK
    <2>3. SlotsInOrder'
      BY <1>19 DEF DismountISO, SlotsInOrder
    <2>4. Holding'
      BY <1>19 DEF DismountISO, Holding
    <2>5. Unconnected'
      BY <1>19 DEF DismountISO, Unconnected, TypeOK, Slots
    <2>6. Media'
      <3>1. \A m \in Mounters : pc'[m] = pc[m]
        BY <1>19 DEF DismountISO
      <3>2. slots'["vm"] \in {slots["vm"], None}
        BY <1>19 DEF DismountISO
      <3>3. \A p \in Procs : R("vm", p) \in live' => R("vm", p) \in live
        BY <1>19 DEF DismountISO
      <3>4. ASSUME NEW m \in Mounters
            PROVE  /\ pc[m] = "mounted" => R("vm", m) \in live' /\ R("vm", m) \in local'[m]
                   /\ R("vm", m) \in doomed' => R("vm", m) \in live' /\ pc[m] # "mounted"
        <4>1. R("vm", m) \notin {login, video, remote, leader, peer} \cup {R("cmd", p) : p \in Procs}
          BY Names
        <4>2. local'[m] = local[m]
          BY <1>19 DEF DismountISO
        <4>3. /\ pc[m] = "mounted" => R("vm", m) \in (live \cap local[m]) \ doomed
              /\ R("vm", m) \in doomed => R("vm", m) \in live
          BY DEF Media
        <4>4. R("vm", m) \in doomed' => R("vm", m) \in live' /\ pc[m] # "mounted"
          BY <1>19, <4>3 DEF DismountISO, Media
        <4>5. pc[m] = "mounted" => R("vm", m) \in live'
          BY <1>19, <4>1, <4>3 DEF DismountISO
        <4> QED
          BY <4>2, <4>3, <4>4, <4>5
      <3> QED
        BY <1>19, <3>1, <3>2, <3>3, <3>4, MediaStays DEF DismountISO
    <2>7. NothingElseStray'
      BY <1>19, StrayReleased DEF DismountISO
    <2> QED
      BY <2>2, <2>3, <2>4, <2>5, <2>6, <2>7
  <1>20. ASSUME ReadLoopFails PROVE IInv'
    <2>1. CASE HandleDisconnect
      <3>1. /\ UNCHANGED <<vendor, iso, follower, pc, live, local, peers, broken, reading, late, closed>>
            /\ watching' = "ended"
        BY <1>20 DEF ReadLoopFails
      <3> QED
        BY <2>1, <3>1, TakenAway DEF HandleDisconnect, TypeOK
    <2>2. CASE UNCHANGED <<doomed, slots, connected, vmConnecting, mediaDenied>>
      <3>1. /\ UNCHANGED <<vendor, iso, follower, pc, live, local, peers, broken, reading, late, closed>>
            /\ watching' = "ended"
        BY <1>20 DEF ReadLoopFails
      <3> QED
        BY <2>2, <3>1, FlagsOnly DEF TypeOK
    <2> QED
      BY <1>20, <2>1, <2>2 DEF ReadLoopFails
  <1>21. ASSUME ReadLoopStops PROVE IInv'
    <2>1. /\ UNCHANGED <<vendor, iso, follower, pc, live, doomed, local, slots, peers, late>>
          /\ watching' \in {watching, "ended"} /\ reading' \subseteq reading
          /\ broken' \subseteq broken \cup live /\ connected' \in {connected, FALSE}
          /\ vmConnecting' \in BOOLEAN /\ mediaDenied' \in BOOLEAN /\ closed' \in BOOLEAN
      BY <1>21 DEF ReadLoopStops, TypeOK
    <2> QED
      BY <2>1, FlagsOnly
  <1>22. ASSUME NEW r, CommandEnds(r) PROVE IInv'
    <2>1. /\ UNCHANGED <<vendor, iso, follower, pc, live, local, peers, broken, reading, late>>
          /\ doomed' = doomed \cup (Taken \cap live) /\ slots' = Emptied
          /\ watching' \in {watching, "ended"} /\ connected' = FALSE
          /\ vmConnecting' \in BOOLEAN /\ mediaDenied' \in BOOLEAN /\ closed' \in BOOLEAN
      BY <1>22 DEF CommandEnds, HandleDisconnect, TypeOK
    <2> QED
      BY <2>1, TakenAway
  <1>23. ASSUME NEW r, MediaWithdrawn(r) PROVE IInv'
    <2>1. /\ UNCHANGED <<vendor, iso, follower, pc, live, doomed, local, slots, peers, late>>
          /\ watching' \in {watching, "ended"} /\ reading' \subseteq reading
          /\ broken' \subseteq broken \cup live /\ connected' \in {connected, FALSE}
          /\ vmConnecting' \in BOOLEAN /\ mediaDenied' \in BOOLEAN /\ closed' \in BOOLEAN
      BY <1>23 DEF MediaWithdrawn, TypeOK
    <2> QED
      BY <2>1, FlagsOnly
  <1>24. ASSUME NEW r, CommandLoopEnds(r) PROVE IInv'
    <2>1. /\ UNCHANGED <<vendor, iso, follower, pc, live, doomed, local, slots, peers, late>>
          /\ watching' \in {watching, "ended"} /\ reading' \subseteq reading
          /\ broken' \subseteq broken \cup live /\ connected' \in {connected, FALSE}
          /\ vmConnecting' \in BOOLEAN /\ mediaDenied' \in BOOLEAN /\ closed' \in BOOLEAN
      BY <1>24 DEF CommandLoopEnds, TypeOK
    <2> QED
      BY <2>1, FlagsOnly
  <1>25. ASSUME NEW r, ShareRequest(r) PROVE IInv'
    <2>1. PlacesOK'
      BY <1>25 DEF ShareRequest, TypeOK, PlacesOK, SharePlaces
    <2>2. ResourcesOK' /\ TypeOK'
      BY <1>25, <2>1 DEF ShareRequest, TypeOK, ResourcesOK
    <2>3. SlotsInOrder'
      BY <1>25 DEF ShareRequest, SlotsInOrder
    <2>4. Holding'
      BY <1>25 DEF ShareRequest, Holding, TypeOK, PlacesOK
    <2>5. Unconnected'
      BY <1>25 DEF ShareRequest, Unconnected, TypeOK, PlacesOK
    <2>6. Media'
      BY <1>25 DEF ShareRequest, Media, TypeOK, PlacesOK
    <2>7. NothingElseStray'
      BY <1>25, OwnedIs, StrayStays DEF ShareRequest
    <2> QED
      BY <2>2, <2>3, <2>4, <2>5, <2>6, <2>7
  <1>26. ASSUME NEW r, Lose(r) PROVE IInv'
    <2>1. /\ UNCHANGED <<vendor, iso, follower, pc, live, doomed, local, slots, peers, late>>
          /\ watching' \in {watching, "ended"} /\ reading' \subseteq reading
          /\ broken' \subseteq broken \cup live /\ connected' \in {connected, FALSE}
          /\ vmConnecting' \in BOOLEAN /\ mediaDenied' \in BOOLEAN /\ closed' \in BOOLEAN
      BY <1>26 DEF Lose, TypeOK
    <2> QED
      BY <2>1, FlagsOnly
  <1>27. ASSUME ShareDecide PROVE IInv'
    <2>1. PlacesOK'
      BY <1>27 DEF ShareDecide, TypeOK, PlacesOK, SharePlaces
    <2>2. ResourcesOK' /\ TypeOK'
      BY <1>27, <2>1 DEF ShareDecide, TypeOK, ResourcesOK
    <2>3. SlotsInOrder'
      BY <1>27 DEF ShareDecide, SlotsInOrder
    <2>4. Holding'
      BY <1>27 DEF ShareDecide, Holding, TypeOK, PlacesOK
    <2>5. Unconnected'
      BY <1>27 DEF ShareDecide, Unconnected, TypeOK, PlacesOK
    <2>6. Media'
      BY <1>27 DEF ShareDecide, Media, TypeOK, PlacesOK, MounterPlaces
    <2>7. NothingElseStray'
      BY <1>27, OwnedIs, StrayStays DEF ShareDecide
    <2> QED
      BY <2>2, <2>3, <2>4, <2>5, <2>6, <2>7
  <1>28. ASSUME ConnectPeer PROVE IInv'
    <2>1. /\ pc[share] = "connect" /\ pc' \in [Procs -> ConnectorPlaces \cup MounterPlaces \cup SharePlaces]
          /\ \A q \in Procs : q # share => pc'[q] = pc[q]
          /\ \/ Make(share, peer) /\ pc'[share] = "add"
             \/ UNCHANGED <<live, local>> /\ pc'[share] = "idle"
          /\ UNCHANGED <<vendor, iso, follower, doomed, slots, peers, watching, reading, late, broken>>
          /\ UNCHANGED <<connected, vmConnecting, mediaDenied, closed>>
      BY <1>28 DEF ConnectPeer, TypeOK, PlacesOK, SharePlaces
    <2>2. peer \in Resources /\ \A p \in Procs : peer # R("vm", p)
      BY Names
    <2>3. /\ local' \in [Procs -> SUBSET Resources] /\ live \subseteq live' /\ live' \subseteq live \cup {peer}
          /\ local'[share] \subseteq local[share] \cup {peer}
          /\ pc'[share] = "add" \/ local'[share] = local[share]
          /\ \A q \in Procs : q # share => local'[q] = local[q]
      BY <2>1, <2>2, MakeAdds DEF TypeOK, ResourcesOK
    <2>4. PlacesOK'
      BY <2>1 DEF TypeOK, PlacesOK, SharePlaces
    <2>5. TypeOK'
      BY <2>1, <2>2, <2>3, <2>4 DEF TypeOK, ResourcesOK
    <2>6. SlotsInOrder'
      BY <2>1 DEF SlotsInOrder
    <2>7. Holding'
      BY <2>1, <2>3 DEF Holding
    <2>8. /\ \A p \in Procs : R("vm", p) \in live' <=> R("vm", p) \in live
          /\ pc'[connector] = pc[connector] /\ local'[connector] = local[connector]
          /\ \A m \in Mounters : pc'[m] = pc[m] /\ local'[m] = local[m]
      BY <2>1, <2>2, <2>3
    <2>9. Unconnected'
      BY <2>1, <2>8 DEF Unconnected
    <2>10. Media'
      BY <2>1, <2>8 DEF Media
    <2>11. NothingElseStray'
      <3>1. CASE Make(share, peer)
        BY <2>1, <2>2, <3>1, StrayMade DEF TypeOK
      <3>2. CASE UNCHANGED <<live, local>>
        BY <2>1, <3>2, OwnedIs, StrayStays
      <3> QED
        BY <2>1, <3>1, <3>2
    <2> QED
      BY <2>5, <2>6, <2>7, <2>9, <2>10, <2>11
  <1>29. ASSUME AddPeer PROVE IInv'
    <2>1. PlacesOK'
      BY <1>29 DEF AddPeer, TypeOK, PlacesOK, SharePlaces
    <2>2. ResourcesOK' /\ TypeOK'
      BY <1>29, <2>1, Names DEF AddPeer, TypeOK, ResourcesOK
    <2>3. SlotsInOrder'
      BY <1>29 DEF AddPeer, SlotsInOrder
    <2>4. Holding'
      BY <1>29 DEF AddPeer, Holding, TypeOK, ResourcesOK, PlacesOK
    <2>5. Unconnected'
      BY <1>29 DEF AddPeer, Unconnected, TypeOK, ResourcesOK, PlacesOK
    <2>6. Media'
      BY <1>29, Names DEF AddPeer, Media, TypeOK, ResourcesOK, PlacesOK
    <2>7. NothingElseStray'
      <3>1. /\ local' = [local EXCEPT ![share] = {}] /\ UNCHANGED <<vendor, live, slots>>
            /\ doomed \subseteq doomed' /\ peers \subseteq peers'
            /\ peer \in doomed' \/ (leader \in live /\ peer \in peers')
        BY <1>29 DEF AddPeer
      <3>2. \A p \in Procs : local[p] \subseteq local'[p] \cup {peer}
        BY <3>1 DEF Holding, TypeOK, ResourcesOK
      <3>3. peer \in Owned'
        BY <3>1, OwnedIs
      <3>4. \A r : r \in Owned => r \in Owned'
        BY <3>1, <3>2, <3>3, OwnedIs
      <3> QED
        BY <3>1, <3>4, StrayStays
    <2> QED
      BY <2>2, <2>3, <2>4, <2>5, <2>6, <2>7
  <1>30. ASSUME RemovePeer PROVE IInv'
    <2>1. PlacesOK'
      BY <1>30 DEF RemovePeer, TypeOK, PlacesOK
    <2>2. ResourcesOK' /\ TypeOK'
      BY <1>30, <2>1 DEF RemovePeer, TypeOK, ResourcesOK
    <2>3. SlotsInOrder'
      BY <1>30 DEF RemovePeer, SlotsInOrder
    <2>4. Holding'
      BY <1>30 DEF RemovePeer, Holding
    <2>5. Unconnected'
      BY <1>30 DEF RemovePeer, Unconnected
    <2>6. Media'
      <3>1. \A m \in Mounters : pc'[m] = pc[m]
        BY <1>30 DEF RemovePeer
      <3>2. slots'["vm"] \in {slots["vm"], None}
        BY <1>30 DEF RemovePeer
      <3>3. \A p \in Procs : R("vm", p) \in live' => R("vm", p) \in live
        BY <1>30 DEF RemovePeer
      <3>4. ASSUME NEW m \in Mounters
            PROVE  /\ pc[m] = "mounted" => R("vm", m) \in live' /\ R("vm", m) \in local'[m]
                   /\ R("vm", m) \in doomed' => R("vm", m) \in live' /\ pc[m] # "mounted"
        <4>1. R("vm", m) \notin {login, video, remote, leader, peer} \cup {R("cmd", p) : p \in Procs}
          BY Names
        <4>2. local'[m] = local[m]
          BY <1>30 DEF RemovePeer
        <4>3. /\ pc[m] = "mounted" => R("vm", m) \in (live \cap local[m]) \ doomed
              /\ R("vm", m) \in doomed => R("vm", m) \in live
          BY DEF Media
        <4>4. R("vm", m) \in doomed' => R("vm", m) \in live' /\ pc[m] # "mounted"
          BY <1>30, <4>1, <4>3 DEF RemovePeer, SlotsInOrder
        <4>5. pc[m] = "mounted" => R("vm", m) \in live'
          BY <1>30, <4>1, <4>3 DEF RemovePeer, SlotsInOrder
        <4> QED
          BY <4>2, <4>3, <4>4, <4>5
      <3> QED
        BY <1>30, <3>1, <3>2, <3>3, <3>4, MediaStays DEF RemovePeer
    <2>7. NothingElseStray'
      BY <1>30, OwnedIs, StrayStays DEF RemovePeer
    <2> QED
      BY <2>2, <2>3, <2>4, <2>5, <2>6, <2>7
  <1>31. ASSUME CloseDoomed PROVE IInv'
    <2>1. PlacesOK'
      BY <1>31 DEF CloseDoomed, TypeOK, PlacesOK
    <2>2. ResourcesOK' /\ TypeOK'
      BY <1>31, <2>1 DEF CloseDoomed, TypeOK, ResourcesOK
    <2>3. SlotsInOrder'
      BY <1>31 DEF CloseDoomed, SlotsInOrder
    <2>4. Holding'
      BY <1>31 DEF CloseDoomed, Holding
    <2>5. Unconnected'
      BY <1>31 DEF CloseDoomed, Unconnected
    <2>6. Media'
      <3>1. \A m \in Mounters : pc'[m] = pc[m]
        BY <1>31 DEF CloseDoomed
      <3>2. slots'["vm"] \in {slots["vm"], None}
        BY <1>31 DEF CloseDoomed
      <3>3. \A p \in Procs : R("vm", p) \in live' => R("vm", p) \in live
        BY <1>31 DEF CloseDoomed
      <3>4. ASSUME NEW m \in Mounters
            PROVE  /\ pc[m] = "mounted" => R("vm", m) \in live' /\ R("vm", m) \in local'[m]
                   /\ R("vm", m) \in doomed' => R("vm", m) \in live' /\ pc[m] # "mounted"
        <4>1. R("vm", m) \notin {login, video, remote, leader, peer} \cup {R("cmd", p) : p \in Procs}
          BY Names
        <4>2. local'[m] = local[m]
          BY <1>31 DEF CloseDoomed
        <4>3. /\ pc[m] = "mounted" => R("vm", m) \in (live \cap local[m]) \ doomed
              /\ R("vm", m) \in doomed => R("vm", m) \in live
          BY DEF Media
        <4>4. R("vm", m) \in doomed' => R("vm", m) \in live' /\ pc[m] # "mounted"
          BY <1>31, <4>1, <4>3 DEF CloseDoomed
        <4>5. pc[m] = "mounted" => R("vm", m) \in live'
          BY <1>31, <4>1, <4>3 DEF CloseDoomed, SlotsInOrder
        <4> QED
          BY <4>2, <4>3, <4>4, <4>5
      <3> QED
        BY <1>31, <3>1, <3>2, <3>3, <3>4, MediaStays DEF CloseDoomed
    <2>7. NothingElseStray'
      BY <1>31, OwnedIs, StrayStays DEF CloseDoomed
    <2> QED
      BY <2>2, <2>3, <2>4, <2>5, <2>6, <2>7
  <1>32. ASSUME Logout PROVE IInv'
    <2>1. PlacesOK'
      BY <1>32 DEF Logout, TypeOK, PlacesOK
    <2>2. ResourcesOK' /\ TypeOK'
      BY <1>32, <2>1 DEF Logout, TypeOK, ResourcesOK
    <2>3. SlotsInOrder'
      BY <1>32 DEF Logout, SlotsInOrder
    <2>4. Holding'
      BY <1>32 DEF Logout, Holding
    <2>5. Unconnected'
      BY <1>32 DEF Logout, Unconnected
    <2>6. Media'
      <3>1. \A m \in Mounters : pc'[m] = pc[m]
        BY <1>32 DEF Logout
      <3>2. slots'["vm"] \in {slots["vm"], None}
        BY <1>32 DEF Logout
      <3>3. \A p \in Procs : R("vm", p) \in live' => R("vm", p) \in live
        BY <1>32 DEF Logout
      <3>4. ASSUME NEW m \in Mounters
            PROVE  /\ pc[m] = "mounted" => R("vm", m) \in live' /\ R("vm", m) \in local'[m]
                   /\ R("vm", m) \in doomed' => R("vm", m) \in live' /\ pc[m] # "mounted"
        <4>1. R("vm", m) \notin {login, video, remote, leader, peer} \cup {R("cmd", p) : p \in Procs}
          BY Names
        <4>2. local'[m] = local[m]
          BY <1>32 DEF Logout
        <4>3. /\ pc[m] = "mounted" => R("vm", m) \in (live \cap local[m]) \ doomed
              /\ R("vm", m) \in doomed => R("vm", m) \in live
          BY DEF Media
        <4>4. R("vm", m) \in doomed' => R("vm", m) \in live' /\ pc[m] # "mounted"
          BY <1>32, <4>1, <4>3 DEF Logout
        <4>5. pc[m] = "mounted" => R("vm", m) \in live'
          BY <1>32, <4>1, <4>3 DEF Logout
        <4> QED
          BY <4>2, <4>3, <4>4, <4>5
      <3> QED
        BY <1>32, <3>1, <3>2, <3>3, <3>4, MediaStays DEF Logout
    <2>7. NothingElseStray'
      <3>1. /\ UNCHANGED <<vendor, local, slots, peers>> /\ live' \subseteq live
            /\ \A r \in live' : r \in doomed => r \in doomed' \/ r \in unheard'
            /\ leader \in live => leader \in live'
        <4>1. /\ UNCHANGED <<vendor, local, slots, peers>> /\ live' \subseteq live
              /\ \A r \in live' : r \in doomed => r \in doomed' \/ r = login
          BY <1>32 DEF Logout
        <4>2. login \in live' => login \in unheard'
          BY <1>32 DEF Logout
        <4>3. leader \in live => leader \in live'
          BY <1>32, Names DEF Logout
        <4> QED
          BY <4>1, <4>2, <4>3
      <3>2. \A r : r \in live' /\ r \in Owned => r \in Owned' \/ r \in unheard'
        BY <3>1, OwnedIs
      <3> QED
        BY <3>1, <3>2, StrayStays
    <2> QED
      BY <2>2, <2>3, <2>4, <2>5, <2>6, <2>7
  <1>33. ASSUME Shutdown PROVE IInv'
    <2>1. /\ UNCHANGED <<vendor, iso, follower, pc, live, local, peers, broken, reading, late>>
          /\ doomed' = doomed \cup (Taken \cap live) /\ slots' = Emptied
          /\ watching' \in {watching, "ended"} /\ connected' = FALSE
          /\ vmConnecting' \in BOOLEAN /\ mediaDenied' \in BOOLEAN /\ closed' \in BOOLEAN
      BY <1>33 DEF Shutdown, TypeOK
    <2> QED
      BY <2>1, TakenAway
  <1>34. ASSUME NEW p \in Procs, MediaEnds(p) PROVE IInv'
    <2>1. PlacesOK'
      BY <1>34 DEF MediaEnds, TypeOK, PlacesOK
    <2>2. ResourcesOK' /\ TypeOK'
      BY <1>34, <2>1 DEF MediaEnds, TypeOK, ResourcesOK
    <2>3. SlotsInOrder'
      BY <1>34 DEF MediaEnds, SlotsInOrder
    <2>4. Holding'
      BY <1>34 DEF MediaEnds, Holding
    <2>5. Unconnected'
      BY <1>34 DEF MediaEnds, Unconnected
    <2>6. Media'
      BY <1>34, Names DEF MediaEnds, Media
    <2>7. NothingElseStray'
      <3>1. /\ UNCHANGED <<vendor, local, slots, peers>> /\ live' \subseteq live
            /\ \A r \in live' : r \in doomed => r \in doomed'
            /\ leader \in live => leader \in live'
        BY <1>34, Names DEF MediaEnds
      <3>2. \A r : r \in live' /\ r \in Owned => r \in Owned'
        BY <3>1, OwnedIs
      <3> QED
        BY <3>1, <3>2, StrayStays
    <2> QED
      BY <2>2, <2>3, <2>4, <2>5, <2>6, <2>7
  <1>35. ASSUME NEW p \in Procs, DialHangs(p) PROVE IInv'
    <2>1. /\ UNCHANGED <<vendor, iso, follower, live, doomed, local, slots, peers, broken, watching>>
          /\ UNCHANGED <<reading, late, connected, vmConnecting, mediaDenied, closed>>
          /\ pc[p] \in {"dial", "dial busy", "command", "iso command", "iso dial"}
          /\ pc' = [pc EXCEPT ![p] = "stuck"]
      BY <1>35 DEF DialHangs
    <2>2. /\ pc' \in [Procs -> ConnectorPlaces \cup MounterPlaces \cup SharePlaces]
          /\ pc'[p] = "stuck" /\ \A q \in Procs : q # p => pc'[q] = pc[q]
          /\ p # share
      BY <2>1 DEF TypeOK, PlacesOK, ConnectorPlaces, SharePlaces
    <2>3. PlacesOK'
      BY <2>2 DEF TypeOK, PlacesOK, ConnectorPlaces, MounterPlaces
    <2>4. ResourcesOK' /\ TypeOK'
      BY <2>1, <2>3 DEF TypeOK, ResourcesOK
    <2>5. SlotsInOrder'
      BY <2>1 DEF SlotsInOrder
    <2>6. Holding'
      BY <2>1, <2>2 DEF Holding
    <2>7. Unconnected'
      BY <2>1, <2>2 DEF Unconnected, Connecting
    <2>8. Media'
      <3>1. \A m \in Mounters : \/ pc'[m] = pc[m]
                               \/ pc'[m] = "stuck"
        <4>1. \A m \in Mounters : pc[m] \in MounterPlaces
          BY DEF TypeOK, PlacesOK
        <4> QED
          BY <4>1, <2>1, <2>2 DEF MounterPlaces
      <3>2. ASSUME NEW m \in Mounters
            PROVE  pc'[m] \in Mounting \cup {"watch"} => pc'[m] = pc[m]
        BY <3>1 DEF Mounting
      <3>3. ASSUME NEW m \in Mounters
            PROVE  pc[m] = "watch" => pc'[m] = "watch"
        BY <2>1, <2>2
      <3> QED
        BY <2>1, <3>2, <3>3 DEF Media, Mounting
    <2>9. NothingElseStray'
      BY <2>1, OwnedIs, StrayStays
    <2> QED
      BY <2>4, <2>5, <2>6, <2>7, <2>8, <2>9
  <1> QED
    BY <1>1, <1>2, <1>3, <1>4, <1>5, <1>6, <1>7, <1>8, <1>9, <1>10, <1>11, <1>12, <1>13,
       <1>14, <1>15, <1>16, <1>17, <1>18, <1>19, <1>20, <1>21, <1>22, <1>23, <1>24,
       <1>25, <1>26, <1>27, <1>28, <1>29, <1>30, <1>31, <1>32, <1>33, <1>34, <1>35
       DEF Step, ConnectStep, MountStep, ReadStep, ShareStep

\* So does the end of the process.
LEMMA NextIInv == IInv /\ [Next]_vars => IInv'
  <1> SUFFICES ASSUME IInv, [Next]_vars PROVE IInv'
    OBVIOUS
  <1>1. CASE Running(Step)
    BY <1>1, StepIInv DEF Running
  <1>2. CASE UNCHANGED windowVars /\ exited' \in BOOLEAN
    <2> USE <1>2 DEF windowVars, IInv
    <2>1. TypeOK'
      BY DEF TypeOK, PlacesOK, ResourcesOK
    <2>2. SlotsInOrder' /\ Holding'
      BY DEF SlotsInOrder, Holding
    <2>3. Unconnected' /\ Media'
      BY DEF Unconnected, Media
    <2>4. NothingElseStray'
      BY DEF NothingElseStray, Owned, Taken, Strays
    <2> QED
      BY <2>1, <2>2, <2>3, <2>4
  <1> QED
    BY <1>1, <1>2 DEF Next, Exit, vars, IInv, TypeOK

\* The invariant holds in every reachable state of the window.
THEOREM WindowInvariant == SafetySpec => []IInv
  <1>1. Init => IInv
    BY InitIInv
  <1>2. IInv /\ [Next]_vars => IInv'
    BY NextIInv
  <1> QED
    BY <1>1, <1>2, PTL DEF SafetySpec

\* Whatever the number of mounts at once, a window loses track of nothing but, on
\* a modern iLO, of media (appWindow.handleDisconnect, shutdown, connect).
THEOREM WindowNothingElseStray == SafetySpec => []NothingElseStray
  <1>1. IInv => NothingElseStray
    BY DEF IInv
  <1> QED
    BY <1>1, WindowInvariant, PTL

\* With one mount at a time a window loses track of nothing at all.
THEOREM WindowEverythingOwned ==
    ASSUME OneMount
    PROVE  SafetySpec => []EverythingOwned
  <1>1. IInv => EverythingOwned
    BY OneMount DEF IInv, NothingElseStray, Strays, EverythingOwned
  <1> QED
    BY <1>1, WindowInvariant, PTL

----------------------------------------------------------------------------
(* Keyboard and pointer capture: what the goroutines know of the keys *)

\* Whatever the layout, a report holds no key that was not noted.
LEMMA Reported ==
    ASSUME NEW named \in SUBSET (Keys \cup Generic), NEW positions \in SUBSET Keys,
           NEW modifiers \in SUBSET (Keys \ Plain), NEW l \in Layouts
    PROVE  /\ SyncPressedModifiers(named, modifiers) \in SUBSET (Keys \cup Generic)
           /\ SyncPressedModifiers(named, modifiers) \cap Plain = named \cap Plain
           /\ HpKeyboardReport(positions) \in Reports
           /\ HpKeyboardReport(positions) \cap Plain \subseteq positions
           /\ KeyboardReportForRegistry(l, named) \in Reports
           /\ KeyboardReportForRegistry(l, named) \cap Plain \subseteq named
  <1>1. /\ Plain \cap Modifiers = {} /\ Plain \cap Generic = {}
        /\ Keys \subseteq Plain \cup Modifiers /\ Keys \ Plain \subseteq Modifiers
    BY KeyReportAssumption, WindowInputAssumption DEF KeyReportAssumption,
       WindowInputAssumption
  <1>2. /\ SyncPressedModifiers(named, modifiers) \in SUBSET (Keys \cup Generic)
        /\ SyncPressedModifiers(named, modifiers) \cap Plain = named \cap Plain
    BY <1>1 DEF SyncPressedModifiers
  <1>3. /\ HpKeyboardReport(positions) \in Reports
        /\ HpKeyboardReport(positions) \cap Plain \subseteq positions
    BY DEF HpKeyboardReport, Reports
  <1>4. \A state \in {"plain", "shift", "altgr"} : StrokeModifiers(state) \subseteq Modifiers
    BY DEF StrokeModifiers, Modifiers, Shifts, Controls, Alts
  <1>5. State(named) \in {"plain", "shift", "altgr"}
    BY DEF State
  <1>6. CarriedModifiers(named) \subseteq Modifiers
    BY DEF CarriedModifiers, Modifiers, Shifts, Controls, Alts
  <1>7. /\ DefaultKeyboardReport(named) \in Reports
        /\ DefaultKeyboardReport(named) \cap Plain \subseteq named
    <2>1. {"lshift", "rshift", "ralt"} \subseteq Modifiers
      BY DEF Modifiers, Shifts, Alts
    <2> QED
      BY <1>1, <1>6, <2>1 DEF DefaultKeyboardReport, Reports
  <1>8. \A state \in {"plain", "shift", "altgr"} :
          /\ MappedKeyboardReport(state, named) \in Reports
          /\ MappedKeyboardReport(state, named) \cap Plain \subseteq named
    BY <1>1, <1>4 DEF MappedKeyboardReport, Reports, NoKeys
  <1>9. RetargetedReport(named) \in Reports /\ RetargetedReport(named) \cap Plain \subseteq named
    BY <1>1, <1>4, <1>5, <1>6 DEF RetargetedReport, Reports
  <1>10. NoKeys \in Reports /\ NoKeys \cap Plain \subseteq named
    BY DEF NoKeys, Reports
  <1>11. /\ KeyboardReportForRegistry(l, named) \in Reports
         /\ KeyboardReportForRegistry(l, named) \cap Plain \subseteq named
    BY <1>5, <1>7, <1>8, <1>9, <1>10 DEF KeyboardReportForRegistry
  <1> QED
    BY <1>2, <1>3, <1>11

\* The reports of a chord: the last is empty and no key is in two of them running.
LEMMA Chord ==
    /\ SendCtrlAltDel(Vendor) \in Seq(Reports) /\ SendCtrlAltDel(Vendor) # <<>>
    /\ Len(SendCtrlAltDel(Vendor)) \in Nat \ {0}
    /\ Last(SendCtrlAltDel(Vendor)) = NoKeys
    /\ SendCtrlAltDel(Vendor)[1] = {"lctrl", "lalt", "delete"}
    /\ \A i \in 1 .. Len(SendCtrlAltDel(Vendor)) - 1 :
         SendCtrlAltDel(Vendor)[i] \cap SendCtrlAltDel(Vendor)[i + 1] \cap Plain = {}
  <1>1. /\ {"lctrl", "lalt", "delete"} \in Reports /\ {"lctrl", "lalt"} \in Reports
        /\ NoKeys \in Reports
        /\ {"lctrl", "lalt"} \cap Plain = {} /\ NoKeys = {}
    BY KeyReportAssumption, WindowInputAssumption DEF KeyReportAssumption,
       WindowInputAssumption, Reports, NoKeys, Modifiers, Controls, Alts
  <1> DEFINE c == SendCtrlAltDel(Vendor)
  <1>2. CASE Vendor = "ilo"
    <2>1. c = << {"lctrl", "lalt", "delete"}, {"lctrl", "lalt"}, NoKeys >>
      BY <1>2 DEF SendCtrlAltDel
    <2>2. /\ c \in Seq(Reports) /\ Len(c) = 3 /\ c # <<>>
          /\ c[1] = {"lctrl", "lalt", "delete"} /\ c[2] = {"lctrl", "lalt"} /\ c[3] = NoKeys
      BY <1>1, <2>1
    <2> HIDE DEF c
    <2>3. \A i \in 1 .. Len(c) - 1 : (i = 1 /\ i + 1 = 2) \/ (i = 2 /\ i + 1 = 3)
      <3>1. \A i \in 1 .. 3 - 1 : (i = 1 /\ i + 1 = 2) \/ (i = 2 /\ i + 1 = 3)
        OBVIOUS
      <3> QED
        BY <2>2, <3>1
    <2>4. Len(c) \in Nat \ {0} /\ Last(c) = NoKeys
      BY <2>2 DEF Last
    <2>5. \A i \in 1 .. Len(c) - 1 : c[i] \cap c[i + 1] \cap Plain = {}
      BY <1>1, <2>2, <2>3
    <2> QED
      BY <2>2, <2>4, <2>5 DEF c
  <1>3. CASE Vendor # "ilo"
    <2>1. c = << {"lctrl", "lalt", "delete"}, NoKeys >>
      BY <1>3 DEF SendCtrlAltDel
    <2>2. /\ c \in Seq(Reports) /\ Len(c) = 2 /\ c # <<>>
          /\ c[1] = {"lctrl", "lalt", "delete"} /\ c[2] = NoKeys
      BY <1>1, <2>1
    <2> HIDE DEF c
    <2>3. \A i \in 1 .. Len(c) - 1 : i = 1 /\ i + 1 = 2
      BY <2>2
    <2>4. Len(c) \in Nat \ {0} /\ Last(c) = NoKeys
      BY <2>2 DEF Last
    <2>5. \A i \in 1 .. Len(c) - 1 : c[i] \cap c[i + 1] \cap Plain = {}
      BY <1>1, <2>2, <2>3
    <2> QED
      BY <2>2, <2>4, <2>5 DEF c
  <1> QED
    BY <1>2, <1>3

\* The reports of a paste: every other one is empty.
LEMMA Pasted ==
    ASSUME NEW n \in 0 .. MaxText, NEW text \in [1 .. n -> Plain]
    PROVE  /\ SendClipboardText(text) \in Seq(Reports) /\ SendClipboardText(text) # <<>>
           /\ Last(SendClipboardText(text)) = NoKeys
           /\ SendClipboardText(text)[1] = NoKeys
           /\ \A i \in 1 .. Len(SendClipboardText(text)) - 1 :
                SendClipboardText(text)[i] \cap SendClipboardText(text)[i + 1] \cap Plain = {}
  <1> DEFINE s == SendClipboardText(text)
             m == 2 * n + 2
  <1>1. n \in Nat /\ Len(text) = n
    BY WindowInputAssumption DEF WindowInputAssumption
  <1>2. m \in Nat /\ m >= 2 /\ m > 2 * n /\ m # 0
    BY <1>1
  <1>3. s = [i \in 1 .. m |-> IF i % 2 = 0 /\ i <= 2 * n THEN {text[i \div 2]} ELSE NoKeys]
    BY <1>1 DEF SendClipboardText
  <1> HIDE DEF m
  <1>4. NoKeys \in Reports /\ NoKeys = {}
    BY DEF NoKeys, Reports
  <1>5. \A i \in 1 .. m : s[i] \in Reports
    <2> SUFFICES ASSUME NEW i \in 1 .. m PROVE s[i] \in Reports
      OBVIOUS
    <2>1. CASE i % 2 = 0 /\ i <= 2 * n
      <3>1. i \div 2 \in 1 .. n
        BY <1>1, <1>2, <2>1
      <3>2. text[i \div 2] \in Plain
        BY <3>1
      <3>3. s[i] = {text[i \div 2]}
        BY <1>3, <2>1
      <3> QED
        BY <3>2, <3>3 DEF Reports
    <2>2. CASE ~(i % 2 = 0 /\ i <= 2 * n)
      BY <1>3, <1>4, <2>2
    <2> QED
      BY <2>1, <2>2
  <1>6. s \in Seq(Reports) /\ Len(s) = m
    <2>1. s \in [1 .. m -> Reports]
      BY <1>3, <1>5
    <2> HIDE DEF s
    <2> QED
      BY <1>2, <2>1
  <1>7. s[1] = NoKeys /\ s[m] = NoKeys
    <2>1. 1 \in 1 .. m /\ m \in 1 .. m /\ 1 % 2 # 0 /\ ~(m <= 2 * n)
      BY <1>1, <1>2
    <2> QED
      BY <1>3, <2>1
  <1>8. \A i \in 1 .. m - 1 : s[i] \cap s[i + 1] \cap Plain = {}
    <2> SUFFICES ASSUME NEW i \in 1 .. m - 1 PROVE s[i] = {} \/ s[i + 1] = {}
      OBVIOUS
    <2>1. i \in 1 .. m /\ i + 1 \in 1 .. m /\ (i % 2 # 0 \/ (i + 1) % 2 # 0)
      BY <1>2
    <2> QED
      BY <1>3, <1>4, <2>1
  <1>9. s # <<>>
    BY <1>2, <1>6
  <1> HIDE DEF s
  <1>10. Last(s) = NoKeys
    BY <1>6, <1>7 DEF Last
  <1> QED
    BY <1>6, <1>7, <1>8, <1>9, <1>10 DEF s

\* The empty report can be sent, and a forgotten one is none that was.
LEMMA Empty ==
    /\ NoKeys \in Reports /\ NoKeys = {} /\ Forgotten \notin Reports /\ NoKeys # Forgotten
    /\ <<NoKeys>> \in Seq(Reports) /\ <<NoKeys>> # <<>> /\ Last(<<NoKeys>>) = NoKeys
    /\ <<>> \in Seq(Reports)
  <1>1. NoKeys \in Reports /\ NoKeys = {}
    BY DEF NoKeys, Reports
  <1>2. Forgotten \notin Reports /\ NoKeys # Forgotten
    <2>1. "forgotten" \notin Plain /\ "forgotten" \notin Modifiers
      BY WindowInputAssumption DEF WindowInputAssumption, Modifiers, Controls, Shifts,
         Alts
    <2> QED
      BY <2>1 DEF Forgotten, Reports, NoKeys
  <1>3. <<NoKeys>> \in Seq(Reports) /\ <<NoKeys>> # <<>> /\ Last(<<NoKeys>>) = NoKeys
    BY <1>1 DEF Last
  <1> QED
    BY <1>1, <1>2, <1>3

\* What the invariant consists of.
LEMMA InputKept ==
    ASSUME InputIInv
    PROVE  /\ InputTypeOK /\ Routes /\ Handled /\ Noted /\ Pending /\ Settled /\ Strokes
           /\ at \in [Threads -> Places] /\ then \in [Threads -> Places]
           /\ out \in [Threads -> Seq(Reports)] /\ wire \in Reports
           /\ stale \subseteq Reporters /\ raced \subseteq {"wire", "state"}
           /\ ready \in BOOLEAN /\ captured \in BOOLEAN /\ remoteTyping \in BOOLEAN
           /\ held \subseteq Keys /\ pressed \subseteq Keys \cup Generic /\ rawPressed \subseteq Keys
           /\ lastKeyReport \in Reports \cup {Forgotten}
           /\ Reporters \subseteq Threads
           /\ "window" \in Reporters /\ "ticker" \in Reporters /\ "frame" \in Reporters
           /\ "worker" \in Threads /\ "worker" \notin Reporters
  BY DEF InputIInv, InputTypeOK, Threads, Reporters

\* A goroutine writes its reports and goes on.
LEMMA Written ==
    ASSUME InputTypeOK, Routes, NEW t \in Threads, NEW reports \in Seq(Reports),
           NEW next \in Places, next # "write", WriteThen(t, reports, next)
    PROVE  /\ at' \in [Threads -> Places] /\ then' \in [Threads -> Places]
           /\ out' \in [Threads -> Seq(Reports)]
           /\ at'[t] = (IF reports = <<>> THEN next ELSE "write")
           /\ then'[t] = (IF reports = <<>> THEN "idle" ELSE next)
           /\ out'[t] = reports
           /\ \A u \in Threads \ {t} : at'[u] = at[u] /\ then'[u] = then[u] /\ out'[u] = out[u]
           /\ \A u \in Threads : then'[u] # "write" /\ (at'[u] = "write" => out'[u] # <<>>)
  <1>1. /\ at \in [Threads -> Places] /\ then \in [Threads -> Places]
        /\ out \in [Threads -> Seq(Reports)]
        /\ \A u \in Threads : then[u] # "write" /\ (at[u] = "write" => out[u] # <<>>)
    BY DEF InputTypeOK, Routes
  <1>2. /\ at' = [at EXCEPT ![t] = IF reports = <<>> THEN next ELSE "write"]
        /\ then' = [then EXCEPT ![t] = IF reports = <<>> THEN "idle" ELSE next]
        /\ out' = [out EXCEPT ![t] = reports]
    BY DEF WriteThen
  <1>3. "idle" \in Places /\ "write" \in Places
    BY DEF Places
  <1>4. /\ at'[t] = (IF reports = <<>> THEN next ELSE "write")
        /\ then'[t] = (IF reports = <<>> THEN "idle" ELSE next)
        /\ out'[t] = reports
        /\ \A u \in Threads \ {t} : at'[u] = at[u] /\ then'[u] = then[u] /\ out'[u] = out[u]
    BY <1>1, <1>2
  <1>5. /\ at' \in [Threads -> Places] /\ then' \in [Threads -> Places]
        /\ out' \in [Threads -> Seq(Reports)]
    BY <1>1, <1>2, <1>3
  <1> QED
    BY <1>1, <1>4, <1>5

\* A step that lets sound reports be, adds no claim of a writer and leaves the worker
\* alone keeps the invariant.
LEMMA Onward ==
    ASSUME InputIInv, InputTypeOK', Routes', Handled', Noted',
           \A r \in Reports : ready' /\ Sound(r) => Sound(r)',
           ready' => ready, UNCHANGED <<remoteTyping, wire>>,
           "wire" \in raced => "wire" \in raced',
           \A t \in Reporters : at[t] = "write" => at'[t] = "write",
           \A t \in Reporters \ stale' :
             at'[t] = "write" => t \notin stale /\ at[t] = "write" /\ out'[t] = out[t],
           at["frame"] = "claim" => at'["frame"] = "claim" \/ remoteTyping,
           at'["worker"] = at["worker"], out'["worker"] = out["worker"]
    PROVE  InputIInv'
  <1>1. Pending'
    <2> SUFFICES ASSUME ready', NEW t \in Reporters \ stale', at'[t] = "write"
                 PROVE  Sound(Last(out[t]))' /\ (remoteTyping' => out'[t] = <<NoKeys>>)
      BY DEF Pending
    <2>1. t \in Reporters \ stale /\ at[t] = "write" /\ out'[t] = out[t] /\ ready
      OBVIOUS
    <2>2. Sound(Last(out[t])) /\ (remoteTyping => out[t] = <<NoKeys>>)
      BY <2>1, InputKept DEF Pending
    <2>3. Last(out[t]) \in Reports
      <3>1. out[t] \in Seq(Reports) /\ out[t] # <<>>
        BY <2>1, InputKept DEF Routes
      <3> QED
        BY <3>1 DEF Last
    <2>4. PICK r \in Reports : r = Last(out[t])
      BY <2>3
    <2>5. Sound(r)'
      BY <2>2, <2>4
    <2>6. r = Last(out[t])'
      BY <2>1, <2>4 DEF Last
    <2> QED
      BY <2>1, <2>2, <2>5, <2>6 DEF Sound, Kept
  <1>2. Settled'
    <2> SUFFICES ASSUME ready', ~remoteTyping', at'["frame"] # "claim", "wire" \notin raced',
                        \A t \in Reporters : at'[t] # "write"
                 PROVE  Sound(wire)'
      BY DEF Settled
    <2>1. Sound(wire) /\ wire \in Reports
      BY InputKept DEF Settled
    <2>2. PICK r \in Reports : r = wire
      BY <2>1
    <2>3. Sound(r)' /\ r = wire'
      BY <2>1, <2>2
    <2> QED
      BY <2>3 DEF Sound, Kept
  <1>3. Strokes'
    BY InputKept DEF Strokes
  <1> QED
    BY <1>1, <1>2, <1>3 DEF InputIInv

\* A step that changes neither what is noted nor what is decided.
LEMMA Beside ==
    ASSUME InputIInv, InputTypeOK', Routes', Handled',
           held \cup Releasing \subseteq held' \cup Releasing',
           UNCHANGED <<remoteTyping, pressed, rawPressed, lastKeyReport, wire, raced>>,
           ready' => ready, captured => captured', focus' = "off" => focus = "off",
           \A t \in Reporters : at[t] = "write" => at'[t] = "write",
           \A t \in Reporters \ stale' :
             at'[t] = "write" => t \notin stale /\ at[t] = "write" /\ out'[t] = out[t],
           at["frame"] = "claim" => at'["frame"] = "claim" \/ remoteTyping,
           at'["worker"] = at["worker"], out'["worker"] = out["worker"]
    PROVE  InputIInv'
  <1>1. \A keys : Kept(keys) => Kept(keys)'
    BY DEF Kept
  <1>2. \A r \in Reports : Sound(r) => Sound(r)'
    BY <1>1, InputKept DEF Sound
  <1>3. Kept(pressed \cup rawPressed) => Kept(pressed \cup rawPressed)'
    BY DEF Kept
  <1>4. Noted'
    BY <1>3, InputKept DEF Noted
  <1> QED
    BY <1>2, <1>4, Onward

\* A goroutine resets the keyboard: the window ends a capture, or the frame changes
\* the layout or begins a paste.
LEMMA Reset ==
    ASSUME InputIInv, NEW t \in Reporters, NEW next \in Places, next # "write",
           NEW reports \in {<<>>, <<NoKeys>>}, at[t] \notin {"write", "claim"},
           ResetKeyboardState, WriteThen(t, reports, next), Overtake(t),
           raced' = raced \ {"state"}, UNCHANGED <<ready, remoteTyping, wire>>,
           captured' \in BOOLEAN, captured' => captured,
           reports = <<>> => ~ready \/ ~captured \/ (t = "frame" /\ next = "claim"),
           t = "window" => next \in {"idle", "key"},
           held' \subseteq Keys, inputs' \in 0 .. MaxInputs, pos' \in {"video", "border", "out"},
           focus' \in {"on", "lost", "off"}, uiBlocked' \in BOOLEAN, layout' \in Layouts,
           \/ t # "window" /\ UNCHANGED <<held, focus, message>>
           \/ t = "window" /\ next = "idle"
           \/ /\ t = "window" /\ next = "key" /\ focus' # "off" /\ message'.key \in Keys
              /\ message'.down \in BOOLEAN /\ (message'.down => message'.key \in held')
    PROVE  InputIInv'
  <1>1. /\ pressed' = {} /\ rawPressed' = {} /\ rawInput' = FALSE
        /\ lastKeyReport' = NoKeys /\ nextBackspace' = FALSE
    BY DEF ResetKeyboardState
  <1>2. t \in Threads /\ reports \in Seq(Reports) /\ t # "worker"
    BY InputKept, Empty
  <1>3. /\ at' \in [Threads -> Places] /\ then' \in [Threads -> Places]
        /\ out' \in [Threads -> Seq(Reports)]
        /\ at'[t] = (IF reports = <<>> THEN next ELSE "write")
        /\ then'[t] = (IF reports = <<>> THEN "idle" ELSE next)
        /\ out'[t] = reports
        /\ \A u \in Threads \ {t} : at'[u] = at[u] /\ then'[u] = then[u] /\ out'[u] = out[u]
        /\ \A u \in Threads : then'[u] # "write" /\ (at'[u] = "write" => out'[u] # <<>>)
    BY <1>2, InputKept, Written
  <1>4. stale' = (stale \cup {u \in Reporters : at[u] \in {"note", "write"}}) \ {t}
    BY DEF Overtake
  <1>5. InputTypeOK'
    BY <1>1, <1>3, <1>4, Empty, InputKept DEF InputTypeOK
  <1>6. Routes'
    BY <1>2, <1>3, InputKept DEF Routes
  <1>7. Handled'
    <2>1. CASE t # "window" /\ UNCHANGED <<held, focus, message>>
      <3>1. at'["window"] = at["window"] /\ then'["window"] = then["window"]
        BY <1>3, <2>1, InputKept
      <3>2. at["window"] = "note" => "window" \in stale'
        BY <1>4, <2>1, InputKept
      <3> QED
        BY <2>1, <3>1, <3>2, InputKept DEF Handled, Handling
    <2>2. CASE t = "window" /\ next = "idle"
      BY <1>3, <2>2 DEF Handled, Handling
    <2>3. CASE /\ t = "window" /\ next = "key" /\ focus' # "off" /\ message'.key \in Keys
               /\ message'.down \in BOOLEAN /\ (message'.down => message'.key \in held')
      BY <1>3, <2>3 DEF Handled, Handling
    <2> QED
      BY <2>1, <2>2, <2>3
  <1>8. Noted'
    BY <1>1 DEF Noted, Kept
  <1>9. Pending'
    <2> SUFFICES ASSUME NEW u \in Reporters \ stale', at'[u] = "write"
                 PROVE  Sound(Last(out[u]))' /\ (remoteTyping' => out'[u] = <<NoKeys>>)
      BY DEF Pending
    <2>1. u = t
      BY <1>3, <1>4, InputKept
    <2>2. out'[u] = <<NoKeys>>
      BY <1>3, <2>1
    <2> QED
      BY <2>2, Empty DEF Sound, Last
  <1>10. Settled'
    <2> SUFFICES ASSUME ready', ~remoteTyping', at'["frame"] # "claim", "wire" \notin raced',
                        \A u \in Reporters : at'[u] # "write"
                 PROVE  wire' = NoKeys
      BY DEF Settled, Sound
    <2>1. ~captured
      BY <1>3
    <2>2. \A u \in Reporters : at[u] # "write"
      BY <1>3, InputKept
    <2>3. at["frame"] # "claim"
      BY <1>3, InputKept
    <2> QED
      BY <2>1, <2>2, <2>3, InputKept DEF Settled, Sound
  <1>11. Strokes'
    <2>1. at'["worker"] = at["worker"] /\ out'["worker"] = out["worker"]
      BY <1>2, <1>3, InputKept
    <2> QED
      BY <2>1, InputKept DEF Strokes
  <1> QED
    BY <1>5, <1>6, <1>7, <1>8, <1>9, <1>10, <1>11 DEF InputIInv

\* A capture begins: the keys by position are forgotten, and all keys released.
LEMMA Begins ==
    ASSUME InputIInv, NEW t \in {"window", "ticker"}, NEW next \in {"idle", "key"},
           at[t] = "idle", ready, focus = "on", ~captured, captured' = TRUE,
           lastKeyReport' = NoKeys, rawPressed' = {}, WriteThen(t, <<NoKeys>>, next),
           Overtake(t), UNCHANGED <<pressed, rawInput, nextBackspace, raced>>,
           UNCHANGED <<ready, uiBlocked, remoteTyping, layout, wire, focus, pos>>,
           held' \subseteq Keys, inputs' \in 0 .. MaxInputs,
           \/ t = "ticker" /\ UNCHANGED <<held, message>>
           \/ /\ t = "window" /\ next = "key" /\ message'.key \in Keys
              /\ message'.down \in BOOLEAN /\ (message'.down => message'.key \in held')
    PROVE  InputIInv'
  <1>1. /\ t \in Threads /\ t \in Reporters /\ t # "worker" /\ t # "frame"
        /\ next \in Places /\ next # "write"
    BY InputKept DEF Places
  <1>2. /\ at' \in [Threads -> Places] /\ then' \in [Threads -> Places]
        /\ out' \in [Threads -> Seq(Reports)]
        /\ at'[t] = "write" /\ then'[t] = next /\ out'[t] = <<NoKeys>>
        /\ \A u \in Threads \ {t} : at'[u] = at[u] /\ then'[u] = then[u] /\ out'[u] = out[u]
        /\ \A u \in Threads : then'[u] # "write" /\ (at'[u] = "write" => out'[u] # <<>>)
    <2>1. PICK reports \in Seq(Reports) : reports = <<NoKeys>> /\ reports # <<>>
      BY Empty
    <2>2. WriteThen(t, reports, next)
      BY <2>1
    <2>3. /\ at' \in [Threads -> Places] /\ then' \in [Threads -> Places]
          /\ out' \in [Threads -> Seq(Reports)]
          /\ at'[t] = "write" /\ then'[t] = next /\ out'[t] = reports
          /\ \A u \in Threads \ {t} : at'[u] = at[u] /\ then'[u] = then[u] /\ out'[u] = out[u]
          /\ \A u \in Threads : then'[u] # "write" /\ (at'[u] = "write" => out'[u] # <<>>)
      <3>1. InputTypeOK /\ Routes
        BY InputKept
      <3> QED
        BY <1>1, <2>1, <2>2, <3>1, Written
    <2> QED
      BY <2>1, <2>3
  <1>3. stale' = (stale \cup {u \in Reporters : at[u] \in {"note", "write"}}) \ {t}
    BY DEF Overtake
  <1>4. InputTypeOK'
    BY <1>2, <1>3, Empty, InputKept DEF InputTypeOK
  <1>5. Routes'
    BY <1>1, <1>2, InputKept DEF Routes
  <1>6. Handled'
    <2>1. CASE t = "ticker" /\ UNCHANGED <<held, message>>
      <3>1. at'["window"] = at["window"] /\ then'["window"] = then["window"]
        BY <1>2, <2>1, InputKept
      <3> QED
        BY <2>1, <3>1, InputKept DEF Handled, Handling
    <2>2. CASE /\ t = "window" /\ next = "key" /\ message'.key \in Keys
               /\ message'.down \in BOOLEAN /\ (message'.down => message'.key \in held')
      BY <1>2, <2>2 DEF Handled, Handling
    <2> QED
      BY <2>1, <2>2
  <1>7. Noted'
    <2>1. "state" \notin raced => pressed = {}
      BY InputKept DEF Noted
    <2> QED
      BY <2>1 DEF Noted, Kept
  <1>8. Pending'
    <2> SUFFICES ASSUME NEW u \in Reporters \ stale', at'[u] = "write"
                 PROVE  Sound(Last(out[u]))' /\ (remoteTyping' => out'[u] = <<NoKeys>>)
      BY DEF Pending
    <2>1. u = t
      BY <1>2, <1>3, InputKept
    <2>2. out'[u] = <<NoKeys>>
      BY <1>2, <2>1
    <2> QED
      BY <2>2, Empty DEF Sound, Last
  <1>9. Settled'
    BY <1>1, <1>2 DEF Settled
  <1>10. Strokes'
    <2>1. at'["worker"] = at["worker"] /\ out'["worker"] = out["worker"]
      BY <1>1, <1>2, InputKept
    <2> QED
      BY <2>1, InputKept DEF Strokes
  <1> QED
    BY <1>4, <1>5, <1>6, <1>7, <1>8, <1>9, <1>10 DEF InputIInv

\* What sendKeyboard decides on, of the keys it is given.
Decision(t, named, positions, report) ==
    /\ ready /\ captured /\ ~remoteTyping
    /\ report \cap Plain \subseteq named \cup positions
    /\ lastKeyReport' = report
    /\ pressed' \subseteq Keys \cup Generic /\ pressed' \cap Plain = named \cap Plain
    /\ nextBackspace' \in BOOLEAN
    /\ \E rs \in {<<>>, <<report>>, SendCtrlAltDel(Vendor)} :
         /\ rs = <<>> <=> report = lastKeyReport
         /\ "delete" \notin Keys => \A i \in DOMAIN rs : "delete" \notin rs[i]
         /\ WriteThen(t, rs, "idle")
    /\ stale' = IF report = lastKeyReport THEN stale \ {t}
                ELSE stale \cup {u \in Reporters \ {t} : at[u] = "write"}

LEMMA Decided ==
    ASSUME InputIInv, NEW t \in {"window", "ticker"}, NEW named \in SUBSET (Keys \cup Generic),
           NEW positions \in SUBSET Keys, NEW isRaw, SendKeyboard(t, named, positions, isRaw)
    PROVE  \E report \in Reports : Decision(t, named, positions, report)
  <1> DEFINE raw == ByPosition(layout, isRaw)
             synced(m) == IF raw THEN named ELSE SyncPressedModifiers(named, m)
             report(m) == IF raw THEN HpKeyboardReport(positions)
                                 ELSE KeyboardReportForRegistry(layout, synced(m))
             same(m) == report(m) = lastKeyReport
             reports(m) == CASE same(m) -> <<>>
                             [] ~ same(m) /\ IsCtrlAltDel(synced(m)) -> SendCtrlAltDel(Vendor)
                             [] OTHER -> <<report(m)>>
  <1>1. PICK m \in KeyState(t) :
          /\ MaySend /\ pressed' = synced(m) /\ lastKeyReport' = report(m)
          /\ nextBackspace' = (nextBackspace /\ (same(m) \/ "back" \in synced(m)))
          /\ WriteThen(t, reports(m), "idle")
          /\ stale' = IF same(m) THEN stale \ {t}
                      ELSE stale \cup {u \in Reporters \ {t} : at[u] = "write"}
    BY DEF SendKeyboard
  <1>2. m \in SUBSET (Keys \ Plain) /\ layout \in Layouts
    BY InputKept DEF KeyState, InputTypeOK
  <1>3. /\ synced(m) \in SUBSET (Keys \cup Generic)
        /\ synced(m) \cap Plain = named \cap Plain
    BY <1>2, Reported
  <1>4. report(m) \in Reports /\ report(m) \cap Plain \subseteq named \cup positions
    <2>1. CASE raw
      BY <1>2, <2>1, Reported
    <2>2. CASE ~raw
      <3>1. synced(m) \in SUBSET (Keys \cup Generic) /\ synced(m) \cap Plain = named \cap Plain
        BY <1>2, <1>3, <2>2, Reported
      <3>2. PICK s \in SUBSET (Keys \cup Generic) : s = synced(m)
        BY <3>1
      <3>3. KeyboardReportForRegistry(layout, s) \in Reports
            /\ KeyboardReportForRegistry(layout, s) \cap Plain \subseteq s
        BY <1>2, Reported
      <3>4. report(m) = KeyboardReportForRegistry(layout, s)
        BY <2>2, <3>2
      <3> QED
        BY <3>1, <3>2, <3>3, <3>4
    <2> QED
      BY <2>1, <2>2
  <1>5. ready /\ captured /\ ~remoteTyping
    BY <1>1 DEF MaySend
  <1>6. "delete" \notin Keys => ~IsCtrlAltDel(synced(m))
    BY <1>3 DEF IsCtrlAltDel, Generic
  <1>7. nextBackspace' \in BOOLEAN
    BY <1>1, InputKept DEF InputTypeOK
  <1> HIDE DEF raw, synced, report
  <1>8. /\ reports(m) \in {<<>>, <<report(m)>>, SendCtrlAltDel(Vendor)}
        /\ reports(m) = <<>> <=> report(m) = lastKeyReport
        /\ "delete" \notin Keys => reports(m) \in {<<>>, <<report(m)>>}
    <2>1. <<report(m)>> # <<>> /\ SendCtrlAltDel(Vendor) # <<>>
      BY Chord
    <2>2. CASE same(m)
      BY <2>2
    <2>3. CASE ~same(m) /\ IsCtrlAltDel(synced(m))
      BY <1>6, <2>1, <2>3
    <2>4. CASE ~same(m) /\ ~IsCtrlAltDel(synced(m))
      BY <2>1, <2>4
    <2> QED
      BY <2>2, <2>3, <2>4
  <1> HIDE DEF reports
  <1>9. "delete" \notin Keys => \A i \in DOMAIN reports(m) : "delete" \notin reports(m)[i]
    <2> SUFFICES ASSUME "delete" \notin Keys, NEW i \in DOMAIN reports(m)
                 PROVE  "delete" \notin reports(m)[i]
      OBVIOUS
    <2>1. reports(m) = <<report(m)>> /\ reports(m)[i] = report(m)
      BY <1>8
    <2>2. "delete" \in Plain /\ "delete" \notin Generic
      BY WindowInputAssumption DEF WindowInputAssumption, Generic
    <2> QED
      BY <1>4, <2>1, <2>2
  <1>10. PICK r \in Reports : r = report(m)
    BY <1>4
  <1> WITNESS r \in Reports
  <1>11. \E rs \in {<<>>, <<r>>, SendCtrlAltDel(Vendor)} :
           /\ rs = <<>> <=> r = lastKeyReport
           /\ "delete" \notin Keys => \A i \in DOMAIN rs : "delete" \notin rs[i]
           /\ WriteThen(t, rs, "idle")
    <2>1. reports(m) \in {<<>>, <<r>>, SendCtrlAltDel(Vendor)}
      BY <1>8, <1>10
    <2> WITNESS reports(m) \in {<<>>, <<r>>, SendCtrlAltDel(Vendor)}
    <2> QED
      BY <1>1, <1>8, <1>9, <1>10
  <1> QED
    BY <1>1, <1>3, <1>4, <1>5, <1>7, <1>10, <1>11 DEF Decision

LEMMA InputStart == InputInit => InputIInv
  <1> SUFFICES ASSUME InputInit PROVE InputIInv
    OBVIOUS
  <1> USE DEF InputInit
  <1>1. InputTypeOK
    <2>1. 0 \in 0 .. MaxInputs
      BY WindowInputAssumption DEF WindowInputAssumption
    <2>2. "idle" \in Places
      BY DEF Places
    <2> QED
      BY <2>1, <2>2, Empty DEF InputTypeOK, Threads
  <1>2. \A t \in Threads : at[t] = "idle" /\ then[t] = "idle"
    OBVIOUS
  <1>3. Reporters \subseteq Threads /\ "worker" \in Threads /\ "window" \in Threads
    BY DEF Threads, Reporters
  <1>4. Routes /\ Handled /\ Pending /\ Strokes
    BY <1>2, <1>3 DEF Routes, Handled, Handling, Pending, Strokes
  <1>5. Noted /\ Settled
    BY Empty DEF Noted, Kept, Settled, Sound
  <1> QED
    BY <1>1, <1>4, <1>5 DEF InputIInv

\* sendKeyboard, from keys that the user holds.
LEMMA Sent ==
    ASSUME InputIInv, NEW t \in {"window", "ticker"}, NEW named \in SUBSET (Keys \cup Generic),
           NEW positions \in SUBSET Keys, NEW isRaw, SendKeyboard(t, named, positions, isRaw),
           at[t] # "write", focus # "off", rawPressed' = positions, rawInput' \in BOOLEAN,
           raced' \in {raced, raced \cup {"state"}},
           "state" \notin raced' =>
             \/ (named \cup positions) \cap Plain \subseteq held
             \/ t = "ticker" /\ (named \cup positions) \cap Plain \subseteq held \cup Releasing,
           UNCHANGED <<User, Mu, wire>>, t = "ticker" => UNCHANGED message
    PROVE  InputIInv'
  <1>1. PICK report \in Reports : Decision(t, named, positions, report)
    BY Decided
  <1>2. PICK rs \in {<<>>, <<report>>, SendCtrlAltDel(Vendor)} :
          /\ rs = <<>> <=> report = lastKeyReport
          /\ WriteThen(t, rs, "idle")
    BY <1>1 DEF Decision
  <1>3. /\ ready /\ captured /\ ~remoteTyping
         /\ report \cap Plain \subseteq named \cup positions
         /\ lastKeyReport' = report
         /\ pressed' \subseteq Keys \cup Generic /\ pressed' \cap Plain = named \cap Plain
         /\ nextBackspace' \in BOOLEAN
         /\ stale' = IF report = lastKeyReport THEN stale \ {t}
                     ELSE stale \cup {u \in Reporters \ {t} : at[u] = "write"}
    BY <1>1 DEF Decision
  <1>4. /\ rs \in Seq(Reports)
        /\ rs # <<>> => Last(rs) = report \/ Last(rs) = NoKeys
    <2>1. <<report>> \in Seq(Reports) /\ Last(<<report>>) = report
      BY DEF Last
    <2> QED
      BY <2>1, Chord, Empty
  <1>5. t \in Threads /\ t \in Reporters /\ t # "worker" /\ t # "frame"
    BY InputKept
  <1>6. /\ at' \in [Threads -> Places] /\ then' \in [Threads -> Places]
        /\ out' \in [Threads -> Seq(Reports)]
        /\ at'[t] = (IF rs = <<>> THEN "idle" ELSE "write")
        /\ then'[t] = "idle" /\ out'[t] = rs
        /\ \A u \in Threads \ {t} : at'[u] = at[u] /\ then'[u] = then[u] /\ out'[u] = out[u]
        /\ \A u \in Threads : then'[u] # "write" /\ (at'[u] = "write" => out'[u] # <<>>)
    <2>1. InputTypeOK /\ Routes /\ "idle" \in Places
      BY InputKept DEF Places
    <2> QED
      BY <1>2, <1>4, <1>5, <2>1, Written
  <1>7. UNCHANGED <<held, pos, focus, inputs, ready, captured, uiBlocked, remoteTyping, layout, wire>>
    BY DEF User, Mu
  <1>8. InputTypeOK'
    <2>1. stale' \subseteq Reporters /\ raced' \subseteq {"wire", "state"}
      BY <1>3, InputKept
    <2> QED
      BY <1>3, <1>6, <1>7, <2>1, InputKept DEF InputTypeOK
  <1>9. Routes'
    BY <1>5, <1>6, InputKept DEF Routes
  <1>10. Handled'
    <2>1. CASE t = "window"
      BY <1>6, <2>1 DEF Handled, Handling
    <2>2. CASE t = "ticker"
      <3>1. at'["window"] = at["window"] /\ then'["window"] = then["window"]
        BY <1>6, <2>2, InputKept
      <3> QED
        BY <1>3, <1>7, <2>2, <3>1, InputKept DEF Handled, Handling
    <2> QED
      BY <2>1, <2>2
  <1>11. "state" \notin raced' =>
           Kept(pressed \cup rawPressed)' /\ report \cap Plain \subseteq held' \cup Releasing'
    <2>1. t = "ticker" => Releasing' = Releasing
      BY <1>6, InputKept DEF Releasing, Handling
    <2> QED
      BY <1>3, <1>7, <2>1 DEF Kept
  <1>12. Noted'
    BY <1>3, <1>7, <1>11 DEF Noted
  <1>13. Sound(report)'
    BY <1>3, <1>7, <1>11 DEF Sound, Kept
  <1>14. report = lastKeyReport => \A r \in Reports : Sound(r) => Sound(r)'
    <2> SUFFICES ASSUME report = lastKeyReport, NEW r \in Reports, Sound(r) PROVE Sound(r)'
      OBVIOUS
    <2>1. r = NoKeys \/ r = report
      BY DEF Sound
    <2> QED
      BY <1>13, <2>1 DEF Sound, Kept
  <1>15. CASE report = lastKeyReport
    <2>1. /\ at'[t] = "idle" /\ stale' = stale \ {t}
          /\ at'["worker"] = at["worker"] /\ out'["worker"] = out["worker"]
          /\ at'["frame"] = at["frame"]
          /\ \A u \in Reporters : at[u] = "write" => at'[u] = "write"
          /\ \A u \in Reporters \ stale' :
               at'[u] = "write" => u \notin stale /\ at[u] = "write" /\ out'[u] = out[u]
      BY <1>3, <1>2, <1>5, <1>6, <1>15, InputKept
    <2>2. "wire" \in raced => "wire" \in raced'
      OBVIOUS
    <2> QED
      BY <1>7, <1>8, <1>9, <1>10, <1>12, <1>14, <1>15, <2>1, <2>2, Onward
  <1>16. CASE report # lastKeyReport
    <2>1. at'[t] = "write" /\ stale' = stale \cup {u \in Reporters \ {t} : at[u] = "write"}
      BY <1>3, <1>2, <1>6, <1>16
    <2>2. Pending'
      <3> SUFFICES ASSUME NEW u \in Reporters \ stale', at'[u] = "write"
                   PROVE  Sound(Last(out[u]))' /\ ~remoteTyping'
        BY DEF Pending
      <3>1. u = t
        BY <1>6, <2>1, InputKept
      <3>2. PICK r \in Reports : r = Last(rs) /\ (r = report \/ r = NoKeys)
        BY <1>2, <1>4, <1>16, Empty
      <3>3. Sound(r)'
        BY <1>13, <3>2 DEF Sound, Kept
      <3>4. r = Last(out[u])'
        BY <1>6, <3>1, <3>2 DEF Last
      <3> QED
        BY <1>3, <1>7, <3>3, <3>4 DEF Sound, Kept
    <2>3. Settled'
      BY <1>5, <2>1 DEF Settled
    <2>4. Strokes'
      <3>1. at'["worker"] = at["worker"] /\ out'["worker"] = out["worker"]
        BY <1>5, <1>6, InputKept
      <3> QED
        BY <1>7, <3>1, InputKept DEF Strokes
    <2> QED
      BY <1>8, <1>9, <1>10, <1>12, <2>2, <2>3, <2>4 DEF InputIInv
  <1> QED
    BY <1>15, <1>16

\* The worker claims the keyboard for a paste or a chord.
LEMMA Claimed ==
    ASSUME InputIInv, NEW reports \in Seq(Reports), reports # <<>>, Last(reports) = NoKeys,
           \A i \in 1 .. Len(reports) - 1 : reports[i] \cap reports[i + 1] \cap Plain = {},
           ~remoteTyping, remoteTyping', at["frame"] \in {"idle", "claim"},
           at' \in [Threads -> Places], at'["worker"] = "write", at'["frame"] = "idle",
           at'["window"] = at["window"], at'["ticker"] = at["ticker"],
           out' = [out EXCEPT !["worker"] = reports], Overtake("frame"),
           lastKeyReport' \in {lastKeyReport, Forgotten}, inputs' \in 0 .. MaxInputs,
           UNCHANGED <<held, pos, focus, ready, captured, uiBlocked, layout, wire, raced>>,
           remoteTyping' \in BOOLEAN,
           UNCHANGED <<pressed, rawPressed, rawInput, nextBackspace, then, message>>
    PROVE  InputIInv'
  <1>1. stale' = (stale \cup {u \in Reporters : at[u] \in {"note", "write"}}) \ {"frame"}
    BY DEF Overtake
  <1>2. /\ out' \in [Threads -> Seq(Reports)] /\ out'["worker"] = reports
        /\ \A u \in Reporters : out'[u] = out[u]
        /\ \A u \in Reporters : u # "frame" => at'[u] = at[u]
    BY InputKept DEF Reporters
  <1>3. InputTypeOK'
    BY <1>1, <1>2, InputKept DEF InputTypeOK
  <1>4. Routes'
    BY <1>2, InputKept DEF Routes, Threads
  <1>5. Handled'
    <2>1. "window" \in stale => "window" \in stale'
      BY <1>1
    <2> QED
      BY <2>1, InputKept DEF Handled, Handling
  <1>6. Noted'
    BY InputKept DEF Noted, Kept, Releasing, Handling
  <1>7. Pending'
    <2>1. \A u \in Reporters \ stale' : at'[u] # "write"
      BY <1>1, <1>2
    <2> QED
      BY <2>1 DEF Pending
  <1>8. Settled'
    BY DEF Settled
  <1>9. Strokes'
    BY <1>2 DEF Strokes, Last
  <1> QED
    BY <1>3, <1>4, <1>5, <1>6, <1>7, <1>8, <1>9 DEF InputIInv

\* What is left of the reports after the first.
LEMMA Rest ==
    ASSUME NEW s \in Seq(Reports), s # <<>>
    PROVE  /\ Len(s) \in Nat \ {0} /\ Head(s) = s[1] /\ Head(s) \in Reports
           /\ Tail(s) \in Seq(Reports) /\ Len(Tail(s)) = Len(s) - 1
           /\ \A i \in 1 .. Len(s) - 1 : Tail(s)[i] = s[i + 1]
           /\ Tail(s) = <<>> => Last(s) = Head(s)
           /\ Tail(s) # <<>> => Last(Tail(s)) = Last(s) /\ s # <<NoKeys>>
  <1> DEFINE rest == Tail(s)
  <1>1. /\ Len(s) \in Nat \ {0} /\ Head(s) = s[1] /\ Head(s) \in Reports
        /\ rest \in Seq(Reports) /\ Len(rest) = Len(s) - 1
    OBVIOUS
  <1>2. \A i \in 1 .. Len(s) - 1 : rest[i] = s[i + 1]
    OBVIOUS
  <1>3. s = <<NoKeys>> => Len(s) = 1
    OBVIOUS
  <1> HIDE DEF rest
  <1>4. rest = <<>> <=> Len(rest) = 0
    BY <1>1
  <1>5. ASSUME rest = <<>> PROVE Last(s) = Head(s)
    <2>1. Len(s) = 1
      BY <1>1, <1>4, <1>5
    <2> QED
      BY <1>1, <2>1 DEF Last
  <1>6. ASSUME rest # <<>> PROVE Last(rest) = Last(s) /\ s # <<NoKeys>>
    <2>1. Len(s) - 1 \in 1 .. Len(s) - 1 /\ (Len(s) - 1) + 1 = Len(s) /\ Len(s) # 1
      BY <1>1, <1>4, <1>6
    <2>2. rest[Len(s) - 1] = s[Len(s)]
      BY <1>2, <2>1
    <2> QED
      BY <1>1, <1>3, <2>1, <2>2 DEF Last
  <1> QED
    BY <1>1, <1>2, <1>5, <1>6 DEF rest

\* A write of one of the three.
LEMMA StepWrite == ASSUME InputIInv, NEW t \in Reporters, Write(t) PROVE InputIInv'
  <1> DEFINE rest == IF ready THEN Tail(out[t]) ELSE <<>>
  <1>1. /\ at[t] = "write" /\ t # "worker" /\ WriteThen(t, rest, then[t])
        /\ wire' = IF ready THEN Head(out[t]) ELSE wire
        /\ raced' = IF t \in stale THEN raced \cup {"wire"} ELSE raced \ {"wire"}
        /\ stale' = IF out'[t] = <<>> THEN stale \ {t} ELSE stale
        /\ UNCHANGED <<held, pos, focus, inputs, ready, captured, uiBlocked, remoteTyping, layout>>
        /\ UNCHANGED <<pressed, rawPressed, rawInput, lastKeyReport, nextBackspace, message>>
    BY DEF Write, User, Mu, Input
  <1>2. t \in Threads /\ out[t] \in Seq(Reports) /\ out[t] # <<>>
    BY <1>1, InputKept DEF Routes
  <1>3. /\ Head(out[t]) \in Reports /\ Tail(out[t]) \in Seq(Reports)
        /\ Tail(out[t]) = <<>> => Head(out[t]) = Last(out[t])
        /\ Tail(out[t]) # <<>> => Last(Tail(out[t])) = Last(out[t]) /\ out[t] # <<NoKeys>>
    <2>1. PICK s \in Seq(Reports) : s = out[t] /\ s # <<>>
      BY <1>2
    <2> QED
      BY <2>1, Rest DEF Last
  <1>4. /\ rest \in Seq(Reports) /\ then[t] \in Places /\ then[t] # "write"
    BY <1>2, <1>3, Empty, InputKept DEF Routes
  <1> HIDE DEF rest
  <1>5. /\ at' \in [Threads -> Places] /\ then' \in [Threads -> Places]
        /\ out' \in [Threads -> Seq(Reports)]
        /\ at'[t] = (IF rest = <<>> THEN then[t] ELSE "write")
        /\ then'[t] = (IF rest = <<>> THEN "idle" ELSE then[t])
        /\ out'[t] = rest
        /\ \A u \in Threads \ {t} : at'[u] = at[u] /\ then'[u] = then[u] /\ out'[u] = out[u]
        /\ \A u \in Threads : then'[u] # "write" /\ (at'[u] = "write" => out'[u] # <<>>)
    <2>1. PICK n \in Places : n = then[t]
      BY <1>4
    <2>2. PICK rs \in Seq(Reports) : rs = rest
      BY <1>4
    <2>3. WriteThen(t, rs, n) /\ n # "write" /\ InputTypeOK /\ Routes
      BY <1>1, <1>4, <2>1, <2>2, InputKept
    <2> QED
      BY <1>2, <2>1, <2>2, <2>3, Written
  <1>6. InputTypeOK'
    <2>1. wire' \in Reports /\ stale' \subseteq Reporters /\ raced' \subseteq {"wire", "state"}
      BY <1>1, <1>3, InputKept
    <2> QED
      BY <1>1, <1>5, <2>1, InputKept DEF InputTypeOK
  <1>7. Routes'
    <2>1. at'["worker"] = at["worker"]
      BY <1>1, <1>5, InputKept
    <2>2. then'["window"] \in {"idle", "key"}
      BY <1>2, <1>5, InputKept DEF Routes
    <2> QED
      BY <1>5, <2>1, <2>2, InputKept DEF Routes
  <1>8. Handling' <=> Handling
    <2>1. CASE t = "window"
      <3>1. then[t] \in {"idle", "key"}
        BY <2>1, InputKept DEF Routes
      <3> QED
        BY <1>1, <1>5, <2>1, <3>1 DEF Handling
    <2>2. CASE t # "window"
      BY <1>5, <2>2, InputKept DEF Handling
    <2> QED
      BY <2>1, <2>2
  <1>9. Releasing' = Releasing
    BY <1>1, <1>8 DEF Releasing
  <1>10. \A r \in Reports : Sound(r)' <=> Sound(r)
    BY <1>1, <1>9 DEF Sound, Kept
  <1>11. Handled'
    <2>1. at'["window"] = "note" => at["window"] = "note" /\ t # "window"
      BY <1>5, InputKept DEF Routes
    <2>2. at'["window"] = "note" /\ "window" \in stale => "window" \in stale'
      BY <1>1, <2>1
    <2> QED
      BY <1>1, <1>8, <2>1, <2>2, InputKept DEF Handled
  <1>12. Noted'
    <2>1. Kept(pressed \cup rawPressed)' <=> Kept(pressed \cup rawPressed)
      BY <1>1, <1>9 DEF Kept
    <2> QED
      BY <1>1, <2>1, InputKept DEF Noted
  <1>13. Pending'
    <2> SUFFICES ASSUME ready', NEW u \in Reporters \ stale', at'[u] = "write"
                 PROVE  Sound(Last(out[u]))' /\ (remoteTyping' => out'[u] = <<NoKeys>>)
      BY DEF Pending
    <2>1. CASE u # t
      <3>1. u \notin stale /\ at[u] = "write" /\ out'[u] = out[u] /\ out[u] \in Seq(Reports)
        BY <1>1, <1>5, <2>1, InputKept
      <3>2. Sound(Last(out[u])) /\ (remoteTyping => out[u] = <<NoKeys>>) /\ out[u] # <<>>
        BY <1>1, <3>1, InputKept DEF Pending, Routes
      <3>3. PICK r \in Reports : r = Last(out[u])
        BY <3>1, <3>2 DEF Last
      <3>4. Sound(r)' /\ r = Last(out[u])'
        BY <1>10, <3>1, <3>2, <3>3 DEF Last
      <3> QED
        BY <1>1, <3>1, <3>2, <3>4 DEF Sound, Kept
    <2>2. CASE u = t
      <3>1. rest # <<>> /\ rest = Tail(out[t]) /\ t \notin stale
        BY <1>1, <1>5, <2>2, InputKept DEF rest
      <3>2. Sound(Last(out[t])) /\ (remoteTyping => out[t] = <<NoKeys>>)
        BY <1>1, <3>1, InputKept DEF Pending
      <3>3. ~remoteTyping'
        BY <1>1, <1>3, <3>1, <3>2
      <3>4. PICK r \in Reports : r = Last(out[t])
        BY <1>2 DEF Last
      <3>5. Sound(r)' /\ r = Last(out[u])'
        BY <1>3, <1>5, <1>10, <2>2, <3>1, <3>2, <3>4 DEF Last
      <3> QED
        BY <3>3, <3>5 DEF Sound, Kept
    <2> QED
      BY <2>1, <2>2
  <1>14. Settled'
    <2> SUFFICES ASSUME ready', ~remoteTyping', "wire" \notin raced',
                        \A u \in Reporters : at'[u] # "write"
                 PROVE  Sound(wire)'
      BY DEF Settled
    <2>1. t \notin stale /\ ready
      BY <1>1
    <2>2. Tail(out[t]) = <<>>
      BY <1>5, <2>1 DEF rest
    <2>3. PICK r \in Reports : r = Last(out[t]) /\ r = wire' /\ Sound(r)
      BY <1>1, <1>3, <2>1, <2>2, InputKept DEF Pending
    <2>4. Sound(r)'
      BY <1>10, <2>3
    <2> QED
      BY <2>3, <2>4 DEF Sound, Kept
  <1>15. Strokes'
    <2>1. at'["worker"] = at["worker"] /\ out'["worker"] = out["worker"]
      BY <1>1, <1>5, InputKept
    <2> QED
      BY <1>1, <2>1, InputKept DEF Strokes
  <1> QED
    BY <1>6, <1>7, <1>11, <1>12, <1>13, <1>14, <1>15 DEF InputIInv

\* A report of the worker.
LEMMA StepRemoteTyping == ASSUME InputIInv, RemoteTyping PROVE InputIInv'
  <1> DEFINE rest == IF ready THEN Tail(out["worker"]) ELSE <<>>
  <1>1. /\ at["worker"] = "write" /\ WriteThen("worker", rest, "idle")
        /\ wire' = IF ready THEN Head(out["worker"]) ELSE wire
        /\ remoteTyping' = (out'["worker"] # <<>>)
        /\ raced' = raced \ {"wire"}
        /\ UNCHANGED <<held, pos, focus, inputs, ready, captured, uiBlocked, layout, stale>>
        /\ UNCHANGED <<pressed, rawPressed, rawInput, lastKeyReport, nextBackspace, message>>
    BY DEF RemoteTyping, User, Input
  <1>2. /\ "worker" \in Threads /\ out["worker"] \in Seq(Reports) /\ out["worker"] # <<>>
        /\ remoteTyping /\ Last(out["worker"]) = NoKeys
        /\ \A i \in 1 .. Len(out["worker"]) - 1 :
             out["worker"][i] \cap out["worker"][i + 1] \cap Plain = {}
    BY <1>1, InputKept DEF Routes, Strokes
  <1>3. PICK s \in Seq(Reports) : s = out["worker"] /\ s # <<>>
    BY <1>2
  <1>4. /\ Head(s) \in Reports /\ Tail(s) \in Seq(Reports)
        /\ Tail(s) = <<>> => Head(s) = NoKeys
        /\ Tail(s) # <<>> => Last(Tail(s)) = NoKeys
        /\ \A i \in 1 .. Len(Tail(s)) - 1 : Tail(s)[i] \cap Tail(s)[i + 1] \cap Plain = {}
    <2>1. Last(s) = NoKeys /\ \A i \in 1 .. Len(s) - 1 : s[i] \cap s[i + 1] \cap Plain = {}
      BY <1>2, <1>3 DEF Last
    <2>2. /\ Head(s) \in Reports /\ Tail(s) \in Seq(Reports) /\ Len(Tail(s)) = Len(s) - 1
          /\ Len(s) \in Nat \ {0}
          /\ Tail(s) = <<>> => Head(s) = Last(s)
          /\ Tail(s) # <<>> => Last(Tail(s)) = Last(s)
          /\ \A i \in 1 .. Len(s) - 1 : Tail(s)[i] = s[i + 1]
      BY <1>3, Rest
    <2>3. ASSUME NEW i \in 1 .. Len(Tail(s)) - 1
          PROVE  Tail(s)[i] \cap Tail(s)[i + 1] \cap Plain = {}
      <3>1. i + 1 \in 1 .. Len(s) - 1 /\ i \in 1 .. Len(s) - 1
        BY <2>2
      <3>2. Tail(s)[i] = s[i + 1] /\ Tail(s)[i + 1] = s[(i + 1) + 1]
        BY <2>2, <3>1
      <3> QED
        BY <2>1, <3>1, <3>2
    <2> QED
      BY <2>1, <2>2, <2>3
  <1>5. rest \in Seq(Reports) /\ (rest # <<>> => rest = Tail(s)) /\ (ready => rest = Tail(s))
    BY <1>3, <1>4, Empty
  <1> HIDE DEF rest
  <1>6. /\ at' \in [Threads -> Places] /\ then' \in [Threads -> Places]
        /\ out' \in [Threads -> Seq(Reports)]
        /\ at'["worker"] = (IF rest = <<>> THEN "idle" ELSE "write")
        /\ out'["worker"] = rest
        /\ \A u \in Threads \ {"worker"} : at'[u] = at[u] /\ then'[u] = then[u] /\ out'[u] = out[u]
        /\ \A u \in Threads : then'[u] # "write" /\ (at'[u] = "write" => out'[u] # <<>>)
    <2>1. PICK rs \in Seq(Reports) : rs = rest
      BY <1>5
    <2>2. WriteThen("worker", rs, "idle") /\ "idle" \in Places /\ InputTypeOK /\ Routes
      BY <1>1, <2>1, InputKept DEF Places
    <2> QED
      BY <1>2, <2>1, <2>2, Written
  <1>7. \A u \in Reporters : at'[u] = at[u] /\ then'[u] = then[u] /\ out'[u] = out[u]
    BY <1>6, InputKept
  <1>8. InputTypeOK'
    <2>1. wire' \in Reports /\ raced' \subseteq {"wire", "state"} /\ remoteTyping' \in BOOLEAN
      BY <1>1, <1>3, <1>4, InputKept
    <2> QED
      BY <1>1, <1>6, <2>1, InputKept DEF InputTypeOK
  <1>9. Routes'
    BY <1>6, <1>7, InputKept DEF Routes
  <1>10. (Handling' <=> Handling) /\ Releasing' = Releasing
    BY <1>1, <1>7, InputKept DEF Handling, Releasing
  <1>11. Handled'
    BY <1>1, <1>7, <1>10, InputKept DEF Handled
  <1>12. Noted'
    <2>1. Kept(pressed \cup rawPressed)' <=> Kept(pressed \cup rawPressed)
      BY <1>1, <1>10 DEF Kept
    <2> QED
      BY <1>1, <2>1, InputKept DEF Noted
  <1>13. Pending'
    <2> SUFFICES ASSUME ready', NEW u \in Reporters \ stale', at'[u] = "write"
                 PROVE  out'[u] = <<NoKeys>>
      BY Empty DEF Pending, Sound, Last
    <2> QED
      BY <1>1, <1>2, <1>7, InputKept DEF Pending
  <1>14. Settled'
    <2>1. ready' /\ ~remoteTyping' => wire' = NoKeys
      BY <1>1, <1>3, <1>4, <1>5, <1>6
    <2> QED
      BY <2>1 DEF Settled, Sound
  <1>15. Strokes'
    <2>1. remoteTyping' <=> at'["worker"] = "write"
      BY <1>1, <1>6
    <2>2. remoteTyping' => out'["worker"] = Tail(s) /\ Tail(s) # <<>>
      BY <1>1, <1>5, <1>6
    <2> QED
      BY <1>4, <2>1, <2>2 DEF Strokes, Last
  <1> QED
    BY <1>8, <1>9, <1>11, <1>12, <1>13, <1>14, <1>15 DEF InputIInv

\* The window passes a key on, or drops it.
LEMMA StepKeyCheck == ASSUME InputIInv, KeyCheck PROVE InputIInv'
  <1>1. /\ at["window"] = "key"
        /\ UNCHANGED <<held, pos, focus, inputs, ready, captured, uiBlocked, remoteTyping, layout>>
        /\ UNCHANGED <<pressed, rawPressed, rawInput, lastKeyReport, nextBackspace>>
        /\ UNCHANGED <<then, out, wire, stale, raced>>
    BY DEF KeyCheck, User, Mu, Input, Host
  <1>2. PICK place \in {"idle", "note"} :
          /\ at' = [at EXCEPT !["window"] = place]
          /\ place = "note" => ready /\ captured /\ UNCHANGED message
          /\ place = "idle" => ~(ready /\ captured) /\ message' = NoMessage
    BY DEF KeyCheck
  <1>3. /\ at' \in [Threads -> Places] /\ at'["window"] = place
        /\ \A u \in Threads \ {"window"} : at'[u] = at[u]
    BY <1>2, InputKept DEF Places
  <1>4. InputTypeOK'
    BY <1>1, <1>3, InputKept DEF InputTypeOK
  <1>5. Routes'
    BY <1>1, <1>3, InputKept DEF Routes
  <1>6. CASE place = "note"
    <2>1. Handled' /\ Releasing' = Releasing
      BY <1>1, <1>2, <1>3, <1>6, InputKept DEF Handled, Handling, Releasing
    <2> QED
      BY <1>1, <1>2, <1>3, <1>4, <1>5, <1>6, <2>1, InputKept, Beside
  <1>7. CASE place = "idle"
    <2>1. Handled'
      BY <1>3, <1>7 DEF Handled, Handling
    <2>2. Noted'
      BY <1>1, <1>2, <1>7, InputKept DEF Noted, Kept
    <2>3. \A r \in Reports : ready' /\ Sound(r) => Sound(r)'
      BY <1>1, <1>2, <1>7 DEF Sound
    <2> QED
      BY <1>1, <1>3, <1>4, <1>5, <1>7, <2>1, <2>2, <2>3, InputKept, Onward
  <1> QED
    BY <1>6, <1>7

\* The window notes a key.
LEMMA StepHandleRawKey == ASSUME InputIInv, HandleRawKey PROVE InputIInv'
  <1> DEFINE Add(keys) == IF message.down THEN keys \cup {message.key} ELSE keys \ {message.key}
  <1>1. /\ at["window"] = "note" /\ rawInput' = TRUE /\ rawPressed' = Add(rawPressed)
        /\ raced' = IF "window" \in stale THEN raced \cup {"state"} ELSE raced
        /\ UNCHANGED <<User, Mu, wire>> /\ message' = NoMessage
        /\ \/ SendKeyboard("window", Add(pressed), rawPressed', TRUE)
           \/ /\ ~MaySend /\ pressed' = Add(pressed) /\ WriteThen("window", <<>>, "idle")
              /\ stale' = stale \ {"window"} /\ UNCHANGED <<lastKeyReport, nextBackspace>>
    BY DEF HandleRawKey
  <1>2. UNCHANGED <<held, pos, focus, inputs, ready, captured, uiBlocked, remoteTyping, layout>>
    BY <1>1 DEF User, Mu
  <1>3. /\ focus # "off" /\ message.key \in Keys /\ message.down \in BOOLEAN
        /\ message.down => message.key \in held
        /\ ready /\ ~captured => "window" \in stale
        /\ Releasing = IF message.down THEN {} ELSE {message.key}
    BY <1>1, InputKept DEF Handled, Handling, Releasing
  <1>4. PICK named \in SUBSET (Keys \cup Generic) : named = Add(pressed)
    BY <1>3, InputKept
  <1>5. PICK positions \in SUBSET Keys : positions = Add(rawPressed)
    BY <1>3, InputKept
  <1>6. Kept(pressed \cup rawPressed) => (named \cup positions) \cap Plain \subseteq held
    BY <1>3, <1>4, <1>5 DEF Kept
  <1>7. "state" \notin raced' /\ ready /\ captured => (named \cup positions) \cap Plain \subseteq held
    BY <1>1, <1>6, InputKept DEF Noted
  <1> HIDE DEF Add
  <1>8. CASE SendKeyboard("window", Add(pressed), rawPressed', TRUE)
    <2>1. SendKeyboard("window", named, positions, TRUE) /\ rawPressed' = positions
      BY <1>1, <1>4, <1>5, <1>8
    <2>2. ready /\ captured
      BY <2>1, Decided DEF Decision
    <2>3. /\ at["window"] # "write" /\ rawInput' \in BOOLEAN
          /\ raced' \in {raced, raced \cup {"state"}}
      BY <1>1
    <2>4. "state" \notin raced' => (named \cup positions) \cap Plain \subseteq held
      BY <1>7, <2>2
    <2>5. TRUE \in BOOLEAN
      OBVIOUS
    <2> QED
      BY <1>1, <1>3, <2>1, <2>3, <2>4, Sent
  <1>9. CASE /\ ~MaySend /\ pressed' = Add(pressed) /\ WriteThen("window", <<>>, "idle")
             /\ stale' = stale \ {"window"} /\ UNCHANGED <<lastKeyReport, nextBackspace>>
    <2>1. /\ at' \in [Threads -> Places] /\ then' \in [Threads -> Places]
          /\ out' \in [Threads -> Seq(Reports)] /\ at'["window"] = "idle"
          /\ then'["window"] = "idle"
          /\ \A u \in Threads \ {"window"} :
               at'[u] = at[u] /\ then'[u] = then[u] /\ out'[u] = out[u]
          /\ \A u \in Threads : then'[u] # "write" /\ (at'[u] = "write" => out'[u] # <<>>)
      <3>1. PICK rs \in Seq(Reports) : rs = <<>>
        BY Empty
      <3>2. WriteThen("window", rs, "idle") /\ "idle" \in Places /\ InputTypeOK /\ Routes
            /\ "window" \in Threads
        BY <1>9, <3>1, InputKept DEF Places
      <3> QED
        BY <3>1, <3>2, Written
    <2>2. InputTypeOK'
      <3>1. stale' \subseteq Reporters /\ raced' \subseteq {"wire", "state"}
        BY <1>1, <1>9, InputKept
      <3>2. pressed' \subseteq Keys \cup Generic /\ rawPressed' \subseteq Keys
        BY <1>1, <1>4, <1>5, <1>9
      <3> QED
        BY <1>1, <1>2, <1>9, <2>1, <3>1, <3>2, InputKept DEF InputTypeOK
    <2>3. Routes'
      BY <2>1, InputKept DEF Routes
    <2>4. Handled'
      BY <2>1 DEF Handled, Handling
    <2>5. ready /\ ~captured => "state" \in raced'
      BY <1>1, <1>3
    <2>6. Noted'
      <3>1. "state" \notin raced' /\ ready' => Kept(pressed \cup rawPressed)'
        BY <1>1, <1>2, <1>4, <1>5, <1>7, <1>9, <2>5, InputKept DEF Kept
      <3> QED
        BY <1>2, <1>3, <2>5, <3>1, InputKept DEF Noted
    <2>7. \A r \in Reports : ready' /\ Sound(r) => Sound(r)'
      <3>1. ready => ~captured \/ remoteTyping
        BY <1>9, InputKept DEF MaySend
      <3> QED
        BY <1>2, <3>1 DEF Sound
    <2> QED
      BY <1>1, <1>2, <1>9, <2>1, <2>2, <2>3, <2>4, <2>6, <2>7, InputKept, Onward
  <1> QED
    BY <1>1, <1>8, <1>9

\* The ticker repeats Backspace.
LEMMA StepUpdateKeyboardRepeat == ASSUME InputIInv, UpdateKeyboardRepeat PROVE InputIInv'
  <1>1. /\ at["ticker"] = "idle" /\ "back" \in pressed
        /\ UNCHANGED <<User, Mu, rawPressed, rawInput, message, wire, raced>>
        /\ UNCHANGED <<held, pos, focus, inputs, ready, captured, uiBlocked, remoteTyping, layout>>
        /\ \/ /\ nextBackspace' = TRUE
              /\ UNCHANGED <<pressed, lastKeyReport, at, then, out, stale>>
           \/ SendKeyboard("ticker", pressed, rawPressed, rawInput)
    BY DEF UpdateKeyboardRepeat, User, Mu
  <1>2. CASE nextBackspace' = TRUE /\ UNCHANGED <<pressed, lastKeyReport, at, then, out, stale>>
    <2>1. InputTypeOK'
      BY <1>1, <1>2, InputKept DEF InputTypeOK
    <2>2. Routes' /\ Handled' /\ Releasing' = Releasing
      BY <1>1, <1>2, InputKept DEF Routes, Handled, Handling, Releasing
    <2> QED
      BY <1>1, <1>2, <2>1, <2>2, InputKept, Beside
  <1>3. CASE SendKeyboard("ticker", pressed, rawPressed, rawInput)
    <2>1. PICK named \in SUBSET (Keys \cup Generic) : named = pressed
      BY InputKept
    <2>2. PICK positions \in SUBSET Keys : positions = rawPressed
      BY InputKept
    <2>3. PICK isRaw : isRaw = rawInput
      OBVIOUS
    <2>4. SendKeyboard("ticker", named, positions, isRaw)
      BY <1>3, <2>1, <2>2, <2>3
    <2>5. ready /\ captured
      BY <2>4, Decided DEF Decision
    <2>6. /\ at["ticker"] # "write" /\ focus # "off" /\ rawPressed' = positions
          /\ rawInput' \in BOOLEAN /\ raced' \in {raced, raced \cup {"state"}}
      BY <1>1, <2>2, InputKept DEF Noted, InputTypeOK
    <2>7. "state" \notin raced' => (named \cup positions) \cap Plain \subseteq held \cup Releasing
      BY <1>1, <2>1, <2>2, <2>5, InputKept DEF Noted, Kept
    <2> QED
      BY <1>1, <2>4, <2>6, <2>7, Sent
  <1> QED
    BY <1>1, <1>2, <1>3

\* The inputs stay within their bound.
LEMMA Counted ==
    ASSUME InputIInv, inputs < MaxInputs, inputs' = inputs + 1 PROVE inputs' \in 0 .. MaxInputs
  <1>1. inputs \in 0 .. MaxInputs /\ MaxInputs \in Nat
    BY InputKept, WindowInputAssumption DEF InputTypeOK, WindowInputAssumption
  <1> QED
    BY <1>1

\* Nothing is written.
LEMMA Unwritten ==
    ASSUME InputIInv, NEW t \in Reporters, NEW next \in Places, next # "write",
           WriteThen(t, <<>>, next)
    PROVE  /\ at' \in [Threads -> Places] /\ then' \in [Threads -> Places]
           /\ out' \in [Threads -> Seq(Reports)]
           /\ at'[t] = next /\ then'[t] = "idle" /\ out'[t] = <<>>
           /\ \A u \in Threads \ {t} : at'[u] = at[u] /\ then'[u] = then[u] /\ out'[u] = out[u]
           /\ \A u \in Threads : then'[u] # "write" /\ (at'[u] = "write" => out'[u] # <<>>)
  <1>1. PICK rs \in Seq(Reports) : rs = <<>>
    BY Empty
  <1>2. WriteThen(t, rs, next) /\ t \in Threads /\ InputTypeOK /\ Routes
    BY <1>1, InputKept
  <1> QED
    BY <1>1, <1>2, Written

\* The three cases of updatePointerCapture.
LEMMA Captured ==
    ASSUME InputIInv, NEW t, NEW next, UpdatePointerCapture(t, next)
    PROVE  \/ /\ captured' = captured /\ WriteThen(t, <<>>, next)
              /\ UNCHANGED <<Input, stale, raced>>
           \/ /\ ShouldCapture /\ ~captured /\ captured' = TRUE
              /\ lastKeyReport' = NoKeys /\ rawPressed' = {}
              /\ WriteThen(t, AllKeysUp, next) /\ Overtake(t)
              /\ UNCHANGED <<pressed, rawInput, nextBackspace, raced>>
           \/ /\ captured /\ captured' = FALSE /\ ResetKeyboardState
              /\ WriteThen(t, AllKeysUp, next) /\ Overtake(t) /\ raced' = raced \ {"state"}
  <1>1. captured' = ShouldCapture /\ ShouldCapture \in BOOLEAN /\ captured \in BOOLEAN
    BY InputKept DEF UpdatePointerCapture, ShouldCapture
  <1>2. CASE ShouldCapture = captured
    BY <1>1, <1>2 DEF UpdatePointerCapture
  <1>3. CASE ShouldCapture /\ ~captured
    BY <1>1, <1>3 DEF UpdatePointerCapture
  <1>4. CASE ~ShouldCapture /\ captured
    BY <1>1, <1>4 DEF UpdatePointerCapture
  <1>5. ASSUME ShouldCapture # captured, ~(ShouldCapture /\ ~captured), ~(~ShouldCapture /\ captured)
        PROVE  FALSE
    BY <1>1, <1>5
  <1> QED
    BY <1>2, <1>3, <1>4, <1>5

\* A key message.
LEMMA StepKeyMessage ==
    ASSUME InputIInv, NEW k \in Keys, NEW down \in BOOLEAN, KeyMessage(k, down) PROVE InputIInv'
  <1>1. /\ focus = "on" /\ at["window"] = "idle" /\ ready
        /\ inputs < MaxInputs /\ inputs' = inputs + 1
        /\ held' = IF down THEN held \cup {k} ELSE held \ {k}
        /\ message' = [key |-> k, down |-> down]
        /\ UpdatePointerCapture("window", "key")
        /\ UNCHANGED <<pos, focus, ready, uiBlocked, remoteTyping, layout, wire>>
    BY DEF KeyMessage, UserInput
  <1>2. /\ held' \subseteq Keys /\ inputs' \in 0 .. MaxInputs
        /\ message'.key \in Keys /\ message'.down \in BOOLEAN
        /\ message'.key = k /\ message'.down = down
        /\ message'.down => message'.key \in held'
        /\ focus' # "off"
    <2>1. inputs' \in 0 .. MaxInputs
      BY <1>1, Counted
    <2> QED
      BY <1>1, <2>1, InputKept
  <1>3. "key" \in Places /\ "key" # "write"
    BY DEF Places
  <1>4. CASE /\ captured' = captured /\ WriteThen("window", <<>>, "key")
             /\ UNCHANGED <<Input, stale, raced>>
    <2>1. /\ at' \in [Threads -> Places] /\ then' \in [Threads -> Places]
          /\ out' \in [Threads -> Seq(Reports)] /\ at'["window"] = "key"
          /\ then'["window"] = "idle"
          /\ \A u \in Threads \ {"window"} :
               at'[u] = at[u] /\ then'[u] = then[u] /\ out'[u] = out[u]
          /\ \A u \in Threads : then'[u] # "write" /\ (at'[u] = "write" => out'[u] # <<>>)
      BY <1>3, <1>4, InputKept, Unwritten
    <2>2. UNCHANGED <<pressed, rawPressed, rawInput, lastKeyReport, nextBackspace, stale, raced>>
      BY <1>4 DEF Input
    <2>3. InputTypeOK'
      BY <1>1, <1>2, <1>4, <2>1, <2>2, InputKept DEF InputTypeOK
    <2>4. Routes'
      BY <2>1, InputKept DEF Routes
    <2>5. Handled'
      BY <1>2, <2>1 DEF Handled, Handling
    <2>6. held \cup Releasing \subseteq held' \cup Releasing'
      BY <1>1, <1>2, <2>1 DEF Releasing, Handling
    <2> QED
      BY <1>1, <1>4, <2>1, <2>2, <2>3, <2>4, <2>5, <2>6, InputKept, Beside
  <1>5. CASE /\ ShouldCapture /\ ~captured /\ captured' = TRUE
             /\ lastKeyReport' = NoKeys /\ rawPressed' = {}
             /\ WriteThen("window", AllKeysUp, "key") /\ Overtake("window")
             /\ UNCHANGED <<pressed, rawInput, nextBackspace, raced>>
    <2>1. AllKeysUp = <<NoKeys>>
      BY <1>1 DEF AllKeysUp
    <2> QED
      BY <1>1, <1>2, <1>5, <2>1, Begins
  <1>6. CASE /\ captured /\ captured' = FALSE /\ ResetKeyboardState
             /\ WriteThen("window", AllKeysUp, "key") /\ Overtake("window")
             /\ raced' = raced \ {"state"}
    <2>1. AllKeysUp = <<NoKeys>> /\ <<NoKeys>> # <<>>
      BY <1>1, Empty DEF AllKeysUp
    <2>2. PICK rs \in {<<>>, <<NoKeys>>} : rs = AllKeysUp /\ rs # <<>>
      BY <2>1
    <2>3. /\ "window" \in Reporters /\ at["window"] \notin {"write", "claim"}
          /\ captured' \in BOOLEAN /\ (captured' => captured)
          /\ pos' \in {"video", "border", "out"} /\ focus' \in {"on", "lost", "off"}
          /\ uiBlocked' \in BOOLEAN /\ layout' \in Layouts
      BY <1>1, <1>6, InputKept DEF InputTypeOK
    <2>4. WriteThen("window", rs, "key")
      BY <1>6, <2>2
    <2> QED
      BY <1>1, <1>2, <1>3, <1>6, <2>2, <2>3, <2>4, Reset
  <1> QED
    BY <1>1, <1>4, <1>5, <1>6, Captured

\* A poll of the pointer.
LEMMA StepTick == ASSUME InputIInv, Tick PROVE InputIInv'
  <1>1. /\ at["ticker"] = "idle" /\ UpdatePointerCapture("ticker", "idle")
        /\ UNCHANGED <<held, pos, focus, inputs, ready, uiBlocked, remoteTyping, layout>>
        /\ UNCHANGED <<message, wire>>
    BY DEF Tick, User
  <1>2. "idle" \in Places /\ "idle" # "write" /\ inputs' \in 0 .. MaxInputs /\ held' \subseteq Keys
    BY <1>1, InputKept DEF Places, InputTypeOK
  <1>3. CASE /\ captured' = captured /\ WriteThen("ticker", <<>>, "idle")
             /\ UNCHANGED <<Input, stale, raced>>
    <2>1. /\ at' \in [Threads -> Places] /\ then' \in [Threads -> Places]
          /\ out' \in [Threads -> Seq(Reports)] /\ at'["ticker"] = "idle"
          /\ \A u \in Threads \ {"ticker"} :
               at'[u] = at[u] /\ then'[u] = then[u] /\ out'[u] = out[u]
          /\ \A u \in Threads : then'[u] # "write" /\ (at'[u] = "write" => out'[u] # <<>>)
      BY <1>2, <1>3, InputKept, Unwritten
    <2>2. UNCHANGED <<pressed, rawPressed, rawInput, lastKeyReport, nextBackspace, stale, raced>>
      BY <1>3 DEF Input
    <2>3. InputTypeOK'
      BY <1>1, <1>3, <2>1, <2>2, InputKept DEF InputTypeOK
    <2>4. Routes'
      BY <2>1, InputKept DEF Routes
    <2>5. Handled' /\ Releasing' = Releasing
      <3>1. at'["window"] = at["window"] /\ then'["window"] = then["window"]
        BY <2>1, InputKept
      <3> QED
        BY <1>1, <1>3, <2>2, <3>1, InputKept DEF Handled, Handling, Releasing
    <2> QED
      BY <1>1, <1>3, <2>1, <2>2, <2>3, <2>4, <2>5, InputKept, Beside
  <1>4. CASE /\ ShouldCapture /\ ~captured /\ captured' = TRUE
             /\ lastKeyReport' = NoKeys /\ rawPressed' = {}
             /\ WriteThen("ticker", AllKeysUp, "idle") /\ Overtake("ticker")
             /\ UNCHANGED <<pressed, rawInput, nextBackspace, raced>>
    <2>1. AllKeysUp = <<NoKeys>> /\ ready /\ focus = "on"
      BY <1>4 DEF AllKeysUp, ShouldCapture
    <2> QED
      BY <1>1, <1>2, <1>4, <2>1, Begins
  <1>5. CASE /\ captured /\ captured' = FALSE /\ ResetKeyboardState
             /\ WriteThen("ticker", AllKeysUp, "idle") /\ Overtake("ticker")
             /\ raced' = raced \ {"state"}
    <2>1. PICK rs \in {<<>>, <<NoKeys>>} : rs = AllKeysUp /\ (rs = <<>> => ~ready)
      BY Empty DEF AllKeysUp
    <2>2. /\ "ticker" \in Reporters /\ at["ticker"] \notin {"write", "claim"}
          /\ captured' \in BOOLEAN /\ (captured' => captured)
          /\ pos' \in {"video", "border", "out"} /\ focus' \in {"on", "lost", "off"}
          /\ uiBlocked' \in BOOLEAN /\ layout' \in Layouts
      BY <1>1, <1>5, InputKept DEF InputTypeOK
    <2>3. WriteThen("ticker", rs, "idle") /\ "ticker" # "window"
      BY <1>5, <2>1
    <2> QED
      BY <1>1, <1>2, <1>5, <2>1, <2>2, <2>3, Reset
  <1> QED
    BY <1>1, <1>3, <1>4, <1>5, Captured

\* A capture that a pointer event or the loss of focus ends.
LEMMA Released ==
    ASSUME InputIInv, NEW t \in Reporters, NEW next \in {"idle", "mouse"},
           at[t] \notin {"write", "claim"}, ReleaseCapture(t, next),
           t = "window" => next = "idle", t # "window" => UNCHANGED focus,
           focus' \in {"on", "lost", "off"},
           UNCHANGED <<held, pos, inputs, ready, uiBlocked, remoteTyping, layout, message, wire>>
    PROVE  InputIInv'
  <1>1. /\ captured' = FALSE /\ ResetKeyboardState
        /\ WriteThen(t, IF captured THEN AllKeysUp ELSE <<>>, next)
        /\ Overtake(t) /\ raced' = raced \ {"state"}
    BY DEF ReleaseCapture
  <1>2. PICK rs \in {<<>>, <<NoKeys>>} : /\ rs = IF captured THEN AllKeysUp ELSE <<>>
                                         /\ rs = <<>> => ~ready \/ ~captured
    BY Empty DEF AllKeysUp
  <1>3. /\ next \in Places /\ next # "write" /\ inputs' \in 0 .. MaxInputs /\ held' \subseteq Keys
        /\ captured' \in BOOLEAN /\ (captured' => captured)
        /\ pos' \in {"video", "border", "out"}
        /\ uiBlocked' \in BOOLEAN /\ layout' \in Layouts
        /\ t = "window" => next \in {"idle", "key"}
    BY <1>1, InputKept DEF Places, InputTypeOK
  <1>4. WriteThen(t, rs, next)
    BY <1>1, <1>2
  <1> QED
    BY <1>1, <1>2, <1>3, <1>4, Reset

\* The window learns that the focus is lost.
LEMMA StepDeactivate == ASSUME InputIInv, Deactivate PROVE InputIInv'
  <1>1. /\ at["window"] = "idle" /\ focus' = "off" /\ ReleaseCapture("window", "idle")
        /\ UNCHANGED <<held, pos, inputs, ready, uiBlocked, remoteTyping, layout, message, wire>>
    BY DEF Deactivate
  <1> QED
    BY <1>1, InputKept, Released

\* A step that lets the goroutines and what is noted be.
LEMMA Aside ==
    ASSUME InputIInv, UNCHANGED <<held, remoteTyping, layout, ready, Input, at, then, out>>,
           UNCHANGED <<message, Host>>,
           captured' \in BOOLEAN, captured => captured', uiBlocked' \in BOOLEAN,
           inputs' \in 0 .. MaxInputs, pos' \in {"video", "border", "out"},
           focus' \in {"on", "lost"} \/ UNCHANGED focus
    PROVE  InputIInv'
  <1>1. /\ UNCHANGED <<pressed, rawPressed, rawInput, lastKeyReport, nextBackspace>>
        /\ UNCHANGED <<wire, stale, raced>>
    BY DEF Input, Host
  <1>2. InputTypeOK'
    BY <1>1, InputKept DEF InputTypeOK
  <1>3. Routes' /\ Handled' /\ Releasing' = Releasing
    BY <1>1, InputKept DEF Routes, Handled, Handling, Releasing
  <1> QED
    BY <1>1, <1>2, <1>3, InputKept, Beside

LEMMA StepMovePointer ==
    ASSUME InputIInv, NEW p \in {"video", "border", "out"}, MovePointer(p) PROVE InputIInv'
  <1>1. /\ pos' = p /\ inputs < MaxInputs /\ inputs' = inputs + 1
        /\ UNCHANGED <<held, focus, ready, captured, uiBlocked, remoteTyping, layout>>
        /\ UNCHANGED <<Input, at, then, out, message, Host>>
    BY DEF MovePointer, UserInput, Mu
  <1>2. inputs' \in 0 .. MaxInputs
    BY <1>1, Counted
  <1>3. captured' \in BOOLEAN /\ (captured => captured') /\ uiBlocked' \in BOOLEAN
    BY <1>1, InputKept DEF InputTypeOK
  <1> QED
    BY <1>1, <1>2, <1>3, Aside

LEMMA StepLayoutFrame == ASSUME InputIInv, LayoutFrame PROVE InputIInv'
  <1>1. /\ uiBlocked' \in BOOLEAN
        /\ UNCHANGED <<held, pos, focus, inputs, ready, captured, remoteTyping, layout>>
        /\ UNCHANGED <<Input, at, then, out, message, Host>>
    BY InputKept DEF LayoutFrame, User, InputTypeOK
  <1>2. /\ inputs' \in 0 .. MaxInputs /\ pos' \in {"video", "border", "out"}
        /\ captured' \in BOOLEAN /\ (captured => captured')
    BY <1>1, InputKept DEF InputTypeOK
  <1> QED
    BY <1>1, <1>2, Aside

\* The focus is lost, or comes back.
LEMMA StepMoveFocus == ASSUME InputIInv, MoveFocus PROVE InputIInv'
  <1>1. /\ inputs < MaxInputs /\ inputs' = inputs + 1
        /\ UNCHANGED <<pos, ready, captured, uiBlocked, remoteTyping, layout>>
        /\ UNCHANGED <<Input, at, then, out, message, Host>>
        /\ \/ focus' = "lost" /\ UNCHANGED held
           \/ focus = "off" /\ focus' = "on" /\ held' \in SUBSET held
    BY DEF MoveFocus, UserInput, Mu
  <1>2. inputs' \in 0 .. MaxInputs
    BY <1>1, Counted
  <1>3. CASE focus' = "lost" /\ UNCHANGED held
    <2>1. /\ captured' \in BOOLEAN /\ (captured => captured') /\ uiBlocked' \in BOOLEAN
          /\ pos' \in {"video", "border", "out"}
      BY <1>1, InputKept DEF InputTypeOK
    <2> QED
      BY <1>1, <1>2, <1>3, <2>1, Aside
  <1>4. CASE focus = "off" /\ focus' = "on" /\ held' \in SUBSET held
    <2>1. /\ UNCHANGED <<pressed, rawPressed, rawInput, lastKeyReport, nextBackspace>>
          /\ UNCHANGED <<wire, stale, raced>>
      BY <1>1 DEF Input, Host
    <2>2. InputTypeOK'
      BY <1>1, <1>2, <1>4, <2>1, InputKept DEF InputTypeOK
    <2>3. pressed \cup rawPressed = {} /\ lastKeyReport \in {NoKeys, Forgotten} /\ ~Handling
      BY <1>4, InputKept DEF Noted, Handled
    <2>4. Routes' /\ Handled' /\ Noted'
      <3>1. ~Handling' /\ at'["window"] # "note"
        BY <1>1, <2>3 DEF Handling
      <3> QED
        BY <1>1, <1>4, <2>1, <2>3, <3>1, InputKept DEF Routes, Handled, Noted, Kept
    <2>5. \A r \in Reports : Sound(r) => Sound(r)'
      <3>1. \A r \in Reports : Sound(r) => r = NoKeys
        BY <2>3, Empty DEF Sound
      <3> QED
        BY <3>1 DEF Sound
    <2> QED
      BY <1>1, <2>1, <2>2, <2>4, <2>5, InputKept, Onward
  <1> QED
    BY <1>1, <1>3, <1>4

\* A pointer event of the frame.
LEMMA StepPointerEvent == ASSUME InputIInv, PointerEvent PROVE InputIInv'
  <1>1. /\ at["frame"] = "idle"
        /\ UNCHANGED <<held, pos, focus, inputs, ready, uiBlocked, remoteTyping, layout>>
        /\ UNCHANGED <<message, wire>>
        /\ \/ \E next \in {"idle", "mouse"} : ReleaseCapture("frame", next)
           \/ captured' = TRUE /\ UNCHANGED <<Input, at, then, out, stale, raced>>
    BY DEF PointerEvent, User
  <1>2. CASE \E next \in {"idle", "mouse"} : ReleaseCapture("frame", next)
    <2>1. PICK next \in {"idle", "mouse"} : ReleaseCapture("frame", next)
      BY <1>2
    <2>2. "frame" \in Reporters /\ "frame" # "window" /\ focus' \in {"on", "lost", "off"}
      BY <1>1, InputKept DEF InputTypeOK
    <2> QED
      BY <1>1, <2>1, <2>2, Released
  <1>3. CASE captured' = TRUE /\ UNCHANGED <<Input, at, then, out, stale, raced>>
    <2>1. /\ captured' \in BOOLEAN /\ (captured => captured') /\ uiBlocked' \in BOOLEAN
          /\ inputs' \in 0 .. MaxInputs /\ pos' \in {"video", "border", "out"}
          /\ UNCHANGED Host
      BY <1>1, <1>3, InputKept DEF InputTypeOK, Host
    <2> QED
      BY <1>1, <1>3, <2>1, Aside
  <1> QED
    BY <1>1, <1>2, <1>3

\* A sample beside the video.
LEMMA StepSendMouse == ASSUME InputIInv, SendMouse PROVE InputIInv'
  <1>1. /\ at["frame"] = "mouse"
        /\ UNCHANGED <<held, pos, focus, inputs, ready, uiBlocked, remoteTyping, layout>>
        /\ UNCHANGED <<message, wire>>
        /\ \/ ReleaseCapture("frame", "idle")
           \/ WriteThen("frame", <<>>, "idle") /\ UNCHANGED <<captured, Input, stale, raced>>
    BY DEF SendMouse, User
  <1>2. CASE ReleaseCapture("frame", "idle")
    <2>1. /\ "frame" \in Reporters /\ "frame" # "window" /\ focus' \in {"on", "lost", "off"}
          /\ "idle" \in {"idle", "mouse"} /\ at["frame"] \notin {"write", "claim"}
      BY <1>1, InputKept DEF InputTypeOK
    <2> QED
      BY <1>1, <1>2, <2>1, Released
  <1>3. CASE WriteThen("frame", <<>>, "idle") /\ UNCHANGED <<captured, Input, stale, raced>>
    <2>1. /\ at' \in [Threads -> Places] /\ then' \in [Threads -> Places]
          /\ out' \in [Threads -> Seq(Reports)] /\ at'["frame"] = "idle"
          /\ \A u \in Threads \ {"frame"} :
               at'[u] = at[u] /\ then'[u] = then[u] /\ out'[u] = out[u]
          /\ \A u \in Threads : then'[u] # "write" /\ (at'[u] = "write" => out'[u] # <<>>)
      <3>1. "idle" \in Places /\ "idle" # "write"
        BY DEF Places
      <3> QED
        BY <1>3, <3>1, InputKept, Unwritten
    <2>2. UNCHANGED <<pressed, rawPressed, rawInput, lastKeyReport, nextBackspace, stale, raced>>
      BY <1>3 DEF Input
    <2>3. InputTypeOK'
      BY <1>1, <1>3, <2>1, <2>2, InputKept DEF InputTypeOK
    <2>4. Routes'
      BY <2>1, InputKept DEF Routes
    <2>5. Handled' /\ Releasing' = Releasing
      <3>1. at'["window"] = at["window"] /\ then'["window"] = then["window"]
        BY <2>1, InputKept
      <3> QED
        BY <1>1, <1>3, <2>2, <3>1, InputKept DEF Handled, Handling, Releasing
    <2> QED
      BY <1>1, <1>3, <2>1, <2>2, <2>3, <2>4, <2>5, InputKept, Beside
  <1> QED
    BY <1>1, <1>2, <1>3

\* Another layout is chosen.
LEMMA StepSetLayout == ASSUME InputIInv, NEW l \in Layouts, SetLayout(l) PROVE InputIInv'
  <1>1. /\ at["frame"] = "idle" /\ inputs < MaxInputs /\ inputs' = inputs + 1
        /\ layout' = l /\ ResetKeyboardState /\ WriteThen("frame", AllKeysUp, "idle")
        /\ Overtake("frame") /\ raced' = raced \ {"state"}
        /\ UNCHANGED <<held, pos, focus, ready, captured, uiBlocked, remoteTyping, message, wire>>
    BY DEF SetLayout, UserInput
  <1>2. inputs' \in 0 .. MaxInputs
    BY <1>1, Counted
  <1>3. PICK rs \in {<<>>, <<NoKeys>>} : rs = AllKeysUp /\ (rs = <<>> => ~ready)
    BY Empty DEF AllKeysUp
  <1>4. /\ "frame" \in Reporters /\ "frame" # "window" /\ "idle" \in Places /\ "idle" # "write"
        /\ at["frame"] \notin {"write", "claim"} /\ held' \subseteq Keys
        /\ captured' \in BOOLEAN /\ (captured' => captured)
        /\ pos' \in {"video", "border", "out"} /\ focus' \in {"on", "lost", "off"}
        /\ uiBlocked' \in BOOLEAN /\ layout' \in Layouts
    BY <1>1, InputKept DEF InputTypeOK, Places
  <1>5. WriteThen("frame", rs, "idle")
    BY <1>1, <1>3
  <1> QED
    BY <1>1, <1>2, <1>3, <1>4, <1>5, Reset

\* A paste begins with a reset.
LEMMA StepPasteClipboard == ASSUME InputIInv, PasteClipboard PROVE InputIInv'
  <1>1. /\ at["frame"] = "idle" /\ inputs < MaxInputs /\ inputs' = inputs + 1
        /\ ResetKeyboardState /\ WriteThen("frame", <<>>, "claim")
        /\ Overtake("frame") /\ raced' = raced \ {"state"}
        /\ UNCHANGED <<held, pos, focus, ready, captured, uiBlocked, remoteTyping, layout>>
        /\ UNCHANGED <<message, wire>>
    BY DEF PasteClipboard, UserInput, Mu
  <1>2. inputs' \in 0 .. MaxInputs
    BY <1>1, Counted
  <1>3. PICK rs \in {<<>>, <<NoKeys>>} : rs = <<>>
    OBVIOUS
  <1>4. /\ "frame" \in Reporters /\ "frame" # "window" /\ "claim" \in Places /\ "claim" # "write"
        /\ at["frame"] \notin {"write", "claim"} /\ held' \subseteq Keys
        /\ captured' \in BOOLEAN /\ (captured' => captured)
        /\ pos' \in {"video", "border", "out"} /\ focus' \in {"on", "lost", "off"}
        /\ uiBlocked' \in BOOLEAN /\ layout' \in Layouts
    BY <1>1, InputKept DEF InputTypeOK, Places
  <1>5. WriteThen("frame", rs, "claim")
    BY <1>1, <1>3
  <1> QED
    BY <1>1, <1>2, <1>4, <1>5, Reset

\* The worker is given a text, or the keyboard is busy.
LEMMA StepBeginPaste == ASSUME InputIInv, BeginPaste PROVE InputIInv'
  <1>1. /\ at["frame"] = "claim"
        /\ UNCHANGED <<held, pos, focus, inputs, ready, captured, uiBlocked, layout>>
        /\ UNCHANGED <<pressed, rawPressed, rawInput, lastKeyReport, nextBackspace>>
        /\ UNCHANGED <<then, message, wire, raced>>
        /\ \/ /\ remoteTyping /\ UNCHANGED <<remoteTyping, out, stale>>
              /\ at' = [at EXCEPT !["frame"] = "idle"]
           \/ /\ ~remoteTyping /\ remoteTyping' = TRUE
              /\ \E n \in 0 .. MaxText : \E text \in [1 .. n -> Plain] :
                   out' = [out EXCEPT !["worker"] = SendClipboardText(text)]
              /\ at' = [at EXCEPT !["frame"] = "idle", !["worker"] = "write"]
              /\ Overtake("frame")
    BY DEF BeginPaste, User, Input
  <1>2. CASE /\ remoteTyping /\ UNCHANGED <<remoteTyping, out, stale>>
             /\ at' = [at EXCEPT !["frame"] = "idle"]
    <2>1. /\ at' \in [Threads -> Places] /\ at'["frame"] = "idle"
          /\ \A u \in Threads \ {"frame"} : at'[u] = at[u]
      BY <1>2, InputKept DEF Places
    <2>2. InputTypeOK'
      BY <1>1, <1>2, <2>1, InputKept DEF InputTypeOK
    <2>3. Routes'
      BY <1>1, <1>2, <2>1, InputKept DEF Routes
    <2>4. Handled' /\ Releasing' = Releasing
      <3>1. at'["window"] = at["window"]
        BY <2>1, InputKept
      <3> QED
        BY <1>1, <1>2, <3>1, InputKept DEF Handled, Handling, Releasing
    <2> QED
      BY <1>1, <1>2, <2>1, <2>2, <2>3, <2>4, InputKept, Beside
  <1>3. CASE /\ ~remoteTyping /\ remoteTyping' = TRUE
             /\ \E n \in 0 .. MaxText : \E text \in [1 .. n -> Plain] :
                  out' = [out EXCEPT !["worker"] = SendClipboardText(text)]
             /\ at' = [at EXCEPT !["frame"] = "idle", !["worker"] = "write"]
             /\ Overtake("frame")
    <2>1. PICK n \in 0 .. MaxText : \E text \in [1 .. n -> Plain] :
            out' = [out EXCEPT !["worker"] = SendClipboardText(text)]
      BY <1>3
    <2>2. PICK text \in [1 .. n -> Plain] :
            out' = [out EXCEPT !["worker"] = SendClipboardText(text)]
      BY <2>1
    <2>3. PICK reports \in Seq(Reports) :
            /\ reports = SendClipboardText(text) /\ reports # <<>> /\ Last(reports) = NoKeys
            /\ \A i \in 1 .. Len(reports) - 1 : reports[i] \cap reports[i + 1] \cap Plain = {}
      BY Pasted
    <2>4. /\ at' \in [Threads -> Places] /\ at'["worker"] = "write" /\ at'["frame"] = "idle"
          /\ at'["window"] = at["window"] /\ at'["ticker"] = at["ticker"]
      BY <1>3, InputKept DEF Places
    <2>5. /\ at["frame"] \in {"idle", "claim"} /\ inputs' \in 0 .. MaxInputs
          /\ lastKeyReport' \in {lastKeyReport, Forgotten} /\ remoteTyping' \in BOOLEAN
          /\ out' = [out EXCEPT !["worker"] = reports]
      BY <1>1, <1>3, <2>2, <2>3, InputKept DEF InputTypeOK
    <2> QED
      BY <1>1, <1>3, <2>3, <2>4, <2>5, Claimed
  <1> QED
    BY <1>1, <1>2, <1>3

\* The worker is given Ctrl+Alt+Del.
LEMMA StepBeginChord == ASSUME InputIInv, BeginChord PROVE InputIInv'
  <1>1. /\ at["frame"] = "idle" /\ ~remoteTyping /\ remoteTyping' = TRUE
        /\ inputs < MaxInputs /\ inputs' = inputs + 1
        /\ lastKeyReport' = Forgotten
        /\ out' = [out EXCEPT !["worker"] = SendCtrlAltDel(Vendor)]
        /\ at' = [at EXCEPT !["worker"] = "write"] /\ Overtake("frame")
        /\ UNCHANGED <<held, pos, focus, ready, captured, uiBlocked, layout, wire, raced>>
        /\ UNCHANGED <<pressed, rawPressed, rawInput, nextBackspace, then, message>>
    BY DEF BeginChord, UserInput
  <1>2. PICK reports \in Seq(Reports) :
          /\ reports = SendCtrlAltDel(Vendor) /\ reports # <<>> /\ Last(reports) = NoKeys
          /\ \A i \in 1 .. Len(reports) - 1 : reports[i] \cap reports[i + 1] \cap Plain = {}
    BY Chord
  <1>3. /\ at' \in [Threads -> Places] /\ at'["worker"] = "write" /\ at'["frame"] = "idle"
        /\ at'["window"] = at["window"] /\ at'["ticker"] = at["ticker"]
    BY <1>1, InputKept DEF Places
  <1>4. /\ at["frame"] \in {"idle", "claim"} /\ inputs' \in 0 .. MaxInputs
        /\ lastKeyReport' \in {lastKeyReport, Forgotten} /\ remoteTyping' \in BOOLEAN
        /\ out' = [out EXCEPT !["worker"] = reports]
    BY <1>1, <1>2, Counted
  <1> QED
    BY <1>1, <1>2, <1>3, <1>4, Claimed

\* The connection is lost.
LEMMA StepLoseInput == ASSUME InputIInv, LoseInput PROVE InputIInv'
  <1>1. /\ ready' = FALSE /\ captured' = FALSE
        /\ pressed' = {} /\ rawPressed' = {} /\ rawInput' = FALSE
        /\ lastKeyReport' = NoKeys /\ nextBackspace' = FALSE
        /\ UNCHANGED <<held, pos, focus, inputs, uiBlocked, remoteTyping, layout>>
        /\ UNCHANGED <<at, then, out, message, wire, stale, raced>>
    BY DEF LoseInput, ResetKeyboardState, User, Host
  <1>2. InputTypeOK'
    BY <1>1, Empty, InputKept DEF InputTypeOK
  <1>3. Routes' /\ Handled' /\ Noted' /\ Strokes' /\ Pending' /\ Settled'
    BY <1>1, InputKept DEF Routes, Handled, Handling, Noted, Strokes, Pending, Settled
  <1> QED
    BY <1>2, <1>3 DEF InputIInv

LEMMA InputStep == ASSUME InputIInv, [InputNext]_inputVars PROVE InputIInv'
  <1>1. CASE \E k \in Keys, down \in BOOLEAN : KeyMessage(k, down)
    BY <1>1, StepKeyMessage
  <1>2. CASE \E p \in {"video", "border", "out"} : MovePointer(p)
    BY <1>2, StepMovePointer
  <1>3. CASE MoveFocus \/ PointerEvent \/ LayoutFrame \/ PasteClipboard \/ BeginChord
    BY <1>3, StepMoveFocus, StepPointerEvent, StepLayoutFrame, StepPasteClipboard,
       StepBeginChord
  <1>4. CASE \E l \in Layouts : SetLayout(l)
    BY <1>4, StepSetLayout
  <1>5. CASE Write("window") \/ Write("ticker") \/ Write("frame")
    BY <1>5, InputKept, StepWrite
  <1>6. CASE KeyCheck \/ HandleRawKey \/ Deactivate
    BY <1>6, StepKeyCheck, StepHandleRawKey, StepDeactivate
  <1>7. CASE Tick \/ UpdateKeyboardRepeat
    BY <1>7, StepTick, StepUpdateKeyboardRepeat
  <1>8. CASE SendMouse \/ BeginPaste \/ RemoteTyping \/ LoseInput
    BY <1>8, StepSendMouse, StepBeginPaste, StepRemoteTyping, StepLoseInput
  <1>9. CASE UNCHANGED inputVars
    <2>1. /\ UNCHANGED <<held, remoteTyping, layout, ready, Input, at, then, out>>
          /\ UNCHANGED <<message, Host, captured, uiBlocked, inputs, pos, focus>>
      BY <1>9 DEF inputVars, Input, Host
    <2>2. /\ captured' \in BOOLEAN /\ (captured => captured') /\ uiBlocked' \in BOOLEAN
          /\ inputs' \in 0 .. MaxInputs /\ pos' \in {"video", "border", "out"}
      BY <2>1, InputKept DEF InputTypeOK
    <2> QED
      BY <2>1, <2>2, Aside
  <1> QED
    BY <1>1, <1>2, <1>3, <1>4, <1>5, <1>6, <1>7, <1>8, <1>9 DEF InputNext, WindowSteps,
       TickerSteps, FrameSteps

\* What the goroutines know of the keyboard, and what they are about to write, is
\* in keeping at every step (sendKeyboard, the resets, pastes and chords of
\* internal/app).
THEOREM InputInvariant == InputSafetySpec => []InputIInv
  <1>1. InputInit => InputIInv
    BY InputStart
  <1>2. InputIInv /\ [InputNext]_inputVars => InputIInv'
    BY InputStep
  <1> QED
    BY <1>1, <1>2, PTL DEF InputSafetySpec

\* Once no goroutine is at work the host holds no key that the user does not hold,
\* and none at all while the window has not captured the keyboard, however often
\* the user presses keys, moves or loses the focus, pastes or opens a menu.
THEOREM InputNoStuckKey == InputSafetySpec => []NoStuckKey
  <1>1. ASSUME InputIInv PROVE NoStuckKey
    <2> SUFFICES ASSUME AtRest, ready, raced = {}
                 PROVE  wire \cap Plain \subseteq held /\ (captured \/ wire = NoKeys)
      BY DEF NoStuckKey
    <2>1. Sound(wire)
      BY <1>1, InputKept DEF AtRest, Settled
    <2>2. Releasing = {}
      BY <1>1, InputKept DEF AtRest, Releasing, Handling
    <2> QED
      BY <2>1, <2>2, Empty DEF Sound, Kept
  <1> QED
    BY <1>1, InputInvariant, PTL

\* Reports that press no key of a chord, or none at all.
Harmless(reports) == \A i \in DOMAIN reports : "delete" \notin reports[i]

LEMMA ReleasesHarmless ==
    /\ Harmless(<<>>) /\ Harmless(<<NoKeys>>)
  BY Empty DEF Harmless

\* A step that writes nothing and lets the worker be.
LEMMA Unpressed ==
    ASSUME InputIInv, ChordFree, Fresh, ready' => ready, UNCHANGED <<remoteTyping, wire>>,
           "wire" \in raced => "wire" \in raced', out'["worker"] = out["worker"],
           \A u \in Reporters : out'[u] = out[u] \/ Harmless(out'[u])
    PROVE  ChordFree' /\ Fresh'
  <1>1. \A u \in Reporters : Harmless(out[u])
    BY DEF ChordFree, Harmless
  <1>2. \A u \in Reporters : Harmless(out'[u])
    BY <1>1
  <1> QED
    BY <1>2 DEF ChordFree, Fresh, Harmless

LEMMA Decides ==
    ASSUME InputIInv, ChordFree, Fresh, NEW t \in Reporters, NEW reports, Harmless(reports),
           NEW next, WriteThen(t, reports, next),
           ready' => ready, UNCHANGED <<remoteTyping, wire>>, "wire" \in raced => "wire" \in raced'
    PROVE  ChordFree' /\ Fresh'
  <1>1. out' = [out EXCEPT ![t] = reports]
    BY DEF WriteThen
  <1>2. /\ out'["worker"] = out["worker"]
        /\ \A u \in Reporters : out'[u] = out[u] \/ out'[u] = reports
    BY <1>1, InputKept
  <1>3. \A u \in Reporters : out'[u] = out[u] \/ Harmless(out'[u])
    BY <1>2
  <1> QED
    BY <1>2, <1>3, Unpressed

\* The steps of the user and of the capture.
LEMMA CaptureStrokes ==
    ASSUME InputIInv, ChordFree, Fresh, NEW t \in Reporters, NEW next,
           UpdatePointerCapture(t, next) \/ ReleaseCapture(t, next),
           UNCHANGED <<ready, remoteTyping, wire>>
    PROVE  ChordFree' /\ Fresh'
  <1>1. Harmless(<<>>) /\ Harmless(AllKeysUp)
    BY ReleasesHarmless DEF AllKeysUp
  <1>2. CASE UpdatePointerCapture(t, next)
    <2>1. /\ WriteThen(t, <<>>, next) \/ WriteThen(t, AllKeysUp, next)
          /\ "wire" \in raced => "wire" \in raced'
      BY <1>2, Captured
    <2> QED
      BY <1>1, <2>1, Decides
  <1>3. CASE ReleaseCapture(t, next)
    <2>1. /\ WriteThen(t, IF captured THEN AllKeysUp ELSE <<>>, next)
          /\ "wire" \in raced => "wire" \in raced'
      BY <1>3 DEF ReleaseCapture
    <2>2. Harmless(IF captured THEN AllKeysUp ELSE <<>>)
      BY <1>1
    <2> QED
      BY <2>1, <2>2, Decides
  <1> QED
    BY <1>2, <1>3

\* A write of one of the three.
LEMMA WriteStrokes ==
    ASSUME InputIInv, ChordFree, Fresh, NEW t \in Reporters, Write(t)
    PROVE  ChordFree' /\ Fresh'
  <1>1. /\ at[t] = "write" /\ WriteThen(t, IF ready THEN Tail(out[t]) ELSE <<>>, then[t])
        /\ wire' = IF ready THEN Head(out[t]) ELSE wire
        /\ raced' = IF t \in stale THEN raced \cup {"wire"} ELSE raced \ {"wire"}
        /\ ready' = ready /\ remoteTyping' = remoteTyping
    BY DEF Write, User, Mu
  <1>2. PICK s \in Seq(Reports) : s = out[t] /\ s # <<>>
    BY <1>1, InputKept DEF Routes
  <1>3. Harmless(s)
    BY <1>2 DEF ChordFree, Harmless
  <1>4. "delete" \notin Head(s) /\ Harmless(Tail(s))
    <2> DEFINE rest == Tail(s)
    <2>1. /\ 1 \in DOMAIN s /\ Head(s) = s[1]
          /\ \A i \in 1 .. Len(s) - 1 : rest[i] = s[i + 1] /\ i + 1 \in DOMAIN s
          /\ DOMAIN rest = 1 .. Len(s) - 1
      <3>1. /\ Len(s) \in Nat \ {0} /\ Head(s) = s[1] /\ rest \in Seq(Reports)
            /\ Len(rest) = Len(s) - 1 /\ \A i \in 1 .. Len(s) - 1 : rest[i] = s[i + 1]
        BY <1>2, Rest
      <3> HIDE DEF rest
      <3>2. DOMAIN s = 1 .. Len(s) /\ DOMAIN rest = 1 .. Len(rest)
        BY <3>1
      <3> QED
        BY <3>1, <3>2
    <2> HIDE DEF rest
    <2>2. "delete" \notin Head(s) /\ Harmless(rest)
      BY <1>3, <2>1 DEF Harmless
    <2> QED
      BY <2>2 DEF rest
  <1>5. /\ out'["worker"] = out["worker"]
        /\ \A u \in Reporters : Harmless(out'[u])
    <2>1. out' = [out EXCEPT ![t] = IF ready THEN Tail(out[t]) ELSE <<>>]
      BY <1>1 DEF WriteThen
    <2>2. Harmless(IF ready THEN Tail(out[t]) ELSE <<>>)
      BY <1>2, <1>4, ReleasesHarmless
    <2>3. \A u \in Reporters : Harmless(out[u])
      BY DEF ChordFree, Harmless
    <2> QED
      BY <2>1, <2>2, <2>3, InputKept
  <1>6. ChordFree'
    BY <1>1, <1>2, <1>4, <1>5 DEF ChordFree, Harmless
  <1>7. Fresh'
    <2> SUFFICES ASSUME remoteTyping', ready', "wire" \notin raced' PROVE wire' = {}
      BY DEF Fresh
    <2>1. t \notin stale /\ remoteTyping /\ ready
      BY <1>1
    <2>2. out[t] = <<NoKeys>>
      BY <1>1, <2>1, InputKept DEF Pending
    <2>3. Head(<<NoKeys>>) = NoKeys
      OBVIOUS
    <2> QED
      BY <1>1, <2>1, <2>2, <2>3, Empty
  <1> QED
    BY <1>6, <1>7

\* A report of the worker.
LEMMA TypingStrokes ==
    ASSUME InputIInv, ChordFree, Fresh, RemoteTyping PROVE ChordFree' /\ Fresh'
  <1>1. /\ at["worker"] = "write"
        /\ WriteThen("worker", IF ready THEN Tail(out["worker"]) ELSE <<>>, "idle")
        /\ wire' = IF ready THEN Head(out["worker"]) ELSE wire
        /\ remoteTyping' = (out'["worker"] # <<>>) /\ ready' = ready
    BY DEF RemoteTyping
  <1>2. PICK s \in Seq(Reports) : s = out["worker"] /\ s # <<>>
    BY <1>1, InputKept DEF Routes
  <1>3. /\ Last(s) = NoKeys
        /\ \A i \in 1 .. Len(s) - 1 : s[i] \cap s[i + 1] \cap Plain = {}
    BY <1>1, <1>2, InputKept DEF Strokes, Last
  <1>4. out' = [out EXCEPT !["worker"] = IF ready THEN Tail(s) ELSE <<>>]
    BY <1>1, <1>2 DEF WriteThen
  <1>5. /\ out'["worker"] = IF ready THEN Tail(s) ELSE <<>>
        /\ \A u \in Reporters : out'[u] = out[u]
    BY <1>4, InputKept
  <1>6. ChordFree'
    <2>1. ready' /\ ~remoteTyping' => wire' = NoKeys
      BY <1>1, <1>2, <1>3, <1>5, Rest
    <2> QED
      BY <1>5, <2>1, Empty DEF ChordFree
  <1>7. Fresh'
    <2> SUFFICES ASSUME remoteTyping', ready' PROVE Head(Tail(s)) \cap Head(s) \cap Plain = {}
      BY <1>1, <1>2, <1>5 DEF Fresh
    <2>1. Tail(s) # <<>>
      BY <1>1, <1>5
    <2>2. /\ Head(s) = s[1] /\ Len(Tail(s)) = Len(s) - 1 /\ Len(s) \in Nat \ {0}
          /\ Tail(s) \in Seq(Reports) /\ \A i \in 1 .. Len(s) - 1 : Tail(s)[i] = s[i + 1]
      BY <1>2, Rest
    <2>3. PICK r \in Seq(Reports) : r = Tail(s) /\ r # <<>>
      BY <2>1, <2>2
    <2>4. Head(r) = r[1] /\ Len(r) \in Nat \ {0}
      BY <2>3, Rest
    <2>5. 1 \in 1 .. Len(s) - 1 /\ r[1] = s[1 + 1]
      BY <2>2, <2>3, <2>4
    <2> QED
      BY <1>3, <2>2, <2>3, <2>4, <2>5
  <1> QED
    BY <1>6, <1>7

\* The worker is given a text or a chord.
LEMMA ClaimStrokes ==
    ASSUME InputIInv, ChordFree, Fresh, BeginPaste \/ BeginChord PROVE ChordFree' /\ Fresh'
  <1>1. CASE BeginPaste /\ remoteTyping
    <2>1. UNCHANGED <<ready, remoteTyping, wire, raced, out>>
      BY <1>1 DEF BeginPaste
    <2> QED
      BY <2>1, Unpressed
  <1>2. CASE BeginPaste /\ ~remoteTyping
    <2>1. /\ remoteTyping' = TRUE /\ UNCHANGED <<ready, wire>>
          /\ \E n \in 0 .. MaxText : \E text \in [1 .. n -> Plain] :
               out' = [out EXCEPT !["worker"] = SendClipboardText(text)]
      BY <1>2 DEF BeginPaste
    <2>2. PICK n \in 0 .. MaxText : \E text \in [1 .. n -> Plain] :
            out' = [out EXCEPT !["worker"] = SendClipboardText(text)]
      BY <2>1
    <2>3. PICK text \in [1 .. n -> Plain] :
            out' = [out EXCEPT !["worker"] = SendClipboardText(text)]
      BY <2>2
    <2>4. PICK s \in Seq(Reports) : s = SendClipboardText(text) /\ s # <<>> /\ s[1] = NoKeys
      BY Pasted
    <2>5. /\ out'["worker"] = s /\ Head(s) = {}
          /\ \A u \in Reporters : out'[u] = out[u]
      BY <2>3, <2>4, Empty, InputKept, Rest
    <2> QED
      BY <2>1, <2>5 DEF ChordFree, Fresh
  <1>3. CASE BeginChord
    <2>1. /\ ~remoteTyping /\ remoteTyping' = TRUE /\ UNCHANGED <<ready, wire>>
          /\ out' = [out EXCEPT !["worker"] = SendCtrlAltDel(Vendor)]
      BY <1>3 DEF BeginChord
    <2>2. PICK s \in Seq(Reports) : /\ s = SendCtrlAltDel(Vendor) /\ s # <<>>
                                    /\ s[1] = {"lctrl", "lalt", "delete"}
      BY Chord
    <2>3. /\ out'["worker"] = s /\ Head(s) = {"lctrl", "lalt", "delete"}
          /\ \A u \in Reporters : out'[u] = out[u]
      BY <2>1, <2>2, InputKept, Rest
    <2>4. "lctrl" \notin Plain /\ "lalt" \notin Plain
      BY KeyReportAssumption DEF KeyReportAssumption, Modifiers, Controls, Alts
    <2>5. ready => "delete" \notin wire
      BY <2>1 DEF ChordFree
    <2> QED
      BY <2>1, <2>3, <2>4, <2>5 DEF ChordFree, Fresh
  <1> QED
    BY <1>1, <1>2, <1>3

\* sendKeyboard reports no chord of keys that cannot form one.
LEMMA KeyStrokes ==
    ASSUME InputIInv, ChordFree, Fresh, "delete" \notin Keys, HandleRawKey \/ UpdateKeyboardRepeat
    PROVE  ChordFree' /\ Fresh'
  <1>1. /\ UNCHANGED <<ready, remoteTyping, wire>>
        /\ "wire" \in raced => "wire" \in raced'
    BY DEF HandleRawKey, UpdateKeyboardRepeat, Mu
  <1>2. ASSUME NEW t \in {"window", "ticker"}, NEW named \in SUBSET (Keys \cup Generic),
               NEW positions \in SUBSET Keys, NEW isRaw, SendKeyboard(t, named, positions, isRaw)
        PROVE  ChordFree' /\ Fresh'
    <2>1. PICK report \in Reports : Decision(t, named, positions, report)
      BY <1>2, Decided
    <2>2. PICK rs \in {<<>>, <<report>>, SendCtrlAltDel(Vendor)} :
            Harmless(rs) /\ WriteThen(t, rs, "idle")
      BY <2>1 DEF Decision, Harmless
    <2>3. t \in Reporters
      BY InputKept
    <2> QED
      BY <1>1, <2>2, <2>3, Decides
  <1>3. CASE HandleRawKey
    <2> DEFINE Add(keys) == IF message.down THEN keys \cup {message.key} ELSE keys \ {message.key}
    <2>1. /\ at["window"] = "note" /\ rawPressed' = Add(rawPressed)
          /\ \/ SendKeyboard("window", Add(pressed), rawPressed', TRUE)
             \/ WriteThen("window", <<>>, "idle")
      BY <1>3 DEF HandleRawKey
    <2>2. message.key \in Keys
      BY <2>1, InputKept DEF Handled, Handling
    <2>3. PICK named \in SUBSET (Keys \cup Generic) : named = Add(pressed)
      BY <2>2, InputKept
    <2>4. PICK positions \in SUBSET Keys : positions = Add(rawPressed)
      BY <2>2, InputKept
    <2> HIDE DEF Add
    <2>5. CASE SendKeyboard("window", Add(pressed), rawPressed', TRUE)
      <3>1. SendKeyboard("window", named, positions, TRUE)
        BY <2>1, <2>3, <2>4, <2>5
      <3> QED
        BY <1>2, <3>1
    <2>6. CASE WriteThen("window", <<>>, "idle")
      BY <1>1, <2>6, InputKept, ReleasesHarmless, Decides
    <2> QED
      BY <2>1, <2>5, <2>6
  <1>4. CASE UpdateKeyboardRepeat
    <2>1. out' = out \/ SendKeyboard("ticker", pressed, rawPressed, rawInput)
      BY <1>4 DEF UpdateKeyboardRepeat
    <2>2. CASE out' = out
      BY <1>1, <2>2, Unpressed
    <2>3. CASE SendKeyboard("ticker", pressed, rawPressed, rawInput)
      <3>1. PICK named \in SUBSET (Keys \cup Generic) : named = pressed
        BY InputKept
      <3>2. PICK positions \in SUBSET Keys : positions = rawPressed
        BY InputKept
      <3>3. PICK isRaw : isRaw = rawInput
        OBVIOUS
      <3>4. SendKeyboard("ticker", named, positions, isRaw)
        BY <2>3, <3>1, <3>2, <3>3
      <3> QED
        BY <1>2, <3>4
    <2> QED
      BY <2>1, <2>2, <2>3
  <1> QED
    BY <1>3, <1>4

LEMMA StrokesStep ==
    ASSUME InputIInv, ChordFree, Fresh, "delete" \notin Keys, [InputNext]_inputVars
    PROVE  ChordFree' /\ Fresh'
  <1>1. CASE \E k \in Keys, down \in BOOLEAN : KeyMessage(k, down)
    <2>1. UpdatePointerCapture("window", "key") /\ UNCHANGED <<ready, remoteTyping, wire>>
      BY <1>1 DEF KeyMessage
    <2> QED
      BY <2>1, InputKept, CaptureStrokes
  <1>2. CASE Tick
    <2>1. UpdatePointerCapture("ticker", "idle") /\ UNCHANGED <<ready, remoteTyping, wire>>
      BY <1>2 DEF Tick
    <2> QED
      BY <2>1, InputKept, CaptureStrokes
  <1>3. CASE Deactivate
    <2>1. ReleaseCapture("window", "idle") /\ UNCHANGED <<ready, remoteTyping, wire>>
      BY <1>3 DEF Deactivate
    <2> QED
      BY <2>1, InputKept, CaptureStrokes
  <1>4. CASE PointerEvent
    <2>1. /\ UNCHANGED <<ready, remoteTyping, wire>>
          /\ \/ \E next \in {"idle", "mouse"} : ReleaseCapture("frame", next)
             \/ UNCHANGED <<out, raced>>
      BY <1>4 DEF PointerEvent
    <2>2. CASE \E next \in {"idle", "mouse"} : ReleaseCapture("frame", next)
      BY <2>1, <2>2, InputKept, CaptureStrokes
    <2>3. CASE UNCHANGED <<out, raced>>
      BY <2>1, <2>3, Unpressed
    <2> QED
      BY <2>1, <2>2, <2>3
  <1>5. CASE SendMouse
    <2>1. /\ UNCHANGED <<ready, remoteTyping, wire>>
          /\ \/ ReleaseCapture("frame", "idle")
             \/ WriteThen("frame", <<>>, "idle") /\ UNCHANGED raced
      BY <1>5 DEF SendMouse
    <2>2. CASE ReleaseCapture("frame", "idle")
      BY <2>1, <2>2, InputKept, CaptureStrokes
    <2>3. CASE WriteThen("frame", <<>>, "idle") /\ UNCHANGED raced
      BY <2>1, <2>3, InputKept, ReleasesHarmless, Decides
    <2> QED
      BY <2>1, <2>2, <2>3
  <1>6. CASE (\E l \in Layouts : SetLayout(l)) \/ PasteClipboard
    <2>1. /\ UNCHANGED <<ready, remoteTyping, wire>> /\ raced' = raced \ {"state"}
          /\ \/ WriteThen("frame", AllKeysUp, "idle")
             \/ WriteThen("frame", <<>>, "claim")
      BY <1>6 DEF SetLayout, PasteClipboard, Mu
    <2>2. Harmless(<<>>) /\ Harmless(AllKeysUp)
      BY ReleasesHarmless DEF AllKeysUp
    <2>3. "wire" \in raced => "wire" \in raced'
      BY <2>1
    <2> QED
      BY <2>1, <2>2, <2>3, InputKept, Decides
  <1>7. CASE Write("window") \/ Write("ticker") \/ Write("frame")
    BY <1>7, InputKept, WriteStrokes
  <1>8. CASE HandleRawKey \/ UpdateKeyboardRepeat \/ BeginPaste \/ BeginChord \/ RemoteTyping
    BY <1>8, KeyStrokes, ClaimStrokes, TypingStrokes
  <1>9. CASE \/ \E p \in {"video", "border", "out"} : MovePointer(p)
             \/ MoveFocus \/ LayoutFrame \/ KeyCheck \/ LoseInput \/ UNCHANGED inputVars
    <2>1. (ready' => ready) /\ UNCHANGED <<remoteTyping, wire, raced, out>>
      BY <1>9 DEF MovePointer, MoveFocus, LayoutFrame, KeyCheck, LoseInput, inputVars,
         Mu, Host
    <2> QED
      BY <2>1, Unpressed
  <1> QED
    BY <1>1, <1>2, <1>3, <1>4, <1>5, <1>6, <1>7, <1>8, <1>9 DEF InputNext, WindowSteps,
       TickerSteps, FrameSteps

\* Each stroke of a paste, and of the chord of the menu, finds its key up, unless the
\* user can press the key of the chord itself: the menu writes the chord without
\* releasing what the user holds (sendCtrlAltDel, internal/app/app.go).
THEOREM InputEveryStrokeCounts ==
    ASSUME "delete" \notin Keys PROVE InputSafetySpec => EveryStrokeCounts
  <1>1. InputInit => StrokesIInv
    <2> SUFFICES ASSUME InputInit PROVE StrokesIInv
      OBVIOUS
    <2>1. ~remoteTyping /\ wire = {} /\ \A t \in Reporters : out[t] = <<>>
      BY Empty DEF InputInit, Threads
    <2>2. \A t \in Reporters : Harmless(out[t])
      BY <2>1, ReleasesHarmless
    <2> QED
      BY <2>1, <2>2, InputStart DEF StrokesIInv, ChordFree, Fresh, Harmless
  <1>2. StrokesIInv /\ [InputNext]_inputVars => StrokesIInv'
    BY InputStep, StrokesStep DEF StrokesIInv
  <1>3. StrokesIInv /\ [InputNext]_inputVars =>
          [(RemoteTyping /\ ready /\ raced = {})
             => Head(out["worker"]) \cap wire \cap Plain = {}]_inputVars
    <2> SUFFICES ASSUME StrokesIInv, RemoteTyping, ready, raced = {}
                 PROVE  Head(out["worker"]) \cap wire \cap Plain = {}
      OBVIOUS
    <2>1. remoteTyping
      BY DEF RemoteTyping, StrokesIInv, InputIInv, Strokes
    <2> QED
      BY <2>1 DEF StrokesIInv, Fresh
  <1> QED
    BY <1>1, <1>2, <1>3, PTL DEF InputSafetySpec, EveryStrokeCounts
=============================================================================
