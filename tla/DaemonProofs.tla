---------------------------- MODULE DaemonProofs ---------------------------
(* Theorems about Daemon.                                                  *)
EXTENDS Daemon, Naturals, TLAPS

\* A call that has connected knows to whom.
PeerKnown ==
  \A c \in Calls : call[c].phase \in {"waiting", "accepted", "signalled"} =>
    call[c].peer \in Processes

\* At most one process has the stores open.
OneOwner == StoresExclusive => \A p, q \in Owners : p = q

DaemonInv == TypeOK /\ PeerKnown /\ OneOwner

-----------------------------------------------------------------------------
\* A step of one process within its life keeps the types.
LEMMA ReachTypes ==
  ASSUME TypeOK, NEW p \in Processes, NEW from, NEW to \in Phases, Reach(p, from, to)
  PROVE  /\ phase' \in [Processes -> Phases]
         /\ phase[p] = from /\ phase'[p] = to
         /\ \A q \in Processes : q # p => phase'[q] = phase[q]
  BY DEF TypeOK, Reach

\* A step of one process that was an owner already, or does not become one,
\* leaves the owners what they were or takes it out of them.
LEMMA OwnersShrink ==
  ASSUME TypeOK, OneOwner, NEW p \in Processes, NEW from, NEW to \in Phases,
         Reach(p, from, to),
         p \in Owners \/ to \in {"looking", "probing", "clearing", "booting", "gone"}
  PROVE  OneOwner'
  <1>1. Owners' \subseteq Owners
    BY ReachTypes DEF Owners, Serving
  <1> QED
    BY <1>1 DEF OneOwner

\* A step of a call keeps the types of the calls, and the peers known.
LEMMA CallTypes ==
  ASSUME TypeOK, PeerKnown, NEW c \in Calls, NEW to \in CallPhases, Goto(c, to),
         to \in {"waiting", "accepted", "signalled"} => call[c].peer \in Processes
  PROVE  call' \in [Calls -> CallStates] /\ PeerKnown'
  BY DEF TypeOK, PeerKnown, Goto, CallStates

LEMMA FailingTypes ==
  ASSUME NEW c \in Calls
  PROVE  Failing(c) \in {"failed", "polling", "removing"}
  BY DEF Failing

-----------------------------------------------------------------------------
LEMMA InitDaemonInv == Init => DaemonInv
  BY DaemonAssumption
  DEF Init, DaemonInv, TypeOK, PeerKnown, OneOwner, Owners, Serving, Phases, CallStates,
      CallPhases

\* A step of a process in which it does not open the stores.
LEMMA KeepsOwners ==
  ASSUME DaemonInv, NEW p \in Processes, NEW from, NEW to \in Phases, Reach(p, from, to),
         p \in Owners \/ to \in {"looking", "probing", "clearing", "booting", "gone"},
         socket' \in {socket, None, p}, UNCHANGED <<told, call>>
  PROVE  DaemonInv'
  <1>1. phase' \in [Processes -> Phases]
    BY ReachTypes DEF DaemonInv
  <1>2. OneOwner'
    BY OwnersShrink DEF DaemonInv
  <1> QED
    BY <1>1, <1>2 DEF DaemonInv, TypeOK, PeerKnown

\* Every step of a process preserves the invariant.
LEMMA ProcessStepInv ==
  ASSUME DaemonInv, NEW p \in Processes,
         Foreground(p) \/ Launch(p) \/ AcceptFails(p) \/ CtrlC(p) \/ Die(p) \/ ProcessStep(p)
  PROVE  DaemonInv'
  <1> USE DEF Phases
  <1>1. CASE Foreground(p)
    BY <1>1, KeepsOwners DEF Foreground
  <1>2. CASE Launch(p)
    BY <1>2, KeepsOwners DEF Launch
  <1>3. CASE Look(p)
    <2>1. PICK to \in {"booting", "probing"} : Reach(p, "looking", to)
      BY <1>3 DEF Look
    <2> QED
      BY <1>3, <2>1, KeepsOwners DEF Look
  <1>4. CASE Probe(p)
    <2>1. PICK to \in {"gone", "clearing"} : Reach(p, "probing", to)
      BY <1>4 DEF Probe
    <2> QED
      BY <1>4, <2>1, KeepsOwners DEF Probe
  <1>5. CASE Clear(p)
    BY <1>5, KeepsOwners DEF Clear
  <1>6. CASE Boot(p)
    <2>1. /\ phase' \in [Processes -> Phases]
          /\ \A q \in Processes : q # p => phase'[q] = phase[q]
      BY <1>6, ReachTypes DEF Boot, DaemonInv
    <2>2. StoresExclusive => Owners' \subseteq {p}
      BY <1>6, <2>1 DEF Boot, Owners
    <2> QED
      BY <1>6, <2>1, <2>2 DEF Boot, DaemonInv, TypeOK, PeerKnown, OneOwner
  <1>7. CASE BootFails(p)
    BY <1>7, KeepsOwners DEF BootFails
  <1>8. ASSUME NEW from \in Serving, ServeFails(p, from)
        PROVE  DaemonInv'
    <2>1. PICK to \in {"unserved", "gone"} : Reach(p, from, to)
      BY <1>8 DEF ServeFails
    <2>2. p \in Owners
      BY <2>1, <1>8 DEF Reach, Owners
    <2> QED
      BY <1>8, <2>1, <2>2, KeepsOwners DEF ServeFails
  <1>9. CASE ServeStep(p)
    <2>1. CASE Serve(p)
      <3>1. PICK to \in {"binding", "unlinking"} : Reach(p, "booted", to)
        BY <2>1 DEF Serve
      <3>2. p \in Owners
        BY <3>1 DEF Reach, Owners, Serving
      <3> QED
        BY <2>1, <3>1, <3>2, KeepsOwners DEF Serve
    <2>2. CASE UnlinkStale(p)
      <3>1. CASE ServeFails(p, "unlinking")
        BY <3>1, <1>8 DEF Serving
      <3>2. CASE Reach(p, "unlinking", "binding") /\ socket' = None /\ UNCHANGED <<told, call>>
        <4>1. p \in Owners
          BY <3>2 DEF Reach, Owners, Serving
        <4> QED
          BY <3>2, <4>1, KeepsOwners
      <3> QED
        BY <2>2, <3>1, <3>2 DEF UnlinkStale
    <2>3. CASE Bind(p)
      <3>1. CASE ServeFails(p, "binding")
        BY <3>1, <1>8 DEF Serving
      <3>2. CASE Reach(p, "binding", "permitting") /\ socket' = p /\ UNCHANGED <<told, call>>
        <4>1. p \in Owners
          BY <3>2 DEF Reach, Owners, Serving
        <4> QED
          BY <3>2, <4>1, KeepsOwners
      <3> QED
        BY <2>3, <3>1, <3>2 DEF Bind
    <2>4. CASE SetPermissions(p)
      <3>1. CASE ServeFails(p, "permitting")
        BY <3>1, <1>8 DEF Serving
      <3>2. CASE Reach(p, "permitting", "serving") /\ UNCHANGED <<socket, told, call>>
        <4>1. p \in Owners
          BY <3>2 DEF Reach, Owners, Serving
        <4> QED
          BY <3>2, <4>1, KeepsOwners
      <3> QED
        BY <2>4, <3>1, <3>2 DEF SetPermissions
    <2>5. CASE Shutdown(p)
      <3>1. p \in Owners
        BY <2>5 DEF Shutdown, Reach, Owners, Serving
      <3> QED
        BY <2>5, <3>1, KeepsOwners DEF Shutdown
    <2>6. CASE Unlink(p)
      <3>1. p \in Owners /\ AfterServing(p) \in Phases
        BY <2>6 DEF Unlink, AfterServing, Reach, Owners
      <3> QED
        BY <2>6, <3>1, KeepsOwners DEF Unlink
    <2> QED
      BY <1>9, <2>1, <2>2, <2>3, <2>4, <2>5, <2>6 DEF ServeStep
  <1>10. CASE Exit(p)
    BY <1>10, KeepsOwners DEF Exit
  <1>11. CASE AcceptFails(p)
    BY <1>11, <1>8 DEF AcceptFails, Serving
  <1>12. CASE CtrlC(p)
    BY <1>12 DEF CtrlC, DaemonInv, TypeOK, PeerKnown, OneOwner, Owners
  <1>13. CASE Die(p)
    <2>1. Reach(p, phase[p], "gone")
      BY <1>13 DEF Die, Reach
    <2> QED
      BY <1>13, <2>1, KeepsOwners DEF Die
  <1> QED
    BY <1>1, <1>2, <1>3, <1>4, <1>5, <1>6, <1>7, <1>9, <1>10, <1>11, <1>12, <1>13
    DEF ProcessStep

\* A step of a call that leaves the processes alone.
LEMMA KeepsProcesses ==
  ASSUME DaemonInv, NEW c \in Calls, NEW to \in CallPhases, Goto(c, to),
         to \in {"waiting", "accepted", "signalled"} => call[c].peer \in Processes,
         phase' = phase, socket' \in {socket, None},
         told' = told \/ (call[c].peer \in Processes /\ told' = Told(c))
  PROVE  DaemonInv'
  <1>1. call' \in [Calls -> CallStates] /\ PeerKnown'
    BY CallTypes DEF DaemonInv
  <1>2. OneOwner'
    BY DEF DaemonInv, OneOwner, Owners
  <1> QED
    BY <1>1, <1>2 DEF DaemonInv, TypeOK, Told, Peer

\* Every step of a call preserves the invariant.
LEMMA CallStepInv ==
  ASSUME DaemonInv, NEW c \in Calls, Begin(c) \/ CallStep(c) \/ GiveUp(c)
  PROVE  DaemonInv'
  <1> USE DEF CallPhases
  <1>1. CASE Begin(c)
    <2>1. PICK to \in {"asking", "done", "spawning"} : Goto(c, to)
      BY <1>1 DEF Begin
    <2> QED
      BY <1>1, <2>1, KeepsProcesses DEF Begin
  <1>2. CASE Connect(c)
    <2>1. CASE socket # None /\ Listening(socket)
      <3>1. call' = [call EXCEPT ![c].phase = "waiting", ![c].peer = socket]
            /\ socket \in Processes
        BY <1>2, <2>1 DEF Connect, DaemonInv, TypeOK
      <3>2. call' \in [Calls -> CallStates] /\ PeerKnown'
        <4>1. call \in [Calls -> CallStates] /\ PeerKnown
          BY DEF DaemonInv, TypeOK
        <4>2. [call[c] EXCEPT !.phase = "waiting", !.peer = socket] \in CallStates
          BY <3>1, <4>1 DEF CallStates
        <4>3. /\ call'[c].phase = "waiting" /\ call'[c].peer = socket
              /\ \A k \in Calls \ {c} : call'[k] = call[k]
          BY <3>1, <4>1 DEF CallStates
        <4> QED
          BY <3>1, <4>1, <4>2, <4>3 DEF PeerKnown
      <3> QED
        BY <1>2, <3>2 DEF Connect, DaemonInv, TypeOK, OneOwner, Owners
    <2>2. CASE Goto(c, Failing(c))
      BY <1>2, <2>2, FailingTypes, KeepsProcesses DEF Connect
    <2> QED
      BY <1>2, <2>1, <2>2 DEF Connect
  <1>3. CASE Accept(c)
    BY <1>3, KeepsProcesses DEF Accept, DaemonInv, PeerKnown
  <1>4. CASE SignalShutdown(c)
    BY <1>4, KeepsProcesses DEF SignalShutdown, DaemonInv, PeerKnown
  <1>5. CASE Answer(c)
    BY <1>5, KeepsProcesses DEF Answer
  <1>6. CASE HangUp(c)
    BY <1>6, FailingTypes, KeepsProcesses DEF HangUp
  <1>7. CASE RemoveStale(c)
    BY <1>7, KeepsProcesses DEF RemoveStale
  <1>8. ASSUME NEW p \in Processes, Spawn(c, p)
        PROVE  DaemonInv'
    <2>1. phase' \in [Processes -> Phases]
      BY <1>8, ReachTypes DEF Spawn, DaemonInv, Phases
    <2>2. OneOwner'
      BY <1>8, OwnersShrink DEF Spawn, DaemonInv, Phases
    <2>3. call' \in [Calls -> CallStates] /\ PeerKnown'
      BY <1>8 DEF Spawn, DaemonInv, TypeOK, PeerKnown, CallStates
    <2> QED
      BY <1>8, <2>1, <2>2, <2>3 DEF Spawn, DaemonInv, TypeOK
  <1>9. CASE SpawnFails(c)
    BY <1>9, KeepsProcesses DEF SpawnFails
  <1>10. CASE Poll(c)
    BY <1>10, KeepsProcesses DEF Poll
  <1>11. CASE GiveUp(c)
    BY <1>11, KeepsProcesses DEF GiveUp
  <1> QED
    BY <1>1, <1>2, <1>3, <1>4, <1>5, <1>6, <1>7, <1>8, <1>9, <1>10, <1>11 DEF CallStep

LEMMA NextDaemonInv == DaemonInv /\ [Next]_vars => DaemonInv'
  <1> SUFFICES ASSUME DaemonInv, [Next]_vars PROVE DaemonInv'
    OBVIOUS
  <1>1. CASE UNCHANGED vars
    BY <1>1 DEF vars, DaemonInv, TypeOK, PeerKnown, OneOwner, Owners
  <1>2. CASE Next
    BY <1>2, ProcessStepInv, CallStepInv DEF Next
  <1> QED
    BY <1>1, <1>2

LEMMA DaemonInvariant == Spec => []DaemonInv
  BY InitDaemonInv, NextDaemonInv, PTL DEF Spec

-----------------------------------------------------------------------------
\* Every reachable state is type correct: a connected call has a process for a
\* peer, whom it tells to stop.
THEOREM DaemonTypeCorrect == Spec => []TypeOK
  BY DaemonInvariant, PTL DEF DaemonInv

\* At most one process listens for the data directory, for any number of
\* processes and calls, if the stores keep a second one out.
THEOREM OneServer == Spec => []OneListener
  <1>1. DaemonInv => OneListener
    BY DEF DaemonInv, OneOwner, OneListener, Listening, Owners, Serving
  <1> QED
    BY <1>1, DaemonInvariant, PTL

\* The socket of a server that was not told to stop goes away only by the hand
\* of a start or a desktop that took it for stale.
THEOREM NoForeignUnlink == Spec => OwnSocketOnly
  <1> DEFINE A == StoresExclusive =>
               \A p \in Processes :
                 socket = p /\ phase[p] \in {"permitting", "serving"} /\ socket' # p
                   => TookForStale
  <1>1. DaemonInv /\ [Next]_vars => A
    <2> SUFFICES ASSUME DaemonInv, [Next]_vars, StoresExclusive,
                        NEW p \in Processes, socket = p,
                        phase[p] \in {"permitting", "serving"}, socket' # p
                 PROVE  TookForStale
      OBVIOUS
    <2>1. p \in Owners /\ socket # None
      BY DaemonAssumption DEF Owners, Serving
    <2>2. ASSUME NEW q \in Processes, q \in Owners
          PROVE  phase[q] \in {"permitting", "serving"}
      BY <2>1, <2>2 DEF DaemonInv, OneOwner
    <2>3. ASSUME NEW q \in Processes, Clear(q)
          PROVE  TookForStale
      BY <2>3 DEF Clear, Reach, TookForStale, DaemonInv, TypeOK
    <2>4. ASSUME NEW q \in Processes, UnlinkStale(q)
          PROVE  FALSE
      BY <2>1, <2>2, <2>4 DEF UnlinkStale, ServeFails, Reach, Owners, Serving
    <2>5. ASSUME NEW q \in Processes, Bind(q)
          PROVE  FALSE
      BY <2>1, <2>5 DEF Bind, ServeFails
    <2>6. ASSUME NEW q \in Processes, Unlink(q)
          PROVE  FALSE
      BY <2>2, <2>6 DEF Unlink, Reach, Owners
    <2>7. ASSUME NEW c \in Calls, RemoveStale(c)
          PROVE  TookForStale
      BY <2>7 DEF RemoveStale, Goto, TookForStale, DaemonInv, TypeOK, CallStates
    <2>8. ASSUME NEW q \in Processes,
                 \/ Foreground(q) \/ Launch(q) \/ AcceptFails(q) \/ CtrlC(q) \/ Die(q)
                 \/ Look(q) \/ Probe(q) \/ Boot(q) \/ BootFails(q) \/ Serve(q)
                 \/ SetPermissions(q) \/ Shutdown(q) \/ Exit(q)
          PROVE  FALSE
      BY <2>8 DEF Foreground, Launch, AcceptFails, CtrlC, Die, Look, Probe, Boot, BootFails,
                  Serve, SetPermissions, Shutdown, Exit, ServeFails
    <2>9. ASSUME NEW c \in Calls,
                 \/ Begin(c) \/ Connect(c) \/ Accept(c) \/ SignalShutdown(c) \/ Answer(c)
                 \/ HangUp(c) \/ SpawnFails(c) \/ Poll(c) \/ GiveUp(c)
                 \/ \E q \in Processes : Spawn(c, q)
          PROVE  FALSE
      BY <2>9 DEF Begin, Connect, Accept, SignalShutdown, Answer, HangUp, SpawnFails, Poll,
                  GiveUp, Spawn
    <2>10. Next
      BY DEF vars
    <2> QED
      BY <2>3, <2>4, <2>5, <2>6, <2>7, <2>8, <2>9, <2>10
      DEF Next, ProcessStep, ServeStep, CallStep
  <1>2. Spec => [][A]_vars
    BY <1>1, DaemonInvariant, PTL DEF Spec
  <1> QED
    BY <1>2, PTL DEF OwnSocketOnly

-----------------------------------------------------------------------------
(* Why a daemon that was told ends, and that a stop which returns Ok told  *)
(* one.                                                                    *)

\* How far a process is between its start and its end.
Age(at) ==
  CASE at = "unborn"     -> 0
    [] at = "looking"    -> 1
    [] at = "probing"    -> 2
    [] at = "clearing"   -> 3
    [] at = "booting"    -> 4
    [] at = "booted"     -> 5
    [] at = "unlinking"  -> 6
    [] at = "binding"    -> 7
    [] at = "permitting" -> 8
    [] at = "serving"    -> 9
    [] at = "stopping"   -> 10
    [] at \in {"closing", "unserved"} -> 11
    [] at = "gone"       -> 12

\* A process that has booted, and a daemon among them, which has no window to live on for.
HasBooted == {"booted", "unlinking", "binding", "permitting", "serving",
              "stopping", "closing", "unserved", "gone"}
OfDaemons == Phases \ {"looking", "probing", "clearing", "unserved"}

\* One process gets older, the others stay.
GrowsOlder(p) ==
  /\ Age(phase[p]) < Age(phase'[p])
  /\ phase[p] \in HasBooted => phase'[p] \in HasBooted
  /\ p \in Daemons /\ phase[p] \in OfDaemons => phase'[p] \in OfDaemons
  /\ \A q \in Processes : q # p => phase'[q] = phase[q]

\* A step along these phases is such a step.
LEMMA ReachOlder ==
  ASSUME TypeOK, NEW p \in Processes, NEW from, NEW to \in Phases, Reach(p, from, to),
         Age(from) < Age(to), from \in HasBooted => to \in HasBooted,
         p \in Daemons /\ from \in OfDaemons => to \in OfDaemons
  PROVE  GrowsOlder(p)
  BY ReachTypes DEF GrowsOlder

\* Every step of a process makes it older, or is a ctrl-c.
LEMMA ProcessesOlder ==
  ASSUME TypeOK, NEW p \in Processes,
         Foreground(p) \/ Launch(p) \/ AcceptFails(p) \/ Die(p) \/ ProcessStep(p)
  PROVE  GrowsOlder(p)
  <1> USE DEF Phases, HasBooted, OfDaemons
  <1>1. CASE Foreground(p) \/ Launch(p)
    BY <1>1, ReachOlder DEF Foreground, Launch, Daemons, Age
  <1>2. CASE Look(p)
    <2>1. Reach(p, "looking", "booting") \/ Reach(p, "looking", "probing")
      BY <1>2 DEF Look
    <2> QED BY <2>1, ReachOlder DEF Age
  <1>3. CASE Probe(p)
    <2>1. Reach(p, "probing", "gone") \/ Reach(p, "probing", "clearing")
      BY <1>3 DEF Probe
    <2> QED BY <2>1, ReachOlder DEF Age
  <1>4. CASE Clear(p) \/ Boot(p) \/ BootFails(p)
    BY <1>4, ReachOlder DEF Clear, Boot, BootFails, Age
  <1>5. ASSUME NEW from \in {"unlinking", "binding", "permitting", "serving"},
               ServeFails(p, from)
        PROVE  GrowsOlder(p)
    <2>1. CASE p \in Desktops
      <3>1. Reach(p, from, "unserved") /\ p \notin Daemons
        BY <1>5, <2>1 DEF ServeFails, Daemons
      <3> QED BY <3>1, ReachOlder DEF Age
    <2>2. CASE p \notin Desktops
      <3>1. Reach(p, from, "gone")
        BY <1>5, <2>2 DEF ServeFails
      <3> QED BY <3>1, ReachOlder DEF Age
    <2> QED BY <2>1, <2>2
  <1>6. CASE Serve(p)
    <2>1. Reach(p, "booted", "binding") \/ Reach(p, "booted", "unlinking")
      BY <1>6 DEF Serve
    <2> QED BY <2>1, ReachOlder DEF Age
  <1>7. CASE UnlinkStale(p)
    <2>1. CASE Reach(p, "unlinking", "binding")
      BY <2>1, ReachOlder DEF Age
    <2> QED BY <1>5, <1>7, <2>1 DEF UnlinkStale
  <1>8. CASE Bind(p)
    <2>1. CASE Reach(p, "binding", "permitting")
      BY <2>1, ReachOlder DEF Age
    <2> QED BY <1>5, <1>8, <2>1 DEF Bind
  <1>9. CASE SetPermissions(p)
    <2>1. CASE Reach(p, "permitting", "serving")
      BY <2>1, ReachOlder DEF Age
    <2> QED BY <1>5, <1>9, <2>1 DEF SetPermissions
  <1>10. CASE AcceptFails(p)
    BY <1>5, <1>10 DEF AcceptFails
  <1>11. CASE Shutdown(p)
    BY <1>11, ReachOlder DEF Shutdown, Age
  <1>12. CASE Unlink(p)
    <2>1. CASE p \in Desktops
      <3>1. Reach(p, "stopping", "unserved") /\ p \notin Daemons
        BY <1>12, <2>1 DEF Unlink, AfterServing, Daemons
      <3> QED BY <3>1, ReachOlder DEF Age
    <2>2. CASE p \notin Desktops
      <3>1. Reach(p, "stopping", "closing")
        BY <1>12, <2>2 DEF Unlink, AfterServing
      <3> QED BY <3>1, ReachOlder DEF Age
    <2> QED BY <2>1, <2>2
  <1>13. CASE Exit(p)
    BY <1>13, ReachOlder DEF Exit, Age
  <1>14. CASE Die(p)
    <2>1. Reach(p, phase[p], "gone") /\ phase[p] \in Phases /\ phase[p] # "gone"
      BY <1>14 DEF Die, Alive, Reach, TypeOK
    <2>2. Age(phase[p]) < Age("gone")
      BY <2>1 DEF Age
    <2> QED BY <2>1, <2>2, ReachOlder
  <1> QED
    BY <1>1, <1>2, <1>3, <1>4, <1>6, <1>7, <1>8, <1>9, <1>10, <1>11, <1>12, <1>13, <1>14
    DEF ProcessStep, ServeStep

\* Every step makes at most one process older and leaves the others.
LEMMA StepsOlder ==
  ASSUME TypeOK, [Next]_vars
  PROVE  phase' = phase \/ \E p \in Processes : GrowsOlder(p)
  <1>1. ASSUME NEW c \in Calls, Begin(c) \/ CallStep(c) \/ GiveUp(c)
        PROVE  phase' = phase \/ \E p \in Processes : GrowsOlder(p)
    <2>1. ASSUME NEW p \in Processes, Spawn(c, p)
          PROVE  GrowsOlder(p)
      BY <2>1, ReachOlder DEF Spawn, Phases, HasBooted, OfDaemons, Age
    <2> QED
      BY <1>1, <2>1
      DEF Begin, CallStep, GiveUp, Connect, Accept, SignalShutdown, Answer, HangUp, RemoveStale,
          SpawnFails, Poll
  <1> QED
    BY <1>1, ProcessesOlder DEF Next, CtrlC, vars

\* Whom a call has reached has booted, and so has who was told; a stop returns after it
\* has told its peer.
StopInv ==
  /\ \A p \in told : phase[p] \in HasBooted
  /\ \A p \in Daemons : phase[p] \in OfDaemons
  /\ \A c \in Calls : call[c].peer # None => phase[call[c].peer] \in HasBooted
  /\ \A c \in Stops :
       /\ call[c].phase \notin {"removing", "spawning", "polling"}
       /\ call[c].phase \in {"idle", "asking"} => call[c].peer = None
  /\ \A c \in Stops :
       call[c].phase \in {"signalled", "done"} /\ call[c].peer # None => call[c].peer \in told

\* A step of a call which leaves its peer, where it only says "signalled" or "done" of
\* a stop that has told.
LEMMA StopGoes ==
  ASSUME TypeOK, StopInv, NEW c \in Calls, NEW to \in CallPhases, Goto(c, to),
         UNCHANGED <<phase, told>>,
         c \in Stops => to \notin {"removing", "spawning", "polling"},
         c \in Stops => to \notin {"idle", "asking"} \/ call[c].peer = None,
         c \in Stops /\ to \in {"signalled", "done"} =>
           call[c].peer = None \/ call[c].peer \in told
  PROVE  StopInv'
  <1>1. /\ call'[c].phase = to /\ call'[c].peer = call[c].peer
        /\ \A k \in Calls \ {c} : call'[k] = call[k]
    BY DEF Goto, TypeOK, CallStates
  <1> QED
    BY <1>1 DEF StopInv, Calls

\* Every step keeps it.
LEMMA StopNext ==
  ASSUME DaemonInv, StopInv, [Next]_vars
  PROVE  StopInv'
  <1>0. TypeOK /\ PeerKnown /\ None \notin Processes
    BY DaemonAssumption DEF DaemonInv
  <1>1. ASSUME UNCHANGED <<told, call>>
        PROVE  StopInv'
    <2>1. CASE phase' = phase
      BY <1>1, <2>1 DEF StopInv
    <2>2. ASSUME NEW p \in Processes, GrowsOlder(p)
          PROVE  StopInv'
      <3>1. \A q \in Processes : phase[q] \in HasBooted => phase'[q] \in HasBooted
        BY <2>2 DEF GrowsOlder
      <3>2. \A q \in Daemons : phase'[q] \in OfDaemons
        BY <2>2 DEF GrowsOlder, StopInv, Daemons
      <3>3. \A c \in Calls : call[c].peer # None => call[c].peer \in Processes
        BY <1>0 DEF TypeOK, CallStates
      <3>4. told \subseteq Processes
        BY <1>0 DEF TypeOK
      <3> QED
        BY <1>1, <3>1, <3>2, <3>3, <3>4 DEF StopInv
    <2> QED
      BY <1>0, <2>1, <2>2, StepsOlder
  <1>2. ASSUME NEW p \in Processes, Foreground(p) \/ Launch(p) \/ AcceptFails(p) \/ Die(p)
                                    \/ ProcessStep(p)
        PROVE  StopInv'
    BY <1>1, <1>2
    DEF Foreground, Launch, AcceptFails, Die, ProcessStep, ServeStep, Look, Probe, Clear, Boot,
        BootFails, ServeFails, Serve, UnlinkStale, Bind, SetPermissions, Shutdown, Unlink, Exit
  <1>3. ASSUME NEW p \in Processes, CtrlC(p)
        PROVE  StopInv'
    BY <1>3 DEF CtrlC, Serving, HasBooted, StopInv
  <1>4. ASSUME NEW c \in Calls, Begin(c)
        PROVE  StopInv'
    <2>1. PICK to \in {"asking", "done", "spawning"} :
            Goto(c, to) /\ (c \in Stops => to # "spawning")
      BY <1>4 DEF Begin
    <2>2. UNCHANGED <<phase, told>> /\ call[c].phase = "idle"
      BY <1>4 DEF Begin
    <2>3. c \in Stops => call[c].peer = None
      BY <2>2 DEF StopInv
    <2> QED
      BY <1>0, <2>1, <2>2, <2>3, StopGoes DEF CallPhases
  <1>5. ASSUME NEW c \in Calls, Connect(c)
        PROVE  StopInv'
    <2>1. CASE socket # None /\ Listening(socket)
      <3>1. call' = [call EXCEPT ![c].phase = "waiting", ![c].peer = socket]
            /\ socket \in Processes /\ UNCHANGED <<phase, told>>
        BY <1>0, <1>5, <2>1 DEF Connect, TypeOK
      <3>2. /\ call'[c].phase = "waiting" /\ call'[c].peer = socket
            /\ \A k \in Calls \ {c} : call'[k] = call[k]
        BY <1>0, <3>1 DEF TypeOK, CallStates
      <3>3. phase[socket] \in HasBooted
        BY <2>1 DEF Listening, HasBooted
      <3>4. \A k \in Calls : call'[k].peer # None => phase[call'[k].peer] \in HasBooted
        BY <3>2, <3>3 DEF StopInv
      <3>5. \A k \in Stops : call'[k] = call[k] \/ call'[k].phase = "waiting"
        BY <3>2 DEF Calls
      <3>6. phase' = phase /\ told' = told
        BY <3>1
      <3> HIDE DEF HasBooted, OfDaemons
      <3> QED
        BY <3>4, <3>5, <3>6 DEF StopInv
    <2>2. CASE Goto(c, Failing(c))
      <3>1. UNCHANGED <<phase, told>>
        BY <1>5 DEF Connect
      <3> QED
        BY <1>0, <2>2, <3>1, StopGoes DEF Failing, CallPhases
    <2> QED
      BY <1>5, <2>1, <2>2 DEF Connect
  <1>6. ASSUME NEW c \in Calls, Accept(c)
        PROVE  StopInv'
    BY <1>0, <1>6, StopGoes DEF Accept, CallPhases
  <1>7. ASSUME NEW c \in Calls, SignalShutdown(c)
        PROVE  StopInv'
    <2>1. /\ call'[c].phase = "signalled" /\ call'[c].peer = call[c].peer
          /\ \A k \in Calls \ {c} : call'[k] = call[k]
      BY <1>0, <1>7 DEF SignalShutdown, Goto, TypeOK, CallStates
    <2>2. /\ told' = told \cup {call[c].peer} /\ phase' = phase
          /\ call[c].peer \in Processes /\ phase[call[c].peer] \in HasBooted
      BY <1>0, <1>7 DEF SignalShutdown, Told, Peer, PeerKnown, StopInv
    <2> QED
      BY <2>1, <2>2 DEF StopInv, Calls
  <1>8. ASSUME NEW c \in Calls, Answer(c)
        PROVE  StopInv'
    <2>1. c \in Stops => call[c].peer = None \/ call[c].peer \in told
      BY <1>8 DEF Answer, StopInv
    <2> QED
      BY <1>0, <1>8, <2>1, StopGoes DEF Answer, CallPhases
  <1>9. ASSUME NEW c \in Calls, HangUp(c)
        PROVE  StopInv'
    BY <1>0, <1>9, StopGoes DEF HangUp, Failing, CallPhases
  <1>10. ASSUME NEW c \in Calls, RemoveStale(c) \/ SpawnFails(c) \/ Poll(c) \/ GiveUp(c)
         PROVE  StopInv'
    <2>1. c \notin Stops
      BY <1>10 DEF RemoveStale, SpawnFails, Poll, GiveUp, StopInv
    <2> QED
      BY <1>0, <1>10, <2>1, StopGoes DEF RemoveStale, SpawnFails, Poll, GiveUp, CallPhases
  <1>11. ASSUME NEW c \in Calls, NEW p \in Processes, Spawn(c, p)
         PROVE  StopInv'
    <2>1. c \notin Stops /\ told' = told
      BY <1>11 DEF Spawn, StopInv
    <2>2. call'[c].peer = call[c].peer /\ \A k \in Calls \ {c} : call'[k] = call[k]
      BY <1>0, <1>11 DEF Spawn, TypeOK, CallStates
    <2>3. GrowsOlder(p)
      BY <1>0, <1>11, ReachOlder DEF Spawn, Phases, HasBooted, OfDaemons, Age
    <2>4. \A q \in Processes : phase[q] \in HasBooted => phase'[q] \in HasBooted
      BY <2>3 DEF GrowsOlder
    <2>5. \A q \in Daemons : phase'[q] \in OfDaemons
      BY <2>3 DEF GrowsOlder, StopInv, Daemons
    <2>6. told \subseteq Processes /\ \A k \in Calls : call[k].peer \in Processes \cup {None}
      BY <1>0 DEF TypeOK, CallStates
    <2> QED
      BY <2>1, <2>2, <2>4, <2>5, <2>6 DEF StopInv, Calls
  <1> QED
    BY <1>1, <1>2, <1>3, <1>4, <1>5, <1>6, <1>7, <1>8, <1>9, <1>10, <1>11
    DEF Next, CallStep, vars

\* No process ever goes back in its life: at most its steps are used up, and what
\* DaemonEnds waits for comes after finitely many (serve and daemon::foreground have
\* no way back to the accept loop).
THEOREM ProcessesOnlyAge ==
  Spec => [][\A p \in Processes : phase'[p] # phase[p] => Age(phase[p]) < Age(phase'[p])]_vars
  <1> DEFINE A == \A p \in Processes :
                    phase'[p] # phase[p] => Age(phase[p]) < Age(phase'[p])
  <1>1. TypeOK /\ [Next]_vars => A
    BY StepsOlder DEF GrowsOlder
  <1> HIDE DEF A
  <1>2. Spec => [][A]_vars
    BY <1>1, DaemonTypeCorrect, PTL DEF Spec
  <1> QED
    BY <1>2 DEF A

\* A `daemon stop` that returns Ok found no socket, or has signalled the very process
\* that answered it.  A daemon that was signalled is serving, about to, on its way out
\* or gone, and never where it could stay for good, as a desktop without its server.
StopIsHeard ==
  /\ \A c \in Stops :
       call[c].phase = "done" /\ call[c].peer # None => call[c].peer \in told
  /\ \A p \in told \cap Daemons : phase[p] \in Serving \cup {"stopping", "closing", "gone"}

THEOREM StopReachesItsPeer == Spec => []StopIsHeard
  <1>1. Init => StopInv
    BY DaemonAssumption DEF Init, StopInv, OfDaemons, Phases, Daemons, Calls
  <1>2. DaemonInv /\ StopInv /\ [Next]_vars => StopInv'
    BY StopNext
  <1>3. StopInv => StopIsHeard
    BY DEF StopInv, StopIsHeard, HasBooted, OfDaemons, Serving, Phases
  <1> QED
    BY <1>1, <1>2, <1>3, DaemonInvariant, PTL DEF Spec
=============================================================================
