------------------------------- MODULE Daemon ------------------------------
(***************************************************************************)
(* The processes that may serve a data directory, and the socket file by   *)
(* which the CLI finds the one that does: serve in shmark-api, the         *)
(* daemon commands of shmark-cli with its client.rs, and the setup of the  *)
(* desktop app, shmark-tauri.                                              *)
(*                                                                         *)
(* A process of the model runs once: a restart is another process.  The    *)
(* socket file belongs to the listener that was bound to it, which may be  *)
(* dead by now, or still be alive after the file was removed.              *)
(***************************************************************************)
CONSTANTS
  Processes,        \* daemons (`shmark daemon foreground`) and
  Desktops,         \* among them, those that are shmark-tauri
  Starts, Stops,    \* the calls of `daemon start` and `daemon stop`
  StoresExclusive,  \* whether iroh's stores refuse a second process
  None

Calls == Starts \cup Stops
Daemons == Processes \ Desktops

ASSUME DaemonAssumption ==
  /\ Desktops \subseteq Processes /\ Starts \cap Stops = {}
  /\ StoresExclusive \in BOOLEAN
  /\ None \notin Processes

VARIABLES
  phase,   \* process -> where it is between its start and its end
  socket,  \* the process whose listener shmark.sock belongs to, or None
  told,    \* the processes whose shutdown Notify has been signalled
  call     \* the calls of the CLI

vars == <<phase, socket, told, call>>

Phases == {"unborn", "looking", "probing", "clearing",       \* the desktop, before it boots
           "booting", "booted", "unlinking", "binding", "permitting", "serving",
           "stopping", "closing", "unserved", "gone"}

CallPhases == {"idle", "asking", "waiting", "accepted", "signalled",
               "removing", "spawning", "polling", "done", "failed"}

CallStates == [phase : CallPhases, peer : Processes \cup {None}, spawned : BOOLEAN]

Init ==
  /\ phase = [p \in Processes |-> "unborn"]
  /\ socket = None
  /\ told = {}
  /\ call = [c \in Calls |-> [phase |-> "idle", peer |-> None, spawned |-> FALSE]]

-----------------------------------------------------------------------------
Serving == {"booted", "unlinking", "binding", "permitting", "serving"}

\* Who has the stores of the data directory open: from boot until the process ends,
\* its server long gone.
ServersOnly == {p \in Processes : phase[p] \in Serving}
Owners == {p \in Processes : phase[p] \in Serving \cup {"stopping", "closing", "unserved"}}

Listening(p) == phase[p] \in {"permitting", "serving", "stopping"}
Alive(p) == phase[p] \notin {"unborn", "gone"}

Reach(p, from, to) == phase[p] = from /\ phase' = [phase EXCEPT ![p] = to]

-----------------------------------------------------------------------------
(* A process, from its start to its end.                                   *)

\* `daemon foreground`, by hand; nothing is asked of the socket.
Foreground(p) ==
  /\ p \in Daemons
  /\ Reach(p, "unborn", "booting")
  /\ UNCHANGED <<socket, told, call>>

Launch(p) ==
  /\ p \in Desktops
  /\ Reach(p, "unborn", "looking")
  /\ UNCHANGED <<socket, told, call>>

\* The desktop's setup: does the socket exist, does anyone accept at it?
Look(p) ==
  /\ Reach(p, "looking", IF socket = None THEN "booting" ELSE "probing")
  /\ UNCHANGED <<socket, told, call>>

Probe(p) ==
  /\ Reach(p, "probing", IF socket # None /\ Listening(socket) THEN "gone" ELSE "clearing")
  /\ UNCHANGED <<socket, told, call>>

Clear(p) ==
  /\ Reach(p, "clearing", "booting")
  /\ socket' = None
  /\ UNCHANGED <<told, call>>

\* AppState::boot opens the stores, or fails and the process ends.
Boot(p) ==
  /\ StoresExclusive => Owners = {}
  /\ Reach(p, "booting", "booted")
  /\ UNCHANGED <<socket, told, call>>

BootFails(p) ==
  /\ Reach(p, "booting", "gone")
  /\ UNCHANGED <<socket, told, call>>

\* serve: exists(), remove_file, bind, set_permissions.  Where one fails, for what
\* is at the path or for an error of the system, serve returns: a daemon exits, the
\* desktop goes on without a server.
ServeFails(p, from) ==
  /\ Reach(p, from, IF p \in Desktops THEN "unserved" ELSE "gone")
  /\ UNCHANGED <<socket, told, call>>

Serve(p) ==
  /\ Reach(p, "booted", IF socket = None THEN "binding" ELSE "unlinking")
  /\ UNCHANGED <<socket, told, call>>

UnlinkStale(p) ==
  \/ /\ socket # None
     /\ Reach(p, "unlinking", "binding")
     /\ socket' = None
     /\ UNCHANGED <<told, call>>
  \/ ServeFails(p, "unlinking")

Bind(p) ==
  \/ /\ socket = None
     /\ Reach(p, "binding", "permitting")
     /\ socket' = p
     /\ UNCHANGED <<told, call>>
  \/ ServeFails(p, "binding")

SetPermissions(p) ==
  \/ /\ socket # None
     /\ Reach(p, "permitting", "serving")
     /\ UNCHANGED <<socket, told, call>>
  \/ ServeFails(p, "permitting")

\* accept() fails: serve returns, the socket file stays.
AcceptFails(p) == ServeFails(p, "serving")

\* The accept loop takes the permit that notify_one left, and ends.
Shutdown(p) ==
  /\ p \in told
  /\ Reach(p, "serving", "stopping")
  /\ UNCHANGED <<socket, told, call>>

\* remove_file of whatever is at the path, and the listener is dropped.  The
\* desktop's server is a task of its own: nobody waits for its end.
WithoutServer(p) == "unserved"
AfterServing(p) == IF p \in Desktops THEN "unserved" ELSE "closing"

Unlink(p) ==
  /\ Reach(p, "stopping", AfterServing(p))
  /\ socket' = None
  /\ UNCHANGED <<told, call>>

\* node.shutdown(), and main returns.
Exit(p) ==
  /\ Reach(p, "closing", "gone")
  /\ UNCHANGED <<socket, told, call>>

\* foreground has ctrl-c signal its own shutdown.
CtrlC(p) ==
  /\ p \in Daemons /\ phase[p] \in Serving
  /\ told' = told \cup {p}
  /\ UNCHANGED <<phase, socket, call>>

\* Killed, crashed, or app.exit(0) of the tray's "Quit": the socket file stays.
Die(p) ==
  /\ Alive(p)
  /\ phase' = [phase EXCEPT ![p] = "gone"]
  /\ UNCHANGED <<socket, told, call>>

-----------------------------------------------------------------------------
(* The CLI.                                                                *)

\* The process whose AppState the handler of the connection has.
Peer(c) == call[c].peer
ToldAtSocket(c) == told \cup {socket}
Told(c) == told \cup {Peer(c)}

Goto(c, to) == call' = [call EXCEPT ![c].phase = to]

\* What a call does with an error of client::call.
Failing(c) ==
  IF c \in Stops THEN "failed" ELSE IF call[c].spawned THEN "polling" ELSE "removing"

\* socket.exists(): without one there is nothing to stop, and all to start.
Begin(c) ==
  /\ call[c].phase = "idle"
  /\ Goto(c, IF socket # None THEN "asking" ELSE IF c \in Stops THEN "done" ELSE "spawning")
  /\ UNCHANGED <<phase, socket, told>>

\* client::call connects to whoever listens at the path by now ...
Connect(c) ==
  /\ call[c].phase = "asking"
  /\ IF socket # None /\ Listening(socket)
     THEN call' = [call EXCEPT ![c].phase = "waiting", ![c].peer = socket]
     ELSE Goto(c, Failing(c))
  /\ UNCHANGED <<phase, socket, told>>

\* ... is accepted ...
Accept(c) ==
  /\ call[c].phase = "waiting"
  /\ phase[Peer(c)] = "serving"
  /\ Goto(c, "accepted")
  /\ UNCHANGED <<phase, socket, told>>

\* ... and answered: daemon_status at once, daemon_stop after signal_shutdown.
SignalShutdown(c) ==
  /\ call[c].phase = "accepted" /\ c \in Stops
  /\ Alive(Peer(c))
  /\ told' = Told(c)
  /\ Goto(c, "signalled")
  /\ UNCHANGED <<phase, socket>>

Answer(c) ==
  /\ call[c].phase = IF c \in Stops THEN "signalled" ELSE "accepted"
  /\ Alive(Peer(c))
  /\ Goto(c, "done")
  /\ UNCHANGED <<phase, socket, told>>

\* The peer closes the connection first: still in the backlog when the listener
\* is dropped, or accepted by a process that ends without waiting for it.
RefusedByTheDead(c) == ~Alive(Peer(c))
Refused(c) ==
  IF call[c].phase = "waiting" THEN ~Listening(Peer(c)) ELSE ~Alive(Peer(c))

HangUp(c) ==
  /\ call[c].phase \in {"waiting", "accepted", "signalled"}
  /\ Refused(c)
  /\ Goto(c, Failing(c))
  /\ UNCHANGED <<phase, socket, told>>

\* start removes the file it takes for stale ...
RemoveStale(c) ==
  /\ call[c].phase = "removing"
  /\ socket' = None
  /\ Goto(c, "spawning")
  /\ UNCHANGED <<phase, told>>

\* ... spawns `daemon foreground` ...
Spawn(c, p) ==
  /\ call[c].phase = "spawning"
  /\ p \in Daemons
  /\ Reach(p, "unborn", "booting")
  /\ call' = [call EXCEPT ![c].phase = "polling", ![c].spawned = TRUE]
  /\ UNCHANGED <<socket, told>>

SpawnFails(c) ==
  /\ call[c].phase = "spawning"
  /\ Goto(c, "failed")
  /\ UNCHANGED <<phase, socket, told>>

\* ... and asks until someone answers or five seconds are over.
Poll(c) ==
  /\ call[c].phase = "polling"
  /\ socket # None
  /\ Goto(c, "asking")
  /\ UNCHANGED <<phase, socket, told>>

GiveUp(c) ==
  /\ call[c].phase = "polling"
  /\ Goto(c, "failed")
  /\ UNCHANGED <<phase, socket, told>>

-----------------------------------------------------------------------------
ServeStep(p) ==
  \/ Serve(p) \/ UnlinkStale(p) \/ Bind(p) \/ SetPermissions(p)
  \/ Shutdown(p) \/ Unlink(p)

ProcessStep(p) ==
  Look(p) \/ Probe(p) \/ Clear(p) \/ Boot(p) \/ BootFails(p) \/ ServeStep(p) \/ Exit(p)

CallStep(c) ==
  \/ Connect(c) \/ Accept(c) \/ SignalShutdown(c) \/ Answer(c) \/ HangUp(c)
  \/ RemoveStale(c) \/ SpawnFails(c) \/ Poll(c) \/ \E p \in Processes : Spawn(c, p)

Next ==
  \/ \E p \in Processes : Foreground(p) \/ Launch(p) \/ AcceptFails(p) \/ CtrlC(p) \/ Die(p)
                           \/ ProcessStep(p)
  \/ \E c \in Calls : Begin(c) \/ CallStep(c) \/ GiveUp(c)

Spec == Init /\ [][Next]_vars

\* A process that runs goes on, the CLI too, and five seconds do pass.
Fairness ==
  /\ \A p \in Processes : WF_vars(ProcessStep(p))
  /\ \A c \in Calls : WF_vars(CallStep(c)) /\ SF_vars(GiveUp(c))

FairSpec == Spec /\ Fairness

-----------------------------------------------------------------------------
(* What must hold.                                                         *)

TypeOK ==
  /\ phase \in [Processes -> Phases]
  /\ socket \in Processes \cup {None}
  /\ told \subseteq Processes
  /\ call \in [Calls -> CallStates]

\* At most one process accepts connections for the data directory, however
\* starts, launches, stops and crashes overlap, if the stores let one process
\* in: a listener lives no longer than its process holds the stores.
OneListener ==
  StoresExclusive => \A p, q \in Processes : Listening(p) /\ Listening(q) => p = q

\* No server takes the socket file away from another one that is listening, not
\* even a server that ends late: only a `daemon start` or a desktop that found
\* nobody at the socket some time before may do so.
TookForStale ==
  \/ \E c \in Calls : call[c].phase = "removing" /\ call'[c].phase = "spawning"
  \/ \E p \in Processes : phase[p] = "clearing" /\ phase'[p] = "booting"

OwnSocketOnly ==
  [][StoresExclusive =>
      \A p \in Processes :
        socket = p /\ phase[p] \in {"permitting", "serving"} /\ socket' # p => TookForStale]_vars

\* A daemon told to stop ends, by ctrl-c or a call, whatever it was at.
DaemonEnds == \A p \in Daemons : p \in told ~> phase[p] = "gone"

\* `daemon start` and `daemon stop` return: client::call has no timeout, and no
\* server leaves them waiting.
CallEnds ==
  \A c \in Calls : call[c].phase # "idle" ~> call[c].phase \in {"done", "failed"}

-----------------------------------------------------------------------------
\* "Ask the running daemon to shut down" (daemon.rs:18), which the desktop app
\* tells its user to do with a daemon that is in its way: who was told, ends.
StopShutsDown == \A p \in Processes : p \in told ~> phase[p] = "gone"
=============================================================================
