------------------------------- MODULE Launcher -------------------------------
(***************************************************************************)
(* The launcher (scripts/opjev.mjs) and the installation it does at each   *)
(* start (scripts/install-plugin.mjs): an operating-system process that    *)
(* takes a lock file, checks its runtime, installs the plugin, and starts  *)
(* a server, a gateway and a TUI, in that order.  A signal begins the one  *)
(* shutdown of the launcher while its start goes on; a kill ends it where  *)
(* it stands, with its children alive and its lock in place.               *)
(*                                                                         *)
(* An operator removes a stale lock as the launcher asks: when the process *)
(* it names and all its children are gone.                                 *)
(***************************************************************************)
EXTENDS Integers, FiniteSets

CONSTANTS
  Launchers,    \* processes of the launcher
  MaxFailures   \* bound: failures of the checks, the children and the lock's updates

ASSUME LauncherAssumption == MaxFailures \in Nat /\ "nobody" \notin Launchers

VARIABLES
  lockFile,    \* active.json: who made it, and the children it names
  plugin,      \* the plugin's directory in the profile
  starting,    \* each launcher's place in launch
  signalled,   \* signalCode
  stopping,    \* shutdownPromise: the children it still has to stop
  child,       \* each launcher's server, gateway and tui
  failures

launcherVars == <<lockFile, plugin, starting, signalled, stopping, child, failures>>

-----------------------------------------------------------------------------

Children  == {"server", "gateway", "tui"}
StopOrder == [tui |-> 1, gateway |-> 2, server |-> 3]

NoFile     == [by |-> "nobody", names |-> {}, readable |-> TRUE]
NoShutdown == {"none"}

Places == {"none", "checking", "preparing", "ported", "serverUp", "serverReady", "probed",
           "gatewayUp", "gatewayReady", "connected", "tuiUp", "attached",
           "closing", "ended", "refused", "killed"}

Alive(l)    == starting[l] \notin {"none", "ended", "refused", "killed"}
Up(l, c)    == child[l][c] \in {"up", "ending"}
AnyUp(l)    == \E c \in Children : Up(l, c)
Failing     == failures < MaxFailures /\ failures' = failures + 1
Goes(l, to) == starting' = [starting EXCEPT ![l] = to]

\* Those that stopChild finds running.
Running(l, those) == {c \in those : Up(l, c)}

LauncherInit ==
  /\ lockFile = NoFile
  /\ plugin = "absent"
  /\ starting = [l \in Launchers |-> "none"]
  /\ signalled = [l \in Launchers |-> FALSE]
  /\ stopping = [l \in Launchers |-> NoShutdown]
  /\ child = [l \in Launchers |-> [c \in Children |-> "none"]]
  /\ failures = 0

-----------------------------------------------------------------------------
(* The lock file *)

\* acquireLock: the file is made exclusively.
Acquire(l) ==
  /\ starting[l] = "none"
  /\ lockFile = NoFile
  /\ lockFile' = [by |-> l, names |-> {}, readable |-> TRUE]
  /\ Goes(l, "checking")
  /\ UNCHANGED <<plugin, signalled, stopping, child, failures>>

\* It exists: whoever made it, and whatever is left of them, nothing is started.
Refused(l) ==
  /\ starting[l] = "none"
  /\ lockFile # NoFile
  /\ Goes(l, "refused")
  /\ UNCHANGED <<lockFile, plugin, signalled, stopping, child, failures>>

\* update writes through the descriptor that made the file.
Names(l, c) ==
  lockFile' = IF lockFile.by = l THEN [lockFile EXCEPT !.names = @ \cup {c}] ELSE lockFile

\* release: removed only if it is still this launcher's.
Released(l) ==
  lockFile' = IF lockFile.by = l /\ lockFile.readable THEN NoFile ELSE lockFile

\* What status says of a lock that a dead launcher left.
OrphanReported == {c \in {"server", "gateway"} : c \in lockFile.names /\ Up(lockFile.by, c)}

OperatorRemoves ==
  /\ lockFile # NoFile
  /\ ~Alive(lockFile.by)
  /\ OrphanReported = {} /\ ~AnyUp(lockFile.by)
  /\ lockFile' = NoFile
  /\ UNCHANGED <<plugin, starting, signalled, stopping, child, failures>>

-----------------------------------------------------------------------------
(* The start *)

\* verifyRuntime and verifyJev hold, and no signal came meanwhile.
Checked(l) ==
  /\ starting[l] = "checking" /\ ~signalled[l]
  /\ Goes(l, "preparing")
  /\ UNCHANGED <<lockFile, plugin, signalled, stopping, child, failures>>

\* The profile and the plugin are written without a pause, and a port is chosen.  The
\* directory must be new or hold the package of this plugin.
Installed(l) ==
  /\ starting[l] = "preparing"
  /\ plugin \in {"absent", "owned"}
  /\ plugin' = "owned"
  /\ Goes(l, "ported")
  /\ UNCHANGED <<lockFile, signalled, stopping, child, failures>>

InstallRefused(l) ==
  /\ starting[l] = "preparing"
  /\ plugin = "unowned"
  /\ Goes(l, "closing")
  /\ UNCHANGED <<lockFile, plugin, signalled, stopping, child, failures>>

\* Mutant of MaySpawn: the plugin's RPC was probed, and the signal that came meanwhile is not looked at
MaySpawnUnchecked(l) == starting[l] = "probed" \/ ~signalled[l]

\* A child is started where the launcher has looked at the signal last.
MaySpawn(l) == ~signalled[l]

Spawns == [ported |-> "server", probed |-> "gateway", connected |-> "tui"]
Spawned == [server |-> "serverUp", gateway |-> "gatewayUp", tui |-> "tuiUp"]
Recorded == [serverUp |-> "serverReady", gatewayUp |-> "gatewayReady", tuiUp |-> "attached"]
ChildOf == [serverUp |-> "server", gatewayUp |-> "gateway", tuiUp |-> "tui"]

Spawn(l) ==
  /\ starting[l] \in DOMAIN Spawns
  /\ MaySpawn(l)
  /\ LET c == Spawns[starting[l]] IN
       /\ child' = [child EXCEPT ![l][c] = "up"]
       /\ Goes(l, Spawned[c])
  /\ UNCHANGED <<lockFile, plugin, signalled, stopping, failures>>

SpawnFails(l) ==
  /\ starting[l] \in DOMAIN Spawns
  /\ MaySpawn(l)
  /\ Failing
  /\ LET c == Spawns[starting[l]] IN
       /\ child' = [child EXCEPT ![l][c] = "down"]
       /\ Goes(l, Spawned[c])
  /\ UNCHANGED <<lockFile, plugin, signalled, stopping>>

\* updateLock, in the same turn as the start of the child it names.
Record(l) ==
  /\ starting[l] \in DOMAIN Recorded
  /\ Names(l, ChildOf[starting[l]])
  /\ Goes(l, Recorded[starting[l]])
  /\ UNCHANGED <<plugin, signalled, stopping, child, failures>>

RecordFails(l) ==
  /\ starting[l] \in DOMAIN Recorded
  /\ Failing
  /\ lockFile' \in {lockFile, IF lockFile.by = l THEN [lockFile EXCEPT !.readable = FALSE]
                                                ELSE lockFile}
  /\ Goes(l, "closing")
  /\ UNCHANGED <<plugin, signalled, stopping, child>>

\* waitFor: the server answers with its version and its plugin has the RPC.
ServerReady(l) ==
  /\ starting[l] = "serverReady" /\ Up(l, "server")
  /\ ~signalled[l]
  /\ Goes(l, "probed")
  /\ UNCHANGED <<lockFile, plugin, signalled, stopping, child, failures>>

\* The gateway said its port and passes a request on to the server.
Connected(l) ==
  /\ starting[l] = "gatewayReady" /\ Up(l, "gateway")
  /\ Goes(l, "connected")
  /\ UNCHANGED <<lockFile, plugin, signalled, stopping, child, failures>>

\* A check fails, a child stops before it is ready, a wait expires, or a signal was seen.
Waiting == {"checking", "preparing", "ported", "serverReady", "probed", "gatewayReady", "connected"}

StartFails(l) ==
  /\ starting[l] \in Waiting
  /\ Failing
  /\ Goes(l, "closing")
  /\ UNCHANGED <<lockFile, plugin, signalled, stopping, child>>

ChildMissing(l) ==
  /\ \/ starting[l] \in {"serverReady"} /\ ~Up(l, "server")
     \/ starting[l] \in {"gatewayReady"} /\ ~Up(l, "gateway")
  /\ Goes(l, "closing")
  /\ UNCHANGED <<lockFile, plugin, signalled, stopping, child, failures>>

Interrupted(l) ==
  /\ starting[l] \in {"checking", "ported", "serverReady", "probed", "connected"}
  /\ signalled[l]
  /\ Goes(l, "closing")
  /\ UNCHANGED <<lockFile, plugin, signalled, stopping, child, failures>>

\* waitForExit(tui).
TuiGone(l) ==
  /\ starting[l] = "attached" /\ ~Up(l, "tui")
  /\ Goes(l, "closing")
  /\ UNCHANGED <<lockFile, plugin, signalled, stopping, child, failures>>

-----------------------------------------------------------------------------
(* The shutdown *)

\* A signal is handled between two turns of the event loop.
Signal(l) ==
  /\ Alive(l) /\ ~signalled[l]
  /\ starting[l] \notin DOMAIN Recorded \cup {"preparing"}
  /\ signalled' = [signalled EXCEPT ![l] = TRUE]
  /\ stopping' = IF stopping[l] = NoShutdown
                   THEN [stopping EXCEPT ![l] = Running(l, Children)]
                   ELSE stopping
  /\ UNCHANGED <<lockFile, plugin, starting, child, failures>>

\* finally: the one shutdown, begun now unless a signal began it.
Shutdown(l) ==
  /\ starting[l] = "closing" /\ stopping[l] = NoShutdown
  /\ stopping' = [stopping EXCEPT ![l] = Running(l, Children)]
  /\ UNCHANGED <<lockFile, plugin, starting, signalled, child, failures>>

BeingStopped(l, c) ==
  /\ Alive(l) /\ c \in stopping[l]
  /\ \A d \in stopping[l] : StopOrder[c] <= StopOrder[d]

\* stopChild: asked to end, and after three seconds made to.
Terminate(l, c) ==
  /\ BeingStopped(l, c)
  /\ child[l][c] = "up"
  /\ child' = [child EXCEPT ![l][c] = "ending"]
  /\ UNCHANGED <<lockFile, plugin, starting, signalled, stopping, failures>>

Kill(l, c) ==
  /\ BeingStopped(l, c)
  /\ child[l][c] = "ending"
  /\ child' = [child EXCEPT ![l][c] = "down"]
  /\ UNCHANGED <<lockFile, plugin, starting, signalled, stopping, failures>>

Stopped(l, c) ==
  /\ BeingStopped(l, c)
  /\ child[l][c] = "down"
  /\ stopping' = [stopping EXCEPT ![l] = Running(l, @ \ {c})]
  /\ UNCHANGED <<lockFile, plugin, starting, signalled, child, failures>>

\* Mutant of MayRelease: the lock is released as soon as the shutdown has begun
MayReleaseEarly(l) == stopping[l] # NoShutdown

MayRelease(l) == stopping[l] = {}

Ends(l) ==
  /\ starting[l] = "closing" /\ MayRelease(l)
  /\ Released(l)
  /\ Goes(l, "ended")
  /\ UNCHANGED <<plugin, signalled, stopping, child, failures>>

-----------------------------------------------------------------------------
(* What happens to processes *)

ChildEnds(l, c) ==
  /\ Up(l, c)
  /\ Failing \/ (c = "tui" /\ UNCHANGED failures)
  /\ child' = [child EXCEPT ![l][c] = "down"]
  /\ UNCHANGED <<lockFile, plugin, starting, signalled, stopping>>

\* Killed, also between the directory's creation and the package that makes it the
\* plugin's own: the next installation takes it for somebody else's.
Killed(l) ==
  /\ Alive(l)
  /\ Failing
  /\ Goes(l, "killed")
  /\ plugin' \in IF starting[l] = "preparing" /\ plugin = "absent"
                   THEN {"absent", "unowned"} ELSE {plugin}
  /\ UNCHANGED <<lockFile, signalled, stopping, child>>

\* What a killed launcher leaves is stopped by hand.
OrphanStopped(l, c) ==
  /\ starting[l] \in {"killed"} /\ Up(l, c)
  /\ child' = [child EXCEPT ![l][c] = "down"]
  /\ UNCHANGED <<lockFile, plugin, starting, signalled, stopping, failures>>

OwnStep(l) ==
  \/ Acquire(l) \/ Refused(l)
  \/ Checked(l) \/ Installed(l) \/ InstallRefused(l)
  \/ Spawn(l) \/ Record(l) \/ ServerReady(l) \/ Connected(l)
  \/ ChildMissing(l) \/ Interrupted(l) \/ TuiGone(l)
  \/ Shutdown(l) \/ Ends(l)
  \/ \E c \in Children : Terminate(l, c) \/ Kill(l, c) \/ Stopped(l, c)

LauncherNext ==
  \/ OperatorRemoves
  \/ \E l \in Launchers :
       \/ OwnStep(l)
       \/ SpawnFails(l) \/ RecordFails(l) \/ StartFails(l)
       \/ Signal(l) \/ Killed(l)
       \/ \E c \in Children : ChildEnds(l, c) \/ OrphanStopped(l, c)

LauncherSpec == LauncherInit /\ [][LauncherNext]_launcherVars

\* Every wait of the launcher has a deadline, and a child is killed in the end.
LauncherFairness == \A l \in Launchers : WF_launcherVars(OwnStep(l))

-----------------------------------------------------------------------------
(* Properties *)

LauncherTypeOK ==
  /\ lockFile \in [by : Launchers, names : SUBSET Children, readable : BOOLEAN] \cup {NoFile}
  /\ plugin \in {"absent", "unowned", "owned"}
  /\ starting \in [Launchers -> Places]
  /\ signalled \in [Launchers -> BOOLEAN]
  /\ stopping \in [Launchers -> (SUBSET Children) \cup {NoShutdown}]
  /\ child \in [Launchers -> [Children -> {"none", "up", "ending", "down"}]]
  /\ failures \in 0..MaxFailures

\* No managed process lives without the lock of its launcher: whatever was signalled,
\* killed, or failed on the way, nobody else can start beside it (opjev.mjs:354,
\* "A previous OPJEV launcher left a managed child process active; refusing to start a
\* duplicate").
LockCoversChildren ==
  \A l \in Launchers : AnyUp(l) => lockFile.by = l

\* A launcher that was signalled ends, with its lock given back, unless it is killed or
\* its lock cannot be written (opjev.mjs:852).
SignalledEnds ==
  \A l \in Launchers :
    signalled[l] ~> (starting[l] = "killed" \/ (starting[l] = "ended" /\ ~AnyUp(l)))
=============================================================================
