----------------------------- MODULE LiveSession -----------------------------
(***************************************************************************)
(* One `kira live` session: the supervisor process that watches the        *)
(* sources, rebuilds and reloads (supervisor.zig, supervisor_reload.zig,   *)
(* apple_session.zig), the runner process with its main thread and its     *)
(* reload-listener thread (runner_support.zig, reload_listener.zig), the   *)
(* socket between them, and an editor that saves at any time.              *)
(*                                                                         *)
(* The swap inside the runner is HotSwap seen from outside: a mailbox, and *)
(* a main thread that defers, rejects or applies what is in it.  Frames    *)
(* the supervisor ignores are left out unless they take room in the socket *)
(* where that matters: the app's log lines and the listener's receipts.    *)
(***************************************************************************)
EXTENDS Naturals, Sequences

CONSTANTS
  Desktop,    \* TRUE: runDesktop.  FALSE: driveLiveSession of Apple runners
  HotPatch,   \* FALSE: the runner was started with KIRA_LIVE_NO_HOTPATCH
  Headless,   \* no first frame is required
  Unlinks,    \* editors may remove a file before writing it again
  Dependencies,     \* bundles of a build besides the main one
  UpCap, DownCap,   \* frames the socket holds towards supervisor and runner
  MaxEdits,   \* bound: saves
  MaxLogs,    \* bound: log lines of the app
  None

ASSUME SessionAssumption ==
  /\ {Desktop, HotPatch, Headless, Unlinks} \subseteq BOOLEAN
  /\ UpCap \in Nat \ {0} /\ DownCap \in Nat \ {0}
  /\ Dependencies \in Nat /\ MaxEdits \in Nat /\ MaxLogs \in Nat

\* The sources after save v: which native library and which type layouts
\* they compile to, and whether they compile.
Source == [v : 0 .. MaxEdits, native : {0, 1}, layout : {0, 1}, ok : BOOLEAN]

ASSUME NoneAssumption == None \notin Source

FirstSource == [v |-> 0, native |-> 0, layout |-> 0, ok |-> TRUE]

\* The health markers, those sent together counted once.
Markers == {"graph", "loaded", "started", "frame"}

\* about is history: the program the runner was reporting on.
UpFrame == [kind : Markers \cup {"log", "completed", "restart_required",
                                 "reload_failed", "shutdown_ack"},
            about : Source \cup {None}]

DownFrame == [kind : {"graph", "dep", "main", "shutdown"}, prog : Source]

VARIABLES
  disk, present,      \* the sources, and whether the file exists right now
  tracked,            \* SourceWatcher.files: the save last seen, or None
  listed,             \* refresh: the directory listing had the file
  compiled,           \* the sources buildBundles read; ok FALSE when it failed
  graph,              \* server.graph and connection.graph
  pc,                 \* where the supervisor is
  unsent,             \* frames it still has to write
  markers,            \* health markers it has seen
  reload_generation,
  claim,              \* history: the last `completed` outcome
  ended_by,           \* history: why the session ended
  child,              \* the runner process
  down, up,           \* the socket's two buffers
  main, out_main,     \* the runner's main thread and what it is writing
  listener, out_listener,
  bundle,             \* program in the canonical bundle directory
  received,           \* program in the staging directory
  running, staged,    \* program in force; ReloadState.staged
  completing,         \* ReloadState.completion_pending
  logs                \* log lines so far

sources == <<disk, present>>
watcher == <<tracked, listed>>
super   == <<compiled, graph, pc, unsent, markers, reload_generation, claim, ended_by>>
socket  == <<down, up>>
swap    == <<running, staged, completing>>
runner  == <<main, out_main, listener, out_listener, bundle, received, swap>>
vars == <<sources, watcher, super, child, socket, runner, logs>>

TypeOK ==
  /\ disk \in Source /\ present \in BOOLEAN
  /\ tracked \in 0 .. MaxEdits \cup {None} /\ listed \in BOOLEAN
  /\ compiled \in Source /\ graph \in Source
  /\ pc \in {"watcher", "spawn", "accept", "greet", "health", "watch", "rebuild",
             "refresh", "stat", "send", "await", "quit", "ack", "exit", "ended"}
  /\ unsent \in Seq(DownFrame) /\ markers \subseteq Markers
  /\ reload_generation \in 0 .. MaxEdits
  /\ claim \in [asked : Source, ran : Source]
  /\ ended_by \in {None, "spawn", "handshake", "runner", "disconnected", "watcher", "quit"}
  /\ child \in {"none", "alive", "exited"}
  /\ down \in Seq(DownFrame) /\ up \in Seq(UpFrame)
  /\ main \in {"off", "connect", "receive", "link", "started", "run"}
  /\ out_main \in Seq(UpFrame) /\ out_listener \in Seq(UpFrame)
  /\ listener \in {"off", "read", "dep", "main", "quit", "dead"}
  /\ {bundle, received, running, staged} \subseteq Source \cup {None}
  /\ completing \in BOOLEAN /\ logs \in 0 .. MaxLogs

Init ==
  /\ disk = FirstSource /\ present = TRUE
  /\ tracked = None /\ listed = FALSE
  /\ compiled = FirstSource /\ graph = FirstSource
  /\ pc = IF Desktop THEN "watcher" ELSE "spawn"
  /\ unsent = <<>> /\ markers = {} /\ reload_generation = 0
  /\ claim = [asked |-> FirstSource, ran |-> FirstSource] /\ ended_by = None
  /\ child = "none" /\ down = <<>> /\ up = <<>>
  /\ main = "off" /\ out_main = <<>> /\ listener = "off" /\ out_listener = <<>>
  /\ bundle = None /\ received = None /\ running = None /\ staged = None
  /\ completing = FALSE /\ logs = 0

-----------------------------------------------------------------------------
(* The editor.                                                             *)

\* A save in place, or the second half of one that unlinked the file.
Save(native, layout, ok) ==
  /\ disk.v < MaxEdits
  /\ disk' = [v |-> disk.v + 1, native |-> native, layout |-> layout, ok |-> ok]
  /\ present' = TRUE
  /\ UNCHANGED <<watcher, super, child, socket, runner, logs>>

Unlink ==
  /\ Unlinks /\ present /\ disk.v < MaxEdits
  /\ present' = FALSE
  /\ UNCHANGED <<disk, watcher, super, child, socket, runner, logs>>

-----------------------------------------------------------------------------
(* The supervisor.                                                         *)

\* sendGraphAndBundles: the graph, the dependencies, the main bundle last.
Bundles(p) ==
  <<[kind |-> "graph", prog |-> p]>>
    \o [i \in 1 .. Dependencies |-> [kind |-> "dep", prog |-> p]]
    \o <<[kind |-> "main", prog |-> p]>>

\* SourceWatcher.collectFiles, at creation.
Snapshot == IF present THEN disk.v ELSE None

\* SourceWatcher.changed: a new mtime, a missing file or a new one.
Changed == tracked # Snapshot

EndSession(why) == pc' = "ended" /\ ended_by' = why

\* Threads, memory and unsent frames of the runner are gone.
RunnerStops ==
  /\ main' = "off" /\ out_main' = <<>> /\ listener' = "off" /\ out_listener' = <<>>
  /\ bundle' = None /\ received' = None
  /\ running' = None /\ staged' = None /\ completing' = FALSE

\* killAndWait, then the connection is closed.
KillRunner == child' = "none" /\ down' = <<>> /\ up' = <<>> /\ RunnerStops

CreateWatcher ==
  /\ pc = "watcher"
  /\ tracked' = Snapshot
  /\ pc' = IF Desktop THEN "spawn" ELSE "watch"
  /\ UNCHANGED <<sources, listed, compiled, graph, unsent, markers,
                 reload_generation, claim, ended_by, child, socket, runner, logs>>

Spawn ==
  /\ pc = "spawn"
  /\ pc' = "accept" /\ child' = "alive" /\ main' = "connect"
  /\ UNCHANGED <<sources, watcher, compiled, graph, unsent, markers,
                 reload_generation, claim, ended_by, socket, out_main, listener,
                 out_listener, bundle, received, swap, logs>>

SpawnFails ==
  /\ pc = "spawn" /\ EndSession("spawn")
  /\ UNCHANGED <<sources, watcher, compiled, graph, unsent, markers,
                 reload_generation, claim, child, socket, runner, logs>>

\* acceptClientOrDiagnose: the runner connected, exited early, or neither in
\* 30 seconds.
Accept ==
  /\ pc = "accept" /\ main \notin {"off", "connect"}
  /\ pc' = "greet" /\ unsent' = Bundles(graph) /\ markers' = {}
  /\ UNCHANGED <<sources, watcher, compiled, graph, reload_generation, claim,
                 ended_by, child, socket, runner, logs>>

AcceptFails ==
  /\ pc = "accept" /\ EndSession("handshake")
  /\ IF Desktop THEN KillRunner ELSE UNCHANGED <<child, socket, runner>>
  /\ UNCHANGED <<sources, watcher, compiled, graph, unsent, markers,
                 reload_generation, claim, logs>>

\* sendGraphAndBundles and the shutdown frame: a blocking write.
WriteFrame ==
  /\ pc \in {"greet", "send", "quit"} /\ unsent # <<>>
  /\ child = "alive" /\ Len(down) < DownCap
  /\ down' = Append(down, Head(unsent))
  /\ unsent' = Tail(unsent)
  /\ UNCHANGED <<sources, watcher, compiled, graph, pc, markers,
                 reload_generation, claim, ended_by, child, up, runner, logs>>

Written ==
  /\ pc \in {"greet", "send", "quit"} /\ unsent = <<>>
  /\ pc' = CASE pc = "greet" -> "health" [] pc = "send" -> "await" [] OTHER -> "ack"
  /\ UNCHANGED <<sources, watcher, compiled, graph, unsent, markers,
                 reload_generation, claim, ended_by, child, socket, runner, logs>>

\* A write to a runner that is gone: outside a reload the error ends the session.
WriteFails ==
  /\ pc \in {"greet", "quit"} /\ unsent # <<>> /\ child # "alive"
  /\ unsent' = <<>>
  /\ EndSession("handshake")
  /\ UNCHANGED <<sources, watcher, compiled, graph, markers, reload_generation,
                 claim, child, socket, runner, logs>>

Required == IF Headless THEN Markers \ {"frame"} ELSE Markers

\* waitForHealthMarkers reads a frame.
ReadHealth ==
  LET seen == IF Head(up).kind \in Markers THEN markers \cup {Head(up).kind} ELSE markers
  IN
  /\ pc = "health" /\ up # <<>>
  /\ up' = Tail(up)
  /\ markers' = seen
  /\ pc' = IF ~(Required \subseteq seen) THEN pc
           ELSE IF Desktop THEN "watch" ELSE "watcher"
  /\ UNCHANGED <<sources, watcher, compiled, graph, unsent, reload_generation,
                 claim, ended_by, child, down, runner, logs>>

\* Mutant: a failed handshake is tried again instead of ending the session.
RetryHealth ==
  /\ pc = "health" /\ pc' = "spawn" /\ reload_generation' = reload_generation + 1
  /\ KillRunner
  /\ UNCHANGED <<sources, watcher, compiled, graph, unsent, markers, claim,
                 ended_by, logs>>

\* The runner is gone or 30 seconds passed.
HealthFails ==
  /\ pc = "health" /\ EndSession("handshake")
  /\ IF Desktop THEN KillRunner ELSE UNCHANGED <<child, socket, runner>>
  /\ UNCHANGED <<sources, watcher, compiled, graph, unsent, markers,
                 reload_generation, claim, logs>>

\* The watch loop polls the child, then the sources.
RunnerExited ==
  /\ pc = "watch" /\ child = "exited"
  /\ child' = "none" /\ EndSession("runner")
  /\ UNCHANGED <<sources, watcher, compiled, graph, unsent, markers,
                 reload_generation, claim, socket, runner, logs>>

NoticeChange ==
  /\ pc = "watch" /\ child # "exited" /\ Changed
  /\ pc' = "rebuild"
  /\ UNCHANGED <<sources, watcher, compiled, graph, unsent, markers,
                 reload_generation, claim, ended_by, child, socket, runner, logs>>

\* rebuildBundles reads the sources.
Rebuild ==
  /\ pc = "rebuild"
  /\ compiled' = [disk EXCEPT !.ok = present /\ disk.ok]
  /\ pc' = "refresh"
  /\ UNCHANGED <<sources, watcher, graph, unsent, markers, reload_generation,
                 claim, ended_by, child, socket, runner, logs>>

\* refresh lists the directory, then takes the state of each file listed.
RefreshList ==
  /\ pc = "refresh"
  /\ listed' = present
  /\ pc' = "stat"
  /\ UNCHANGED <<sources, tracked, compiled, graph, unsent, markers,
                 reload_generation, claim, ended_by, child, socket, runner, logs>>

\* A failed rebuild keeps the session; a good one is sent to the runner.
Refresh ==
  /\ pc = "stat" /\ (listed => present)
  /\ tracked' = IF listed THEN disk.v ELSE None
  /\ IF ~compiled.ok
     THEN pc' = "watch" /\ UNCHANGED <<graph, unsent>>
     ELSE graph' = compiled /\ unsent' = Bundles(compiled) /\ pc' = "send"
  /\ UNCHANGED <<sources, listed, compiled, markers, reload_generation, claim,
                 ended_by, child, socket, runner, logs>>

\* statFile fails on a file that vanished after it was listed; runDesktop
\* returns the error without killAndWait.
RefreshFails ==
  /\ pc = "stat" /\ listed /\ ~present
  /\ EndSession("watcher")
  /\ UNCHANGED <<sources, watcher, compiled, graph, unsent, markers,
                 reload_generation, claim, child, socket, runner, logs>>

-----------------------------------------------------------------------------
(* Outcomes of attemptHotReload.                                           *)

\* Mutant: the runner is kept after a failed attempt.
KeepRunner(outcome, unread) ==
  /\ pc' = "watch" /\ unsent' = <<>> /\ up' = unread
  /\ UNCHANGED <<ended_by, reload_generation, child, down, runner>>

\* runDesktop: the runner is killed and a fresh one launched.
Relaunch ==
  /\ KillRunner /\ pc' = "spawn"
  /\ reload_generation' = reload_generation + 1 /\ UNCHANGED ended_by

\* driveLiveSession: Apple runners go on, unless they disconnected.
GoOn(outcome, unread) ==
  /\ IF outcome = "disconnected" THEN EndSession("disconnected")
     ELSE pc' = "watch" /\ UNCHANGED ended_by
  /\ up' = unread
  /\ UNCHANGED <<reload_generation, child, down, runner>>

\* Mutant: the relaunch closes the connection but kills nobody.
RelaunchBeside(outcome, unread) ==
  /\ unsent' = <<>> /\ down' = <<>> /\ up' = <<>> /\ RunnerStops
  /\ pc' = "spawn" /\ reload_generation' = reload_generation + 1
  /\ UNCHANGED <<ended_by, child>>

\* An attempt that did not complete.
FallBack(outcome, unread) ==
  unsent' = <<>> /\ IF Desktop THEN Relaunch ELSE GoOn(outcome, unread)

\* sendGraphAndBundles failed, or the stream ended.
Disconnected ==
  /\ child # "alive"
  /\ \/ pc = "send" /\ unsent # <<>>
     \/ pc = "await" /\ up = <<>>
  /\ FallBack("disconnected", up)
  /\ UNCHANGED <<sources, watcher, compiled, graph, markers, claim, logs>>

\* Mutant: the wait has no limit.
WaitForever == FALSE

\* 20 seconds passed.
DeadlinePassed == pc = "await"

AttemptTimesOut ==
  /\ DeadlinePassed
  /\ FallBack("timed_out", up)
  /\ UNCHANGED <<sources, watcher, compiled, graph, markers, claim, logs>>

ReadIgnored ==
  /\ pc = "await" /\ up # <<>>
  /\ Head(up).kind \notin {"completed", "restart_required", "reload_failed"}
  /\ up' = Tail(up)
  /\ UNCHANGED <<sources, watcher, super, child, down, runner, logs>>

ReadCompleted ==
  /\ pc = "await" /\ up # <<>> /\ Head(up).kind = "completed"
  /\ up' = Tail(up)
  /\ claim' = [asked |-> graph, ran |-> Head(up).about]
  /\ pc' = "watch"
  /\ UNCHANGED <<sources, watcher, compiled, graph, unsent, markers,
                 reload_generation, ended_by, child, down, runner, logs>>

ReadFailure ==
  /\ pc = "await" /\ up # <<>>
  /\ Head(up).kind \in {"restart_required", "reload_failed"}
  /\ FallBack(Head(up).kind, Tail(up))
  /\ UNCHANGED <<sources, watcher, compiled, graph, markers, claim, logs>>

-----------------------------------------------------------------------------
(* Quit-after: finishQuitAfterSession and shutdownSession.                 *)

BeginQuit ==
  /\ pc = "watch"
  /\ unsent' = <<[kind |-> "shutdown", prog |-> graph]>> /\ pc' = "quit"
  /\ UNCHANGED <<sources, watcher, compiled, graph, markers, reload_generation,
                 claim, ended_by, child, socket, runner, logs>>

\* waitForShutdownAck: acknowledged, end of stream, or 2 seconds.
ReadAck ==
  /\ pc = "ack" /\ up # <<>>
  /\ up' = Tail(up)
  /\ pc' = IF Head(up).kind = "shutdown_ack" THEN "exit" ELSE pc
  /\ UNCHANGED <<sources, watcher, compiled, graph, unsent, markers,
                 reload_generation, claim, ended_by, child, down, runner, logs>>

AckTimesOut ==
  /\ pc = "ack" /\ pc' = "exit"
  /\ UNCHANGED <<sources, watcher, compiled, graph, unsent, markers,
                 reload_generation, claim, ended_by, child, socket, runner, logs>>

\* The runner exited by itself or is killed; an Apple app is left alone.
FinishQuit ==
  /\ pc = "exit" /\ EndSession("quit")
  /\ IF Desktop THEN KillRunner ELSE UNCHANGED <<child, socket, runner>>
  /\ UNCHANGED <<sources, watcher, compiled, graph, unsent, markers,
                 reload_generation, claim, logs>>

-----------------------------------------------------------------------------
(* The runner.  A thread that is writing does nothing else.                *)

Marker(m) == <<[kind |-> m, about |-> None]>>
Log == Marker("log")

\* sendText by either thread; blocks while the socket is full.
MainWrites ==
  /\ out_main # <<>> /\ Len(up) < UpCap
  /\ up' = Append(up, Head(out_main)) /\ out_main' = Tail(out_main)
  /\ UNCHANGED <<sources, watcher, super, child, down, main, listener,
                 out_listener, bundle, received, swap, logs>>

ListenerWrites ==
  /\ out_listener # <<>> /\ Len(up) < UpCap
  /\ up' = Append(up, Head(out_listener)) /\ out_listener' = Tail(out_listener)
  /\ UNCHANGED <<sources, watcher, super, child, down, main, out_main, listener,
                 bundle, received, swap, logs>>

\* runLiveFromManifest.
Connect ==
  /\ main = "connect" /\ main' = "receive"
  /\ UNCHANGED <<sources, watcher, super, child, socket, out_main, listener,
                 out_listener, bundle, received, swap, logs>>

\* receiveBundleSet, on the main thread.
ReceiveBundle ==
  LET f == Head(down) IN
  /\ main = "receive" /\ out_main = <<>> /\ down # <<>>
  /\ down' = Tail(down)
  /\ IF f.kind = "main" THEN bundle' = f.prog /\ main' = "link"
                        ELSE UNCHANGED <<bundle, main>>
  /\ out_main' = CASE f.kind = "graph" -> Marker("graph")
                   [] f.kind = "main"  -> Marker("loaded")
                   [] OTHER            -> <<>>
  /\ UNCHANGED <<sources, watcher, super, child, up, listener, out_listener,
                 received, swap, logs>>

\* runBundle: load the runtime, start the listener, enter the program.
Link ==
  /\ main = "link" /\ out_main = <<>>
  /\ running' = bundle
  /\ listener' = IF HotPatch THEN "read" ELSE "off"
  /\ out_main' = Marker("started") /\ main' = "started"
  /\ UNCHANGED <<sources, watcher, super, child, socket, out_listener, bundle,
                 received, staged, completing, logs>>

Entered == main \in {"started", "run"} /\ out_main = <<>>

\* kiraLiveFirstFrameHook.
FirstFrame ==
  /\ Entered /\ main = "started"
  /\ main' = "run" /\ out_main' = Marker("frame")
  /\ UNCHANGED <<sources, watcher, super, child, socket, listener, out_listener,
                 bundle, received, swap, logs>>

\* kiraLiveLogHook.
AppLogs ==
  /\ Entered /\ logs < MaxLogs
  /\ logs' = logs + 1 /\ out_main' = Log
  /\ UNCHANGED <<sources, watcher, super, child, socket, main, listener,
                 out_listener, bundle, received, swap>>

\* enterCallback applies the swap.
ApplySwap ==
  /\ Entered /\ staged # None /\ ~completing
  /\ staged.layout = running.layout
  /\ running' = staged /\ staged' = None /\ completing' = TRUE
  /\ UNCHANGED <<sources, watcher, super, child, socket, main, out_main, listener,
                 out_listener, bundle, received, logs>>

\* exitCallback reports it.
CompleteSwap ==
  /\ Entered /\ completing
  /\ completing' = FALSE
  /\ out_main' = <<[kind |-> "completed", about |-> running]>>
  /\ UNCHANGED <<sources, watcher, super, child, socket, main, listener,
                 out_listener, bundle, received, running, staged, logs>>

\* enterCallback rejects: a layout changed, a live function is gone, or
\* commit failed.
RejectSwap ==
  /\ Entered /\ staged # None /\ ~completing
  /\ staged' = None
  /\ out_main' = <<[kind |-> "reload_failed", about |-> staged]>>
  /\ UNCHANGED <<sources, watcher, super, child, socket, main, listener,
                 out_listener, bundle, received, running, completing, logs>>

\* listenLoop reads a frame.
ListenerReads ==
  LET f == Head(down) IN
  /\ listener = "read" /\ out_listener = <<>> /\ down # <<>>
  /\ down' = Tail(down)
  /\ listener' = CASE f.kind = "graph"    -> "read"
                   [] f.kind = "shutdown" -> "quit"
                   [] OTHER               -> f.kind
  /\ out_listener' = CASE f.kind = "graph"    -> <<>>
                       [] f.kind = "shutdown" -> Log \o Marker("shutdown_ack")
                       [] OTHER               -> Log
  /\ received' = IF f.kind = "main" THEN f.prog ELSE received
  /\ UNCHANGED <<sources, watcher, super, child, up, main, out_main, bundle, swap, logs>>

\* storeBundlePayload of a dependency.
StoreDependency ==
  /\ listener = "dep" /\ out_listener = <<>>
  /\ listener' = "read"
  /\ UNCHANGED <<sources, watcher, super, child, socket, main, out_main,
                 out_listener, bundle, received, swap, logs>>

\* An error outside stageMainBundle ends the listener thread.
ListenerDies ==
  /\ listener \in {"dep", "main"} /\ out_listener = <<>>
  /\ listener' = "dead" /\ out_listener' = Log
  /\ UNCHANGED <<sources, watcher, super, child, socket, main, out_main, bundle,
                 received, swap, logs>>

\* Mutant: the libraries are not compared.
AssumeUnchanged == TRUE

\* nativeLibraryUnchanged: Apple runners hold the native code themselves.
NativeLibraryUnchanged == ~Desktop \/ received.native = bundle.native

\* stageMainBundle stages the module, asks for a restart, or fails.
StageMainBundle ==
  /\ listener = "main" /\ out_listener = <<>>
  /\ listener' = "read"
  /\ \/ /\ NativeLibraryUnchanged
        /\ staged' = received /\ out_listener' = Log
     \/ /\ ~NativeLibraryUnchanged
        /\ UNCHANGED staged
        /\ out_listener' = <<[kind |-> "restart_required", about |-> received]>>
     \/ /\ UNCHANGED staged
        /\ out_listener' = <<[kind |-> "reload_failed", about |-> received]>>
  /\ UNCHANGED <<sources, watcher, super, child, socket, main, out_main, bundle,
                 received, running, completing, logs>>

\* The app quits, is closed or crashes.
RunnerExits ==
  /\ child = "alive"
  /\ child' = "exited" /\ down' = <<>> /\ RunnerStops
  /\ UNCHANGED <<sources, watcher, super, up, logs>>

-----------------------------------------------------------------------------
Editor == Unlink \/ \E n, l \in {0, 1}, ok \in BOOLEAN : Save(n, l, ok)

Supervisor ==
  \/ CreateWatcher \/ Spawn \/ Accept \/ WriteFrame \/ Written \/ WriteFails
  \/ ReadHealth \/ RunnerExited \/ NoticeChange
  \/ Rebuild \/ RefreshList \/ Refresh \/ RefreshFails
  \/ Disconnected \/ AttemptTimesOut \/ ReadIgnored \/ ReadCompleted \/ ReadFailure
  \/ ReadAck \/ AckTimesOut \/ FinishQuit

MainThread ==
  \/ MainWrites \/ Connect \/ ReceiveBundle \/ Link \/ FirstFrame
  \/ ApplySwap \/ CompleteSwap \/ RejectSwap

ListenerThread ==
  \/ ListenerWrites \/ ListenerReads \/ StoreDependency \/ StageMainBundle

\* What may happen and need not.
Environment ==
  \/ Editor \/ SpawnFails \/ AcceptFails \/ HealthFails \/ BeginQuit
  \/ AppLogs \/ ListenerDies \/ RunnerExits

Next == Supervisor \/ MainThread \/ ListenerThread \/ Environment

Spec == Init /\ [][Next]_vars

\* Nobody stops for ever while able to go on, and waits with a deadline end.
Fairness ==
  /\ WF_vars(Supervisor) /\ WF_vars(MainThread) /\ WF_vars(ListenerThread)
  /\ WF_vars(AttemptTimesOut) /\ WF_vars(AcceptFails) /\ WF_vars(HealthFails)

FairSpec == Spec /\ Fairness

-----------------------------------------------------------------------------
(* Properties.                                                             *)

\* When the supervisor reports a hot patch completed, the runner was running
\* the program of that very attempt (attemptHotReload has no attempt number:
\* it trusts the first `completed` line).
CompletedMeansRunning == claim.asked = claim.ran

\* While a desktop session only watches, the live runner runs the program
\* built last: every outcome but `completed` replaced the runner.
WatchingMeansCurrent ==
  Desktop /\ pc = "watch" /\ child = "alive" => running = graph

\* ... and nothing is in flight that a later attempt could mistake for its
\* own answer.
NoReportOutlivesItsAttempt ==
  Desktop /\ pc = "watch" =>
    /\ staged = None /\ ~completing
    /\ \A k \in DOMAIN up :
         up[k].kind \notin {"completed", "reload_failed", "restart_required"}

\* Bytecode never runs against a native library it was not built with
\* (stageMainBundle's comparison).
NativeCodeMatches ==
  Desktop /\ running # None => running.native = bundle.native

\* Every relaunch is owed to a save of its own: no failing handshake or
\* crashing program makes the supervisor respawn in a loop.
RelaunchesAreEarned == reload_generation <= disk.v

\* The supervisor leaves no runner behind: none lives when it launches another,
\* and none when the session is over, but for the one return that skips
\* killAndWait, where a file vanished under the watcher's refresh.
NoRunnerIsLeftBehind ==
  Desktop /\ child = "alive" =>
    /\ pc # "spawn"
    /\ pc = "ended" => ended_by = "watcher"

\* What the watcher regards as seen was read by a build: "any real change
\* rebuilds the bundles".
EditsAreNotForgotten ==
  pc = "watch" /\ tracked # None => compiled.v >= tracked

\* attemptHotReload blocks in its send, before its deadline starts to count:
\* the socket is full and the listener is gone or itself blocked on a write
\* that only the supervisor could read.
SendBlocked ==
  /\ pc = "send" /\ unsent # <<>> /\ child = "alive" /\ Len(down) = DownCap
  /\ \/ listener \in {"off", "dead"}
     \/ out_listener # <<>> /\ Len(up) = UpCap

\* A program that was built and is being sent gets to run, in place or in a
\* relaunched runner, unless a newer one does or the session ends.  The only
\* thing that can stop it is a send that stays blocked for ever.
EveryBuildIsDelivered ==
  \A n \in 1 .. MaxEdits :
    (pc = "send" /\ graph.v = n) ~>
      \/ running # None /\ running.v >= n
      \/ pc = "ended"
      \/ []SendBlocked
=============================================================================
