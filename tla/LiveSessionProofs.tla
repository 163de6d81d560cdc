-------------------------- MODULE LiveSessionProofs --------------------------
(***************************************************************************)
(* Proofs about LiveSession, for any number of saves, log lines and        *)
(* dependencies and any room in the socket.                                *)
(***************************************************************************)
EXTENDS LiveSession, TLAPS, SequenceTheorems

\* A completed swap is reported by the main thread with the program it ran.
Told == {f \in UpFrame : f.kind = "completed" => f.about # None}
Untold == {f \in UpFrame : f.kind # "completed"}

\* TypeOK, but for the range of reload_generation, part by part.
SourceSorts == disk \in Source /\ present \in BOOLEAN
WatcherSorts == tracked \in 0 .. MaxEdits \cup {None} /\ listed \in BOOLEAN
SuperSorts ==
  /\ compiled \in Source /\ graph \in Source
  /\ pc \in {"watcher", "spawn", "accept", "greet", "health", "watch", "rebuild",
             "refresh", "stat", "send", "await", "quit", "ack", "exit", "ended"}
  /\ unsent \in Seq(DownFrame) /\ markers \subseteq Markers
  /\ reload_generation \in Nat
  /\ claim \in [asked : Source, ran : Source]
  /\ ended_by \in {None, "spawn", "handshake", "runner", "disconnected", "watcher", "quit"}
SocketSorts ==
  /\ child \in {"none", "alive", "exited"}
  /\ down \in Seq(DownFrame) /\ up \in Seq(Told) /\ logs \in 0 .. MaxLogs
RunnerSorts ==
  /\ main \in {"off", "connect", "receive", "link", "started", "run"}
  /\ out_main \in Seq(Told) /\ out_listener \in Seq(Untold)
  /\ listener \in {"off", "read", "dep", "main", "quit", "dead"}
  /\ bundle \in Source \cup {None} /\ received \in Source \cup {None}
  /\ running \in Source \cup {None} /\ staged \in Source \cup {None}
  /\ completing \in BOOLEAN

\* The runner executes the program.
InProgram == main \in {"started", "run"}

\* What a thread is at work on is there; before the program is entered there
\* is no listener and nothing to swap.
Loads ==
  /\ main = "link" \/ InProgram => bundle # None
  /\ InProgram => running # None
  /\ ~InProgram => listener = "off" /\ staged = None /\ running = None /\ ~completing
  /\ listener = "main" => received # None

\* A runner is launched when there is none.
Fresh == pc = "spawn" \/ (Desktop /\ pc = "watcher") => main = "off"

Sorts ==
  SourceSorts /\ WatcherSorts /\ SuperSorts /\ SocketSorts /\ RunnerSorts /\ Loads

-----------------------------------------------------------------------------
(* Sequences and frames.                                                   *)

\* A non-empty sequence is its head and its tail.
LEMMA HeadTail ==
  ASSUME NEW S, NEW s \in Seq(S), s # <<>>
  PROVE  /\ Len(s) \in Nat /\ Len(s) >= 1 /\ Head(s) = s[1] /\ Head(s) \in S
         /\ Tail(s) \in Seq(S) /\ Len(Tail(s)) = Len(s) - 1
         /\ \A k \in 1 .. Len(s) - 1 : Tail(s)[k] = s[k + 1]
OBVIOUS

\* Append adds one element at the end.
LEMMA Appended ==
  ASSUME NEW S, NEW s \in Seq(S), NEW e \in S
  PROVE  /\ Append(s, e) \in Seq(S) /\ Len(Append(s, e)) = Len(s) + 1 /\ Len(s) \in Nat
         /\ Append(s, e)[Len(s) + 1] = e
         /\ \A k \in 1 .. Len(s) : Append(s, e)[k] = s[k]
OBVIOUS

\* A sequence of one element.
LEMMA Single ==
  ASSUME NEW S, NEW e \in S
  PROVE  <<e>> \in Seq(S) /\ Len(<<e>>) = 1 /\ <<e>>[1] = e
OBVIOUS

\* Concatenation, element by element.
LEMMA Concatenated ==
  ASSUME NEW S, NEW a \in Seq(S), NEW b \in Seq(S)
  PROVE  /\ a \o b \in Seq(S) /\ Len(a \o b) = Len(a) + Len(b)
         /\ \A k \in 1 .. Len(a) + Len(b) :
              (a \o b)[k] = IF k <= Len(a) THEN a[k] ELSE b[k - Len(a)]
<1>1. a \o b \in Seq(S) /\ Len(a \o b) = Len(a) + Len(b) BY ConcatProperties
<1>2. \A k \in 1 .. Len(a) + Len(b) : (a \o b)[k] = IF k <= Len(a) THEN a[k] ELSE b[k - Len(a)]
  OBVIOUS
<1> QED BY <1>1, <1>2

\* sendGraphAndBundles writes frames of one program, the main bundle last
\* and only there.
LEMMA BundlesFacts ==
  ASSUME NEW p \in Source
  PROVE  /\ Bundles(p) \in Seq(DownFrame) /\ Len(Bundles(p)) = Dependencies + 2
         /\ \A k \in 1 .. Dependencies + 2 :
              /\ Bundles(p)[k].prog = p /\ Bundles(p)[k].kind # "shutdown"
              /\ Bundles(p)[k].kind = "main" <=> k = Dependencies + 2
<1> DEFINE a == <<[kind |-> "graph", prog |-> p]>>
           b == [i \in 1 .. Dependencies |-> [kind |-> "dep", prog |-> p]]
           c == <<[kind |-> "main", prog |-> p]>>
<1>0. Dependencies \in Nat BY SessionAssumption
<1>1. a \in Seq(DownFrame) /\ Len(a) = 1 /\ a[1].prog = p /\ a[1].kind = "graph" BY DEF DownFrame
<1>2. /\ b \in Seq(DownFrame) /\ Len(b) = Dependencies
      /\ \A k \in 1 .. Dependencies : b[k].prog = p /\ b[k].kind = "dep"
  BY <1>0 DEF DownFrame
<1>3. c \in Seq(DownFrame) /\ Len(c) = 1 /\ c[1].prog = p /\ c[1].kind = "main" BY DEF DownFrame
<1>4. Bundles(p) = (a \o b) \o c BY DEF Bundles
<1> HIDE DEF a, b, c
<1>5. /\ a \o b \in Seq(DownFrame) /\ Len(a \o b) = Dependencies + 1
      /\ \A k \in 1 .. Dependencies + 1 :
           (a \o b)[k] = IF k <= 1 THEN a[k] ELSE b[k - 1]
  <2>1. /\ a \o b \in Seq(DownFrame) /\ Len(a \o b) = Len(a) + Len(b)
        /\ \A k \in 1 .. Len(a) + Len(b) :
             (a \o b)[k] = IF k <= Len(a) THEN a[k] ELSE b[k - Len(a)]
    <3>1. a \in Seq(DownFrame) /\ b \in Seq(DownFrame) BY <1>1, <1>2
    <3> QED BY <3>1, Concatenated, ZenonT(30)
  <2>2. Len(a) = 1 /\ Len(a) + Len(b) = Dependencies + 1 BY <1>0, <1>1, <1>2
  <2> QED BY <2>1, <2>2
<1>6. PICK d : d = a \o b OBVIOUS
<1>7. /\ d \in Seq(DownFrame) /\ Len(d) = Dependencies + 1
      /\ \A k \in 1 .. Dependencies + 1 : d[k].prog = p /\ d[k].kind \in {"graph", "dep"}
  <2>1. d \in Seq(DownFrame) /\ Len(d) = Dependencies + 1 BY <1>5, <1>6
  <2>2. ASSUME NEW k \in 1 .. Dependencies + 1 PROVE d[k].prog = p /\ d[k].kind \in {"graph", "dep"}
    <3>1. CASE k = 1 BY <3>1, <1>0, <1>1, <1>5, <1>6
    <3>2. CASE k # 1
      <4>1. k - 1 \in 1 .. Dependencies /\ ~(k <= 1) BY <3>2, <1>0
      <4> QED BY <4>1, <1>0, <1>2, <1>5, <1>6
    <3> QED BY <3>1, <3>2
  <2> QED BY <2>1, <2>2
<1>8. /\ d \o c \in Seq(DownFrame) /\ Len(d \o c) = Dependencies + 2
      /\ \A k \in 1 .. Dependencies + 2 :
           (d \o c)[k] = IF k <= Dependencies + 1 THEN d[k] ELSE c[k - (Dependencies + 1)]
  <2>1. /\ d \o c \in Seq(DownFrame) /\ Len(d \o c) = Len(d) + Len(c)
        /\ \A k \in 1 .. Len(d) + Len(c) :
             (d \o c)[k] = IF k <= Len(d) THEN d[k] ELSE c[k - Len(d)]
    BY <1>3, <1>7, Concatenated
  <2>2. Len(d) = Dependencies + 1 /\ Len(d) + Len(c) = Dependencies + 2 BY <1>0, <1>3, <1>7
  <2> QED BY <2>1, <2>2
<1>9. PICK s : s = d \o c /\ s = Bundles(p) BY <1>4, <1>6
<1>10. ASSUME NEW k \in 1 .. Dependencies + 2
       PROVE  /\ s[k].prog = p /\ s[k].kind # "shutdown"
              /\ s[k].kind = "main" <=> k = Dependencies + 2
  <2>1. CASE k = Dependencies + 2
    <3>1. ~(k <= Dependencies + 1) /\ k - (Dependencies + 1) = 1 BY <2>1, <1>0
    <3> QED BY <3>1, <2>1, <1>0, <1>3, <1>8, <1>9
  <2>2. CASE k # Dependencies + 2
    <3>1. k \in 1 .. Dependencies + 1 /\ k <= Dependencies + 1 BY <2>2, <1>0
    <3> QED BY <3>1, <2>2, <1>0, <1>7, <1>8, <1>9
  <2> QED BY <2>1, <2>2
<1> QED BY <1>8, <1>9, <1>10

\* Sequences over a set are sequences over a larger one.
LEMMA WiderSeq ==
  ASSUME NEW S, NEW T, S \subseteq T, NEW s \in Seq(S)
  PROVE  s \in Seq(T)
<1>1. Len(s) \in Nat /\ s = [k \in 1 .. Len(s) |-> s[k]] /\ \A k \in 1 .. Len(s) : s[k] \in T OBVIOUS
<1> QED BY <1>1

\* A health marker, a log line or the acknowledgement is one frame that claims
\* no completed swap.
LEMMA MarkerFacts ==
  ASSUME NEW m \in Markers \cup {"log", "shutdown_ack"}
  PROVE  /\ Marker(m) \in Seq(Told) /\ Marker(m) \in Seq(Untold) /\ Len(Marker(m)) = 1
         /\ Marker(m)[1].kind = m
BY DEF Marker, UpFrame, Told, Untold, Markers

\* A report is one frame about the program it names.
LEMMA ReportFacts ==
  ASSUME NEW kind \in {"completed", "restart_required", "reload_failed"},
         NEW p \in Source, NEW r, r = <<[kind |-> kind, about |-> p]>>
  PROVE  /\ r \in Seq(Told) /\ (kind # "completed" => r \in Seq(Untold))
         /\ Len(r) = 1 /\ r[1].kind = kind /\ r[1].about = p
BY NoneAssumption DEF UpFrame, Told, Untold

\* A log line is one frame.
LEMMA LogFacts ==
  /\ Log \in Seq(Told) /\ Log \in Seq(Untold) /\ Len(Log) = 1 /\ Log[1].kind = "log"
BY MarkerFacts DEF Log

\* The listener answers a shutdown with a log line and the acknowledgement.
LEMMA FarewellFacts ==
  /\ Log \o Marker("shutdown_ack") \in Seq(Untold)
  /\ Len(Log \o Marker("shutdown_ack")) = 2
  /\ (Log \o Marker("shutdown_ack"))[1].kind = "log"
  /\ (Log \o Marker("shutdown_ack"))[2].kind = "shutdown_ack"
<1>1. /\ Log \in Seq(Untold) /\ Len(Log) = 1 /\ Log[1].kind = "log" BY LogFacts
<1>2. /\ Marker("shutdown_ack") \in Seq(Untold) /\ Len(Marker("shutdown_ack")) = 1
      /\ Marker("shutdown_ack")[1].kind = "shutdown_ack"
  BY MarkerFacts
<1> QED BY <1>1, <1>2, Concatenated

-----------------------------------------------------------------------------
(* Types.                                                                  *)

\* What a step leaves alone keeps its type.
LEMMA SortsStay ==
  ASSUME Sorts
  PROVE  /\ UNCHANGED sources => SourceSorts'
         /\ UNCHANGED watcher => WatcherSorts'
         /\ UNCHANGED super => SuperSorts'
         /\ UNCHANGED <<child, socket, logs>> => SocketSorts'
         /\ UNCHANGED runner => RunnerSorts' /\ Loads'
<1>1. UNCHANGED sources => SourceSorts' BY DEF Sorts, SourceSorts, sources
<1>2. UNCHANGED watcher => WatcherSorts' BY DEF Sorts, WatcherSorts, watcher
<1>3. UNCHANGED super => SuperSorts' BY DEF Sorts, SuperSorts, super
<1>4. UNCHANGED <<child, socket, logs>> => SocketSorts' BY DEF Sorts, SocketSorts, socket
<1>5. UNCHANGED runner => RunnerSorts' BY DEF Sorts, RunnerSorts, runner, swap
<1>6. UNCHANGED runner => Loads' BY DEF Sorts, Loads, InProgram, runner, swap
<1> QED BY <1>1, <1>2, <1>3, <1>4, <1>5, <1>6

\* A runner that is gone is typed like one not yet launched.
LEMMA StoppedSorts ==
  ASSUME RunnerStops
  PROVE  RunnerSorts' /\ Loads'
<1>1. <<>> \in Seq(Told) /\ <<>> \in Seq(Untold) OBVIOUS
<1>2. RunnerSorts' BY <1>1 DEF RunnerStops, RunnerSorts
<1>3. Loads' BY DEF RunnerStops, Loads, InProgram
<1> QED BY <1>2, <1>3

\* Relaunching (desktop) or going on (Apple) after a failed attempt keeps types.
LEMMA FallBackSorts ==
  ASSUME Sorts, NEW outcome, NEW unread \in Seq(Told), FallBack(outcome, unread),
         UNCHANGED <<compiled, graph, markers, claim, logs>>
  PROVE  SuperSorts' /\ SocketSorts' /\ RunnerSorts' /\ Loads'
<1>1. SuperSorts' BY DEF Sorts, SuperSorts, FallBack, Relaunch, GoOn, EndSession
<1>2. SocketSorts'
  <2>1. <<>> \in Seq(Told) /\ <<>> \in Seq(DownFrame) OBVIOUS
  <2> QED BY <2>1 DEF Sorts, SocketSorts, FallBack, Relaunch, GoOn, KillRunner
<1>3. RunnerSorts' /\ Loads' BY SortsStay, StoppedSorts DEF FallBack, Relaunch, GoOn, KillRunner
<1> QED BY <1>1, <1>2, <1>3

\* Every step keeps every variable typed.
LEMMA SortsKept ==
  ASSUME Sorts, Fresh, [Next]_vars
  PROVE  Sorts'
<1>1. CASE CreateWatcher
  <2>1. WatcherSorts'
    BY <1>1 DEF Sorts, WatcherSorts, CreateWatcher, Snapshot, SourceSorts, Source
  <2>2. SuperSorts' BY <1>1 DEF Sorts, SuperSorts, CreateWatcher, Snapshot, SourceSorts, Source
  <2> QED BY <1>1, <2>1, <2>2, SortsStay DEF Sorts, CreateWatcher
<1>2. CASE Spawn
  <2>1. SuperSorts' BY <1>2 DEF Sorts, SuperSorts, Spawn
  <2>2. SocketSorts' BY <1>2 DEF Sorts, SocketSorts, socket, Spawn
  <2>3. main = "off" BY <1>2 DEF Fresh, Spawn
  <2>4. RunnerSorts' BY <1>2, <2>3 DEF Sorts, RunnerSorts, swap, Spawn
  <2>5. Loads' BY <1>2, <2>3 DEF Sorts, RunnerSorts, Loads, InProgram, swap, Spawn
  <2> QED BY <1>2, <2>1, <2>2, <2>3, <2>4, <2>5, SortsStay DEF Sorts, Spawn
<1>3. CASE Accept
  <2>1. SuperSorts' BY <1>3, BundlesFacts DEF Sorts, SuperSorts, Accept
  <2> QED BY <1>3, <2>1, SortsStay DEF Sorts, Accept
<1>4. CASE WriteFrame
  <2>1. SuperSorts'
    BY <1>4, HeadTail, Appended DEF Sorts, SuperSorts, WriteFrame, SuperSorts, SocketSorts
  <2>2. SocketSorts'
    BY <1>4, HeadTail, Appended DEF Sorts, SocketSorts, socket, WriteFrame, SuperSorts,
       SocketSorts
  <2> QED BY <1>4, <2>1, <2>2, SortsStay DEF Sorts, WriteFrame
<1>5. CASE Written
  <2>1. SuperSorts' BY <1>5 DEF Sorts, SuperSorts, Written
  <2> QED BY <1>5, <2>1, SortsStay DEF Sorts, Written
<1>6. CASE WriteFails
  <2>1. SuperSorts' BY <1>6 DEF Sorts, SuperSorts, WriteFails, EndSession
  <2> QED BY <1>6, <2>1, SortsStay DEF Sorts, WriteFails
<1>7. CASE ReadHealth
  <2>1. SuperSorts' BY <1>7, HeadTail DEF Sorts, SuperSorts, ReadHealth
  <2>2. SocketSorts' BY <1>7, HeadTail DEF Sorts, SocketSorts, socket, ReadHealth
  <2> QED BY <1>7, <2>1, <2>2, SortsStay DEF Sorts, ReadHealth
<1>8. CASE RunnerExited
  <2>1. SuperSorts' BY <1>8 DEF Sorts, SuperSorts, RunnerExited, EndSession
  <2>2. SocketSorts' BY <1>8 DEF Sorts, SocketSorts, socket, RunnerExited, EndSession
  <2> QED BY <1>8, <2>1, <2>2, SortsStay DEF Sorts, RunnerExited
<1>9. CASE NoticeChange
  <2>1. SuperSorts' BY <1>9 DEF Sorts, SuperSorts, NoticeChange, Changed, Snapshot
  <2> QED BY <1>9, <2>1, SortsStay DEF Sorts, NoticeChange
<1>10. CASE Rebuild
  <2>1. SuperSorts' BY <1>10 DEF Sorts, SuperSorts, Rebuild, SourceSorts, Source
  <2> QED BY <1>10, <2>1, SortsStay DEF Sorts, Rebuild
<1>11. CASE RefreshList
  <2>1. WatcherSorts' BY <1>11 DEF Sorts, WatcherSorts, RefreshList, SourceSorts
  <2>2. SuperSorts' BY <1>11 DEF Sorts, SuperSorts, RefreshList, SourceSorts
  <2> QED BY <1>11, <2>1, <2>2, SortsStay DEF Sorts, RefreshList
<1>12. CASE Refresh
  <2>1. WatcherSorts' BY <1>12, BundlesFacts DEF Sorts, WatcherSorts, Refresh, SourceSorts, Source
  <2>2. SuperSorts' BY <1>12, BundlesFacts DEF Sorts, SuperSorts, Refresh, SourceSorts, Source
  <2> QED BY <1>12, <2>1, <2>2, SortsStay DEF Sorts, Refresh
<1>13. CASE RefreshFails
  <2>1. SuperSorts' BY <1>13 DEF Sorts, SuperSorts, RefreshFails, EndSession
  <2> QED BY <1>13, <2>1, SortsStay DEF Sorts, RefreshFails
<1>14. CASE Disconnected
  <2>1. up \in Seq(Told) /\ FallBack("disconnected", up)
    BY <1>14 DEF Sorts, SocketSorts, Disconnected
  <2> QED BY <1>14, <2>1, FallBackSorts, SortsStay DEF Sorts, Disconnected
<1>15. CASE AttemptTimesOut
  <2>1. up \in Seq(Told) /\ FallBack("timed_out", up)
    BY <1>15 DEF Sorts, SocketSorts, AttemptTimesOut
  <2> QED BY <1>15, <2>1, FallBackSorts, SortsStay DEF Sorts, AttemptTimesOut
<1>16. CASE ReadIgnored
  <2>1. SocketSorts' BY <1>16, HeadTail DEF Sorts, SocketSorts, socket, ReadIgnored
  <2> QED BY <1>16, <2>1, SortsStay DEF Sorts, ReadIgnored
<1>17. CASE ReadCompleted
  <2>1. SuperSorts'
    BY <1>17, HeadTail DEF Sorts, SuperSorts, ReadCompleted, SocketSorts, Told, UpFrame
  <2>2. SocketSorts'
    BY <1>17, HeadTail DEF Sorts, SocketSorts, socket, ReadCompleted, SocketSorts, Told, UpFrame
  <2> QED BY <1>17, <2>1, <2>2, SortsStay DEF Sorts, ReadCompleted
<1>18. CASE ReadFailure
  <2>1. Tail(up) \in Seq(Told) /\ FallBack(Head(up).kind, Tail(up))
    BY <1>18, HeadTail DEF Sorts, SocketSorts, ReadFailure
  <2> QED BY <1>18, <2>1, FallBackSorts, SortsStay DEF Sorts, ReadFailure
<1>19. CASE ReadAck
  <2>1. SuperSorts' BY <1>19, HeadTail DEF Sorts, SuperSorts, ReadAck
  <2>2. SocketSorts' BY <1>19, HeadTail DEF Sorts, SocketSorts, socket, ReadAck
  <2> QED BY <1>19, <2>1, <2>2, SortsStay DEF Sorts, ReadAck
<1>20. CASE AckTimesOut
  <2>1. SuperSorts' BY <1>20 DEF Sorts, SuperSorts, AckTimesOut
  <2> QED BY <1>20, <2>1, SortsStay DEF Sorts, AckTimesOut
<1>21. CASE FinishQuit
  <2>1. SuperSorts' BY <1>21 DEF Sorts, SuperSorts, FinishQuit, EndSession
  <2>2. SocketSorts'
    <3>1. <<>> \in Seq(Told) /\ <<>> \in Seq(DownFrame) OBVIOUS
    <3> QED BY <1>21, <3>1 DEF Sorts, SocketSorts, FinishQuit, KillRunner, socket
  <2>3. RunnerSorts' /\ Loads' BY <1>21, SortsStay, StoppedSorts DEF FinishQuit, KillRunner
  <2> QED BY <1>21, <2>1, <2>2, <2>3, SortsStay DEF Sorts, FinishQuit
<1>22. CASE MainWrites
  <2>1. SocketSorts'
    BY <1>22, HeadTail, Appended DEF Sorts, SocketSorts, socket, MainWrites, SocketSorts,
       RunnerSorts
  <2>2. RunnerSorts'
    BY <1>22, HeadTail, Appended DEF Sorts, RunnerSorts, swap, MainWrites, SocketSorts,
       RunnerSorts
  <2>3. Loads'
    BY <1>22 DEF Sorts, RunnerSorts, Loads, InProgram, swap, MainWrites, SocketSorts, RunnerSorts
  <2> QED BY <1>22, <2>1, <2>2, <2>3, SortsStay DEF Sorts, MainWrites
<1>23. CASE Connect
  <2>1. RunnerSorts' BY <1>23 DEF Sorts, RunnerSorts, swap, Connect
  <2>2. Loads' BY <1>23 DEF Sorts, RunnerSorts, Loads, InProgram, swap, Connect
  <2> QED BY <1>23, <2>1, <2>2, SortsStay DEF Sorts, Connect
<1>24. CASE ReceiveBundle
  <2>1. SocketSorts' BY <1>24, HeadTail DEF Sorts, SocketSorts, socket, ReceiveBundle
  <2>2. Head(down) \in DownFrame BY <1>24, HeadTail DEF Sorts, SocketSorts, ReceiveBundle
  <2>3. Head(down).kind \in {"graph", "dep", "main", "shutdown"} /\ Head(down).prog \in Source
    BY <2>2 DEF DownFrame
  <2>4. Marker("graph") \in Seq(Told) /\ Marker("loaded") \in Seq(Told) BY MarkerFacts DEF Markers
  <2>5. <<>> \in Seq(Told) OBVIOUS
  <2>6. None \notin Source BY NoneAssumption
  <2>7. RunnerSorts'
    BY <1>24, <2>2, <2>3, <2>4, <2>5, <2>6, HeadTail DEF Sorts, RunnerSorts, swap, ReceiveBundle
  <2>8. Loads'
    BY <1>24, <2>2, <2>3, <2>4, <2>5, <2>6 DEF Sorts, RunnerSorts, Loads, InProgram, swap,
       ReceiveBundle
  <2> QED
    BY <1>24, <2>1, <2>2, <2>3, <2>4, <2>5, <2>6, <2>7, <2>8, SortsStay DEF Sorts, ReceiveBundle
<1>25. CASE Link
  <2>1. Marker("started") \in Seq(Told) BY MarkerFacts DEF Markers
  <2>2. RunnerSorts' BY <1>25, <2>1 DEF Sorts, RunnerSorts, swap, Link
  <2>3. Loads' BY <1>25, <2>1 DEF Sorts, RunnerSorts, Loads, InProgram, swap, Link
  <2> QED BY <1>25, <2>1, <2>2, <2>3, SortsStay DEF Sorts, Link
<1>26. CASE FirstFrame
  <2>1. Marker("frame") \in Seq(Told) BY MarkerFacts DEF Markers
  <2>2. RunnerSorts' BY <1>26, <2>1 DEF Sorts, RunnerSorts, swap, FirstFrame, Entered
  <2>3. Loads' BY <1>26, <2>1 DEF Sorts, RunnerSorts, Loads, InProgram, swap, FirstFrame, Entered
  <2> QED BY <1>26, <2>1, <2>2, <2>3, SortsStay DEF Sorts, FirstFrame
<1>27. CASE ApplySwap
  <2>1. RunnerSorts' BY <1>27 DEF Sorts, RunnerSorts, swap, ApplySwap, Entered
  <2>2. Loads' BY <1>27 DEF Sorts, RunnerSorts, Loads, InProgram, swap, ApplySwap, Entered
  <2> QED BY <1>27, <2>1, <2>2, SortsStay DEF Sorts, ApplySwap
<1>28. CASE CompleteSwap
  <2>1. RunnerSorts'
    BY <1>28, ReportFacts DEF Sorts, RunnerSorts, swap, CompleteSwap, Entered, Loads, InProgram
  <2>2. Loads'
    BY <1>28 DEF Sorts, RunnerSorts, Loads, InProgram, swap, CompleteSwap, Entered, Loads,
       InProgram
  <2> QED BY <1>28, <2>1, <2>2, SortsStay DEF Sorts, CompleteSwap
<1>29. CASE RejectSwap
  <2>1. RunnerSorts' BY <1>29, ReportFacts DEF Sorts, RunnerSorts, swap, RejectSwap, Entered
  <2>2. Loads' BY <1>29 DEF Sorts, RunnerSorts, Loads, InProgram, swap, RejectSwap, Entered
  <2> QED BY <1>29, <2>1, <2>2, SortsStay DEF Sorts, RejectSwap
<1>30. CASE ListenerWrites
  <2>1. SocketSorts'
    BY <1>30, HeadTail, Appended DEF Sorts, SocketSorts, socket, ListenerWrites, SocketSorts,
       RunnerSorts, Told, Untold
  <2>2. RunnerSorts'
    BY <1>30, HeadTail, Appended DEF Sorts, RunnerSorts, swap, ListenerWrites, SocketSorts,
       RunnerSorts, Told, Untold
  <2>3. Loads'
    BY <1>30 DEF Sorts, RunnerSorts, Loads, InProgram, swap, ListenerWrites, SocketSorts,
       RunnerSorts, Told, Untold
  <2> QED BY <1>30, <2>1, <2>2, <2>3, SortsStay DEF Sorts, ListenerWrites
<1>31. CASE ListenerReads
  <2>1. SocketSorts' BY <1>31, HeadTail DEF Sorts, SocketSorts, socket, ListenerReads
  <2>2. Head(down) \in DownFrame BY <1>31, HeadTail DEF Sorts, SocketSorts, ListenerReads
  <2>3. Head(down).kind \in {"graph", "dep", "main", "shutdown"} /\ Head(down).prog \in Source
    BY <2>2 DEF DownFrame
  <2>4. <<>> \in Seq(Untold) /\ Log \in Seq(Untold) /\ Log \o Marker("shutdown_ack") \in Seq(Untold)
    BY LogFacts, FarewellFacts
  <2>5. None \notin Source BY NoneAssumption
  <2>6. RunnerSorts'
    BY <1>31, <2>2, <2>3, <2>4, <2>5, HeadTail DEF Sorts, RunnerSorts, swap, ListenerReads
  <2>7. Loads'
    BY <1>31, <2>2, <2>3, <2>4, <2>5 DEF Sorts, RunnerSorts, Loads, InProgram, swap, ListenerReads
  <2> QED BY <1>31, <2>1, <2>2, <2>3, <2>4, <2>5, <2>6, <2>7, SortsStay DEF Sorts, ListenerReads
<1>32. CASE StoreDependency
  <2>1. RunnerSorts' BY <1>32 DEF Sorts, RunnerSorts, swap, StoreDependency
  <2>2. Loads' BY <1>32 DEF Sorts, RunnerSorts, Loads, InProgram, swap, StoreDependency
  <2> QED BY <1>32, <2>1, <2>2, SortsStay DEF Sorts, StoreDependency
<1>33. CASE StageMainBundle
  <2>1. RunnerSorts'
    BY <1>33, LogFacts, ReportFacts DEF Sorts, RunnerSorts, swap, StageMainBundle, Loads,
       InProgram
  <2>2. Loads'
    BY <1>33 DEF Sorts, RunnerSorts, Loads, InProgram, swap, StageMainBundle, Loads, InProgram
  <2> QED BY <1>33, <2>1, <2>2, SortsStay DEF Sorts, StageMainBundle
<1>34. CASE Unlink
  <2>1. SourceSorts' BY <1>34 DEF Sorts, SourceSorts, Unlink
  <2> QED BY <1>34, <2>1, SortsStay DEF Sorts, Unlink
<1>35. CASE SpawnFails
  <2>1. SuperSorts' BY <1>35 DEF Sorts, SuperSorts, SpawnFails, EndSession
  <2> QED BY <1>35, <2>1, SortsStay DEF Sorts, SpawnFails
<1>36. CASE AcceptFails
  <2>1. SuperSorts' BY <1>36 DEF Sorts, SuperSorts, AcceptFails, EndSession
  <2>2. SocketSorts'
    <3>1. <<>> \in Seq(Told) /\ <<>> \in Seq(DownFrame) OBVIOUS
    <3> QED BY <1>36, <3>1 DEF Sorts, SocketSorts, AcceptFails, KillRunner, socket
  <2>3. RunnerSorts' /\ Loads' BY <1>36, SortsStay, StoppedSorts DEF AcceptFails, KillRunner
  <2> QED BY <1>36, <2>1, <2>2, <2>3, SortsStay DEF Sorts, AcceptFails
<1>37. CASE HealthFails
  <2>1. SuperSorts' BY <1>37 DEF Sorts, SuperSorts, HealthFails, EndSession
  <2>2. SocketSorts'
    <3>1. <<>> \in Seq(Told) /\ <<>> \in Seq(DownFrame) OBVIOUS
    <3> QED BY <1>37, <3>1 DEF Sorts, SocketSorts, HealthFails, KillRunner, socket
  <2>3. RunnerSorts' /\ Loads' BY <1>37, SortsStay, StoppedSorts DEF HealthFails, KillRunner
  <2> QED BY <1>37, <2>1, <2>2, <2>3, SortsStay DEF Sorts, HealthFails
<1>38. CASE BeginQuit
  <2>1. <<[kind |-> "shutdown", prog |-> graph]>> \in Seq(DownFrame)
    BY DEF Sorts, SuperSorts, DownFrame
  <2>2. SuperSorts' BY <1>38, <2>1 DEF Sorts, SuperSorts, BeginQuit
  <2> QED BY <1>38, <2>2, SortsStay DEF Sorts, BeginQuit
<1>39. CASE AppLogs
  <2>1. SocketSorts'
    BY <1>39, LogFacts, SessionAssumption DEF Sorts, SocketSorts, socket, AppLogs, Entered
  <2>2. RunnerSorts'
    BY <1>39, LogFacts, SessionAssumption DEF Sorts, RunnerSorts, swap, AppLogs, Entered
  <2>3. Loads' BY <1>39 DEF Sorts, RunnerSorts, Loads, InProgram, swap, AppLogs, Entered
  <2> QED BY <1>39, <2>1, <2>2, <2>3, SortsStay DEF Sorts, AppLogs
<1>40. CASE ListenerDies
  <2>1. RunnerSorts' BY <1>40, LogFacts DEF Sorts, RunnerSorts, swap, ListenerDies
  <2>2. Loads' BY <1>40 DEF Sorts, RunnerSorts, Loads, InProgram, swap, ListenerDies
  <2> QED BY <1>40, <2>1, <2>2, SortsStay DEF Sorts, ListenerDies
<1>41. CASE RunnerExits
  <2>1. SocketSorts' BY <1>41 DEF Sorts, SocketSorts, RunnerExits
  <2>2. RunnerSorts' /\ Loads' BY <1>41, StoppedSorts DEF RunnerExits
  <2> QED BY <1>41, <2>1, <2>2, SortsStay DEF Sorts, RunnerExits
<1>42. ASSUME NEW native \in {0, 1}, NEW layout \in {0, 1}, NEW ok \in BOOLEAN,
              Save(native, layout, ok)
       PROVE  Sorts'
  <2>1. SourceSorts' BY <1>42, SessionAssumption DEF Sorts, SourceSorts, Source, Save
  <2> QED BY <1>42, <2>1, SortsStay DEF Sorts, Save
<1>43. CASE UNCHANGED vars BY <1>43, SortsStay DEF Sorts, vars
<1> QED
  BY <1>42, <1>43, <1>1, <1>2, <1>3, <1>4, <1>5, <1>6, <1>7, <1>8, <1>9, <1>10, <1>11, <1>12,
     <1>13, <1>14, <1>15, <1>16, <1>17, <1>18, <1>19, <1>20, <1>21, <1>22, <1>23, <1>24, <1>25,
     <1>26, <1>27, <1>28, <1>29, <1>30, <1>31, <1>32, <1>33, <1>34, <1>35, <1>36, <1>37, <1>38,
     <1>39, <1>40, <1>41 DEF Next, Supervisor, MainThread, ListenerThread, Environment, Editor

-----------------------------------------------------------------------------
(* Launches, builds and native code.                                       *)

\* A runner that executes a program and has one staged was built with the
\* native library it loaded.
Natives ==
  Desktop /\ InProgram =>
    /\ running.native = bundle.native
    /\ staged # None => staged.native = bundle.native

\* Every desktop relaunch spends a build, and every build a save: what the
\* watcher has not seen, and what was read since it last looked, is newer
\* than the program built last.
Builds ==
  /\ compiled.v <= disk.v /\ graph.v <= disk.v
  /\ ~Desktop => reload_generation = 0
  /\ Desktop => reload_generation <= graph.v
  /\ Desktop /\ pc \in {"send", "await"} => reload_generation < graph.v
  /\ Desktop /\ pc # "watcher" /\ present /\ tracked # disk.v => disk.v > graph.v
  /\ Desktop /\ pc = "rebuild" /\ present => disk.v > graph.v
  /\ Desktop /\ pc \in {"refresh", "stat"} /\ compiled.ok => compiled.v > graph.v
  /\ Desktop /\ pc = "stat" /\ ~listed /\ present => disk.v > graph.v /\ disk.v > compiled.v

\* Launching needs no runner to be there: every way back to "spawn" killed it.
LEMMA FreshKept ==
  ASSUME Fresh, [Next]_vars
  PROVE  Fresh'
<1>1. CASE CreateWatcher BY <1>1 DEF Fresh, CreateWatcher, Snapshot, runner
<1>2. CASE Spawn BY <1>2 DEF Fresh, Spawn
<1>3. CASE Accept BY <1>3 DEF Fresh, Accept, runner
<1>4. CASE WriteFrame BY <1>4 DEF Fresh, WriteFrame, runner
<1>5. CASE Written BY <1>5 DEF Fresh, Written, runner
<1>6. CASE WriteFails BY <1>6 DEF Fresh, WriteFails, EndSession, runner
<1>7. CASE ReadHealth BY <1>7 DEF Fresh, ReadHealth, runner
<1>8. CASE RunnerExited BY <1>8 DEF Fresh, RunnerExited, EndSession, runner
<1>9. CASE NoticeChange BY <1>9 DEF Fresh, NoticeChange, Changed, Snapshot, runner
<1>10. CASE Rebuild BY <1>10 DEF Fresh, Rebuild, runner
<1>11. CASE RefreshList BY <1>11 DEF Fresh, RefreshList, runner
<1>12. CASE Refresh BY <1>12 DEF Fresh, Refresh, runner
<1>13. CASE RefreshFails BY <1>13 DEF Fresh, RefreshFails, EndSession, runner
<1>14. CASE Disconnected
  BY <1>14 DEF Fresh, Disconnected, FallBack, Relaunch, GoOn, EndSession, KillRunner,
     RunnerStops, runner
<1>15. CASE AttemptTimesOut
  BY <1>15 DEF Fresh, AttemptTimesOut, DeadlinePassed, FallBack, Relaunch, GoOn, EndSession,
     KillRunner, RunnerStops, runner
<1>16. CASE ReadIgnored BY <1>16 DEF Fresh, ReadIgnored, super, runner
<1>17. CASE ReadCompleted BY <1>17 DEF Fresh, ReadCompleted, runner
<1>18. CASE ReadFailure
  BY <1>18 DEF Fresh, ReadFailure, FallBack, Relaunch, GoOn, EndSession, KillRunner,
     RunnerStops, runner
<1>19. CASE ReadAck BY <1>19 DEF Fresh, ReadAck, runner
<1>20. CASE AckTimesOut BY <1>20 DEF Fresh, AckTimesOut, runner
<1>21. CASE FinishQuit
  BY <1>21 DEF Fresh, FinishQuit, EndSession, KillRunner, RunnerStops, runner
<1>22. CASE MainWrites BY <1>22 DEF Fresh, MainWrites, super
<1>23. CASE Connect BY <1>23 DEF Fresh, Connect, super
<1>24. CASE ReceiveBundle BY <1>24 DEF Fresh, ReceiveBundle, super
<1>25. CASE Link BY <1>25 DEF Fresh, Link, super
<1>26. CASE FirstFrame BY <1>26 DEF Fresh, FirstFrame, Entered, super
<1>27. CASE ApplySwap BY <1>27 DEF Fresh, ApplySwap, Entered, super
<1>28. CASE CompleteSwap BY <1>28 DEF Fresh, CompleteSwap, Entered, super
<1>29. CASE RejectSwap BY <1>29 DEF Fresh, RejectSwap, Entered, super
<1>30. CASE ListenerWrites BY <1>30 DEF Fresh, ListenerWrites, super
<1>31. CASE ListenerReads BY <1>31 DEF Fresh, ListenerReads, super
<1>32. CASE StoreDependency BY <1>32 DEF Fresh, StoreDependency, super
<1>33. CASE StageMainBundle BY <1>33 DEF Fresh, StageMainBundle, super
<1>34. CASE Unlink BY <1>34 DEF Fresh, Unlink, super, runner
<1>35. CASE SpawnFails BY <1>35 DEF Fresh, SpawnFails, EndSession, runner
<1>36. CASE AcceptFails
  BY <1>36 DEF Fresh, AcceptFails, EndSession, KillRunner, RunnerStops, runner
<1>37. CASE HealthFails
  BY <1>37 DEF Fresh, HealthFails, EndSession, KillRunner, RunnerStops, runner
<1>38. CASE BeginQuit BY <1>38 DEF Fresh, BeginQuit, runner
<1>39. CASE AppLogs BY <1>39 DEF Fresh, AppLogs, Entered, super
<1>40. CASE ListenerDies BY <1>40 DEF Fresh, ListenerDies, super
<1>41. CASE RunnerExits BY <1>41 DEF Fresh, RunnerExits, RunnerStops, super
<1>42. ASSUME NEW native \in {0, 1}, NEW layout \in {0, 1}, NEW ok \in BOOLEAN,
              Save(native, layout, ok)
       PROVE  Fresh'
  BY <1>42 DEF Fresh, Save, super, runner
<1>43. CASE UNCHANGED vars BY <1>43 DEF Fresh, vars, super, runner
<1> QED
  BY <1>1, <1>2, <1>3, <1>4, <1>5, <1>6, <1>7, <1>8, <1>9, <1>10, <1>11, <1>12, <1>13, <1>14,
     <1>15, <1>16, <1>17, <1>18, <1>19, <1>20, <1>21, <1>22, <1>23, <1>24, <1>25, <1>26, <1>27,
     <1>28, <1>29, <1>30, <1>31, <1>32, <1>33, <1>34, <1>35, <1>36, <1>37, <1>38, <1>39, <1>40,
     <1>41, <1>42, <1>43 DEF Next, Supervisor, MainThread, ListenerThread, Environment, Editor

\* Only a module built with the loaded library is staged or entered.
LEMMA NativesKept ==
  ASSUME Sorts, Natives, [Next]_vars
  PROVE  Natives'
<1>1. CASE CreateWatcher
  BY <1>1 DEF Natives, Sorts, Loads, InProgram, CreateWatcher, Snapshot, runner, swap
<1>2. CASE Spawn BY <1>2 DEF Natives, Sorts, Loads, InProgram, Spawn, swap
<1>3. CASE Accept BY <1>3 DEF Natives, Sorts, Loads, InProgram, Accept, runner, swap
<1>4. CASE WriteFrame BY <1>4 DEF Natives, Sorts, Loads, InProgram, WriteFrame, runner, swap
<1>5. CASE Written BY <1>5 DEF Natives, Sorts, Loads, InProgram, Written, runner, swap
<1>6. CASE WriteFails
  BY <1>6 DEF Natives, Sorts, Loads, InProgram, WriteFails, EndSession, runner, swap
<1>7. CASE ReadHealth BY <1>7 DEF Natives, Sorts, Loads, InProgram, ReadHealth, runner, swap
<1>8. CASE RunnerExited
  BY <1>8 DEF Natives, Sorts, Loads, InProgram, RunnerExited, EndSession, runner, swap
<1>9. CASE NoticeChange
  BY <1>9 DEF Natives, Sorts, Loads, InProgram, NoticeChange, Changed, Snapshot, runner, swap
<1>10. CASE Rebuild BY <1>10 DEF Natives, Sorts, Loads, InProgram, Rebuild, runner, swap
<1>11. CASE RefreshList BY <1>11 DEF Natives, Sorts, Loads, InProgram, RefreshList, runner, swap
<1>12. CASE Refresh BY <1>12 DEF Natives, Sorts, Loads, InProgram, Refresh, runner, swap
<1>13. CASE RefreshFails
  BY <1>13 DEF Natives, Sorts, Loads, InProgram, RefreshFails, EndSession, runner, swap
<1>14. CASE Disconnected
  BY <1>14 DEF Natives, Sorts, Loads, InProgram, Disconnected, FallBack, Relaunch, GoOn,
     EndSession, KillRunner, RunnerStops, runner, swap
<1>15. CASE AttemptTimesOut
  BY <1>15 DEF Natives, Sorts, Loads, InProgram, AttemptTimesOut, DeadlinePassed, FallBack,
     Relaunch, GoOn, EndSession, KillRunner, RunnerStops, runner, swap
<1>16. CASE ReadIgnored BY <1>16 DEF Natives, Sorts, Loads, InProgram, ReadIgnored, runner, swap
<1>17. CASE ReadCompleted
  BY <1>17 DEF Natives, Sorts, Loads, InProgram, ReadCompleted, runner, swap
<1>18. CASE ReadFailure
  BY <1>18 DEF Natives, Sorts, Loads, InProgram, ReadFailure, FallBack, Relaunch, GoOn,
     EndSession, KillRunner, RunnerStops, runner, swap
<1>19. CASE ReadAck BY <1>19 DEF Natives, Sorts, Loads, InProgram, ReadAck, runner, swap
<1>20. CASE AckTimesOut BY <1>20 DEF Natives, Sorts, Loads, InProgram, AckTimesOut, runner, swap
<1>21. CASE FinishQuit
  BY <1>21 DEF Natives, Sorts, Loads, InProgram, FinishQuit, EndSession, KillRunner,
     RunnerStops, runner, swap
<1>22. CASE MainWrites BY <1>22 DEF Natives, Sorts, Loads, InProgram, MainWrites, swap
<1>23. CASE Connect BY <1>23 DEF Natives, Sorts, Loads, InProgram, Connect, swap
<1>24. CASE ReceiveBundle BY <1>24 DEF Natives, Sorts, Loads, InProgram, ReceiveBundle, swap
<1>25. CASE Link BY <1>25 DEF Natives, Sorts, Loads, InProgram, Link
<1>26. CASE FirstFrame BY <1>26 DEF Natives, Sorts, Loads, InProgram, FirstFrame, Entered, swap
<1>27. CASE ApplySwap BY <1>27 DEF Natives, Sorts, Loads, InProgram, ApplySwap, Entered
<1>28. CASE CompleteSwap BY <1>28 DEF Natives, Sorts, Loads, InProgram, CompleteSwap, Entered
<1>29. CASE RejectSwap BY <1>29 DEF Natives, Sorts, Loads, InProgram, RejectSwap, Entered
<1>30. CASE ListenerWrites BY <1>30 DEF Natives, Sorts, Loads, InProgram, ListenerWrites, swap
<1>31. CASE ListenerReads BY <1>31 DEF Natives, Sorts, Loads, InProgram, ListenerReads, swap
<1>32. CASE StoreDependency BY <1>32 DEF Natives, Sorts, Loads, InProgram, StoreDependency, swap
<1>33. CASE StageMainBundle
  BY <1>33 DEF Natives, Sorts, Loads, InProgram, StageMainBundle, NativeLibraryUnchanged
<1>34. CASE Unlink BY <1>34 DEF Natives, Sorts, Loads, InProgram, Unlink, runner, swap
<1>35. CASE SpawnFails
  BY <1>35 DEF Natives, Sorts, Loads, InProgram, SpawnFails, EndSession, runner, swap
<1>36. CASE AcceptFails
  BY <1>36 DEF Natives, Sorts, Loads, InProgram, AcceptFails, EndSession, KillRunner,
     RunnerStops, runner, swap
<1>37. CASE HealthFails
  BY <1>37 DEF Natives, Sorts, Loads, InProgram, HealthFails, EndSession, KillRunner,
     RunnerStops, runner, swap
<1>38. CASE BeginQuit BY <1>38 DEF Natives, Sorts, Loads, InProgram, BeginQuit, runner, swap
<1>39. CASE AppLogs BY <1>39 DEF Natives, Sorts, Loads, InProgram, AppLogs, Entered, swap
<1>40. CASE ListenerDies BY <1>40 DEF Natives, Sorts, Loads, InProgram, ListenerDies, swap
<1>41. CASE RunnerExits BY <1>41 DEF Natives, Sorts, Loads, InProgram, RunnerExits, RunnerStops
<1>42. ASSUME NEW native \in {0, 1}, NEW layout \in {0, 1}, NEW ok \in BOOLEAN,
              Save(native, layout, ok)
       PROVE  Natives'
  BY <1>42 DEF Natives, Sorts, Loads, InProgram, Save, runner, swap
<1>43. CASE UNCHANGED vars BY <1>43 DEF Natives, Sorts, Loads, InProgram, vars, runner, swap
<1> QED
  BY <1>1, <1>2, <1>3, <1>4, <1>5, <1>6, <1>7, <1>8, <1>9, <1>10, <1>11, <1>12, <1>13, <1>14,
     <1>15, <1>16, <1>17, <1>18, <1>19, <1>20, <1>21, <1>22, <1>23, <1>24, <1>25, <1>26, <1>27,
     <1>28, <1>29, <1>30, <1>31, <1>32, <1>33, <1>34, <1>35, <1>36, <1>37, <1>38, <1>39, <1>40,
     <1>41, <1>42, <1>43 DEF Next, Supervisor, MainThread, ListenerThread, Environment, Editor

\* Saves and relaunches are counted in natural numbers.
LEMMA Versions ==
  ASSUME Sorts
  PROVE  disk.v \in Nat /\ compiled.v \in Nat /\ graph.v \in Nat /\ reload_generation \in Nat
BY SessionAssumption DEF Sorts, SourceSorts, SuperSorts, Source

\* A relaunch spends the build it was sent for.
LEMMA BuildsKept ==
  ASSUME Sorts, Builds, [Next]_vars
  PROVE  Builds'
<1>1. CASE CreateWatcher BY <1>1, Versions DEF Builds, CreateWatcher, Snapshot, sources
<1>2. CASE Spawn BY <1>2, Versions DEF Builds, Spawn, sources, watcher
<1>3. CASE Accept BY <1>3, Versions DEF Builds, Accept, sources, watcher
<1>4. CASE WriteFrame BY <1>4, Versions DEF Builds, WriteFrame, sources, watcher
<1>5. CASE Written BY <1>5, Versions DEF Builds, Written, sources, watcher
<1>6. CASE WriteFails BY <1>6, Versions DEF Builds, WriteFails, EndSession, sources, watcher
<1>7. CASE ReadHealth BY <1>7, Versions DEF Builds, ReadHealth, sources, watcher
<1>8. CASE RunnerExited BY <1>8, Versions DEF Builds, RunnerExited, EndSession, sources, watcher
<1>9. CASE NoticeChange
  BY <1>9, Versions DEF Builds, NoticeChange, Changed, Snapshot, sources, watcher
<1>10. CASE Rebuild
  BY <1>10, Versions DEF Builds, Rebuild, sources, watcher, Sorts, SourceSorts, Source
<1>11. CASE RefreshList BY <1>11, Versions DEF Builds, RefreshList, sources
<1>12. CASE Refresh BY <1>12, Versions DEF Builds, Refresh, sources
<1>13. CASE RefreshFails
  BY <1>13, Versions DEF Builds, RefreshFails, EndSession, sources, watcher
<1>14. CASE Disconnected
  BY <1>14, Versions DEF Builds, Disconnected, FallBack, Relaunch, GoOn, EndSession, KillRunner,
     RunnerStops, sources, watcher
<1>15. CASE AttemptTimesOut
  BY <1>15, Versions DEF Builds, AttemptTimesOut, DeadlinePassed, FallBack, Relaunch, GoOn,
     EndSession, KillRunner, RunnerStops, sources, watcher
<1>16. CASE ReadIgnored BY <1>16, Versions DEF Builds, ReadIgnored, sources, watcher, super
<1>17. CASE ReadCompleted BY <1>17, Versions DEF Builds, ReadCompleted, sources, watcher
<1>18. CASE ReadFailure
  BY <1>18, Versions DEF Builds, ReadFailure, FallBack, Relaunch, GoOn, EndSession, KillRunner,
     RunnerStops, sources, watcher
<1>19. CASE ReadAck BY <1>19, Versions DEF Builds, ReadAck, sources, watcher
<1>20. CASE AckTimesOut BY <1>20, Versions DEF Builds, AckTimesOut, sources, watcher
<1>21. CASE FinishQuit
  BY <1>21, Versions DEF Builds, FinishQuit, EndSession, KillRunner, RunnerStops, sources,
     watcher
<1>22. CASE MainWrites BY <1>22, Versions DEF Builds, MainWrites, sources, watcher, super
<1>23. CASE Connect BY <1>23, Versions DEF Builds, Connect, sources, watcher, super
<1>24. CASE ReceiveBundle BY <1>24, Versions DEF Builds, ReceiveBundle, sources, watcher, super
<1>25. CASE Link BY <1>25, Versions DEF Builds, Link, sources, watcher, super
<1>26. CASE FirstFrame
  BY <1>26, Versions DEF Builds, FirstFrame, Entered, sources, watcher, super
<1>27. CASE ApplySwap BY <1>27, Versions DEF Builds, ApplySwap, Entered, sources, watcher, super
<1>28. CASE CompleteSwap
  BY <1>28, Versions DEF Builds, CompleteSwap, Entered, sources, watcher, super
<1>29. CASE RejectSwap
  BY <1>29, Versions DEF Builds, RejectSwap, Entered, sources, watcher, super
<1>30. CASE ListenerWrites
  BY <1>30, Versions DEF Builds, ListenerWrites, sources, watcher, super
<1>31. CASE ListenerReads BY <1>31, Versions DEF Builds, ListenerReads, sources, watcher, super
<1>32. CASE StoreDependency
  BY <1>32, Versions DEF Builds, StoreDependency, sources, watcher, super
<1>33. CASE StageMainBundle
  BY <1>33, Versions DEF Builds, StageMainBundle, sources, watcher, super
<1>34. CASE Unlink BY <1>34, Versions DEF Builds, Unlink, watcher, super
<1>35. CASE SpawnFails BY <1>35, Versions DEF Builds, SpawnFails, EndSession, sources, watcher
<1>36. CASE AcceptFails
  BY <1>36, Versions DEF Builds, AcceptFails, EndSession, KillRunner, RunnerStops, sources,
     watcher
<1>37. CASE HealthFails
  BY <1>37, Versions DEF Builds, HealthFails, EndSession, KillRunner, RunnerStops, sources,
     watcher
<1>38. CASE BeginQuit BY <1>38, Versions DEF Builds, BeginQuit, sources, watcher
<1>39. CASE AppLogs BY <1>39, Versions DEF Builds, AppLogs, Entered, sources, watcher, super
<1>40. CASE ListenerDies BY <1>40, Versions DEF Builds, ListenerDies, sources, watcher, super
<1>41. CASE RunnerExits
  BY <1>41, Versions DEF Builds, RunnerExits, RunnerStops, sources, watcher, super
<1>42. ASSUME NEW native \in {0, 1}, NEW layout \in {0, 1}, NEW ok \in BOOLEAN,
              Save(native, layout, ok)
       PROVE  Builds'
  BY <1>42, Versions DEF Builds, Save, watcher, super
<1>43. CASE UNCHANGED vars BY <1>43 DEF Builds, vars, sources, watcher, super
<1> QED
  BY <1>1, <1>2, <1>3, <1>4, <1>5, <1>6, <1>7, <1>8, <1>9, <1>10, <1>11, <1>12, <1>13, <1>14,
     <1>15, <1>16, <1>17, <1>18, <1>19, <1>20, <1>21, <1>22, <1>23, <1>24, <1>25, <1>26, <1>27,
     <1>28, <1>29, <1>30, <1>31, <1>32, <1>33, <1>34, <1>35, <1>36, <1>37, <1>38, <1>39, <1>40,
     <1>41, <1>42, <1>43 DEF Next, Supervisor, MainThread, ListenerThread, Environment, Editor

-----------------------------------------------------------------------------
(* What is in flight between supervisor and runner on the desktop.         *)

\* The frames that end attemptHotReload's wait.
Reports == {"completed", "restart_required", "reload_failed"}

Silent(s) == \A k \in 1 .. Len(s) : s[k].kind \notin Reports
OneReport(s) ==
  \A j, k \in 1 .. Len(s) : s[j].kind \in Reports /\ s[k].kind \in Reports => j = k
Lacks(s, kind) == \A k \in 1 .. Len(s) : s[k].kind # kind
Tells(s, p) == \A k \in 1 .. Len(s) : s[k].kind = "completed" => s[k].about = p

\* Frames towards the runner: of one program; the last one the main bundle;
\* none yet the main bundle; only shutdown.
Of(s, p) == \A k \in 1 .. Len(s) : s[k].prog = p
MainLast(s) ==
  \A k \in 1 .. Len(s) : (s[k].kind = "main" <=> k = Len(s)) /\ s[k].kind # "shutdown"
NoMain(s) == \A k \in 1 .. Len(s) : s[k].kind \notin {"main", "shutdown"}
OnlyShutdown(s) == \A k \in 1 .. Len(s) : s[k].kind = "shutdown"

Greeting == {"greet", "health"}
Idle == {"watch", "rebuild", "refresh", "stat"}
Trying == {"send", "await"}
Quitting == {"quit", "ack", "exit"}

\* The runner lives while its main thread does; a dead one has nothing to say.
Lifeline ==
  /\ child = "alive" <=> main # "off"
  /\ main = "off" => out_main = <<>> /\ down = <<>>
  /\ ~InProgram => out_listener = <<>>
  /\ pc \in {"watcher", "spawn"} => main = "off" /\ up = <<>>
  /\ pc = "accept" => main \in {"off", "connect", "receive"} /\ up = <<>> /\ out_main = <<>>

\* The supervisor leaves the greeting when the runner has entered the program
\* it was sent.
Launched ==
  /\ pc \in Greeting /\ main \in {"connect", "receive", "link"} =>
       "started" \notin markers /\ Lacks(up, "started") /\ Lacks(out_main, "started")
  /\ pc \in Idle \cup Trying \cup Quitting \cup {"ended"} => main = "off" \/ InProgram
  /\ pc \in Greeting /\ (main = "link" \/ InProgram) =>
       bundle = graph /\ unsent = <<>> /\ down = <<>>
  /\ pc \in Greeting /\ InProgram => running = graph

\* Only a greeting, an attempt or the farewell has frames on the way, and
\* they are of the program built last, its main bundle behind the others.
Frames ==
  /\ pc \notin Greeting \cup Trying \cup Quitting => unsent = <<>> /\ down = <<>>
  /\ pc \in {"health", "await", "ack", "exit"} => unsent = <<>>
  /\ Of(unsent, graph) /\ Of(down, graph)
  /\ pc \in Quitting => OnlyShutdown(unsent) /\ OnlyShutdown(down)
  /\ pc \in Greeting \cup Trying =>
       /\ MainLast(unsent)
       /\ unsent # <<>> => NoMain(down)
       /\ unsent = <<>> => MainLast(down)

Quiet == Silent(out_main) /\ Silent(out_listener) /\ Silent(up)

\* An attempt is in one place: frames on the way, a bundle to stage, a staged
\* program, an applied one not yet reported, or one report.
Attempt ==
  /\ pc \notin Trying \/ unsent # <<>> \/ down # <<>> =>
       listener # "main" /\ staged = None /\ ~completing /\ Quiet
  /\ listener = "main" => received = graph /\ staged = None /\ ~completing /\ Quiet
  /\ staged # None => staged = graph /\ ~completing /\ Quiet
  /\ completing => running = graph /\ Quiet

Answers ==
  /\ Silent(up) \/ (Silent(out_main) /\ Silent(out_listener))
  /\ Silent(out_main) \/ Silent(out_listener)
  /\ OneReport(up) /\ OneReport(out_main) /\ OneReport(out_listener)
  /\ Tells(out_main, graph) /\ Tells(up, graph)
  /\ Lacks(out_main, "completed") \/ running = graph
  /\ Lacks(up, "completed") \/ main = "off" \/ running = graph

\* The runner runs the program built last whenever no attempt is under way.
Current == pc \in Idle /\ child = "alive" => running = graph

Live == Lifeline /\ Launched /\ Frames /\ Attempt /\ Answers /\ Current

\* An empty buffer holds nothing of any kind.
LEMMA EmptyTalk ==
  /\ Silent(<<>>) /\ OneReport(<<>>) /\ \A kind : Lacks(<<>>, kind)
  /\ \A p : Tells(<<>>, p) /\ Of(<<>>, p)
  /\ MainLast(<<>>) /\ NoMain(<<>>) /\ OnlyShutdown(<<>>)
<1>1. 1 .. Len(<<>>) = {} OBVIOUS
<1> QED BY <1>1 DEF Silent, OneReport, Lacks, Tells, Of, MainLast, NoMain, OnlyShutdown

\* A buffer without a report claims nothing.
LEMMA SilentTalk ==
  ASSUME NEW s, Silent(s)
  PROVE  OneReport(s) /\ Lacks(s, "completed") /\ \A p : Tells(s, p)
BY DEF Silent, OneReport, Lacks, Tells, Reports

\* Reading a frame: what is left, and what was read.
LEMMA TailTalk ==
  ASSUME NEW S, NEW s \in Seq(S), s # <<>>
  PROVE  /\ Silent(s) => Silent(Tail(s)) /\ Head(s).kind \notin Reports
         /\ OneReport(s) => OneReport(Tail(s))
         /\ OneReport(s) /\ Head(s).kind \in Reports => Silent(Tail(s))
         /\ \A kind : Lacks(s, kind) => Lacks(Tail(s), kind) /\ Head(s).kind # kind
         /\ \A p : Tells(s, p) =>
              Tells(Tail(s), p) /\ (Head(s).kind = "completed" => Head(s).about = p)
<1> DEFINE n == Len(s)
<1>1. /\ n \in Nat /\ 1 \in 1 .. n /\ Head(s) = s[1]
      /\ Len(Tail(s)) = n - 1 /\ \A k \in 1 .. n - 1 : Tail(s)[k] = s[k + 1]
  BY HeadTail
<1>2. \A k \in 1 .. n - 1 : k + 1 \in 1 .. n /\ k + 1 # 1 BY <1>1
<1>3. PICK t : t = Tail(s) OBVIOUS
<1> HIDE DEF n
<1>4. Len(t) = n - 1 /\ \A k \in 1 .. n - 1 : t[k] = s[k + 1] BY <1>1, <1>3
<1>5. Silent(s) => Silent(t) /\ s[1].kind \notin Reports BY <1>1, <1>2, <1>4 DEF Silent, n
<1>6. OneReport(s) => OneReport(t)
  <2> SUFFICES ASSUME OneReport(s), NEW j \in 1 .. n - 1, NEW k \in 1 .. n - 1,
                      t[j].kind \in Reports, t[k].kind \in Reports
               PROVE  j = k
    BY <1>4 DEF OneReport
  <2>1. j + 1 = k + 1 BY <1>2, <1>4 DEF OneReport, n
  <2> QED BY <2>1, <1>1
<1>7. OneReport(s) /\ s[1].kind \in Reports => Silent(t)
  <2> SUFFICES ASSUME OneReport(s), s[1].kind \in Reports, NEW k \in 1 .. n - 1,
                      t[k].kind \in Reports
               PROVE  FALSE
    BY <1>4 DEF Silent
  <2>1. k + 1 = 1 BY <1>1, <1>2, <1>4 DEF OneReport, n
  <2> QED BY <2>1, <1>2
<1>8. \A kind : Lacks(s, kind) => Lacks(t, kind) /\ s[1].kind # kind
  BY <1>1, <1>2, <1>4 DEF Lacks, n
<1>9. \A p : Tells(s, p) => Tells(t, p) /\ (s[1].kind = "completed" => s[1].about = p)
  BY <1>1, <1>2, <1>4 DEF Tells, n
<1> QED BY <1>1, <1>3, <1>5, <1>6, <1>7, <1>8, <1>9

\* Writing a frame: what the buffer holds then.
LEMMA AppendTalk ==
  ASSUME NEW S, NEW s \in Seq(S), NEW e \in S
  PROVE  /\ Silent(s) => OneReport(Append(s, e))
         /\ Silent(s) /\ e.kind \notin Reports => Silent(Append(s, e))
         /\ OneReport(s) /\ e.kind \notin Reports => OneReport(Append(s, e))
         /\ \A kind : Lacks(s, kind) /\ e.kind # kind => Lacks(Append(s, e), kind)
         /\ \A p : Tells(s, p) /\ (e.kind = "completed" => e.about = p)
                     => Tells(Append(s, e), p)
<1> DEFINE n == Len(s)
<1>1. PICK t : t = Append(s, e) OBVIOUS
<1>2. /\ n \in Nat /\ Len(t) = n + 1 /\ t[n + 1] = e /\ \A k \in 1 .. n : t[k] = s[k]
  BY <1>1, Appended
<1>3. \A k \in 1 .. n + 1 : k \in 1 .. n \/ k = n + 1 BY <1>2
<1> HIDE DEF n
<1>4. Silent(s) => OneReport(t) BY <1>2, <1>3 DEF Silent, OneReport, n
<1>5. Silent(s) /\ e.kind \notin Reports => Silent(t) BY <1>2, <1>3 DEF Silent, n
<1>6. OneReport(s) /\ e.kind \notin Reports => OneReport(t)
  BY <1>2, <1>3 DEF OneReport, n
<1>7. \A kind : Lacks(s, kind) /\ e.kind # kind => Lacks(t, kind)
  BY <1>2, <1>3 DEF Lacks, n
<1>8. \A p : Tells(s, p) /\ (e.kind = "completed" => e.about = p) => Tells(t, p)
  BY <1>2, <1>3 DEF Tells, n
<1> QED BY <1>1, <1>4, <1>5, <1>6, <1>7, <1>8

\* A buffer of one frame is what that frame is.
LEMMA ShortTalk ==
  ASSUME NEW s, Len(s) = 1
  PROVE  /\ OneReport(s) /\ (s[1].kind \notin Reports => Silent(s))
         /\ \A kind : s[1].kind # kind => Lacks(s, kind)
         /\ \A p : (s[1].kind = "completed" => s[1].about = p) => Tells(s, p)
<1>1. \A k \in 1 .. Len(s) : k = 1 OBVIOUS
<1> QED BY <1>1 DEF OneReport, Silent, Lacks, Tells

\* Markers and log lines end no wait.
LEMMA MarkerTalk ==
  ASSUME NEW m \in Markers \cup {"log", "shutdown_ack"}
  PROVE  /\ Silent(Marker(m)) /\ \A kind : m # kind => Lacks(Marker(m), kind)
<1>1. Len(Marker(m)) = 1 /\ Marker(m)[1].kind = m BY MarkerFacts
<1>2. m \notin Reports BY DEF Markers, Reports
<1> QED BY <1>1, <1>2, ShortTalk

\* A log line is no report and no marker.
LEMMA LogTalk == Silent(Log) /\ Lacks(Log, "started")
BY MarkerTalk DEF Log

\* The answer to a shutdown is no report.
LEMMA FarewellTalk == Silent(Log \o Marker("shutdown_ack"))
<1>1. PICK s : s = Log \o Marker("shutdown_ack") OBVIOUS
<1>2. Len(s) = 2 /\ s[1].kind = "log" /\ s[2].kind = "shutdown_ack" BY <1>1, FarewellFacts
<1>3. \A k \in 1 .. 2 : k = 1 \/ k = 2 OBVIOUS
<1>4. Silent(s) BY <1>2, <1>3 DEF Silent, Reports
<1> QED BY <1>1, <1>4

\* A report is one report, and tells of the program it names.
LEMMA ReportTalk ==
  ASSUME NEW kind \in Reports, NEW p \in Source, NEW r, r = <<[kind |-> kind, about |-> p]>>
  PROVE  /\ OneReport(r) /\ Tells(r, p) /\ Lacks(r, "started")
         /\ kind # "completed" => Lacks(r, "completed") /\ \A q : Tells(r, q)
<1>1. Len(r) = 1 /\ r[1].kind = kind /\ r[1].about = p BY ReportFacts DEF Reports
<1>2. kind # "started" BY DEF Reports
<1> QED BY <1>1, <1>2, ShortTalk

\* The runner takes the first frame off the socket; the main bundle is taken
\* last.
LEMMA TailFrames ==
  ASSUME NEW s \in Seq(DownFrame), s # <<>>
  PROVE  /\ \A p : Of(s, p) => Of(Tail(s), p) /\ Head(s).prog = p
         /\ MainLast(s) => /\ MainLast(Tail(s)) /\ Head(s).kind # "shutdown"
                           /\ Head(s).kind = "main" <=> Tail(s) = <<>>
         /\ NoMain(s) => NoMain(Tail(s)) /\ Head(s).kind \notin {"main", "shutdown"}
         /\ OnlyShutdown(s) => OnlyShutdown(Tail(s)) /\ Head(s).kind = "shutdown"
<1> DEFINE n == Len(s)
<1>1. /\ n \in Nat /\ 1 \in 1 .. n /\ Head(s) = s[1] /\ Tail(s) \in Seq(DownFrame)
      /\ Len(Tail(s)) = n - 1 /\ \A k \in 1 .. n - 1 : Tail(s)[k] = s[k + 1]
  BY HeadTail
<1>2. \A k \in 1 .. n - 1 : k + 1 \in 1 .. n /\ (k + 1 = n <=> k = n - 1) BY <1>1
<1>3. PICK t : t = Tail(s) OBVIOUS
<1>4. t = <<>> <=> n = 1 BY <1>1, <1>3
<1> HIDE DEF n
<1>5. Len(t) = n - 1 /\ \A k \in 1 .. n - 1 : t[k] = s[k + 1] BY <1>1, <1>3
<1>6. \A p : Of(s, p) => Of(t, p) /\ s[1].prog = p BY <1>1, <1>2, <1>5 DEF Of, n
<1>7. MainLast(s) => MainLast(t) /\ s[1].kind # "shutdown" /\ (s[1].kind = "main" <=> n = 1)
  <2>1. ASSUME MainLast(s)
        PROVE  \A k \in 1 .. n - 1 : (t[k].kind = "main" <=> k = n - 1) /\ t[k].kind # "shutdown"
    <3> TAKE k \in 1 .. n - 1
    <3>1. k + 1 \in 1 .. n /\ (k + 1 = n <=> k = n - 1) /\ t[k] = s[k + 1] BY <1>2, <1>5
    <3> QED BY <2>1, <3>1 DEF MainLast, n
  <2>2. MainLast(s) => MainLast(t) BY <1>5, <2>1 DEF MainLast
  <2>3. MainLast(s) => s[1].kind # "shutdown" /\ (s[1].kind = "main" <=> n = 1)
    BY <1>1 DEF MainLast, n
  <2> QED BY <2>2, <2>3
<1>8. NoMain(s) => NoMain(t) /\ s[1].kind \notin {"main", "shutdown"}
  BY <1>1, <1>2, <1>5 DEF NoMain, n
<1>9. OnlyShutdown(s) => OnlyShutdown(t) /\ s[1].kind = "shutdown"
  BY <1>1, <1>2, <1>5 DEF OnlyShutdown, n
<1> QED BY <1>1, <1>3, <1>4, <1>6, <1>7, <1>8, <1>9

\* The supervisor writes a frame behind the others.
LEMMA AppendFrames ==
  ASSUME NEW s \in Seq(DownFrame), NEW e \in DownFrame
  PROVE  /\ \A p : Of(s, p) /\ e.prog = p => Of(Append(s, e), p)
         /\ NoMain(s) /\ e.kind = "main" => MainLast(Append(s, e))
         /\ NoMain(s) /\ e.kind \notin {"main", "shutdown"} => NoMain(Append(s, e))
         /\ OnlyShutdown(s) /\ e.kind = "shutdown" => OnlyShutdown(Append(s, e))
<1> DEFINE n == Len(s)
<1>1. PICK t : t = Append(s, e) OBVIOUS
<1>2. /\ n \in Nat /\ Len(t) = n + 1 /\ t[n + 1] = e /\ \A k \in 1 .. n : t[k] = s[k]
  BY <1>1, Appended
<1>3. \A k \in 1 .. n + 1 : (k \in 1 .. n /\ k # n + 1) \/ k = n + 1 BY <1>2
<1> HIDE DEF n
<1>4. \A p : Of(s, p) /\ e.prog = p => Of(t, p) BY <1>2, <1>3 DEF Of, n
<1>5. NoMain(s) /\ e.kind = "main" => MainLast(t) BY <1>2, <1>3 DEF NoMain, MainLast, n
<1>6. NoMain(s) /\ e.kind \notin {"main", "shutdown"} => NoMain(t)
  BY <1>2, <1>3 DEF NoMain, n
<1>7. OnlyShutdown(s) /\ e.kind = "shutdown" => OnlyShutdown(t)
  BY <1>2, <1>3 DEF OnlyShutdown, n
<1> QED BY <1>1, <1>4, <1>5, <1>6, <1>7

\* What a greeting or an attempt sets out to send.
LEMMA BundlesFrames ==
  ASSUME NEW p \in Source
  PROVE  Bundles(p) # <<>> /\ Of(Bundles(p), p) /\ MainLast(Bundles(p))
<1>1. PICK s : s = Bundles(p) OBVIOUS
<1>2. /\ Len(s) = Dependencies + 2 /\ Dependencies \in Nat
      /\ \A k \in 1 .. Dependencies + 2 :
           /\ s[k].prog = p /\ s[k].kind # "shutdown"
           /\ s[k].kind = "main" <=> k = Dependencies + 2
  BY <1>1, BundlesFacts, SessionAssumption
<1>3. s # <<>> BY <1>2
<1>4. Of(s, p) /\ MainLast(s) BY <1>2 DEF Of, MainLast
<1> QED BY <1>1, <1>3, <1>4

\* What shutdownSession sets out to send.
LEMMA ShutdownFrame ==
  ASSUME NEW s, NEW p, s = <<[kind |-> "shutdown", prog |-> p]>>
  PROVE  OnlyShutdown(s) /\ Of(s, p)
<1>1. Len(s) = 1 /\ s[1].kind = "shutdown" /\ s[1].prog = p OBVIOUS
<1>2. \A k \in 1 .. Len(s) : k = 1 BY <1>1
<1> QED BY <1>1, <1>2 DEF OnlyShutdown, Of

-----------------------------------------------------------------------------
(* Every step of a desktop session keeps it in order.                      *)

\* A runner is launched, killed and lost as a whole.
LEMMA LifelineKept ==
  ASSUME Desktop, Sorts, Live, [Next]_vars
  PROVE  Lifeline'
<1>1. CASE CreateWatcher
  BY <1>1 DEF Live, Lifeline, InProgram, CreateWatcher, Snapshot, socket, runner
<1>2. CASE Spawn BY <1>2 DEF Live, Lifeline, InProgram, Spawn, socket
<1>3. CASE Accept BY <1>3 DEF Live, Lifeline, InProgram, Accept, socket, runner
<1>4. CASE WriteFrame BY <1>4 DEF Live, Lifeline, InProgram, WriteFrame, runner, Frames
<1>5. CASE Written BY <1>5 DEF Live, Lifeline, InProgram, Written, socket, runner, Frames
<1>6. CASE WriteFails
  BY <1>6 DEF Live, Lifeline, InProgram, WriteFails, EndSession, socket, runner
<1>7. CASE ReadHealth BY <1>7 DEF Live, Lifeline, InProgram, ReadHealth, runner, Required
<1>8. CASE RunnerExited
  BY <1>8 DEF Live, Lifeline, InProgram, RunnerExited, EndSession, socket, runner
<1>9. CASE NoticeChange
  BY <1>9 DEF Live, Lifeline, InProgram, NoticeChange, Changed, Snapshot, socket, runner
<1>10. CASE Rebuild BY <1>10 DEF Live, Lifeline, InProgram, Rebuild, socket, runner
<1>11. CASE RefreshList BY <1>11 DEF Live, Lifeline, InProgram, RefreshList, socket, runner
<1>12. CASE Refresh BY <1>12 DEF Live, Lifeline, InProgram, Refresh, socket, runner
<1>13. CASE RefreshFails
  BY <1>13 DEF Live, Lifeline, InProgram, RefreshFails, EndSession, socket, runner
<1>14. CASE Disconnected
  BY <1>14 DEF Live, Lifeline, InProgram, Disconnected, FallBack, Relaunch, GoOn, EndSession,
     KillRunner, RunnerStops, runner
<1>15. CASE AttemptTimesOut
  BY <1>15 DEF Live, Lifeline, InProgram, AttemptTimesOut, DeadlinePassed, FallBack, Relaunch,
     GoOn, EndSession, KillRunner, RunnerStops, runner
<1>16. CASE ReadIgnored BY <1>16 DEF Live, Lifeline, InProgram, ReadIgnored, super, runner
<1>17. CASE ReadCompleted BY <1>17 DEF Live, Lifeline, InProgram, ReadCompleted, runner
<1>18. CASE ReadFailure
  BY <1>18 DEF Live, Lifeline, InProgram, ReadFailure, FallBack, Relaunch, GoOn, EndSession,
     KillRunner, RunnerStops, runner
<1>19. CASE ReadAck BY <1>19 DEF Live, Lifeline, InProgram, ReadAck, runner
<1>20. CASE AckTimesOut BY <1>20 DEF Live, Lifeline, InProgram, AckTimesOut, socket, runner
<1>21. CASE FinishQuit
  BY <1>21 DEF Live, Lifeline, InProgram, FinishQuit, EndSession, KillRunner, RunnerStops,
     socket, runner
<1>22. CASE MainWrites
  BY <1>22 DEF Live, Lifeline, InProgram, MainWrites, super, Sorts, RunnerSorts
<1>23. CASE Connect BY <1>23 DEF Live, Lifeline, InProgram, Connect, super, socket
<1>24. CASE ReceiveBundle
  BY <1>24 DEF Live, Lifeline, InProgram, ReceiveBundle, super, Frames, Greeting, Trying,
     Quitting
<1>25. CASE Link BY <1>25 DEF Live, Lifeline, InProgram, Link, super, socket
<1>26. CASE FirstFrame
  BY <1>26 DEF Live, Lifeline, InProgram, FirstFrame, Entered, super, socket
<1>27. CASE ApplySwap BY <1>27 DEF Live, Lifeline, InProgram, ApplySwap, Entered, super, socket
<1>28. CASE CompleteSwap
  BY <1>28 DEF Live, Lifeline, InProgram, CompleteSwap, Entered, super, socket
<1>29. CASE RejectSwap
  BY <1>29 DEF Live, Lifeline, InProgram, RejectSwap, Entered, super, socket
<1>30. CASE ListenerWrites
  BY <1>30 DEF Live, Lifeline, InProgram, ListenerWrites, super, Sorts, RunnerSorts
<1>31. CASE ListenerReads
  BY <1>31 DEF Live, Lifeline, InProgram, ListenerReads, super, Sorts, Loads
<1>32. CASE StoreDependency
  BY <1>32 DEF Live, Lifeline, InProgram, StoreDependency, super, socket, Sorts, Loads
<1>33. CASE StageMainBundle
  BY <1>33 DEF Live, Lifeline, InProgram, StageMainBundle, super, socket, Sorts, Loads
<1>34. CASE Unlink BY <1>34 DEF Live, Lifeline, InProgram, Unlink, super, socket, runner
<1>35. CASE SpawnFails
  BY <1>35 DEF Live, Lifeline, InProgram, SpawnFails, EndSession, socket, runner
<1>36. CASE AcceptFails
  BY <1>36 DEF Live, Lifeline, InProgram, AcceptFails, EndSession, KillRunner, RunnerStops,
     socket, runner
<1>37. CASE HealthFails
  BY <1>37 DEF Live, Lifeline, InProgram, HealthFails, EndSession, KillRunner, RunnerStops,
     socket, runner
<1>38. CASE BeginQuit BY <1>38 DEF Live, Lifeline, InProgram, BeginQuit, socket, runner
<1>39. CASE AppLogs BY <1>39 DEF Live, Lifeline, InProgram, AppLogs, Entered, super, socket
<1>40. CASE ListenerDies
  BY <1>40 DEF Live, Lifeline, InProgram, ListenerDies, super, socket, Sorts, Loads
<1>41. CASE RunnerExits BY <1>41 DEF Live, Lifeline, InProgram, RunnerExits, RunnerStops, super
<1>42. ASSUME NEW native \in {0, 1}, NEW layout \in {0, 1}, NEW ok \in BOOLEAN,
              Save(native, layout, ok)
       PROVE  Lifeline'
  BY <1>42 DEF Live, Lifeline, InProgram, Save, super, socket, runner
<1>43. CASE UNCHANGED vars BY <1>43 DEF Live, Lifeline, InProgram, vars, super, socket, runner
<1> QED
  BY <1>1, <1>2, <1>3, <1>4, <1>5, <1>6, <1>7, <1>8, <1>9, <1>10, <1>11, <1>12, <1>13, <1>14,
     <1>15, <1>16, <1>17, <1>18, <1>19, <1>20, <1>21, <1>22, <1>23, <1>24, <1>25, <1>26, <1>27,
     <1>28, <1>29, <1>30, <1>31, <1>32, <1>33, <1>34, <1>35, <1>36, <1>37, <1>38, <1>39, <1>40,
     <1>41, <1>42, <1>43 DEF Next, Supervisor, MainThread, ListenerThread, Environment, Editor

\* The greeting ends with the program entered.
LEMMA LaunchedKept ==
  ASSUME Desktop, Sorts, Live, [Next]_vars
  PROVE  Launched'
<1>1. CASE CreateWatcher
  BY <1>1 DEF Live, Lifeline, Launched, InProgram, Greeting, Idle, Trying, Quitting,
     CreateWatcher, Snapshot, socket, runner, swap
<1>2. CASE Spawn
  BY <1>2 DEF Live, Lifeline, Launched, InProgram, Greeting, Idle, Trying, Quitting, Spawn,
     socket, swap
<1>3. CASE Accept
  <2>1. /\ main \in {"connect", "receive"} /\ up = <<>> /\ out_main = <<>> /\ pc' = "greet"
        /\ markers' = {} /\ UNCHANGED <<main, up, out_main>>
    BY <1>3 DEF Live, Lifeline, Sorts, RunnerSorts, Accept, socket, runner
  <2> QED BY <2>1, EmptyTalk DEF Launched, InProgram, Greeting, Idle, Trying, Quitting
<1>4. CASE WriteFrame
  BY <1>4 DEF Live, Lifeline, Launched, InProgram, Greeting, Idle, Trying, Quitting,
     WriteFrame, runner, swap
<1>5. CASE Written
  BY <1>5 DEF Live, Lifeline, Launched, InProgram, Greeting, Idle, Trying, Quitting, Written,
     socket, runner, swap
<1>6. CASE WriteFails
  BY <1>6 DEF Live, Lifeline, Launched, InProgram, Greeting, Idle, Trying, Quitting,
     WriteFails, EndSession, socket, runner, swap
<1>7. CASE ReadHealth
  <2>1. /\ \A kind : Lacks(up, kind) => Lacks(Tail(up), kind) /\ Head(up).kind # kind
        /\ up' = Tail(up)
    BY <1>7, TailTalk DEF Sorts, SocketSorts, ReadHealth
  <2>2. pc' \in {"health", "watch"} /\ UNCHANGED <<main, out_main, bundle, graph, unsent, down, running>>
    BY <1>7 DEF ReadHealth, runner, swap
  <2>3. markers' \in {markers, markers \cup {Head(up).kind}} BY <1>7 DEF ReadHealth
  <2>4. pc' = "watch" => "started" \in markers' BY <1>7 DEF ReadHealth, Required, Markers
  <2>5. ASSUME main \in {"connect", "receive", "link"}
        PROVE  "started" \notin markers' /\ Lacks(up', "started") /\ Lacks(out_main', "started")
    BY <1>7, <2>1, <2>2, <2>3, <2>5 DEF Live, Launched, Greeting, ReadHealth
  <2>6. pc' = "watch" => main = "off" \/ InProgram
    BY <2>4, <2>5 DEF Sorts, RunnerSorts, InProgram
  <2>7. pc = "health" BY <1>7 DEF ReadHealth
  <2> QED
    BY <2>2, <2>5, <2>6, <2>7 DEF Live, Launched, InProgram, Greeting, Idle, Trying, Quitting
<1>8. CASE RunnerExited
  BY <1>8 DEF Live, Lifeline, Launched, InProgram, Greeting, Idle, Trying, Quitting,
     RunnerExited, EndSession, socket, runner, swap
<1>9. CASE NoticeChange
  BY <1>9 DEF Live, Lifeline, Launched, InProgram, Greeting, Idle, Trying, Quitting,
     NoticeChange, Changed, Snapshot, socket, runner, swap
<1>10. CASE Rebuild
  BY <1>10 DEF Live, Lifeline, Launched, InProgram, Greeting, Idle, Trying, Quitting, Rebuild,
     socket, runner, swap
<1>11. CASE RefreshList
  BY <1>11 DEF Live, Lifeline, Launched, InProgram, Greeting, Idle, Trying, Quitting,
     RefreshList, socket, runner, swap
<1>12. CASE Refresh
  BY <1>12 DEF Live, Lifeline, Launched, InProgram, Greeting, Idle, Trying, Quitting, Refresh,
     socket, runner, swap
<1>13. CASE RefreshFails
  BY <1>13 DEF Live, Lifeline, Launched, InProgram, Greeting, Idle, Trying, Quitting,
     RefreshFails, EndSession, socket, runner, swap
<1>14. CASE Disconnected
  BY <1>14 DEF Live, Lifeline, Launched, InProgram, Greeting, Idle, Trying, Quitting,
     Disconnected, FallBack, Relaunch, GoOn, EndSession, KillRunner, RunnerStops, runner, swap
<1>15. CASE AttemptTimesOut
  BY <1>15 DEF Live, Lifeline, Launched, InProgram, Greeting, Idle, Trying, Quitting,
     AttemptTimesOut, DeadlinePassed, FallBack, Relaunch, GoOn, EndSession, KillRunner,
     RunnerStops, runner, swap
<1>16. CASE ReadIgnored
  BY <1>16 DEF Live, Lifeline, Launched, InProgram, Greeting, Idle, Trying, Quitting,
     ReadIgnored, super, runner, swap
<1>17. CASE ReadCompleted
  BY <1>17 DEF Live, Lifeline, Launched, InProgram, Greeting, Idle, Trying, Quitting,
     ReadCompleted, runner, swap
<1>18. CASE ReadFailure
  BY <1>18 DEF Live, Lifeline, Launched, InProgram, Greeting, Idle, Trying, Quitting,
     ReadFailure, FallBack, Relaunch, GoOn, EndSession, KillRunner, RunnerStops, runner, swap
<1>19. CASE ReadAck
  BY <1>19 DEF Live, Lifeline, Launched, InProgram, Greeting, Idle, Trying, Quitting, ReadAck,
     runner, swap
<1>20. CASE AckTimesOut
  BY <1>20 DEF Live, Lifeline, Launched, InProgram, Greeting, Idle, Trying, Quitting,
     AckTimesOut, socket, runner, swap
<1>21. CASE FinishQuit
  BY <1>21 DEF Live, Lifeline, Launched, InProgram, Greeting, Idle, Trying, Quitting,
     FinishQuit, EndSession, KillRunner, RunnerStops, socket, runner, swap
<1>22. CASE MainWrites
  <2>1. ASSUME Lacks(up, "started"), Lacks(out_main, "started")
        PROVE  Lacks(up', "started") /\ Lacks(out_main', "started")
    <3>1. out_main # <<>> /\ up' = Append(up, Head(out_main)) /\ out_main' = Tail(out_main)
      BY <1>22 DEF MainWrites
    <3>2. out_main \in Seq(Told) /\ up \in Seq(Told) BY DEF Sorts, SocketSorts, RunnerSorts
    <3>3. Head(out_main) \in Told BY <3>1, <3>2, HeadTail
    <3>4. Lacks(Tail(out_main), "started") /\ Head(out_main).kind # "started"
      BY <2>1, <3>1, <3>2, TailTalk
    <3> QED BY <2>1, <3>1, <3>2, <3>3, <3>4, AppendTalk
  <2> QED BY <1>22, <2>1
       DEF Live, Launched, InProgram, Greeting, Idle, Trying, Quitting, MainWrites, super, swap
<1>23. CASE Connect
  BY <1>23 DEF Live, Lifeline, Launched, InProgram, Greeting, Idle, Trying, Quitting, Connect,
     super, socket, swap
<1>24. CASE ReceiveBundle
  <2>1. main = "receive" /\ down # <<>> /\ pc' = pc /\ down' = Tail(down)
        /\ UNCHANGED <<up, markers, graph, unsent>>
    BY <1>24 DEF ReceiveBundle, super
  <2>2. pc \in Greeting
   
      BY <2>1 DEF Live, Launched, Frames, InProgram, Greeting, Idle, Trying, Quitting, Sorts,
         SuperSorts
  <2>3. "started" \notin markers /\ Lacks(up, "started")
    BY <2>1, <2>2 DEF Live, Launched
  <2>4. Lacks(out_main', "started")
    <3>1. Lacks(Marker("graph"), "started") /\ Lacks(Marker("loaded"), "started")
      BY MarkerTalk DEF Markers
    <3> QED BY <1>24, <3>1, EmptyTalk DEF ReceiveBundle
  <2>5. ~InProgram' BY <1>24 DEF ReceiveBundle, InProgram
  <2>6. main' = "link" => bundle' = graph /\ unsent = <<>> /\ down' = <<>>
    <3>1. SUFFICES ASSUME main' = "link"
                   PROVE  bundle' = graph /\ unsent = <<>> /\ down' = <<>>
      OBVIOUS
    <3>2. Head(down).kind = "main" /\ bundle' = Head(down).prog
      BY <1>24, <3>1, <2>1 DEF ReceiveBundle
    <3>3. down \in Seq(DownFrame) BY DEF Sorts, SocketSorts
    <3>4. Of(down, graph) /\ (unsent # <<>> => NoMain(down)) /\ (unsent = <<>> => MainLast(down))
      BY <2>2 DEF Live, Frames
    <3> QED BY <2>1, <3>2, <3>3, <3>4, TailFrames
  <2> QED BY <2>1, <2>2, <2>3, <2>4, <2>5, <2>6 DEF Launched, Greeting, Idle, Trying, Quitting
<1>25. CASE Link
  BY <1>25 DEF Live, Lifeline, Launched, InProgram, Greeting, Idle, Trying, Quitting, Link,
     super, socket
<1>26. CASE FirstFrame
  BY <1>26 DEF Live, Lifeline, Launched, InProgram, Greeting, Idle, Trying, Quitting,
     FirstFrame, Entered, super, socket, swap
<1>27. CASE ApplySwap
  BY <1>27 DEF Live, Lifeline, Launched, InProgram, Greeting, Idle, Trying, Quitting,
     ApplySwap, Entered, super, socket, Attempt
<1>28. CASE CompleteSwap
  BY <1>28 DEF Live, Lifeline, Launched, InProgram, Greeting, Idle, Trying, Quitting,
     CompleteSwap, Entered, super, socket
<1>29. CASE RejectSwap
  BY <1>29 DEF Live, Lifeline, Launched, InProgram, Greeting, Idle, Trying, Quitting,
     RejectSwap, Entered, super, socket
<1>30. CASE ListenerWrites
  BY <1>30 DEF Live, Lifeline, Launched, InProgram, Greeting, Idle, Trying, Quitting,
     ListenerWrites, super, swap
<1>31. CASE ListenerReads
  BY <1>31 DEF Live, Lifeline, Launched, InProgram, Greeting, Idle, Trying, Quitting,
     ListenerReads, super, swap
<1>32. CASE StoreDependency
  BY <1>32 DEF Live, Lifeline, Launched, InProgram, Greeting, Idle, Trying, Quitting,
     StoreDependency, super, socket, swap
<1>33. CASE StageMainBundle
  BY <1>33 DEF Live, Lifeline, Launched, InProgram, Greeting, Idle, Trying, Quitting,
     StageMainBundle, super, socket
<1>34. CASE Unlink
  BY <1>34 DEF Live, Lifeline, Launched, InProgram, Greeting, Idle, Trying, Quitting, Unlink,
     super, socket, runner, swap
<1>35. CASE SpawnFails
  BY <1>35 DEF Live, Lifeline, Launched, InProgram, Greeting, Idle, Trying, Quitting,
     SpawnFails, EndSession, socket, runner, swap
<1>36. CASE AcceptFails
  BY <1>36 DEF Live, Lifeline, Launched, InProgram, Greeting, Idle, Trying, Quitting,
     AcceptFails, EndSession, KillRunner, RunnerStops, socket, runner, swap
<1>37. CASE HealthFails
  BY <1>37 DEF Live, Lifeline, Launched, InProgram, Greeting, Idle, Trying, Quitting,
     HealthFails, EndSession, KillRunner, RunnerStops, socket, runner, swap
<1>38. CASE BeginQuit
  BY <1>38 DEF Live, Lifeline, Launched, InProgram, Greeting, Idle, Trying, Quitting,
     BeginQuit, socket, runner, swap
<1>39. CASE AppLogs
  BY <1>39 DEF Live, Lifeline, Launched, InProgram, Greeting, Idle, Trying, Quitting, AppLogs,
     Entered, super, socket, swap
<1>40. CASE ListenerDies
  BY <1>40 DEF Live, Lifeline, Launched, InProgram, Greeting, Idle, Trying, Quitting,
     ListenerDies, super, socket, swap
<1>41. CASE RunnerExits
  BY <1>41 DEF Live, Lifeline, Launched, InProgram, Greeting, Idle, Trying, Quitting,
     RunnerExits, RunnerStops, super
<1>42. ASSUME NEW native \in {0, 1}, NEW layout \in {0, 1}, NEW ok \in BOOLEAN,
              Save(native, layout, ok)
       PROVE  Launched'
 
    BY <1>42 DEF Live, Lifeline, Launched, InProgram, Greeting, Idle, Trying, Quitting, Save,
       super, socket, runner, swap
<1>43. CASE UNCHANGED vars
  BY <1>43 DEF Live, Lifeline, Launched, InProgram, Greeting, Idle, Trying, Quitting, vars,
     super, socket, runner, swap
<1> QED
  BY <1>1, <1>2, <1>3, <1>4, <1>5, <1>6, <1>7, <1>8, <1>9, <1>10, <1>11, <1>12, <1>13, <1>14,
     <1>15, <1>16, <1>17, <1>18, <1>19, <1>20, <1>21, <1>22, <1>23, <1>24, <1>25, <1>26, <1>27,
     <1>28, <1>29, <1>30, <1>31, <1>32, <1>33, <1>34, <1>35, <1>36, <1>37, <1>38, <1>39, <1>40,
     <1>41, <1>42, <1>43 DEF Next, Supervisor, MainThread, ListenerThread, Environment, Editor

\* Frames reach the runner in the order of sendGraphAndBundles.
LEMMA FramesKept ==
  ASSUME Desktop, Sorts, Live, [Next]_vars
  PROVE  Frames'
<1>1. CASE CreateWatcher
  BY <1>1 DEF Live, Frames, Greeting, Trying, Quitting, CreateWatcher, Snapshot, socket
<1>2. CASE Spawn BY <1>2 DEF Live, Frames, Greeting, Trying, Quitting, Spawn, socket
<1>3. CASE Accept
  <2>1. Of(Bundles(graph), graph) /\ MainLast(Bundles(graph)) /\ Bundles(graph) # <<>>
    BY BundlesFrames DEF Sorts, SuperSorts
  <2>2. down = <<>> BY <1>3 DEF Live, Frames, Greeting, Trying, Quitting, Accept
  <2> QED BY <1>3, <2>1, <2>2, EmptyTalk DEF Frames, Greeting, Trying, Quitting, Accept, socket
<1>4. CASE WriteFrame
  <2>1. /\ pc \in {"greet", "send", "quit"} /\ unsent # <<>> /\ down' = Append(down, Head(unsent))
        /\ unsent' = Tail(unsent) /\ UNCHANGED <<pc, graph>>
    BY <1>4 DEF WriteFrame
  <2>2. unsent \in Seq(DownFrame) /\ down \in Seq(DownFrame) BY DEF Sorts, SuperSorts, SocketSorts
  <2>3. Head(unsent) \in DownFrame BY <2>1, <2>2, HeadTail
  <2>4. Of(unsent', graph) /\ Of(down', graph)
    BY <2>1, <2>2, <2>3, TailFrames, AppendFrames DEF Live, Frames
  <2>5. pc = "quit" => OnlyShutdown(unsent') /\ OnlyShutdown(down')
    BY <2>1, <2>2, <2>3, TailFrames, AppendFrames DEF Live, Frames, Quitting
  <2>6. pc # "quit" => MainLast(unsent') /\ (unsent' # <<>> => NoMain(down'))
                       /\ (unsent' = <<>> => MainLast(down'))
    <3>1. SUFFICES ASSUME pc # "quit"
                   PROVE  /\ MainLast(unsent') /\ (unsent' # <<>> => NoMain(down'))
                          /\ unsent' = <<>> => MainLast(down')
      OBVIOUS
    <3>2. MainLast(unsent) /\ NoMain(down) BY <2>1, <3>1 DEF Live, Frames, Greeting, Trying
    <3>3. /\ MainLast(Tail(unsent)) /\ Head(unsent).kind # "shutdown"
          /\ Head(unsent).kind = "main" <=> Tail(unsent) = <<>>
      BY <2>1, <2>2, <3>2, TailFrames
    <3> QED BY <2>1, <2>2, <2>3, <3>2, <3>3, AppendFrames
  <2> QED BY <2>1, <2>4, <2>5, <2>6 DEF Frames, Greeting, Trying, Quitting
<1>5. CASE Written BY <1>5 DEF Live, Frames, Greeting, Trying, Quitting, Written, socket
<1>6. CASE WriteFails
  <2>1. down = <<>> BY <1>6 DEF Live, Lifeline, WriteFails
  <2> QED
    BY <1>6, <2>1, EmptyTalk DEF Frames, Greeting, Trying, Quitting, WriteFails, EndSession,
       socket
<1>7. CASE ReadHealth
  <2>1. pc = "health" /\ pc' \in {"health", "watch"} /\ UNCHANGED <<unsent, down, graph, main>>
    BY <1>7 DEF ReadHealth, runner
  <2>2. pc' = "watch" => main = "off" \/ InProgram
    BY <2>1, LaunchedKept DEF Launched, Idle, InProgram
  <2>3. pc' = "watch" => unsent = <<>> /\ down = <<>>
    BY <2>1, <2>2 DEF Live, Lifeline, Launched, Frames, Greeting
  <2> QED BY <2>1, <2>3 DEF Live, Frames, Greeting, Trying, Quitting
<1>8. CASE RunnerExited
  BY <1>8 DEF Live, Frames, Greeting, Trying, Quitting, RunnerExited, EndSession, socket
<1>9. CASE NoticeChange
  BY <1>9 DEF Live, Frames, Greeting, Trying, Quitting, NoticeChange, Changed, Snapshot, socket
<1>10. CASE Rebuild BY <1>10 DEF Live, Frames, Greeting, Trying, Quitting, Rebuild, socket
<1>11. CASE RefreshList
  BY <1>11 DEF Live, Frames, Greeting, Trying, Quitting, RefreshList, socket
<1>12. CASE Refresh
  <2>1. compiled \in Source BY DEF Sorts, SuperSorts
  <2>2. Of(Bundles(compiled), compiled) /\ MainLast(Bundles(compiled)) /\ Bundles(compiled) # <<>>
    BY <2>1, BundlesFrames
  <2>3. down = <<>> /\ unsent = <<>>
    BY <1>12 DEF Live, Frames, Greeting, Trying, Quitting, Refresh
  <2> QED BY <1>12, <2>2, <2>3, EmptyTalk DEF Frames, Greeting, Trying, Quitting, Refresh, socket
<1>13. CASE RefreshFails
  BY <1>13 DEF Live, Frames, Greeting, Trying, Quitting, RefreshFails, EndSession, socket
<1>14. CASE Disconnected
  BY <1>14, EmptyTalk DEF Live, Frames, Greeting, Trying, Quitting, Disconnected, FallBack,
     Relaunch, GoOn, EndSession, KillRunner, RunnerStops
<1>15. CASE AttemptTimesOut
  BY <1>15, EmptyTalk DEF Live, Frames, Greeting, Trying, Quitting, AttemptTimesOut,
     DeadlinePassed, FallBack, Relaunch, GoOn, EndSession, KillRunner, RunnerStops
<1>16. CASE ReadIgnored
  BY <1>16 DEF Live, Frames, Greeting, Trying, Quitting, ReadIgnored, super
<1>17. CASE ReadCompleted
  <2>1. ~Silent(up)
    BY <1>17, TailTalk DEF ReadCompleted, Sorts, SocketSorts, Reports
  <2>2. unsent = <<>> /\ down = <<>> BY <2>1 DEF Live, Attempt, Quiet
  <2> QED BY <1>17, <2>2 DEF Live, Frames, Greeting, Trying, Quitting, ReadCompleted
<1>18. CASE ReadFailure
  BY <1>18, EmptyTalk DEF Live, Frames, Greeting, Trying, Quitting, ReadFailure, FallBack,
     Relaunch, GoOn, EndSession, KillRunner, RunnerStops
<1>19. CASE ReadAck BY <1>19 DEF Live, Frames, Greeting, Trying, Quitting, ReadAck
<1>20. CASE AckTimesOut
  BY <1>20 DEF Live, Frames, Greeting, Trying, Quitting, AckTimesOut, socket
<1>21. CASE FinishQuit
  BY <1>21, EmptyTalk DEF Live, Frames, Greeting, Trying, Quitting, FinishQuit, EndSession,
     KillRunner, RunnerStops, socket
<1>22. CASE MainWrites BY <1>22 DEF Live, Frames, Greeting, Trying, Quitting, MainWrites, super
<1>23. CASE Connect
  BY <1>23 DEF Live, Frames, Greeting, Trying, Quitting, Connect, super, socket
<1>24. CASE ReceiveBundle
  <2>1. down # <<>> /\ down' = Tail(down) /\ UNCHANGED <<pc, unsent, graph>>
    BY <1>24 DEF ReceiveBundle, super
  <2>2. /\ \A p : Of(down, p) => Of(down', p)
        /\ MainLast(down) => MainLast(down')
        /\ NoMain(down) => NoMain(down')
        /\ OnlyShutdown(down) => OnlyShutdown(down')
    BY <2>1, TailFrames DEF Sorts, SocketSorts
  <2> QED BY <2>1, <2>2 DEF Live, Frames, Greeting, Trying, Quitting
<1>25. CASE Link BY <1>25 DEF Live, Frames, Greeting, Trying, Quitting, Link, super, socket
<1>26. CASE FirstFrame
  BY <1>26 DEF Live, Frames, Greeting, Trying, Quitting, FirstFrame, Entered, super, socket
<1>27. CASE ApplySwap
  BY <1>27 DEF Live, Frames, Greeting, Trying, Quitting, ApplySwap, Entered, super, socket
<1>28. CASE CompleteSwap
  BY <1>28 DEF Live, Frames, Greeting, Trying, Quitting, CompleteSwap, Entered, super, socket
<1>29. CASE RejectSwap
  BY <1>29 DEF Live, Frames, Greeting, Trying, Quitting, RejectSwap, Entered, super, socket
<1>30. CASE ListenerWrites
  BY <1>30 DEF Live, Frames, Greeting, Trying, Quitting, ListenerWrites, super
<1>31. CASE ListenerReads
  <2>1. down # <<>> /\ down' = Tail(down) /\ UNCHANGED <<pc, unsent, graph>>
    BY <1>31 DEF ListenerReads, super
  <2>2. /\ \A p : Of(down, p) => Of(down', p)
        /\ MainLast(down) => MainLast(down')
        /\ NoMain(down) => NoMain(down')
        /\ OnlyShutdown(down) => OnlyShutdown(down')
    BY <2>1, TailFrames DEF Sorts, SocketSorts
  <2> QED BY <2>1, <2>2 DEF Live, Frames, Greeting, Trying, Quitting
<1>32. CASE StoreDependency
  BY <1>32 DEF Live, Frames, Greeting, Trying, Quitting, StoreDependency, super, socket
<1>33. CASE StageMainBundle
  BY <1>33 DEF Live, Frames, Greeting, Trying, Quitting, StageMainBundle, super, socket
<1>34. CASE Unlink BY <1>34 DEF Live, Frames, Greeting, Trying, Quitting, Unlink, super, socket
<1>35. CASE SpawnFails
  BY <1>35 DEF Live, Frames, Greeting, Trying, Quitting, SpawnFails, EndSession, socket
<1>36. CASE AcceptFails
  BY <1>36, EmptyTalk DEF Live, Frames, Greeting, Trying, Quitting, AcceptFails, EndSession,
     KillRunner, RunnerStops, socket
<1>37. CASE HealthFails
  BY <1>37, EmptyTalk DEF Live, Frames, Greeting, Trying, Quitting, HealthFails, EndSession,
     KillRunner, RunnerStops, socket
<1>38. CASE BeginQuit
  <2>1. unsent' = <<[kind |-> "shutdown", prog |-> graph]>> BY <1>38 DEF BeginQuit
  <2>2. OnlyShutdown(unsent') /\ Of(unsent', graph) BY <2>1, ShutdownFrame
  <2>3. pc' = "quit" /\ graph' = graph /\ down' = down /\ down = <<>>
    BY <1>38 DEF BeginQuit, socket, Live, Frames, Greeting, Trying, Quitting
  <2> QED BY <2>2, <2>3, EmptyTalk DEF Frames, Greeting, Trying, Quitting
<1>39. CASE AppLogs
  BY <1>39 DEF Live, Frames, Greeting, Trying, Quitting, AppLogs, Entered, super, socket
<1>40. CASE ListenerDies
  BY <1>40 DEF Live, Frames, Greeting, Trying, Quitting, ListenerDies, super, socket
<1>41. CASE RunnerExits
  BY <1>41, EmptyTalk DEF Live, Frames, Greeting, Trying, Quitting, RunnerExits, RunnerStops,
     super
<1>42. ASSUME NEW native \in {0, 1}, NEW layout \in {0, 1}, NEW ok \in BOOLEAN,
              Save(native, layout, ok)
       PROVE  Frames'
  BY <1>42 DEF Live, Frames, Greeting, Trying, Quitting, Save, super, socket
<1>43. CASE UNCHANGED vars
  BY <1>43 DEF Live, Frames, Greeting, Trying, Quitting, vars, super, socket
<1> QED
  BY <1>1, <1>2, <1>3, <1>4, <1>5, <1>6, <1>7, <1>8, <1>9, <1>10, <1>11, <1>12, <1>13, <1>14,
     <1>15, <1>16, <1>17, <1>18, <1>19, <1>20, <1>21, <1>22, <1>23, <1>24, <1>25, <1>26, <1>27,
     <1>28, <1>29, <1>30, <1>31, <1>32, <1>33, <1>34, <1>35, <1>36, <1>37, <1>38, <1>39, <1>40,
     <1>41, <1>42, <1>43 DEF Next, Supervisor, MainThread, ListenerThread, Environment, Editor

\* What leaves the main thread's hands enters the socket.
LEMMA MainTalk ==
  ASSUME Sorts, MainWrites
  PROVE  /\ Head(out_main) \in Told /\ out_main \in Seq(Told) /\ out_main # <<>>
         /\ up \in Seq(Told) /\ out_main' = Tail(out_main)
         /\ up' = Append(up, Head(out_main))
BY HeadTail DEF Sorts, SocketSorts, RunnerSorts, MainWrites

\* ... and so does what the listener thread writes, which is never `completed`.
LEMMA ListenerTalk ==
  ASSUME Sorts, ListenerWrites
  PROVE  /\ Head(out_listener) \in Told /\ out_listener \in Seq(Untold) /\ out_listener # <<>>
         /\ Head(out_listener).kind # "completed"
         /\ up \in Seq(Told) /\ out_listener' = Tail(out_listener)
         /\ up' = Append(up, Head(out_listener))
BY HeadTail DEF Sorts, SocketSorts, RunnerSorts, ListenerWrites, Told, Untold

\* Writing what is no report leaves the session quiet.
LEMMA QuietWrites ==
  ASSUME Sorts, Quiet
  PROVE  (MainWrites \/ ListenerWrites) => Quiet'
<1>1. CASE MainWrites
  <2>1. Silent(Tail(out_main)) /\ Head(out_main).kind \notin Reports
    BY <1>1, MainTalk, TailTalk DEF Quiet
  <2>2. Silent(Append(up, Head(out_main))) BY <1>1, <2>1, MainTalk, AppendTalk DEF Quiet
  <2> QED BY <1>1, <2>1, <2>2 DEF Quiet, MainWrites
<1>2. CASE ListenerWrites
  <2>1. Silent(Tail(out_listener)) /\ Head(out_listener).kind \notin Reports
    BY <1>2, ListenerTalk, TailTalk DEF Quiet
  <2>2. Silent(Append(up, Head(out_listener))) BY <1>2, <2>1, ListenerTalk, AppendTalk DEF Quiet
  <2> QED BY <1>2, <2>1, <2>2 DEF Quiet, ListenerWrites
<1> QED BY <1>1, <1>2

\* An attempt moves from one place to the next and never is in two.
LEMMA AttemptKept ==
  ASSUME Desktop, Sorts, Live, [Next]_vars
  PROVE  Attempt'
<1>1. CASE CreateWatcher
  BY <1>1 DEF Live, Attempt, Quiet, Trying, CreateWatcher, Snapshot, socket, runner, swap
<1>2. CASE Spawn BY <1>2 DEF Live, Attempt, Quiet, Trying, Spawn, socket, swap
<1>3. CASE Accept BY <1>3 DEF Live, Attempt, Quiet, Trying, Accept, socket, runner, swap, Frames
<1>4. CASE WriteFrame BY <1>4 DEF Live, Attempt, Quiet, Trying, WriteFrame, runner, swap, Frames
<1>5. CASE Written BY <1>5 DEF Live, Attempt, Quiet, Trying, Written, socket, runner, swap
<1>6. CASE WriteFails
  BY <1>6 DEF Live, Attempt, Quiet, Trying, WriteFails, EndSession, socket, runner, swap
<1>7. CASE ReadHealth
  <2>1. Silent(up) => Silent(Tail(up)) BY <1>7, TailTalk DEF Sorts, SocketSorts, ReadHealth
  <2> QED BY <1>7, <2>1 DEF Live, Attempt, Quiet, Trying, ReadHealth, runner, swap
<1>8. CASE RunnerExited
  BY <1>8 DEF Live, Attempt, Quiet, Trying, RunnerExited, EndSession, socket, runner, swap
<1>9. CASE NoticeChange
  BY <1>9 DEF Live, Attempt, Quiet, Trying, NoticeChange, Changed, Snapshot, socket, runner,
     swap
<1>10. CASE Rebuild BY <1>10 DEF Live, Attempt, Quiet, Trying, Rebuild, socket, runner, swap
<1>11. CASE RefreshList
  BY <1>11 DEF Live, Attempt, Quiet, Trying, RefreshList, socket, runner, swap
<1>12. CASE Refresh BY <1>12 DEF Live, Attempt, Quiet, Trying, Refresh, socket, runner, swap
<1>13. CASE RefreshFails
  BY <1>13 DEF Live, Attempt, Quiet, Trying, RefreshFails, EndSession, socket, runner, swap
<1>14. CASE Disconnected
  BY <1>14, EmptyTalk DEF Live, Attempt, Quiet, Trying, Disconnected, FallBack, Relaunch, GoOn,
     EndSession, KillRunner, RunnerStops, runner, swap
<1>15. CASE AttemptTimesOut
  BY <1>15, EmptyTalk DEF Live, Attempt, Quiet, Trying, AttemptTimesOut, DeadlinePassed,
     FallBack, Relaunch, GoOn, EndSession, KillRunner, RunnerStops, runner, swap
<1>16. CASE ReadIgnored
  <2>1. Silent(up) => Silent(Tail(up)) BY <1>16, TailTalk DEF Sorts, SocketSorts, ReadIgnored
  <2> QED BY <1>16, <2>1 DEF Live, Attempt, Quiet, Trying, ReadIgnored, super, runner, swap
<1>17. CASE ReadCompleted
  <2>1. ~Silent(up) /\ Silent(Tail(up))
    BY <1>17, TailTalk DEF ReadCompleted, Sorts, SocketSorts, Reports, Live, Answers
  <2>2. /\ listener # "main" /\ staged = None /\ ~completing
        /\ Silent(out_main) /\ Silent(out_listener)
    BY <2>1 DEF Live, Attempt, Answers, Quiet
  <2> QED BY <1>17, <2>1, <2>2 DEF Attempt, Quiet, Trying, ReadCompleted, runner, swap
<1>18. CASE ReadFailure
  BY <1>18, EmptyTalk DEF Live, Attempt, Quiet, Trying, ReadFailure, FallBack, Relaunch, GoOn,
     EndSession, KillRunner, RunnerStops, runner, swap
<1>19. CASE ReadAck
  <2>1. Silent(up) => Silent(Tail(up)) BY <1>19, TailTalk DEF Sorts, SocketSorts, ReadAck
  <2> QED BY <1>19, <2>1 DEF Live, Attempt, Quiet, Trying, ReadAck, runner, swap
<1>20. CASE AckTimesOut
  BY <1>20 DEF Live, Attempt, Quiet, Trying, AckTimesOut, socket, runner, swap
<1>21. CASE FinishQuit
  BY <1>21, EmptyTalk DEF Live, Attempt, Quiet, Trying, FinishQuit, EndSession, KillRunner,
     RunnerStops, socket, runner, swap
<1>22. CASE MainWrites
  <2>1. Quiet => Quiet' BY <1>22, QuietWrites
  <2> QED BY <1>22, <2>1 DEF Live, Attempt, Trying, MainWrites, super, swap
<1>23. CASE Connect BY <1>23 DEF Live, Attempt, Quiet, Trying, Connect, super, socket, swap
<1>24. CASE ReceiveBundle
  <2>1. pc \notin Trying /\ ~InProgram'
    BY <1>24 DEF Live, Launched, InProgram, Trying, ReceiveBundle
  <2>2. Silent(out_main')
    <3>1. Silent(Marker("graph")) /\ Silent(Marker("loaded")) BY MarkerTalk DEF Markers
    <3> QED BY <1>24, <3>1, EmptyTalk DEF ReceiveBundle
  <2>3. Quiet' BY <1>24, <2>1, <2>2 DEF Live, Attempt, Quiet, ReceiveBundle
  <2>4. listener = "off" /\ staged = None /\ ~completing
    BY <1>24 DEF Sorts, Loads, InProgram, ReceiveBundle
  <2> QED BY <1>24, <2>3, <2>4 DEF Attempt, ReceiveBundle, swap
<1>25. CASE Link
  <2>1. pc \notin Trying /\ pc' = pc
    BY <1>25 DEF Live, Launched, InProgram, Trying, Link, super
  <2>2. Silent(out_main') BY <1>25, MarkerTalk DEF Link, Markers
  <2>3. Quiet' BY <1>25, <2>1, <2>2 DEF Live, Attempt, Quiet, Link, socket
  <2>4. staged = None /\ ~completing BY <1>25 DEF Sorts, Loads, InProgram, Link
  <2> QED BY <1>25, <2>1, <2>3, <2>4 DEF Attempt, Link
<1>26. CASE FirstFrame
  <2>1. Silent(out_main') BY <1>26, MarkerTalk DEF FirstFrame, Markers
  <2>2. Quiet => Quiet' BY <1>26, <2>1 DEF Quiet, FirstFrame, socket
  <2> QED BY <1>26, <2>2 DEF Live, Attempt, Trying, FirstFrame, super, socket, swap
<1>27. CASE ApplySwap
  BY <1>27 DEF Live, Attempt, Quiet, Trying, ApplySwap, Entered, super, socket
<1>28. CASE CompleteSwap
  BY <1>28 DEF Live, Attempt, Quiet, Trying, CompleteSwap, Entered, super, socket
<1>29. CASE RejectSwap
  BY <1>29 DEF Live, Attempt, Quiet, Trying, RejectSwap, Entered, super, socket
<1>30. CASE ListenerWrites
  <2>1. Quiet => Quiet' BY <1>30, QuietWrites
  <2> QED BY <1>30, <2>1 DEF Live, Attempt, Trying, ListenerWrites, super, swap
<1>31. CASE ListenerReads
  <2>1. down # <<>> /\ down' = Tail(down) /\ down \in Seq(DownFrame)
        /\ listener = "read" /\ UNCHANGED <<pc, unsent, graph, staged, completing, running>>
    BY <1>31 DEF ListenerReads, super, swap, Sorts, SocketSorts
  <2>2. staged = None /\ ~completing /\ Quiet BY <2>1 DEF Live, Attempt
  <2>3. Silent(out_listener') BY <1>31, EmptyTalk, LogTalk, FarewellTalk DEF ListenerReads
  <2>4. Quiet' BY <1>31, <2>2, <2>3 DEF Quiet, ListenerReads
  <2>5. ASSUME Head(down).kind = "main"
        PROVE  pc \in Trying /\ unsent = <<>> /\ down' = <<>> /\ received' = graph
    <3>1. Of(down, graph) BY DEF Live, Frames
    <3>2. ~OnlyShutdown(down) /\ ~NoMain(down) BY <2>1, <2>5, TailFrames
    <3>3. pc \notin Quitting BY <3>2 DEF Live, Frames
    <3>4. InProgram BY <2>1 DEF Sorts, Loads
    <3>5. pc \in Trying
      BY <2>1, <3>3, <3>4 DEF Live, Frames, Launched
    <3>6. unsent = <<>> /\ MainLast(down) BY <3>2, <3>5 DEF Live, Frames
    <3>7. received' = Head(down).prog BY <1>31, <2>5 DEF ListenerReads
    <3> QED BY <2>1, <2>5, <3>1, <3>5, <3>6, <3>7, TailFrames
  <2>6. listener' = "main" => Head(down).kind = "main"
    <3>1. Head(down) \in DownFrame BY <2>1, HeadTail
    <3>2. Head(down).kind \in {"graph", "dep", "main", "shutdown"} BY <3>1 DEF DownFrame
    <3> QED BY <1>31, <3>2 DEF ListenerReads
  <2> QED BY <2>1, <2>2, <2>4, <2>5, <2>6 DEF Attempt
<1>32. CASE StoreDependency
  BY <1>32 DEF Live, Attempt, Quiet, Trying, StoreDependency, super, socket, swap
<1>33. CASE StageMainBundle
  <2>1. /\ listener = "main" /\ received = graph /\ staged = None /\ ~completing /\ Quiet
        /\ pc \in Trying /\ unsent = <<>> /\ down = <<>>
    BY <1>33 DEF Live, Attempt, StageMainBundle
  <2>2. /\ listener' = "read"
        /\ UNCHANGED <<pc, unsent, down, graph, completing, out_main, up>>
    BY <1>33 DEF StageMainBundle, super, socket
  <2>3. (staged' = received /\ out_listener' = Log) \/ staged' = staged
    BY <1>33 DEF StageMainBundle
  <2>4. out_listener' = Log => Quiet' BY <2>1, <2>2, LogTalk DEF Quiet
  <2> QED BY <2>1, <2>2, <2>3, <2>4 DEF Attempt
<1>34. CASE Unlink
  BY <1>34 DEF Live, Attempt, Quiet, Trying, Unlink, super, socket, runner, swap
<1>35. CASE SpawnFails
  BY <1>35 DEF Live, Attempt, Quiet, Trying, SpawnFails, EndSession, socket, runner, swap
<1>36. CASE AcceptFails
  BY <1>36, EmptyTalk DEF Live, Attempt, Quiet, Trying, AcceptFails, EndSession, KillRunner,
     RunnerStops, socket, runner, swap
<1>37. CASE HealthFails
  BY <1>37, EmptyTalk DEF Live, Attempt, Quiet, Trying, HealthFails, EndSession, KillRunner,
     RunnerStops, socket, runner, swap
<1>38. CASE BeginQuit BY <1>38 DEF Live, Attempt, Quiet, Trying, BeginQuit, socket, runner, swap
<1>39. CASE AppLogs
  <2>1. Silent(out_main') BY <1>39, LogTalk DEF AppLogs, Markers
  <2>2. Quiet => Quiet' BY <1>39, <2>1 DEF Quiet, AppLogs, socket
  <2> QED BY <1>39, <2>2 DEF Live, Attempt, Trying, AppLogs, super, socket, swap
<1>40. CASE ListenerDies
  <2>1. Silent(out_listener') BY <1>40, LogTalk DEF ListenerDies
  <2>2. Quiet => Quiet' BY <1>40, <2>1 DEF Quiet, ListenerDies, socket
  <2> QED BY <1>40, <2>2 DEF Live, Attempt, Trying, ListenerDies, super, socket, swap
<1>41. CASE RunnerExits
  BY <1>41, EmptyTalk DEF Live, Attempt, Quiet, Trying, RunnerExits, RunnerStops, super
<1>42. ASSUME NEW native \in {0, 1}, NEW layout \in {0, 1}, NEW ok \in BOOLEAN,
              Save(native, layout, ok)
       PROVE  Attempt'
  BY <1>42 DEF Live, Attempt, Quiet, Trying, Save, super, socket, runner, swap
<1>43. CASE UNCHANGED vars
  BY <1>43 DEF Live, Attempt, Quiet, Trying, vars, super, socket, runner, swap
<1> QED
  BY <1>1, <1>2, <1>3, <1>4, <1>5, <1>6, <1>7, <1>8, <1>9, <1>10, <1>11, <1>12, <1>13, <1>14,
     <1>15, <1>16, <1>17, <1>18, <1>19, <1>20, <1>21, <1>22, <1>23, <1>24, <1>25, <1>26, <1>27,
     <1>28, <1>29, <1>30, <1>31, <1>32, <1>33, <1>34, <1>35, <1>36, <1>37, <1>38, <1>39, <1>40,
     <1>41, <1>42, <1>43 DEF Next, Supervisor, MainThread, ListenerThread, Environment, Editor

\* One report per attempt, and what it claims is so.
LEMMA AnswersKept ==
  ASSUME Desktop, Sorts, Live, [Next]_vars
  PROVE  Answers'
<1>1. CASE CreateWatcher
  BY <1>1 DEF Live, Answers, CreateWatcher, Snapshot, socket, runner, swap
<1>2. CASE Spawn BY <1>2, EmptyTalk DEF Live, Answers, Spawn, socket, swap, Lifeline
<1>3. CASE Accept BY <1>3 DEF Live, Answers, Accept, socket, runner, swap
<1>4. CASE WriteFrame BY <1>4 DEF Live, Answers, WriteFrame, runner, swap
<1>5. CASE Written BY <1>5 DEF Live, Answers, Written, socket, runner, swap
<1>6. CASE WriteFails BY <1>6 DEF Live, Answers, WriteFails, EndSession, socket, runner, swap
<1>7. CASE ReadHealth
  <2>1. /\ Silent(up) => Silent(Tail(up))
        /\ OneReport(up) => OneReport(Tail(up))
        /\ Lacks(up, "completed") => Lacks(Tail(up), "completed")
        /\ Tells(up, graph) => Tells(Tail(up), graph)
    BY <1>7, TailTalk DEF Sorts, SocketSorts, ReadHealth
  <2> QED BY <1>7, <2>1 DEF Live, Answers, ReadHealth, runner, swap
<1>8. CASE RunnerExited
  BY <1>8 DEF Live, Answers, RunnerExited, EndSession, socket, runner, swap
<1>9. CASE NoticeChange
  BY <1>9 DEF Live, Answers, NoticeChange, Changed, Snapshot, socket, runner, swap
<1>10. CASE Rebuild BY <1>10 DEF Live, Answers, Rebuild, socket, runner, swap
<1>11. CASE RefreshList BY <1>11 DEF Live, Answers, RefreshList, socket, runner, swap
<1>12. CASE Refresh
  <2>1. Silent(up) /\ Silent(out_main) /\ Silent(out_listener)
    BY <1>12 DEF Live, Attempt, Quiet, Trying, Refresh
  <2> QED BY <1>12, <2>1, SilentTalk DEF Answers, Refresh, socket, runner, swap
<1>13. CASE RefreshFails
  BY <1>13 DEF Live, Answers, RefreshFails, EndSession, socket, runner, swap
<1>14. CASE Disconnected
  BY <1>14, EmptyTalk DEF Live, Answers, Disconnected, FallBack, Relaunch, GoOn, EndSession,
     KillRunner, RunnerStops, runner, swap
<1>15. CASE AttemptTimesOut
  BY <1>15, EmptyTalk DEF Live, Answers, AttemptTimesOut, DeadlinePassed, FallBack, Relaunch,
     GoOn, EndSession, KillRunner, RunnerStops, runner, swap
<1>16. CASE ReadIgnored
  <2>1. /\ Silent(up) => Silent(Tail(up))
        /\ OneReport(up) => OneReport(Tail(up))
        /\ Lacks(up, "completed") => Lacks(Tail(up), "completed")
        /\ Tells(up, graph) => Tells(Tail(up), graph)
    BY <1>16, TailTalk DEF Sorts, SocketSorts, ReadIgnored
  <2> QED BY <1>16, <2>1 DEF Live, Answers, ReadIgnored, super, runner, swap
<1>17. CASE ReadCompleted
  <2>1. /\ Silent(up) => Silent(Tail(up))
        /\ OneReport(up) => OneReport(Tail(up))
        /\ Lacks(up, "completed") => Lacks(Tail(up), "completed")
        /\ Tells(up, graph) => Tells(Tail(up), graph)
    BY <1>17, TailTalk DEF Sorts, SocketSorts, ReadCompleted
  <2> QED BY <1>17, <2>1 DEF Live, Answers, ReadCompleted, runner, swap
<1>18. CASE ReadFailure
  BY <1>18, EmptyTalk DEF Live, Answers, ReadFailure, FallBack, Relaunch, GoOn, EndSession,
     KillRunner, RunnerStops, runner, swap, Lifeline
<1>19. CASE ReadAck
  <2>1. /\ Silent(up) => Silent(Tail(up))
        /\ OneReport(up) => OneReport(Tail(up))
        /\ Lacks(up, "completed") => Lacks(Tail(up), "completed")
        /\ Tells(up, graph) => Tells(Tail(up), graph)
    BY <1>19, TailTalk DEF Sorts, SocketSorts, ReadAck
  <2> QED BY <1>19, <2>1 DEF Live, Answers, ReadAck, runner, swap
<1>20. CASE AckTimesOut BY <1>20 DEF Live, Answers, AckTimesOut, socket, runner, swap
<1>21. CASE FinishQuit
  BY <1>21, EmptyTalk DEF Live, Answers, FinishQuit, EndSession, KillRunner, RunnerStops,
     socket, runner, swap
<1>22. CASE MainWrites
  <2> DEFINE f == Head(out_main)
  <2>1. /\ f \in Told /\ out_main \in Seq(Told) /\ out_main # <<>> /\ up \in Seq(Told)
        /\ out_main' = Tail(out_main) /\ up' = Append(up, f)
    BY <1>22, MainTalk
  <2> HIDE DEF f
  <2>2. UNCHANGED <<out_listener, graph, running, main>> BY <1>22 DEF MainWrites, super, swap
  <2>3. /\ Silent(out_main) => Silent(out_main') /\ f.kind \notin Reports
        /\ OneReport(out_main) => OneReport(out_main')
        /\ OneReport(out_main) /\ f.kind \in Reports => Silent(out_main')
        /\ Lacks(out_main, "completed") => Lacks(out_main', "completed") /\ f.kind # "completed"
        /\ Tells(out_main, graph) =>
             Tells(out_main', graph) /\ (f.kind = "completed" => f.about = graph)
    BY <2>1, TailTalk DEF f
  <2>4. /\ Silent(up) => OneReport(up')
        /\ Silent(up) /\ f.kind \notin Reports => Silent(up')
        /\ OneReport(up) /\ f.kind \notin Reports => OneReport(up')
        /\ Lacks(up, "completed") /\ f.kind # "completed" => Lacks(up', "completed")
        /\ Tells(up, graph) /\ (f.kind = "completed" => f.about = graph) => Tells(up', graph)
    BY <2>1, AppendTalk
  <2> QED BY <2>2, <2>3, <2>4 DEF Live, Answers
<1>23. CASE Connect BY <1>23 DEF Live, Answers, Connect, super, socket, swap
<1>24. CASE ReceiveBundle
  <2>1. Silent(out_main')
    <3>1. Silent(Marker("graph")) /\ Silent(Marker("loaded")) BY MarkerTalk DEF Markers
    <3> QED BY <1>24, <3>1, EmptyTalk DEF ReceiveBundle
  <2>2. OneReport(out_main') /\ Tells(out_main', graph) /\ Lacks(out_main', "completed")
    BY <2>1, SilentTalk
  <2>3. Silent(up) /\ Silent(out_listener)
    BY <1>24 DEF Live, Launched, Attempt, Quiet, Trying, InProgram, ReceiveBundle
  <2>4. OneReport(up) /\ OneReport(out_listener) /\ Tells(up, graph) /\ Lacks(up, "completed")
    BY <2>3, SilentTalk
  <2> QED BY <1>24, <2>1, <2>2, <2>3, <2>4 DEF Answers, ReceiveBundle, super, swap
<1>25. CASE Link
  <2>1. Silent(out_main') BY <1>25, MarkerTalk DEF Link, Markers
  <2>2. OneReport(out_main') /\ Tells(out_main', graph) /\ Lacks(out_main', "completed")
    BY <2>1, SilentTalk
  <2>3. Silent(up) /\ Silent(out_listener)
    BY <1>25 DEF Live, Launched, Attempt, Quiet, Trying, InProgram, Link
  <2>4. OneReport(up) /\ OneReport(out_listener) /\ Tells(up, graph) /\ Lacks(up, "completed")
    BY <2>3, SilentTalk
  <2> QED BY <1>25, <2>1, <2>2, <2>3, <2>4 DEF Answers, Link, super, socket
<1>26. CASE FirstFrame
  <2>1. Silent(out_main') BY <1>26, MarkerTalk DEF FirstFrame, Markers
  <2>2. OneReport(out_main') /\ Tells(out_main', graph) /\ Lacks(out_main', "completed")
    BY <2>1, SilentTalk
  <2> QED BY <1>26, <2>1, <2>2 DEF Live, Answers, Entered, FirstFrame, super, socket, swap, swap
<1>27. CASE ApplySwap
  <2>1. staged = graph BY <1>27 DEF Live, Attempt, ApplySwap
  <2> QED BY <1>27, <2>1 DEF Live, Answers, ApplySwap, super, socket
<1>28. CASE CompleteSwap
  <2>1. running = graph /\ Silent(up) /\ Silent(out_listener)
    BY <1>28 DEF Live, Attempt, Quiet, CompleteSwap
  <2>2. out_main' = <<[kind |-> "completed", about |-> graph]>>
        /\ UNCHANGED <<up, out_listener, graph, running, main>>
    BY <1>28, <2>1 DEF CompleteSwap, super, socket
  <2>3. OneReport(out_main') /\ Tells(out_main', graph)
    BY <2>2, ReportTalk DEF Reports, Sorts, SuperSorts
  <2> QED BY <2>1, <2>2, <2>3 DEF Live, Answers
<1>29. CASE RejectSwap
  <2>1. Silent(up) /\ Silent(out_listener) /\ staged \in Source
    BY <1>29 DEF Live, Attempt, Quiet, RejectSwap, Sorts, RunnerSorts
  <2>2. out_main' = <<[kind |-> "reload_failed", about |-> staged]>>
        /\ UNCHANGED <<up, out_listener, graph, running, main>>
    BY <1>29 DEF RejectSwap, super, socket
  <2>3. OneReport(out_main') /\ Tells(out_main', graph) /\ Lacks(out_main', "completed")
    BY <2>1, <2>2, ReportTalk DEF Reports
  <2> QED BY <2>1, <2>2, <2>3 DEF Live, Answers
<1>30. CASE ListenerWrites
  <2> DEFINE f == Head(out_listener)
  <2>1. /\ f \in Told /\ out_listener \in Seq(Untold) /\ out_listener # <<>> /\ up \in Seq(Told)
        /\ f.kind # "completed" /\ out_listener' = Tail(out_listener) /\ up' = Append(up, f)
    BY <1>30, ListenerTalk
  <2> HIDE DEF f
  <2>2. UNCHANGED <<out_main, graph, running, main>> BY <1>30 DEF ListenerWrites, super, swap
  <2>3. /\ Silent(out_listener) => Silent(out_listener') /\ f.kind \notin Reports
        /\ OneReport(out_listener) => OneReport(out_listener')
        /\ OneReport(out_listener) /\ f.kind \in Reports => Silent(out_listener')
    BY <2>1, TailTalk DEF f
  <2>4. /\ Silent(up) => OneReport(up')
        /\ Silent(up) /\ f.kind \notin Reports => Silent(up')
        /\ OneReport(up) /\ f.kind \notin Reports => OneReport(up')
        /\ Lacks(up, "completed") => Lacks(up', "completed")
        /\ Tells(up, graph) => Tells(up', graph)
    BY <2>1, AppendTalk
  <2> QED BY <2>1, <2>2, <2>3, <2>4 DEF Live, Answers
<1>31. CASE ListenerReads
  <2>1. Silent(out_listener') BY <1>31, EmptyTalk, LogTalk, FarewellTalk DEF ListenerReads
  <2>2. OneReport(out_listener') BY <2>1, SilentTalk
  <2> QED BY <1>31, <2>1, <2>2 DEF Live, Answers, ListenerReads, super, swap
<1>32. CASE StoreDependency BY <1>32 DEF Live, Answers, StoreDependency, super, socket, swap
<1>33. CASE StageMainBundle
  <2>1. Silent(up) /\ Silent(out_main) /\ received \in Source
    BY <1>33 DEF Live, Attempt, Quiet, StageMainBundle, Sorts, RunnerSorts, Loads
  <2>2. OneReport(out_listener')
    <3>1. \A kind \in Reports : \A r : r = <<[kind |-> kind, about |-> received]>> => OneReport(r)
      BY <2>1, ReportTalk
    <3>2. OneReport(Log) BY LogTalk, SilentTalk
    <3> QED BY <1>33, <3>1, <3>2 DEF StageMainBundle, Reports
  <2> QED BY <1>33, <2>1, <2>2 DEF Live, Answers, StageMainBundle, super, socket
<1>34. CASE Unlink BY <1>34 DEF Live, Answers, Unlink, super, socket, runner, swap
<1>35. CASE SpawnFails BY <1>35 DEF Live, Answers, SpawnFails, EndSession, socket, runner, swap
<1>36. CASE AcceptFails
  BY <1>36, EmptyTalk DEF Live, Answers, AcceptFails, EndSession, KillRunner, RunnerStops,
     socket, runner, swap
<1>37. CASE HealthFails
  BY <1>37, EmptyTalk DEF Live, Answers, HealthFails, EndSession, KillRunner, RunnerStops,
     socket, runner, swap
<1>38. CASE BeginQuit BY <1>38 DEF Live, Answers, BeginQuit, socket, runner, swap
<1>39. CASE AppLogs
  <2>1. Silent(out_main') BY <1>39, LogTalk DEF AppLogs
  <2>2. OneReport(out_main') /\ Tells(out_main', graph) /\ Lacks(out_main', "completed")
    BY <2>1, SilentTalk
  <2> QED BY <1>39, <2>1, <2>2 DEF Live, Answers, Entered, AppLogs, super, socket, swap, swap
<1>40. CASE ListenerDies
  <2>1. Silent(out_listener') BY <1>40, LogTalk DEF ListenerDies
  <2>2. OneReport(out_listener') BY <2>1, SilentTalk
  <2> QED BY <1>40, <2>1, <2>2 DEF Live, Answers, ListenerDies, super, socket, swap
<1>41. CASE RunnerExits BY <1>41, EmptyTalk DEF Live, Answers, RunnerExits, RunnerStops, super
<1>42. ASSUME NEW native \in {0, 1}, NEW layout \in {0, 1}, NEW ok \in BOOLEAN,
              Save(native, layout, ok)
       PROVE  Answers'
  BY <1>42 DEF Live, Answers, Save, super, socket, runner, swap
<1>43. CASE UNCHANGED vars BY <1>43 DEF Live, Answers, vars, super, socket, runner, swap
<1> QED
  BY <1>1, <1>2, <1>3, <1>4, <1>5, <1>6, <1>7, <1>8, <1>9, <1>10, <1>11, <1>12, <1>13, <1>14,
     <1>15, <1>16, <1>17, <1>18, <1>19, <1>20, <1>21, <1>22, <1>23, <1>24, <1>25, <1>26, <1>27,
     <1>28, <1>29, <1>30, <1>31, <1>32, <1>33, <1>34, <1>35, <1>36, <1>37, <1>38, <1>39, <1>40,
     <1>41, <1>42, <1>43 DEF Next, Supervisor, MainThread, ListenerThread, Environment, Editor

\* The supervisor goes back to watching when the runner is up to date.
LEMMA CurrentKept ==
  ASSUME Desktop, Sorts, Live, [Next]_vars
  PROVE  Current'
<1>1. CASE CreateWatcher BY <1>1 DEF Live, Current, Idle, CreateWatcher, Snapshot, runner, swap
<1>2. CASE Spawn BY <1>2 DEF Live, Current, Idle, Spawn, swap
<1>3. CASE Accept BY <1>3 DEF Live, Current, Idle, Accept, runner, swap
<1>4. CASE WriteFrame BY <1>4 DEF Live, Current, Idle, WriteFrame, runner, swap
<1>5. CASE Written BY <1>5 DEF Live, Current, Idle, Written, runner, swap
<1>6. CASE WriteFails BY <1>6 DEF Live, Current, Idle, WriteFails, EndSession, runner, swap
<1>7. CASE ReadHealth
  <2>1. pc = "health" /\ UNCHANGED <<child, main, running, graph>>
    BY <1>7 DEF ReadHealth, runner, swap
  <2>2. pc' \in Idle => main = "off" \/ InProgram
    BY <2>1, LaunchedKept DEF Launched, Idle, InProgram
  <2> QED BY <2>1, <2>2 DEF Live, Current, Lifeline, Launched, Greeting
<1>8. CASE RunnerExited BY <1>8 DEF Live, Current, Idle, RunnerExited, EndSession, runner, swap
<1>9. CASE NoticeChange
  BY <1>9 DEF Live, Current, Idle, NoticeChange, Changed, Snapshot, runner, swap
<1>10. CASE Rebuild BY <1>10 DEF Live, Current, Idle, Rebuild, runner, swap
<1>11. CASE RefreshList BY <1>11 DEF Live, Current, Idle, RefreshList, runner, swap
<1>12. CASE Refresh BY <1>12 DEF Live, Current, Idle, Refresh, runner, swap
<1>13. CASE RefreshFails
  BY <1>13 DEF Live, Current, Idle, RefreshFails, EndSession, runner, swap
<1>14. CASE Disconnected
  BY <1>14 DEF Live, Current, Idle, Disconnected, FallBack, Relaunch, GoOn, EndSession,
     KillRunner, RunnerStops, runner, swap
<1>15. CASE AttemptTimesOut
  BY <1>15 DEF Live, Current, Idle, AttemptTimesOut, DeadlinePassed, FallBack, Relaunch, GoOn,
     EndSession, KillRunner, RunnerStops, runner, swap
<1>16. CASE ReadIgnored BY <1>16 DEF Live, Current, Idle, ReadIgnored, super, runner, swap
<1>17. CASE ReadCompleted
  <2>1. ~Lacks(up, "completed")
    BY <1>17, TailTalk DEF ReadCompleted, Sorts, SocketSorts
  <2> QED BY <1>17, <2>1 DEF Live, Answers, Lifeline, Current, ReadCompleted, runner, swap
<1>18. CASE ReadFailure
  BY <1>18 DEF Live, Current, Idle, ReadFailure, FallBack, Relaunch, GoOn, EndSession,
     KillRunner, RunnerStops, runner, swap
<1>19. CASE ReadAck BY <1>19 DEF Live, Current, Idle, ReadAck, runner, swap
<1>20. CASE AckTimesOut BY <1>20 DEF Live, Current, Idle, AckTimesOut, runner, swap
<1>21. CASE FinishQuit
  BY <1>21 DEF Live, Current, Idle, FinishQuit, EndSession, KillRunner, RunnerStops, runner,
     swap
<1>22. CASE MainWrites BY <1>22 DEF Live, Current, Idle, MainWrites, super, swap
<1>23. CASE Connect BY <1>23 DEF Live, Current, Idle, Connect, super, swap
<1>24. CASE ReceiveBundle BY <1>24 DEF Live, Current, Idle, ReceiveBundle, super, swap
<1>25. CASE Link BY <1>25 DEF Live, Current, Idle, Link, super, Launched, InProgram, Trying
<1>26. CASE FirstFrame BY <1>26 DEF Live, Current, Idle, FirstFrame, Entered, super, swap
<1>27. CASE ApplySwap
  BY <1>27 DEF Live, Current, Idle, ApplySwap, Entered, super, Attempt, Trying
<1>28. CASE CompleteSwap BY <1>28 DEF Live, Current, Idle, CompleteSwap, Entered, super
<1>29. CASE RejectSwap BY <1>29 DEF Live, Current, Idle, RejectSwap, Entered, super
<1>30. CASE ListenerWrites BY <1>30 DEF Live, Current, Idle, ListenerWrites, super, swap
<1>31. CASE ListenerReads BY <1>31 DEF Live, Current, Idle, ListenerReads, super, swap
<1>32. CASE StoreDependency BY <1>32 DEF Live, Current, Idle, StoreDependency, super, swap
<1>33. CASE StageMainBundle BY <1>33 DEF Live, Current, Idle, StageMainBundle, super
<1>34. CASE Unlink BY <1>34 DEF Live, Current, Idle, Unlink, super, runner, swap
<1>35. CASE SpawnFails BY <1>35 DEF Live, Current, Idle, SpawnFails, EndSession, runner, swap
<1>36. CASE AcceptFails
  BY <1>36 DEF Live, Current, Idle, AcceptFails, EndSession, KillRunner, RunnerStops, runner,
     swap
<1>37. CASE HealthFails
  BY <1>37 DEF Live, Current, Idle, HealthFails, EndSession, KillRunner, RunnerStops, runner,
     swap
<1>38. CASE BeginQuit BY <1>38 DEF Live, Current, Idle, BeginQuit, runner, swap
<1>39. CASE AppLogs BY <1>39 DEF Live, Current, Idle, AppLogs, Entered, super, swap
<1>40. CASE ListenerDies BY <1>40 DEF Live, Current, Idle, ListenerDies, super, swap
<1>41. CASE RunnerExits BY <1>41 DEF Live, Current, Idle, RunnerExits, RunnerStops, super
<1>42. ASSUME NEW native \in {0, 1}, NEW layout \in {0, 1}, NEW ok \in BOOLEAN,
              Save(native, layout, ok)
       PROVE  Current'
  BY <1>42 DEF Live, Current, Idle, Save, super, runner, swap
<1>43. CASE UNCHANGED vars BY <1>43 DEF Live, Current, Idle, vars, super, runner, swap
<1> QED
  BY <1>1, <1>2, <1>3, <1>4, <1>5, <1>6, <1>7, <1>8, <1>9, <1>10, <1>11, <1>12, <1>13, <1>14,
     <1>15, <1>16, <1>17, <1>18, <1>19, <1>20, <1>21, <1>22, <1>23, <1>24, <1>25, <1>26, <1>27,
     <1>28, <1>29, <1>30, <1>31, <1>32, <1>33, <1>34, <1>35, <1>36, <1>37, <1>38, <1>39, <1>40,
     <1>41, <1>42, <1>43 DEF Next, Supervisor, MainThread, ListenerThread, Environment, Editor

-----------------------------------------------------------------------------
(* Theorems.                                                               *)

\* A live runner has its supervisor: none while the first is not launched yet
\* or another is about to be, and none after the end but for the one return
\* that skips killAndWait.
Alone == Desktop /\ child = "alive" =>
  /\ pc \notin {"watcher", "spawn"}
  /\ pc = "ended" => ended_by = "watcher"

\* What launches, relaunches or ends keeps the runner with its supervisor.
LEMMA AloneKept ==
  ASSUME Alone, [Next]_vars
  PROVE  Alone'
<1>1. CASE CreateWatcher BY <1>1 DEF Alone, CreateWatcher, Snapshot
<1>2. CASE Spawn BY <1>2 DEF Alone, Spawn
<1>3. CASE Accept BY <1>3 DEF Alone, Accept
<1>4. CASE WriteFrame BY <1>4 DEF Alone, WriteFrame
<1>5. CASE Written BY <1>5 DEF Alone, Written
<1>6. CASE WriteFails BY <1>6 DEF Alone, WriteFails, EndSession
<1>7. CASE ReadHealth BY <1>7 DEF Alone, ReadHealth
<1>8. CASE RunnerExited BY <1>8 DEF Alone, RunnerExited, EndSession
<1>9. CASE NoticeChange BY <1>9 DEF Alone, NoticeChange, Changed, Snapshot
<1>10. CASE Rebuild BY <1>10 DEF Alone, Rebuild
<1>11. CASE RefreshList BY <1>11 DEF Alone, RefreshList
<1>12. CASE Refresh BY <1>12 DEF Alone, Refresh
<1>13. CASE RefreshFails BY <1>13 DEF Alone, RefreshFails, EndSession
<1>14. CASE Disconnected
  BY <1>14 DEF Alone, Disconnected, FallBack, Relaunch, GoOn, EndSession, KillRunner, RunnerStops
<1>15. CASE AttemptTimesOut
  BY <1>15 DEF Alone, AttemptTimesOut, DeadlinePassed, FallBack, Relaunch, GoOn, EndSession,
     KillRunner, RunnerStops
<1>16. CASE ReadIgnored BY <1>16 DEF Alone, ReadIgnored, super
<1>17. CASE ReadCompleted BY <1>17 DEF Alone, ReadCompleted
<1>18. CASE ReadFailure
  BY <1>18 DEF Alone, ReadFailure, FallBack, Relaunch, GoOn, EndSession, KillRunner, RunnerStops
<1>19. CASE ReadAck BY <1>19 DEF Alone, ReadAck
<1>20. CASE AckTimesOut BY <1>20 DEF Alone, AckTimesOut
<1>21. CASE FinishQuit
  BY <1>21 DEF Alone, FinishQuit, EndSession, KillRunner, RunnerStops
<1>22. CASE MainWrites BY <1>22 DEF Alone, MainWrites, super
<1>23. CASE Connect BY <1>23 DEF Alone, Connect, super
<1>24. CASE ReceiveBundle BY <1>24 DEF Alone, ReceiveBundle, super
<1>25. CASE Link BY <1>25 DEF Alone, Link, super
<1>26. CASE FirstFrame BY <1>26 DEF Alone, FirstFrame, Entered, super
<1>27. CASE ApplySwap BY <1>27 DEF Alone, ApplySwap, Entered, super
<1>28. CASE CompleteSwap BY <1>28 DEF Alone, CompleteSwap, Entered, super
<1>29. CASE RejectSwap BY <1>29 DEF Alone, RejectSwap, Entered, super
<1>30. CASE ListenerWrites BY <1>30 DEF Alone, ListenerWrites, super
<1>31. CASE ListenerReads BY <1>31 DEF Alone, ListenerReads, super
<1>32. CASE StoreDependency BY <1>32 DEF Alone, StoreDependency, super
<1>33. CASE StageMainBundle BY <1>33 DEF Alone, StageMainBundle, super
<1>34. CASE Unlink BY <1>34 DEF Alone, Unlink, super
<1>35. CASE SpawnFails BY <1>35 DEF Alone, SpawnFails, EndSession
<1>36. CASE AcceptFails
  BY <1>36 DEF Alone, AcceptFails, EndSession, KillRunner, RunnerStops
<1>37. CASE HealthFails
  BY <1>37 DEF Alone, HealthFails, EndSession, KillRunner, RunnerStops
<1>38. CASE BeginQuit BY <1>38 DEF Alone, BeginQuit
<1>39. CASE AppLogs BY <1>39 DEF Alone, AppLogs, Entered, super
<1>40. CASE ListenerDies BY <1>40 DEF Alone, ListenerDies, super
<1>41. CASE RunnerExits BY <1>41 DEF Alone, RunnerExits, RunnerStops, super
<1>42. ASSUME NEW native \in {0, 1}, NEW layout \in {0, 1}, NEW ok \in BOOLEAN,
              Save(native, layout, ok)
       PROVE  Alone'
  BY <1>42 DEF Alone, Save, super
<1>43. CASE UNCHANGED vars BY <1>43 DEF Alone, vars, super
<1> QED
  BY <1>1, <1>2, <1>3, <1>4, <1>5, <1>6, <1>7, <1>8, <1>9, <1>10, <1>11, <1>12, <1>13, <1>14,
     <1>15, <1>16, <1>17, <1>18, <1>19, <1>20, <1>21, <1>22, <1>23, <1>24, <1>25, <1>26, <1>27,
     <1>28, <1>29, <1>30, <1>31, <1>32, <1>33, <1>34, <1>35, <1>36, <1>37, <1>38, <1>39, <1>40,
     <1>41, <1>42, <1>43 DEF Next, Supervisor, MainThread, ListenerThread, Environment, Editor

IndInv == Sorts /\ Fresh /\ Natives /\ Builds /\ Alone /\ (Desktop => Live)

\* A session starts in order.
LEMMA InitInv ==
  ASSUME Init
  PROVE  IndInv
<1>1. FirstSource \in Source BY SessionAssumption DEF FirstSource, Source
<1>2. <<>> \in Seq(DownFrame) /\ <<>> \in Seq(Told) /\ <<>> \in Seq(Untold) OBVIOUS
<1>3. /\ SourceSorts
      /\ WatcherSorts
      /\ SocketSorts
  <2>1. SourceSorts BY <1>1 DEF Init, SourceSorts
  <2>2. WatcherSorts BY DEF Init, WatcherSorts
  <2>3. SocketSorts BY <1>2, SessionAssumption DEF Init, SocketSorts
  <2> QED BY <2>1, <2>2, <2>3
<1>4. SuperSorts BY <1>1, <1>2 DEF Init, SuperSorts
<1>5. RunnerSorts BY <1>2 DEF Init, RunnerSorts
<1>6. Loads /\ Natives BY DEF Init, Loads, Natives, InProgram
<1>7. Fresh BY DEF Init, Fresh
<1>8. Builds BY SessionAssumption DEF Init, Builds, FirstSource
<1>9. Alone BY DEF Init, Alone
<1>10. ASSUME Desktop PROVE Live
  <2>1. Lifeline /\ Launched /\ Current
    BY <1>10 DEF Init, Lifeline, Launched, Current, InProgram, Greeting, Idle, Trying, Quitting
  <2>2. Frames BY <1>10, EmptyTalk DEF Init, Frames, Greeting, Trying, Quitting
  <2>3. Attempt BY EmptyTalk DEF Init, Attempt, Quiet, Trying
  <2>4. Answers BY EmptyTalk DEF Init, Answers
  <2> QED BY <2>1, <2>2, <2>3, <2>4 DEF Live
<1> QED BY <1>3, <1>4, <1>5, <1>6, <1>7, <1>8, <1>9, <1>10 DEF IndInv, Sorts

\* ... and every step keeps it so.
LEMMA NextInv ==
  ASSUME IndInv, [Next]_vars
  PROVE  IndInv'
<1>1. Sorts' /\ Fresh' /\ Natives' /\ Builds' /\ Alone'
  BY SortsKept, FreshKept, NativesKept, BuildsKept, AloneKept DEF IndInv
<1>2. ASSUME Desktop PROVE Live'
  BY <1>2, LifelineKept, LaunchedKept, FramesKept, AttemptKept, AnswersKept, CurrentKept
     DEF IndInv, Live
<1> QED BY <1>1, <1>2 DEF IndInv

\* In every state of every session: what is typed is well typed, relaunches
\* are paid for, and on the desktop an attempt is in one place at a time.
THEOREM Inductive == Spec => []IndInv
<1>1. Init => IndInv BY InitInv
<1>2. IndInv /\ [Next]_vars => IndInv' BY NextInv
<1> QED BY <1>1, <1>2, PTL DEF Spec

\* Every variable of a session keeps to its type; in particular a session
\* relaunches at most once per save (reload_generation).
THEOREM TypeCorrect == Spec => []TypeOK
<1>1. IndInv => TypeOK
  <2> SUFFICES ASSUME IndInv PROVE TypeOK OBVIOUS
  <2>1. Told \subseteq UpFrame /\ Untold \subseteq UpFrame BY DEF Told, Untold
  <2>2. up \in Seq(UpFrame) /\ out_main \in Seq(UpFrame) /\ out_listener \in Seq(UpFrame)
    BY <2>1, WiderSeq DEF IndInv, Sorts, SocketSorts, RunnerSorts
  <2>3. reload_generation \in 0 .. MaxEdits
    BY SessionAssumption, Versions DEF IndInv, Builds, Sorts, SourceSorts, SuperSorts, Source
  <2> QED BY <2>2, <2>3
    DEF IndInv, Sorts, SourceSorts, WatcherSorts, SuperSorts, SocketSorts, RunnerSorts, TypeOK
<1> QED BY <1>1, Inductive, PTL

\* Every relaunch is owed to a save of its own: neither a failing handshake
\* nor a crashing program makes runDesktop respawn in a loop.
THEOREM RelaunchesEarned == Spec => []RelaunchesAreEarned
<1>1. IndInv => RelaunchesAreEarned
  BY SessionAssumption, Versions DEF IndInv, Builds, RelaunchesAreEarned
<1> QED BY <1>1, Inductive, PTL

\* Bytecode never runs against a native library it was not built with:
\* stageMainBundle's comparison is enough, whatever is staged and swapped.
THEOREM NativeCode == Spec => []NativeCodeMatches
<1>1. IndInv => NativeCodeMatches BY DEF IndInv, Natives, Sorts, Loads, NativeCodeMatches
<1> QED BY <1>1, Inductive, PTL

\* On the desktop a reported hot patch is one: although attemptHotReload has
\* no attempt number, the first `completed` it reads is about its own program.
THEOREM CompletedRuns ==
  ASSUME Desktop
  PROVE  Spec => []CompletedMeansRunning
<1>1. Init => CompletedMeansRunning BY DEF Init, CompletedMeansRunning
<1>2. ASSUME IndInv, CompletedMeansRunning, [Next]_vars
      PROVE  CompletedMeansRunning'
  <2>1. CASE ReadCompleted
    <3>1. Head(up).about = graph
      BY <1>2, <2>1, TailTalk DEF IndInv, Live, Answers, ReadCompleted, Sorts, SocketSorts
    <3> QED BY <2>1, <3>1 DEF ReadCompleted, CompletedMeansRunning
  <2>2. CASE ~ReadCompleted
    <3>1. UNCHANGED claim
      <4>1. CASE CreateWatcher BY <4>1 DEF CreateWatcher, Snapshot
      <4>2. CASE Spawn BY <4>2 DEF Spawn
      <4>3. CASE Accept BY <4>3 DEF Accept
      <4>4. CASE WriteFrame BY <4>4 DEF WriteFrame
      <4>5. CASE Written BY <4>5 DEF Written
      <4>6. CASE WriteFails BY <4>6 DEF WriteFails, EndSession
      <4>7. CASE ReadHealth BY <4>7 DEF ReadHealth
      <4>8. CASE RunnerExited BY <4>8 DEF RunnerExited, EndSession
      <4>9. CASE NoticeChange BY <4>9 DEF NoticeChange, Changed, Snapshot
      <4>10. CASE Rebuild BY <4>10 DEF Rebuild
      <4>11. CASE RefreshList BY <4>11 DEF RefreshList
      <4>12. CASE Refresh BY <4>12 DEF Refresh
      <4>13. CASE RefreshFails BY <4>13 DEF RefreshFails, EndSession
      <4>14. CASE Disconnected
        BY <4>14 DEF Disconnected, FallBack, Relaunch, GoOn, EndSession, KillRunner, RunnerStops
      <4>15. CASE AttemptTimesOut
        BY <4>15 DEF AttemptTimesOut, DeadlinePassed, FallBack, Relaunch, GoOn, EndSession,
           KillRunner, RunnerStops
      <4>16. CASE ReadIgnored BY <4>16 DEF ReadIgnored, super
      <4>17. CASE ReadFailure
        BY <4>17 DEF ReadFailure, FallBack, Relaunch, GoOn, EndSession, KillRunner, RunnerStops
      <4>18. CASE ReadAck BY <4>18 DEF ReadAck
      <4>19. CASE AckTimesOut BY <4>19 DEF AckTimesOut
      <4>20. CASE FinishQuit BY <4>20 DEF FinishQuit, EndSession, KillRunner, RunnerStops
      <4>21. CASE MainWrites BY <4>21 DEF MainWrites, super
      <4>22. CASE Connect BY <4>22 DEF Connect, super
      <4>23. CASE ReceiveBundle BY <4>23 DEF ReceiveBundle, super
      <4>24. CASE Link BY <4>24 DEF Link, super
      <4>25. CASE FirstFrame BY <4>25 DEF FirstFrame, Entered, super
      <4>26. CASE ApplySwap BY <4>26 DEF ApplySwap, Entered, super
      <4>27. CASE CompleteSwap BY <4>27 DEF CompleteSwap, Entered, super
      <4>28. CASE RejectSwap BY <4>28 DEF RejectSwap, Entered, super
      <4>29. CASE ListenerWrites BY <4>29 DEF ListenerWrites, super
      <4>30. CASE ListenerReads BY <4>30 DEF ListenerReads, super
      <4>31. CASE StoreDependency BY <4>31 DEF StoreDependency, super
      <4>32. CASE StageMainBundle BY <4>32 DEF StageMainBundle, super
      <4>33. CASE Unlink BY <4>33 DEF Unlink, super
      <4>34. CASE SpawnFails BY <4>34 DEF SpawnFails, EndSession
      <4>35. CASE AcceptFails BY <4>35 DEF AcceptFails, EndSession, KillRunner, RunnerStops
      <4>36. CASE HealthFails BY <4>36 DEF HealthFails, EndSession, KillRunner, RunnerStops
      <4>37. CASE BeginQuit BY <4>37 DEF BeginQuit
      <4>38. CASE AppLogs BY <4>38 DEF AppLogs, Entered, super
      <4>39. CASE ListenerDies BY <4>39 DEF ListenerDies, super
      <4>40. CASE RunnerExits BY <4>40 DEF RunnerExits, RunnerStops, super
      <4>41. ASSUME NEW native \in {0, 1}, NEW layout \in {0, 1}, NEW ok \in BOOLEAN,
                   Save(native, layout, ok)
            PROVE  UNCHANGED claim
        BY <4>41 DEF Save, super
      <4>42. CASE UNCHANGED vars BY <4>42 DEF vars, super
      <4> QED
        BY <1>2, <2>2, <4>1, <4>2, <4>3, <4>4, <4>5, <4>6, <4>7, <4>8, <4>9, <4>10, <4>11,
           <4>12, <4>13, <4>14, <4>15, <4>16, <4>17, <4>18, <4>19, <4>20, <4>21, <4>22, <4>23,
           <4>24, <4>25, <4>26, <4>27, <4>28, <4>29, <4>30, <4>31, <4>32, <4>33, <4>34, <4>35,
           <4>36, <4>37, <4>38, <4>39, <4>40, <4>41, <4>42 DEF Next, Supervisor, MainThread,
           ListenerThread, Environment, Editor
    <3> QED BY <1>2, <3>1 DEF CompletedMeansRunning
  <2> QED BY <2>1, <2>2
<1> QED BY <1>1, <1>2, Inductive, PTL DEF Spec

\* While a desktop session only watches, the live runner runs the program
\* built last: every outcome but `completed` replaced the runner.
THEOREM WatchingCurrent == Spec => []WatchingMeansCurrent
<1>1. IndInv => WatchingMeansCurrent
  BY DEF IndInv, Live, Current, Idle, WatchingMeansCurrent
<1> QED BY <1>1, Inductive, PTL

\* When the supervisor is back to watching, nothing is in flight that a later
\* attempt could mistake for its own answer.
THEOREM NoStrayReport == Spec => []NoReportOutlivesItsAttempt
<1>1. IndInv => NoReportOutlivesItsAttempt
  <2> SUFFICES ASSUME IndInv, Desktop, pc = "watch"
               PROVE  /\ staged = None /\ ~completing
                      /\ \A k \in DOMAIN up :
                           up[k].kind \notin {"completed", "reload_failed", "restart_required"}
    BY DEF NoReportOutlivesItsAttempt
  <2>1. staged = None /\ ~completing /\ Silent(up) BY DEF IndInv, Live, Attempt, Quiet, Trying
  <2>2. DOMAIN up = 1 .. Len(up) BY DEF IndInv, Sorts, SocketSorts
  <2> QED BY <2>1, <2>2 DEF Silent, Reports
<1> QED BY <1>1, Inductive, PTL

\* runDesktop never has two runners nor leaves one behind, except where a file
\* vanished under the watcher's refresh and the error returns past killAndWait.
THEOREM NoneLeftBehind == Spec => []NoRunnerIsLeftBehind
<1>1. IndInv => NoRunnerIsLeftBehind BY DEF IndInv, Alone, NoRunnerIsLeftBehind
<1> QED BY <1>1, Inductive, PTL
====
