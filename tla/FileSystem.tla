------------------------------ MODULE FileSystem ------------------------------
(***************************************************************************)
(* Foundation's native file layer (foundation/NativeLibs/FS/fs.c) as the   *)
(* wrappers of foundation/app/FileSystem.kira call it.                     *)
(*                                                                         *)
(* The layer keeps no state of its own, but almost every call is several   *)
(* system calls on a disk other threads and processes change in between:   *)
(* a read stats, allocates and loops; a write truncates and loops; making  *)
(* a directory re-checks what is there; a removal walks a tree.  A step    *)
(* here is one system call with the straight-line code around it.  Every   *)
(* system call and every allocation may fail, at most MaxFaults times.     *)
(*                                                                         *)
(* Both builds are modelled: `windows` is chosen initially.  There DWORD   *)
(* counts are taken modulo Dword, an open file cannot be written, renamed  *)
(* or deleted by others, and a link is a directory symlink or a junction:  *)
(* it has the attributes of a directory and opens as no file, wherever it  *)
(* leads.                                                                  *)
(***************************************************************************)
EXTENDS Disk, FiniteSets

CONSTANTS
  Callers,        \* threads or processes calling the layer
  ArgPaths,       \* the paths passed in; <<>> stands for a NULL pointer
  Ranges,         \* the [offset, size] pairs passed to fs_read_range
  Contents,       \* the byte sequences written
  Worlds,         \* [windows, disk] pairs: the build and what it finds
  Dword,          \* 2^32, as small as the instance needs
  MaxPath,        \* MAX_PATH: names in the longest path Windows looks up
  MaxFaults,      \* bound: failing system calls and allocations
  MaxCalls,       \* bound: calls that take a path, per caller
  MaxReads        \* bound: readAll calls on one handle

NoFile == [ino |-> 0, open |-> FALSE, pos |-> 0, reads |-> 0]

\* A call in progress.  fd and pos: the file being read or written; cap: what
\* was allocated for the result; buf: bytes read or written so far; names: the
\* listing; stack: the recursion of fs_remove_path; faulted: something failed.
Idle == [op |-> "none", path |-> <<>>, arg |-> <<>>, pc |-> "idle",
         fd |-> 0, pos |-> 0, cap |-> 0, buf |-> <<>>, names |-> <<>>,
         stack |-> <<>>, size |-> 0, faulted |-> FALSE, ok |-> FALSE]

ASSUME DiskAssumption ==
  /\ Inodes \subseteq Nat \ {0} /\ Root \in Inodes
  /\ Dword \in Nat \ {0} /\ MaxPath \in Nat /\ DirSize \in Nat
  /\ ArgPaths \subseteq Seq(Names) /\ Contents \subseteq Seq(Byte)
  /\ Ranges \subseteq [offset : Nat, size : Nat]
  /\ \A w \in Worlds :
       /\ w.windows \in BOOLEAN /\ w.disk \in [Inodes -> Nodes]
       /\ w.disk[Root].kind = "dir"
       /\ \A d \in Inodes, n \in Names :
            EntryOf(w.disk, d, n) # 0 => w.disk[EntryOf(w.disk, d, n)].kind # "unused"

VARIABLES
  windows,  \* which build this is
  node,     \* the disk: what each inode is
  call,     \* each caller's call in progress, or its result
  handle,   \* each caller's File, from openFile until close
  blocks,   \* heap blocks each caller's calls hold
  fds,      \* descriptors, find handles and directory streams they hold
  faults,   \* failures so far
  calls,    \* calls so far
  hist,     \* history: the disks during each caller's call, in order
  alone     \* history: nobody else changed the disk during the call

vars == <<windows, node, call, handle, blocks, fds, faults, calls, hist, alone>>

-----------------------------------------------------------------------------
(* What the calls find on the disk.                                        *)

Stat(path)  == StatOn(node, path)
LStat(path) == LStatOn(node, path)
ParentOf(path) == WalkOn(node, Front(path))

SizeOf(i) == CASE KindIs(node, i, "file") -> Len(node[i].data)
               [] KindIs(node, i, "dir")  -> DirSize
               [] OTHER -> 0

\* What passes for a directory, and what a path names: GetFileAttributesA does
\* not look behind a final link.
DirLike(disk, i) == KindIs(disk, i, "dir") \/ (windows /\ KindIs(disk, i, "link"))
NamedOn(disk, path) == IF windows THEN LStatOn(disk, path) ELSE StatOn(disk, path)

\* stat or GetFileAttributesA, and the kind of what they found.
fs_file_exists(path)  == KindIs(node, NamedOn(node, path), "file")
\* Mutant: any entry passes for a directory.
AnythingThere(path)   == Stat(path) # 0
fs_is_directory(path) == DirLike(node, NamedOn(node, path))
fs_file_size(path)    == SizeOf(NamedOn(node, path))
fs_file_handle_size(i) == SizeOf(i)

\* Open descriptors, and the sharing rules of CreateFileA: FILE_SHARE_READ for
\* a reader, no sharing for a writer, FILE_SHARE_DELETE for neither.
IsOpenFile(i) == \E c \in Callers : handle[c].ino = i \/ call[c].fd = i
IsBeingWritten(i) == \E c \in Callers : call[c].op = "write" /\ call[c].fd = i
IsPinned(i) == /\ windows
               /\ \/ IsOpenFile(i)
                  \/ \E n \in Names : LET j == EntryOf(node, i, n)
                                      IN  j # 0 /\ IsOpenFile(j)

InUse(i) == \/ i = Root \/ IsOpenFile(i)
            \/ \E d \in Inodes, n \in Names : EntryOf(node, d, n) = i
            \/ \E c \in Callers : \E k \in DOMAIN call[c].stack :
                 call[c].stack[k].dir = i
FreshInodes == {i \in Inodes : ~InUse(i) /\ \A j \in Inodes : j < i => InUse(j)}

IsEmptyDir(i) == KindIs(node, i, "dir") /\ \A n \in Names : node[i].entries[n] = 0

-----------------------------------------------------------------------------
(* The shape of a step.                                                    *)

\* The history: the disks a call has seen, and whether only it changed them.
Observe(c) ==
  /\ hist' = [d \in Callers |->
       IF call'[d].pc = "idle" THEN <<>>
       ELSE IF call[d].pc = "done" THEN hist[d]
       ELSE (IF call[d].pc = "idle" THEN <<node>> ELSE hist[d])
              \o (IF node' = node THEN <<>> ELSE <<node'>>)]
  /\ alone' = [d \in Callers |->
       \/ call'[d].pc = "idle"
       \/ alone[d] /\ (d = c \/ node' = node \/ call[d].pc = "done")]

Works == UNCHANGED faults
Fails == faults < MaxFaults /\ faults' = faults + 1

Goto(c, k) == call' = [call EXCEPT ![c] = k]
Hold(c, b, f) == /\ blocks' = [blocks EXCEPT ![c] = @ + b]
                 /\ fds' = [fds EXCEPT ![c] = @ + f]

Return(k, success) == [k EXCEPT !.pc = "done", !.ok = success]
Faulted(k) == [k EXCEPT !.faulted = TRUE]

\* A caller between calls; Begin makes the call that starts.
CanCall(c) == call[c].pc = "idle" /\ calls[c] < MaxCalls
Begin(op, path, arg) == [Idle EXCEPT !.op = op, !.path = path, !.arg = arg]
Count(c) == calls' = [calls EXCEPT ![c] = @ + 1]

\* The call ends at its first step: it cannot work, or something fails.
Refused(c, k, cannot, result) ==
  /\ \/ cannot /\ Works /\ Goto(c, Return(k, result))
     \/ Fails /\ Goto(c, Return(Faulted(k), result))
  /\ UNCHANGED <<node, blocks, fds>>

Minimum(a, b) == IF a < b THEN a ELSE b

\* What ReadFile and WriteFile are asked for: the count is a DWORD.
Request(n) == IF windows THEN n % Dword ELSE n

\* The bytes a read of `want` at `pos` may return: at least one unless the
\* file ends there; the Windows call fills the request.
Chunks(i, pos, want) ==
  LET most == Minimum(want, Len(node[i].data) - pos)
  IN  IF most <= 0 THEN {<<>>}
      ELSE {SubSeq(node[i].data, pos + 1, pos + n) :
              n \in (IF windows THEN {most} ELSE 1 .. most)}

\* open(O_RDONLY) opens a directory too; CreateFileA does not, nor a file
\* someone is writing.
OpenableForRead(path) ==
  LET i == Stat(path)
  IN  IF windows /\ i # 0 /\ (DirLike(node, LStat(path)) \/ IsBeingWritten(i)) THEN 0 ELSE i

\* The read loop: what is left of the buffer, and when the loop ends.
\* Mutants: every read asks for the whole size; one read must do.
WholeBuffer(k) == k.cap - 1
Room(k) == k.cap - 1 - Len(k.buf)
FirstReadEnds(chunk, room) == TRUE
ReadEnds(chunk, room) == chunk = <<>> \/ Len(chunk) = room

-----------------------------------------------------------------------------
(* Reading: fs_open_read, fs_read_all_from_handle, fs_close, fs_read_file. *)

\* fs_open_read, for openFile: the handle is a block and a descriptor, and
\* NULL when either cannot be had.
OpenFile(c, path) ==
  /\ CanCall(c) /\ ~handle[c].open /\ Count(c)
  /\ LET k == Begin("open", path, <<>>)  i == OpenableForRead(path) IN
     \/ /\ i # 0 /\ Works /\ Hold(c, 1, 1) /\ Goto(c, Return(k, TRUE)) /\ UNCHANGED node
        /\ handle' = [handle EXCEPT ![c] = [NoFile EXCEPT !.ino = i, !.open = TRUE]]
     \/ /\ Refused(c, k, i = 0, FALSE)
        /\ handle' = [handle EXCEPT ![c] = [NoFile EXCEPT !.open = TRUE]]
  /\ UNCHANGED windows /\ Observe(c)

\* The end of a read: fs_read_file closes what it opened, freeing the handle
\* as well; File.readAll goes on to ask for the handle's size.
EndRead(c, k, success, bytes, freed) ==
  LET r == [k EXCEPT !.buf = bytes, !.size = Len(bytes),
                     !.cap = IF success THEN @ ELSE 0]
  IN  IF k.op = "read"
        THEN /\ Hold(c, freed - 1, -1) /\ UNCHANGED handle
             /\ Goto(c, Return([r EXCEPT !.fd = 0], success))
        ELSE /\ Hold(c, freed, 0)
             /\ handle' = [handle EXCEPT ![c].pos = k.pos]
             /\ Goto(c, [r EXCEPT !.pc = "size"])

\* fs_read_all_from_handle up to its loop: fstat, then a buffer of size + 1.
ReadAllFrom(c, k) ==
  \/ Fails /\ EndRead(c, Faulted(k), FALSE, <<>>, 0)
  \/ /\ Works
     /\ IF SizeOf(k.fd) = 0
          THEN EndRead(c, [k EXCEPT !.cap = 1], TRUE, <<>>, 1)
          ELSE /\ Hold(c, 1, 0) /\ UNCHANGED handle
               /\ Goto(c, [k EXCEPT !.cap = SizeOf(k.fd) + 1, !.pc = "read"])

ReadFile(c, path) ==
  /\ CanCall(c) /\ Count(c)
  /\ LET k == Begin("read", path, <<>>)  i == OpenableForRead(path) IN
     \/ /\ i # 0 /\ Works /\ Hold(c, 1, 1) /\ UNCHANGED node
        /\ Goto(c, [k EXCEPT !.fd = i, !.pc = "fstat"])
     \/ Refused(c, k, i = 0, FALSE)
  /\ UNCHANGED <<windows, handle>> /\ Observe(c)

StatOpened(c) ==
  /\ call[c].pc = "fstat"
  /\ ReadAllFrom(c, call[c])
  /\ UNCHANGED <<windows, node, calls>> /\ Observe(c)

\* File.readAll; the handle may be NULL.
ReadAll(c) ==
  /\ call[c].pc = "idle" /\ handle[c].open /\ handle[c].reads < MaxReads
  /\ LET h == handle[c]
         k == [Begin("readAll", <<>>, <<>>) EXCEPT !.fd = h.ino, !.pos = h.pos] IN
     IF h.ino = 0
       THEN Goto(c, Return(k, FALSE)) /\ UNCHANGED <<handle, blocks, fds, faults>>
       ELSE ReadAllFrom(c, k)
  /\ UNCHANGED <<windows, node, calls>> /\ Observe(c)

\* One turn of the read loop.  A failed read (of a directory, say) frees the
\* buffer; the end of the file, or a full buffer, ends the loop.
ReadChunk(c) ==
  /\ call[c].pc = "read"
  /\ LET k == call[c]  room == Room(k) IN
     \/ Fails /\ EndRead(c, Faulted(k), FALSE, <<>>, -1)
     \/ KindIs(node, k.fd, "dir") /\ Works /\ EndRead(c, k, FALSE, <<>>, -1)
     \/ /\ KindIs(node, k.fd, "file") /\ Works
        /\ \E chunk \in Chunks(k.fd, k.pos, Request(room)) :
             LET next == [k EXCEPT !.buf = @ \o chunk, !.pos = @ + Len(chunk)]
             IN  IF ReadEnds(chunk, room)
                   THEN EndRead(c, next, TRUE, next.buf, 0)
                   ELSE Goto(c, next) /\ UNCHANGED <<handle, blocks, fds>>
  /\ UNCHANGED <<windows, node, calls>> /\ Observe(c)

\* The rest of File.readAll: ok is whether the handle is open, size a new
\* fstat of it.
HandleSize(c) ==
  /\ call[c].pc = "size"
  /\ LET k == [call[c] EXCEPT !.fd = 0]  i == call[c].fd IN
     \/ Works /\ Goto(c, Return([k EXCEPT !.size = fs_file_handle_size(i)], TRUE))
     \/ Fails /\ Goto(c, Return(Faulted(k), TRUE))
  /\ handle' = [handle EXCEPT ![c].reads = @ + 1]
  /\ UNCHANGED <<windows, node, blocks, fds, calls>> /\ Observe(c)

\* File.close
CloseFile(c) ==
  /\ call[c].pc = "idle" /\ handle[c].open
  /\ handle' = [handle EXCEPT ![c] = NoFile]
  /\ IF handle[c].ino = 0 THEN UNCHANGED <<blocks, fds>> ELSE Hold(c, -1, -1)
  /\ UNCHANGED <<windows, node, call, faults, calls>> /\ Observe(c)

-----------------------------------------------------------------------------
(* fs_read_range: open, pread until the range is full, close.              *)

ReadRange(c, path, range) ==
  /\ CanCall(c) /\ Count(c)
  /\ LET k == Begin("range", path, range)  i == OpenableForRead(path) IN
     \/ /\ i # 0 /\ range.size # 0 /\ Works /\ Hold(c, 0, 1) /\ UNCHANGED node
        /\ Goto(c, [k EXCEPT !.fd = i, !.pos = range.offset, !.pc = "pread"])
     \/ Refused(c, k, i = 0 \/ range.size = 0, TRUE)
  /\ UNCHANGED <<windows, handle>> /\ Observe(c)

\* The Windows build makes a single call.
PreadEnds(chunk, room) == chunk = <<>> \/ Len(chunk) = room \/ windows

\* On Windows a single ReadFile.  An error is reported as no bytes at all.
PreadChunk(c) ==
  /\ call[c].pc = "pread"
  /\ LET k == call[c]
         room == k.arg.size - Len(k.buf)
         End(r, bytes) == /\ Hold(c, 0, -1)
                          /\ Goto(c, Return([r EXCEPT !.buf = bytes, !.fd = 0], TRUE))
     IN
     \/ Fails /\ End(Faulted(k), <<>>)
     \/ KindIs(node, k.fd, "dir") /\ Works /\ End(k, <<>>)
     \/ /\ KindIs(node, k.fd, "file") /\ Works
        /\ \E chunk \in Chunks(k.fd, k.pos, Request(room)) :
             LET next == [k EXCEPT !.buf = @ \o chunk, !.pos = @ + Len(chunk)]
             IN  IF PreadEnds(chunk, room)
                   THEN End(next, next.buf)
                   ELSE Goto(c, next) /\ UNCHANGED <<blocks, fds>>
  /\ UNCHANGED <<windows, node, handle, calls>> /\ Observe(c)

-----------------------------------------------------------------------------
(* fs_write_file and fs_write_bytes: truncate or create, write, close.     *)

\* Where open(O_CREAT) makes the file: a final link is followed, dangling or
\* not, but for Windows, which finds a directory there.
PlaceOf(path) ==
  LET d == ParentOf(path)  i == EntryOf(node, d, Last(path))
  IN  IF KindIs(node, i, "link") THEN <<Root, node[i].to>> ELSE <<d, Last(path)>>

\* The disk after open(path, O_CREAT | O_TRUNC), and the inode opened; none
\* if it fails.
OpenedForWrite(path) ==
  LET at == PlaceOf(path)  i == EntryOf(node, at[1], at[2]) IN
  IF path = <<>> \/ DirLike(node, LStat(path)) THEN {}
  ELSE IF KindIs(node, i, "file")
    THEN {[ino |-> i, disk |-> [node EXCEPT ![i] = File(<<>>)]] :
            x \in IF IsPinned(i) THEN {} ELSE {1}}
  ELSE {[ino |-> j, disk |-> SetEntry([node EXCEPT ![j] = File(<<>>)], at[1], at[2], j)] :
          j \in IF i = 0 /\ KindIs(node, at[1], "dir") THEN FreshInodes ELSE {}}

WriteFile(c, path, content) ==
  /\ CanCall(c) /\ Count(c)
  /\ LET k == Begin("write", path, content) IN
     \/ /\ Works /\ Hold(c, 0, 1)
        /\ \E o \in OpenedForWrite(path) :
             /\ node' = o.disk
             /\ Goto(c, [k EXCEPT !.fd = o.ino, !.pc = "write"])
     \/ Refused(c, k, OpenedForWrite(path) = {}, FALSE)
  /\ UNCHANGED <<windows, handle>> /\ Observe(c)

\* Mutant: a short write counts as complete.
FirstWriteEnds(n, left) == TRUE
WriteEnds(n, left) == n = left

\* One turn of the write loop, or the single WriteFile of Windows, whose
\* count must be the size.  A failure leaves what was written.
WriteChunk(c) ==
  /\ call[c].pc = "write"
  /\ LET k == call[c]
         left == Len(k.arg) - k.pos
         End(r, success) == /\ Hold(c, 0, -1)
                            /\ Goto(c, Return([r EXCEPT !.fd = 0], success))
         Write(n) == node' = [node EXCEPT ![k.fd].data =
                                WriteAt(@, k.pos, SubSeq(k.arg, k.pos + 1, k.pos + n))]
     IN
     \/ Fails /\ End(Faulted(k), FALSE) /\ UNCHANGED node
     \/ left = 0 /\ Works /\ End(k, TRUE) /\ UNCHANGED node
     \/ /\ left > 0 /\ windows /\ Works
        /\ Write(Request(left)) /\ End(k, Request(left) = left)
     \/ /\ left > 0 /\ ~windows /\ Works
        /\ \E n \in 1 .. left :
             /\ Write(n)
             /\ IF WriteEnds(n, left) THEN End(k, TRUE)
                ELSE Goto(c, [k EXCEPT !.pos = @ + n]) /\ UNCHANGED <<blocks, fds>>
  /\ UNCHANGED <<windows, handle, calls>> /\ Observe(c)

-----------------------------------------------------------------------------
(* fs_make_directory and fs_rename_path.                                   *)

MakeDirectory(c, path) ==
  /\ CanCall(c) /\ Count(c)
  /\ LET k == Begin("mkdir", path, <<>>)
         d == ParentOf(path)
         Missing == path # <<>> /\ KindIs(node, d, "dir") /\ LStat(path) = 0 IN
     \/ /\ Missing /\ Works /\ Hold(c, 0, 0) /\ Goto(c, Return(k, TRUE))
        /\ \E j \in FreshInodes :
             node' = SetEntry([node EXCEPT ![j] = EmptyDir], d, Last(path), j)
     \/ /\ LStat(path) # 0 /\ Works /\ Goto(c, [k EXCEPT !.pc = "eexist"])
        /\ UNCHANGED <<node, blocks, fds>>
     \/ Refused(c, k, ~Missing /\ LStat(path) = 0, FALSE)
  /\ UNCHANGED <<windows, handle>> /\ Observe(c)

\* errno was EEXIST: success if what exists is (still) a directory.
RecheckDirectory(c) ==
  /\ call[c].pc = "eexist"
  /\ \/ Works /\ Goto(c, Return(call[c], fs_is_directory(call[c].path)))
     \/ Fails /\ Goto(c, Return(Faulted(call[c]), FALSE))
  /\ UNCHANGED <<windows, node, handle, blocks, fds, calls>> /\ Observe(c)

\* rename(2), and MoveFileExA(MOVEFILE_REPLACE_EXISTING), which replaces no
\* directory, replaces nothing by one and moves nothing that is open.
Renamable(old, new) ==
  LET i == LStat(old)  j == LStat(new)  d == ParentOf(new) IN
  /\ old # <<>> /\ new # <<>>
  /\ i # 0 /\ KindIs(node, d, "dir")
  /\ d \notin TreeOn(node, i)
  /\ \/ i = j \/ j = 0
     \/ KindIs(node, i, "dir") /\ IsEmptyDir(j) /\ ~windows
     \/ ~DirLike(node, i) /\ ~DirLike(node, j)
  /\ ~IsPinned(i) /\ (j # 0 => ~IsPinned(j))

RenamePath(c, old, new) ==
  /\ CanCall(c) /\ Count(c)
  /\ LET k == Begin("rename", old, new)  i == LStat(old) IN
     \/ /\ Renamable(old, new) /\ Works /\ Hold(c, 0, 0) /\ Goto(c, Return(k, TRUE))
        /\ node' = IF LStat(new) = i THEN node
                   ELSE SetEntry(SetEntry(node, ParentOf(old), Last(old), 0),
                                 ParentOf(new), Last(new), i)
     \/ Refused(c, k, ~Renamable(old, new), FALSE)
  /\ UNCHANGED <<windows, handle>> /\ Observe(c)

-----------------------------------------------------------------------------
(* Directory streams, fs_list_directory and fs_remove_path.                *)

\* A directory being read: the names it had at opendir, those returned.
Frame(path, at) == [path |-> path, at |-> at, dir |-> 0, first |-> {}, seen |-> {}]
Opened(f, i) == [f EXCEPT !.at = "readdir", !.dir = i,
                          !.first = {n \in Names : EntryOf(node, i, n) # 0}]

\* readdir may return a name that is gone and may miss one that is new; it
\* ends only after every name that was there all along.
NamesLeft(f) == ({n \in Names : EntryOf(node, f.dir, n) # 0} \cup f.first) \ f.seen
\* Mutant: one entry is enough.
AtFirstEntry(f) == f.first = {} \/ f.seen # {}
AtEnd(f) == \A n \in f.first : n \in f.seen \/ EntryOf(node, f.dir, n) = 0
Saw(f, n) == [f EXCEPT !.seen = @ \cup {n}]

\* opendir and FindFirstFileA follow a final link.
Listable(path) == KindIs(node, Stat(path), "dir")

ListDirectory(c, path) ==
  /\ CanCall(c) /\ Count(c)
  /\ LET k == Begin("list", path, <<>>) IN
     \/ /\ Listable(path) /\ Works /\ Hold(c, 1, 1) /\ UNCHANGED node
        /\ Goto(c, [k EXCEPT !.pc = "list",
                             !.stack = <<Opened(Frame(path, "opendir"), Stat(path))>>])
     \/ Refused(c, k, ~Listable(path), FALSE)
  /\ UNCHANGED <<windows, handle>> /\ Observe(c)

\* fs_listing_add: grow the entry array, then copy the name; the caller
\* ignores its failures, which drop the entry.
fs_listing_add(c, k, n) ==
  \/ /\ Works /\ Hold(c, 2 - k.cap, 0)
     /\ Goto(c, [k EXCEPT !.names = Append(@, n), !.cap = 1])
  \/ /\ Fails /\ Goto(c, Faulted(k)) /\ UNCHANGED <<blocks, fds>>
  \/ /\ Fails /\ Hold(c, 1 - k.cap, 0) /\ Goto(c, Faulted([k EXCEPT !.cap = 1]))

\* readdir's error looks like the end of the directory.
ListNext(c) ==
  /\ call[c].pc = "list"
  /\ LET k == call[c]  f == Last(k.stack) IN
     \/ /\ AtEnd(f) /\ Works /\ Hold(c, 0, -1)
        /\ Goto(c, Return([k EXCEPT !.stack = <<>>], TRUE))
     \/ Fails /\ Hold(c, 0, -1) /\ Goto(c, Return(Faulted([k EXCEPT !.stack = <<>>]), TRUE))
     \/ \E n \in NamesLeft(f) : fs_listing_add(c, [k EXCEPT !.stack = <<Saw(f, n)>>], n)
  /\ UNCHANGED <<windows, node, handle, calls>> /\ Observe(c)

fs_directory_count(k) == IF k.ok THEN Len(k.names) ELSE 0
fs_directory_entry(k, index) == k.names[index + 1]

\* lstat says what the walk does with a path: a link is not followed.  The
\* attributes of Windows say directory of a link too, which is then walked.
\* Mutant: stat in its place.
IsTreeOrLink(path) == KindIs(node, Stat(path), "dir")
IsTree(path) == DirLike(node, LStat(path))
FrameFor(path) == Frame(path, IF IsTree(path) THEN "opendir" ELSE "unlink")

RemovePath(c, path) ==
  /\ CanCall(c) /\ Count(c)
  /\ LET k == Begin("remove", path, <<>>) IN
     \/ /\ LStat(path) # 0 /\ Works /\ UNCHANGED <<node, blocks, fds>>
        /\ Goto(c, [k EXCEPT !.pc = "remove", !.stack = <<FrameFor(path)>>])
     \/ Refused(c, k, LStat(path) = 0, FALSE)
  /\ UNCHANGED <<windows, handle>> /\ Observe(c)

\* The frame at `at` of a walk in progress, and the same walk with it changed.
Walking(c, at) == call[c].pc = "remove" /\ Last(call[c].stack).at = at
Top(k, f) == [k EXCEPT !.stack = Append(Front(@), f)]

\* A frame returns.  Below the first one the path is freed and the result
\* ignored.
Leave(c, k, success) ==
  IF Len(k.stack) = 1
    THEN /\ Goto(c, Return([k EXCEPT !.stack = <<>>], success))
         /\ UNCHANGED <<blocks, fds>>
    ELSE /\ Goto(c, [k EXCEPT !.stack = Front(@)]) /\ Hold(c, -1, 0)

\* opendir or FindFirstFile.  A failure skips to rmdir; one to allocate the
\* search pattern, on Windows, ends the frame.
RemoveOpen(c) ==
  /\ Walking(c, "opendir")
  /\ LET k == call[c]  f == Last(k.stack)
         Skip(r) == Goto(c, Top(r, [f EXCEPT !.at = "rmdir"])) /\ UNCHANGED <<blocks, fds>>
     IN
     \/ /\ Listable(f.path) /\ Works /\ Hold(c, 0, 1)
        /\ Goto(c, Top(k, Opened(f, Stat(f.path))))
     \/ ~Listable(f.path) /\ Works /\ Skip(k)
     \/ Fails /\ Skip(Faulted(k))
     \/ windows /\ Fails /\ Leave(c, Faulted(k), FALSE)
  /\ UNCHANGED <<windows, node, handle, calls>> /\ Observe(c)

\* A path too long for Windows is not found: what ends a walk through a link
\* that leads back up.
Found(path) == LStat(path) # 0 /\ (windows => Len(path) <= MaxPath)

\* readdir, then the child's path and its lstat.  A child without memory, or
\* already gone, is passed over; the end of the stream closes it.
RemoveNext(c) ==
  /\ Walking(c, "readdir")
  /\ LET k == call[c]  f == Last(k.stack) IN
     \/ /\ AtEnd(f) /\ Works /\ Hold(c, 0, -1)
        /\ Goto(c, Top(k, [f EXCEPT !.at = "rmdir"]))
     \/ Fails /\ Hold(c, 0, -1) /\ Goto(c, Top(Faulted(k), [f EXCEPT !.at = "rmdir"]))
     \/ \E n \in NamesLeft(f) :
          LET child == Append(f.path, n)  rest == Top(k, Saw(f, n)) IN
          \/ /\ Found(child) /\ Works /\ Hold(c, 1, 0)
             /\ Goto(c, [rest EXCEPT !.stack = Append(@, FrameFor(child))])
          \/ ~Found(child) /\ Works /\ Goto(c, rest) /\ UNCHANGED <<blocks, fds>>
          \/ Fails /\ Goto(c, Faulted(rest)) /\ UNCHANGED <<blocks, fds>>
  /\ UNCHANGED <<windows, node, handle, calls>> /\ Observe(c)

\* unlink or rmdir, DeleteFileA or RemoveDirectoryA.
RemoveEntry(c, at, Removable(_)) ==
  /\ Walking(c, at)
  /\ LET k == call[c]  p == Last(k.stack).path IN
     \/ /\ Removable(LStat(p)) /\ Works /\ Leave(c, k, TRUE)
        /\ node' = SetEntry(node, ParentOf(p), Last(p), 0)
     \/ ~Removable(LStat(p)) /\ Works /\ Leave(c, k, FALSE) /\ UNCHANGED node
     \/ Fails /\ Leave(c, Faulted(k), FALSE) /\ UNCHANGED node
  /\ UNCHANGED <<windows, handle, calls>> /\ Observe(c)

RemoveLeaf(c) ==
  RemoveEntry(c, "unlink", LAMBDA i : i # 0 /\ ~DirLike(node, i) /\ ~IsPinned(i))

\* RemoveDirectoryA removes the link, and nothing where it leads.
IsRemovable(i) == IsEmptyDir(i) \/ (windows /\ KindIs(node, i, "link"))

\* Mutant: a directory that is not empty is walked again.
RemoveDirAgain(c) ==
  \/ RemoveEntry(c, "rmdir", IsRemovable) /\ IsRemovable(LStat(Last(call[c].stack).path))
  \/ /\ Walking(c, "rmdir") /\ ~IsRemovable(LStat(Last(call[c].stack).path)) /\ Works
     /\ Goto(c, Top(call[c], Frame(Last(call[c].stack).path, "opendir")))
     /\ UNCHANGED <<windows, node, handle, blocks, fds, calls>> /\ Observe(c)
RemoveDir(c) == RemoveEntry(c, "rmdir", IsRemovable)

-----------------------------------------------------------------------------
\* fs_free_buffer knows the shared empty string from a buffer by its address:
\* an empty file was read into a buffer that must be freed.
\* Mutant: by its contents.
FreedIfNotEmpty(k) == IF k.buf # <<>> THEN 1 ELSE 0
fs_free_buffer(k) == IF k.cap > 0 THEN 1 ELSE 0
fs_free_directory_listing(k) == IF k.ok THEN Len(k.names) + k.cap + 1 ELSE 0

\* The caller is done with the result.
Release(c) ==
  /\ call[c].pc = "done"
  /\ LET k == call[c] IN
     /\ Hold(c, CASE k.op \in {"read", "readAll"} -> -fs_free_buffer(k)
                  [] k.op = "list" -> -fs_free_directory_listing(k)
                  [] OTHER -> 0, 0)
     /\ Goto(c, Idle)
  /\ UNCHANGED <<windows, node, handle, faults, calls>> /\ Observe(c)

Init ==
  /\ \E w \in Worlds : windows = w.windows /\ node = w.disk
  /\ call = [c \in Callers |-> Idle]
  /\ handle = [c \in Callers |-> NoFile]
  /\ blocks = [c \in Callers |-> 0] /\ fds = [c \in Callers |-> 0]
  /\ faults = 0 /\ calls = [c \in Callers |-> 0]
  /\ hist = [c \in Callers |-> <<>>] /\ alone = [c \in Callers |-> TRUE]

Start(c) ==
  \/ \E p \in ArgPaths : OpenFile(c, p)
  \/ \E p \in ArgPaths : ReadFile(c, p)
  \/ \E p \in ArgPaths, r \in Ranges : ReadRange(c, p, r)
  \/ \E p \in ArgPaths, b \in Contents : WriteFile(c, p, b)
  \/ \E p \in ArgPaths : MakeDirectory(c, p)
  \/ \E p, q \in ArgPaths : RenamePath(c, p, q)
  \/ \E p \in ArgPaths : ListDirectory(c, p)
  \/ \E p \in ArgPaths : RemovePath(c, p)
  \/ ReadAll(c)
  \/ CloseFile(c)

Continue(c) ==
  \/ StatOpened(c) \/ ReadChunk(c) \/ HandleSize(c) \/ PreadChunk(c)
  \/ WriteChunk(c) \/ RecheckDirectory(c) \/ ListNext(c)
  \/ RemoveOpen(c) \/ RemoveNext(c) \/ RemoveLeaf(c) \/ RemoveDir(c)

Next == \E c \in Callers : Start(c) \/ Continue(c) \/ Release(c)

\* A caller inside a call is running code: it takes its next step.
Spec == Init /\ [][Next]_vars /\ \A c \in Callers : WF_vars(Continue(c))

-----------------------------------------------------------------------------
(* Properties.                                                             *)

Finished(c, op) == call[c].pc = "done" /\ call[c].op = op
Before(c) == Head(hist[c])
After(c) == Last(hist[c])
Always(c, P(_)) == \A k \in DOMAIN hist[c] : P(hist[c][k])
Once(c, P(_)) == \E k \in DOMAIN hist[c] : P(hist[c][k])

\* A caller never gives back what it does not hold, and one that is in no call
\* and holds no File holds no memory and no descriptor: every early return,
\* failed read, dropped listing entry and abandoned subtree gave back what it
\* had taken (fs.c throughout).
NothingLeaks ==
  \A c \in Callers :
    /\ blocks[c] >= 0 /\ fds[c] >= 0
    /\ call[c].pc = "idle" /\ ~handle[c].open => blocks[c] = 0 /\ fds[c] = 0

\* The read loop stays inside the buffer sized by fstat, with room for the
\* final NUL, even when the file grows between the two (fs.c:115-151).
BufferFits ==
  \A c \in Callers : call[c].op \in {"read", "readAll"} /\ call[c].cap > 0 =>
    Len(call[c].buf) < call[c].cap

\* What fs_read_file reports as read: bytes the opened file had, each at its
\* place, at some moment of the call, and the whole file if nobody wrote it
\* meanwhile, whatever the disk's names did (fs.c:66-208).  A directory can be
\* opened, and one whose size is 0 is read as no bytes.  On Windows this
\* needs a size that fits the DWORD counters: beyond it the loop asks for
\* zero bytes, takes that for the end and reports success.
ReadsAreWhole ==
  \A c \in Callers :
    LET k == call[c]  i == StatOn(Before(c), k.path)  data == Before(c)[i].data IN
    Finished(c, "read") /\ k.ok =>
      \/ KindIs(Before(c), i, "dir") /\ DirSize = 0 /\ k.buf = <<>>
      \/ /\ KindIs(Before(c), i, "file")
         /\ \A j \in DOMAIN k.buf : Once(c, LAMBDA d :
              j <= Len(d[i].data) /\ d[i].data[j] = k.buf[j])
         /\ Always(c, LAMBDA d : d[i] = Before(c)[i]) =>
              k.buf = data \/ (windows /\ Len(data) >= Dword)

\* A File.readAll that met no failure returns the rest of the file from where
\* the handle stands and the size of the whole, if nobody wrote it meanwhile
\* (FileSystem.kira:15-24); after the file was renamed or removed as well.
ReadAllReturnsTheRest ==
  \A c \in Callers :
    LET k == call[c]  i == handle[c].ino  data == Before(c)[i].data IN
    /\ Finished(c, "readAll") /\ i # 0 /\ ~k.faulted
    /\ Always(c, LAMBDA d : d[i] = Before(c)[i])
    /\ KindIs(Before(c), i, "file") /\ (windows => Len(data) < Dword)
    => k.size = Len(data) /\ k.buf = SubSeq(data, k.pos - Len(k.buf) + 1, Len(data))

\* fs_read_range returns the range, short at the end of the file, when nothing
\* failed and nobody wrote the file (fs.c:243-285; FileSystem.kira:150-166).
RangesAreExact ==
  \A c \in Callers :
    LET k == call[c]  i == StatOn(Before(c), k.path)  data == Before(c)[i].data IN
    /\ Finished(c, "range") /\ ~k.faulted /\ ~windows /\ KindIs(Before(c), i, "file")
    /\ Always(c, LAMBDA d : d[i] = Before(c)[i])
    => k.buf = SubSeq(data, k.arg.offset + 1,
                      Minimum(Len(data), k.arg.offset + k.arg.size))

\* Reading a file, the rest of one, or a range of one gives what is there, in
\* the presence of short reads and of other callers (fs.c:66-208, 243-285).
ReadsAreExact == ReadsAreWhole /\ ReadAllReturnsTheRest /\ RangesAreExact

\* A write reported as done, by the only one to change the disk, can be read
\* back whole; one refused without an I/O error touched nothing
\* (fs.c:210-241, 287-319).  The Windows count that does not fit is refused
\* too, but only after the truncation.
WritesAreWhole ==
  \A c \in Callers :
    LET k == call[c]  i == StatOn(After(c), k.path) IN
    Finished(c, "write") /\ alone[c] =>
      /\ k.ok => KindIs(After(c), i, "file") /\ After(c)[i].data = k.arg
      /\ k.ok /\ After(c) = node =>
           fs_file_exists(k.path) /\ fs_file_size(k.path) = Len(k.arg)
      /\ ~k.ok /\ ~k.faulted =>
           After(c) = Before(c) \/ (windows /\ Len(k.arg) >= Dword)

\* fs_make_directory answers for one moment of its call: TRUE only if the path
\* then was a directory, FALSE without a failure only if it was none
\* (fs.c:362-384), whatever is made, renamed or removed between its two looks.
\* On Windows a directory link is one, even if it leads nowhere.
MakeDirectoryIsHonest ==
  \A c \in Callers :
    LET k == call[c] IN
    Finished(c, "mkdir") =>
      /\ k.ok => Once(c, LAMBDA d : DirLike(d, NamedOn(d, k.path)))
      /\ ~k.ok /\ ~k.faulted => Once(c, LAMBDA d : ~DirLike(d, NamedOn(d, k.path)))

\* What a removal may get to: the tree, and on Windows, where no attribute tells
\* it a link from a directory, what the links in the tree lead to as well.
RemovedOn(disk, i) == IF windows THEN LinkedTreeOn(disk, i) ELSE TreeOn(disk, i)

\* fs_remove_path, undisturbed, deletes entries of the tree it was given and
\* nothing else: never through a link on POSIX, but through the directory links
\* of the tree on Windows.  It says so only if the path is gone, and fails only
\* if a call failed, on Windows, or if the path itself led through a link in
\* that tree (fs.c:430-496).
RemoveStaysInTree ==
  \A c \in Callers :
    LET k == call[c]  i == LStatOn(Before(c), k.path) IN
    Finished(c, "remove") /\ alone[c] =>
      /\ \A d \in Inodes, n \in Names :
           EntryOf(After(c), d, n) # EntryOf(Before(c), d, n) =>
             /\ EntryOf(After(c), d, n) = 0
             /\ d \in RemovedOn(Before(c), i) \/ EntryOf(Before(c), d, n) = i
      /\ k.ok => LStatOn(After(c), k.path) = 0
      /\ ~k.ok /\ i # 0 =>
           \/ k.faulted \/ windows
           \/ WalkOn(After(c), Front(k.path)) # WalkOn(Before(c), Front(k.path))

\* A listing has every name that was there during the whole call, unless
\* memory or readdir failed, no name that never was, and none twice (fs.c:498-571).
ListingIsFaithful ==
  \A c \in Callers :
    LET k == call[c]  i == StatOn(Before(c), k.path)
        listed == {fs_directory_entry(k, j) : j \in 0 .. fs_directory_count(k) - 1} IN
    Finished(c, "list") /\ k.ok =>
      /\ Cardinality(listed) = fs_directory_count(k)
      /\ \A n \in Names :
           /\ n \in listed => Once(c, LAMBDA d : EntryOf(d, i, n) # 0)
           /\ ~k.faulted /\ Always(c, LAMBDA d : EntryOf(d, i, n) # 0) => n \in listed

\* Every call returns: no loop over chunks or directory entries runs on, with
\* other callers writing and removing the same files (fs.c throughout).
EveryCallReturns ==
  \A c \in Callers : call[c].pc \notin {"idle", "done"} ~> call[c].pc = "done"

=============================================================================
