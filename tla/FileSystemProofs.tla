--------------------------- MODULE FileSystemProofs ---------------------------
(***************************************************************************)
(* Proofs about FileSystem, for any number of callers, any tree to start   *)
(* from, any arguments and any bounds on calls and failures.               *)
(*                                                                         *)
(* Core says, for every program point of fs.c, which memory and which      *)
(* descriptors the call holds there, and is inductive alone.  Seen adds    *)
(* what a call has learned about the disks that were there since it began. *)
(***************************************************************************)
EXTENDS FileSystem, TLAPS, WellFoundedInduction, SequenceTheorems, FiniteSetTheorems

-----------------------------------------------------------------------------
(* Walking a path.                                                         *)

\* The order of the natural numbers, as a relation.
LEMMA LessPairs ==
  ASSUME NEW x \in Nat, NEW y \in Nat, y < x
  PROVE  <<y, x>> \in OpToRel(<, Nat)
BY DEF OpToRel

\* A non-empty set of natural numbers has a least element.
LEMMA LeastOf ==
  ASSUME NEW S \in SUBSET Nat, S # {}
  PROVE  \E x \in S : \A y \in S : x <= y
<1>1. PICK x \in S : \A y \in S : ~(<<y, x>> \in OpToRel(<, Nat))
  BY NatLessThanWellFounded, WFMin
<1>2. \A y \in S : x <= y
  <2> SUFFICES ASSUME NEW y \in S PROVE x <= y OBVIOUS
  <2>1. x \in Nat /\ y \in Nat OBVIOUS
  <2>2. ~(y < x) BY <1>1, <2>1, LessPairs
  <2> QED BY <2>1, <2>2
<1> QED BY <1>2

Disks == [Inodes -> Nodes]

\* One component of a path further.
Onward(disk, i, n) == FollowOn(disk, EntryOf(disk, i, n))

IsWalk(disk, path, at, m) ==
  at = [k \in 0 .. m |-> IF k = 0 THEN Root ELSE Onward(disk, at[k - 1], path[k])]

LEMMA WalkExists ==
  ASSUME NEW disk, NEW path, NEW m \in Nat
  PROVE  \E at : IsWalk(disk, path, at, m)
<1> DEFINE Bad == {n \in Nat : ~\E at : IsWalk(disk, path, at, n)}
<1>1. SUFFICES ASSUME Bad # {} PROVE FALSE OBVIOUS
<1>2. PICK n \in Bad : \A y \in Bad : n <= y BY <1>1, LeastOf
<1>3. CASE n = 0
  <2> DEFINE at == [k \in 0 .. 0 |-> Root]
  <2>1. IsWalk(disk, path, at, 0) BY DEF IsWalk
  <2> QED BY <1>3, <2>1
<1>4. CASE n # 0
  <2>1. n - 1 \in Nat /\ n - 1 \notin Bad BY <1>2, <1>4
  <2>2. PICK at : IsWalk(disk, path, at, n - 1) BY <2>1
  <2> DEFINE more == [k \in 0 .. n |-> IF k = n THEN Onward(disk, at[n - 1], path[n]) ELSE at[k]]
  <2>3. IsWalk(disk, path, more, n)
    <3>1. at = [k \in 0 .. n - 1 |-> IF k = 0 THEN Root ELSE Onward(disk, at[k - 1], path[k])]
      BY <2>2 DEF IsWalk
    <3>2. ASSUME NEW k \in 0 .. n
          PROVE  more[k] = IF k = 0 THEN Root ELSE Onward(disk, more[k - 1], path[k])
      <4>1. CASE k = n BY <4>1, <1>4
      <4>2. CASE k # n
        <5>1. k \in 0 .. n - 1 /\ more[k] = at[k] /\ (k # 0 => more[k - 1] = at[k - 1]) BY <4>2
        <5>2. at[k] = IF k = 0 THEN Root ELSE Onward(disk, at[k - 1], path[k]) BY <3>1, <5>1
        <5> QED BY <5>1, <5>2
      <4> QED BY <4>1, <4>2
    <3> HIDE DEF more
    <3>3. more = [k \in 0 .. n |-> more[k]] BY DEF more
    <3> QED BY <3>2, <3>3 DEF IsWalk
  <2> QED BY <2>3
<1> QED BY <1>3, <1>4

LEMMA WalkIs ==
  ASSUME NEW disk, NEW path \in Seq(Names)
  PROVE  \E at : IsWalk(disk, path, at, Len(path)) /\ WalkOn(disk, path) = at[Len(path)]
<1>1. Len(path) \in Nat OBVIOUS
<1>2. \E at : IsWalk(disk, path, at, Len(path)) BY <1>1, WalkExists
<1> QED BY <1>2 DEF IsWalk, WalkOn, Onward

\* What there is to each kind of inode.
LEMMA NodeShape ==
  ASSUME NEW disk \in Disks, NEW j \in Inodes
  PROVE  /\ disk[j].kind = "file" => disk[j] \in [kind : {"file"}, data : Seq(Byte)]
         /\ disk[j].kind = "dir" => disk[j] \in [kind : {"dir"}, entries : [Names -> Inodes \cup {0}]]
         /\ disk[j].kind = "link" => disk[j] \in [kind : {"link"}, to : Names]
BY DEF Disks, Nodes, Unused

\* A path, or another sequence, without its last component.
LEMMA FrontOf ==
  ASSUME NEW S, NEW path \in Seq(S), path # <<>>
  PROVE  /\ Front(path) \in Seq(S) /\ Len(Front(path)) = Len(path) - 1
         /\ \A k \in 1 .. Len(path) - 1 : Front(path)[k] = path[k]
<1>1. PICK m \in Nat : m = Len(path) /\ m > 0 OBVIOUS
<1>2. Front(path) = SubSeq(path, 1, m - 1) BY <1>1 DEF Front
<1>3. PICK f : f = SubSeq(path, 1, m - 1) OBVIOUS
<1>4. 1 \in 1 .. Len(path) + 1 /\ m - 1 \in 0 .. Len(path) BY <1>1
<1>5. f \in Seq(S) /\ Len(f) = m - 1 BY <1>1, <1>3, <1>4
<1>6. \A k \in 1 .. m - 1 : f[k] = path[k] BY <1>1, <1>3, <1>4
<1> QED BY <1>1, <1>2, <1>3, <1>5, <1>6

\* Every step of a walk is at an inode, or nowhere.
LEMMA OnwardType ==
  ASSUME NEW disk \in Disks, NEW i \in Inodes \cup {0}, NEW n \in Names
  PROVE  /\ EntryOf(disk, i, n) \in Inodes \cup {0}
         /\ Onward(disk, i, n) \in Inodes \cup {0}
<1> USE DiskAssumption
<1>1. ASSUME NEW d \in Inodes \cup {0}, NEW m \in Names
      PROVE  EntryOf(disk, d, m) \in Inodes \cup {0}
  BY NodeShape DEF EntryOf
<1>2. ASSUME NEW j \in Inodes, disk[j].kind = "link" PROVE disk[j].to \in Names
  BY <1>2, NodeShape
<1>3. EntryOf(disk, i, n) \in Inodes \cup {0} BY <1>1
<1>4. ASSUME NEW j \in Inodes \cup {0} PROVE FollowOn(disk, j) \in Inodes \cup {0}
  <2>1. CASE j # 0 /\ disk[j].kind = "link"
    <3>1. EntryOf(disk, Root, disk[j].to) \in Inodes \cup {0} BY <1>1, <1>2, <2>1
    <3> QED BY <2>1, <3>1 DEF FollowOn
  <2>2. CASE ~(j # 0 /\ disk[j].kind = "link") BY <2>2 DEF FollowOn
  <2> QED BY <2>1, <2>2
<1> QED BY <1>3, <1>4 DEF Onward

LEMMA WalkType ==
  ASSUME NEW disk \in Disks, NEW path \in Seq(Names)
  PROVE  WalkOn(disk, path) \in Inodes \cup {0}
<1>1. PICK at : IsWalk(disk, path, at, Len(path)) /\ WalkOn(disk, path) = at[Len(path)]
  BY WalkIs
<1> DEFINE Bad == {k \in 0 .. Len(path) : at[k] \notin Inodes \cup {0}}
<1>2. SUFFICES ASSUME Bad # {} PROVE FALSE BY <1>1
<1>3. Bad \in SUBSET Nat OBVIOUS
<1>4. PICK k \in Bad : \A y \in Bad : k <= y BY <1>2, <1>3, LeastOf
<1>5. at[k] = IF k = 0 THEN Root ELSE Onward(disk, at[k - 1], path[k]) BY <1>1 DEF IsWalk
<1>6. k # 0 BY <1>4, <1>5, DiskAssumption
<1>7. k - 1 \in 0 .. Len(path) /\ k \in 1 .. Len(path) BY <1>6
<1>8. at[k - 1] \in Inodes \cup {0} BY <1>4, <1>7
<1>9. path[k] \in Names BY <1>7
<1>10. Onward(disk, at[k - 1], path[k]) \in Inodes \cup {0} BY <1>8, <1>9, OnwardType
<1> QED BY <1>4, <1>5, <1>6, <1>10

\* The parts of a path.
LEMMA PathParts ==
  ASSUME NEW path \in Seq(Names), path # <<>>
  PROVE  Front(path) \in Seq(Names) /\ Last(path) \in Names
BY DEF Front, Last

\* A walk takes one component after the other.
LEMMA WalkStep ==
  ASSUME NEW disk, NEW path \in Seq(Names)
  PROVE  /\ path = <<>> => WalkOn(disk, path) = Root
         /\ path # <<>> =>
              WalkOn(disk, path) = Onward(disk, WalkOn(disk, Front(path)), Last(path))
<1>1. PICK m \in Nat : m = Len(path) OBVIOUS
<1>2. PICK at : IsWalk(disk, path, at, m) /\ WalkOn(disk, path) = at[m] BY <1>1, WalkIs
<1>3. \A k \in 0 .. m : at[k] = IF k = 0 THEN Root ELSE Onward(disk, at[k - 1], path[k])
  BY <1>2 DEF IsWalk
<1>4. CASE path = <<>>
  <2>1. m = 0 /\ 0 \in 0 .. m BY <1>1, <1>4
  <2>2. at[m] = Root BY <1>3, <2>1
  <2> QED BY <1>2, <1>4, <2>2
<1>5. CASE path # <<>>
  <2>1. m > 0 BY <1>1, <1>5
  <2> DEFINE f == Front(path)
  <2>2. f \in Seq(Names) /\ Len(f) = m - 1 /\ \A k \in 1 .. m - 1 : f[k] = path[k]
    BY <1>1, <1>5, FrontOf
  <2>3. Last(path) = path[m] BY <1>1 DEF Last
  <2> HIDE DEF f
  <2>4. PICK bt : IsWalk(disk, f, bt, m - 1) /\ WalkOn(disk, f) = bt[m - 1] BY <2>2, WalkIs
  <2>5. \A k \in 0 .. m - 1 : bt[k] = IF k = 0 THEN Root ELSE Onward(disk, bt[k - 1], f[k])
    BY <2>4 DEF IsWalk
  <2> DEFINE Bad == {k \in 0 .. m - 1 : at[k] # bt[k]}
  <2>6. Bad = {}
    <3> SUFFICES ASSUME Bad # {} PROVE FALSE OBVIOUS
    <3>1. Bad \in SUBSET Nat BY <2>1
    <3>2. PICK k \in Bad : \A y \in Bad : k <= y BY <3>1, LeastOf
    <3>3. k \in 0 .. m - 1 /\ k \in 0 .. m BY <2>1, <3>2
    <3>4. at[k] = IF k = 0 THEN Root ELSE Onward(disk, at[k - 1], path[k]) BY <1>3, <3>3
    <3>5. bt[k] = IF k = 0 THEN Root ELSE Onward(disk, bt[k - 1], f[k]) BY <2>5, <3>3
    <3>6. k # 0 BY <3>2, <3>4, <3>5
    <3>7. k - 1 \in 0 .. m - 1 /\ k \in 1 .. m - 1 BY <3>3, <3>6
    <3>8. at[k - 1] = bt[k - 1] BY <3>2, <3>7
    <3>9. f[k] = path[k] BY <2>2, <3>7
    <3> QED BY <3>2, <3>4, <3>5, <3>6, <3>8, <3>9
  <2>7. m - 1 \in 0 .. m - 1 /\ m \in 0 .. m BY <2>1
  <2>8. at[m - 1] = bt[m - 1] BY <2>6, <2>7
  <2>9. at[m] = Onward(disk, at[m - 1], path[m]) BY <1>3, <2>1, <2>7
  <2> QED BY <1>2, <1>5, <2>3, <2>4, <2>8, <2>9 DEF f
<1> QED BY <1>4, <1>5

LEMMA StatType ==
  ASSUME NEW disk \in Disks, NEW path \in Seq(Names)
  PROVE  /\ StatOn(disk, path) \in Inodes \cup {0}
         /\ LStatOn(disk, path) \in Inodes \cup {0}
         /\ path # <<>> => WalkOn(disk, Front(path)) \in Inodes \cup {0}
<1>1. StatOn(disk, path) \in Inodes \cup {0} BY WalkType DEF StatOn
<1>2. CASE path = <<>> BY <1>1, <1>2 DEF LStatOn
<1>3. CASE path # <<>>
  <2>1. Front(path) \in Seq(Names) /\ Last(path) \in Names BY <1>3, PathParts
  <2>2. WalkOn(disk, Front(path)) \in Inodes \cup {0} BY <2>1, WalkType
  <2>3. EntryOf(disk, WalkOn(disk, Front(path)), Last(path)) \in Inodes \cup {0}
    BY <2>1, <2>2, OnwardType
  <2> QED BY <1>1, <1>3, <2>2, <2>3 DEF LStatOn
<1> QED BY <1>2, <1>3

-----------------------------------------------------------------------------
(* Changes to a disk.                                                      *)

LEMMA EntryType ==
  ASSUME NEW disk \in Disks, NEW d \in Inodes, disk[d].kind = "dir",
         NEW n \in Names, NEW i \in Inodes \cup {0}
  PROVE  /\ SetEntry(disk, d, n, i) \in Disks
         /\ \A j \in Inodes : SetEntry(disk, d, n, i)[j].kind = disk[j].kind
<1>1. disk[d] \in [kind : {"dir"}, entries : [Names -> Inodes \cup {0}]]
  BY NodeShape
<1> DEFINE new == [disk[d] EXCEPT !.entries = [@ EXCEPT ![n] = i]]
<1>2. new \in [kind : {"dir"}, entries : [Names -> Inodes \cup {0}]] BY <1>1
<1>3. SetEntry(disk, d, n, i) = [disk EXCEPT ![d] = new] BY DEF SetEntry
<1>4. new \in Nodes /\ new.kind = "dir" BY <1>2 DEF Nodes
<1> HIDE DEF new
<1> QED BY <1>3, <1>4 DEF Disks

LEMMA FileType ==
  /\ \A data \in Seq(Byte) : File(data) \in Nodes /\ File(data).kind = "file"
  /\ EmptyDir \in Nodes /\ EmptyDir.kind = "dir"
BY DEF File, Nodes, EmptyDir, Dir

-----------------------------------------------------------------------------
(* What a call in progress is, and what it holds.                          *)

Frames ==
  [path : Seq(Names), at : {"opendir", "readdir", "rmdir", "unlink"},
   dir : Inodes \cup {0}, first : SUBSET Names, seen : SUBSET Names]

Calls ==
  [op : {"none", "open", "read", "readAll", "range", "write", "mkdir", "rename",
         "list", "remove"},
   path : Seq(Names), arg : Seq(Names) \cup Seq(Byte) \cup Ranges,
   pc : {"idle", "fstat", "read", "size", "pread", "write", "eexist", "list", "remove",
         "done"},
   fd : Inodes \cup {0}, pos : Nat, cap : Nat, buf : Seq(Byte), names : Seq(Names),
   stack : Seq(Frames), size : Nat, faulted : BOOLEAN, ok : BOOLEAN]

Files == [ino : Inodes \cup {0}, open : BOOLEAN, pos : Nat, reads : Nat]

\* A walk below its top frame is reading directories.
Shape(k) ==
  /\ k.pc = "fstat" => k.op = "read" /\ k.buf = <<>>
  /\ k.pc = "read" => k.op \in {"read", "readAll"} /\ Len(k.buf) < k.cap - 1
  /\ k.pc = "size" => k.op = "readAll"
  /\ k.pc = "pread" => k.op = "range" /\ k.arg \in Ranges
  /\ k.pc = "write" => k.op = "write" /\ k.arg \in Seq(Byte) /\ k.fd # 0
  /\ k.pc = "eexist" => k.op = "mkdir"
  /\ k.pc = "list" => k.op = "list" /\ k.cap \in {0, 1} /\ Len(k.stack) = 1
  /\ k.pc = "remove" =>
       /\ k.op = "remove" /\ Len(k.stack) > 0
       /\ \A j \in 1 .. Len(k.stack) - 1 : k.stack[j].at = "readdir"
  /\ k.op \in {"read", "readAll"} /\ k.cap > 0 => Len(k.buf) < k.cap

\* The blocks and descriptors a call holds at each point, its result's included.
BlocksOf(k) ==
  CASE k.pc = "fstat" -> 1
    [] k.pc = "read" -> IF k.op = "read" THEN 2 ELSE 1
    [] k.pc = "size" -> fs_free_buffer(k)
    [] k.pc = "list" -> Len(k.names) + k.cap + 1
    [] k.pc = "remove" -> Len(k.stack) - 1
    [] k.pc = "done" /\ k.op \in {"read", "readAll"} -> fs_free_buffer(k)
    [] k.pc = "done" /\ k.op = "list" -> fs_free_directory_listing(k)
    [] OTHER -> 0

FdsOf(k) ==
  CASE k.pc \in {"fstat", "pread", "write", "list"} -> 1
    [] k.pc = "read" /\ k.op = "read" -> 1
    [] k.pc = "remove" ->
         Len(k.stack) - 1 + (IF k.stack[Len(k.stack)].at = "readdir" THEN 1 ELSE 0)
    [] OTHER -> 0

\* A File is one block and one descriptor; NULL is none.
HandleHolds(h) == IF h.ino = 0 THEN 0 ELSE 1

Tidy(k, h, b, f) ==
  /\ k \in Calls /\ Shape(k)
  /\ h \in Files /\ (~h.open => h.ino = 0)
  /\ b = HandleHolds(h) + BlocksOf(k)
  /\ f = HandleHolds(h) + FdsOf(k)

AllTidy ==
  /\ call \in [Callers -> Calls] /\ handle \in [Callers -> Files]
  /\ blocks \in [Callers -> Int] /\ fds \in [Callers -> Int]
  /\ \A c \in Callers : Tidy(call[c], handle[c], blocks[c], fds[c])

\* A file that is being written is one.
WritesFiles ==
  \A c \in Callers : call[c].pc = "write" => KindIs(node, call[c].fd, "file")

Core == /\ windows \in BOOLEAN /\ node \in Disks /\ AllTidy /\ WritesFiles

-----------------------------------------------------------------------------
(* How one caller's part of the state changes.                             *)

Becomes(c, k, h, b, f) ==
  /\ call' = [call EXCEPT ![c] = k] /\ handle' = [handle EXCEPT ![c] = h]
  /\ blocks' = [blocks EXCEPT ![c] = b] /\ fds' = [fds EXCEPT ![c] = f]

LEMMA HoldsSame ==
  ASSUME AllTidy, NEW c \in Callers, NEW k, Goto(c, k), UNCHANGED <<blocks, fds>>
  PROVE  /\ UNCHANGED handle => Becomes(c, k, handle[c], blocks[c], fds[c])
         /\ \A h : handle' = [handle EXCEPT ![c] = h] => Becomes(c, k, h, blocks[c], fds[c])
BY DEF AllTidy, Goto, Becomes

LEMMA StaysTidy ==
  ASSUME AllTidy, NEW c \in Callers, NEW k, NEW h, NEW b, NEW f,
         Becomes(c, k, h, b, f), Tidy(k, h, b, f)
  PROVE  /\ AllTidy' /\ call'[c] = k /\ handle'[c] = h
         /\ \A d \in Callers \ {c} : call'[d] = call[d] /\ handle'[d] = handle[d]
<1>1. k \in Calls /\ h \in Files /\ Shape(k) BY DEF Tidy
<1>2. HandleHolds(h) \in Int /\ BlocksOf(k) \in Int /\ FdsOf(k) \in Int
  <2>1. HandleHolds(h) \in Int BY DEF HandleHolds
  <2>2. k.cap \in Nat /\ Len(k.names) \in Nat /\ Len(k.stack) \in Nat BY <1>1 DEF Calls
  <2>3. BlocksOf(k) \in Int
    BY <2>2 DEF BlocksOf, fs_free_buffer, fs_free_directory_listing
  <2>4. FdsOf(k) \in Int BY <2>2 DEF FdsOf
  <2> QED BY <2>1, <2>3, <2>4
<1>3. b \in Int /\ f \in Int BY <1>2 DEF Tidy
<1>4. /\ call' \in [Callers -> Calls] /\ handle' \in [Callers -> Files]
      /\ blocks' \in [Callers -> Int] /\ fds' \in [Callers -> Int]
  BY <1>1, <1>3 DEF Becomes, AllTidy
<1>5. /\ call'[c] = k /\ handle'[c] = h /\ blocks'[c] = b /\ fds'[c] = f
      /\ \A d \in Callers \ {c} : /\ call'[d] = call[d] /\ handle'[d] = handle[d]
                                  /\ blocks'[d] = blocks[d] /\ fds'[d] = fds[d]
  BY DEF Becomes, AllTidy
<1>6. \A d \in Callers : Tidy(call'[d], handle'[d], blocks'[d], fds'[d])
  BY <1>5 DEF AllTidy
<1> QED BY <1>4, <1>5, <1>6 DEF AllTidy

-----------------------------------------------------------------------------
(* The records calls are made of.                                          *)

SameBut(k, r) ==
  /\ r.op = k.op /\ r.path = k.path /\ r.arg = k.arg /\ r.fd = k.fd /\ r.pos = k.pos
  /\ r.cap = k.cap /\ r.buf = k.buf /\ r.names = k.names /\ r.stack = k.stack
  /\ r.size = k.size

LEMMA Returned ==
  ASSUME NEW k \in Calls, NEW b \in BOOLEAN
  PROVE  /\ Return(k, b) \in Calls /\ SameBut(k, Return(k, b))
         /\ Return(k, b).pc = "done" /\ Return(k, b).ok = b /\ Return(k, b).faulted = k.faulted
BY DEF Calls, Return, SameBut

LEMMA AfterFault ==
  ASSUME NEW k \in Calls
  PROVE  /\ Faulted(k) \in Calls /\ SameBut(k, Faulted(k))
         /\ Faulted(k).pc = k.pc /\ Faulted(k).ok = k.ok /\ Faulted(k).faulted = TRUE
BY DEF Calls, Faulted, SameBut

LEMMA IdleType ==
  /\ Idle \in Calls /\ Idle.pc = "idle" /\ Idle.op = "none"
  /\ Idle.fd = 0 /\ Idle.pos = 0 /\ Idle.cap = 0 /\ Idle.buf = <<>> /\ Idle.names = <<>>
  /\ Idle.stack = <<>> /\ Idle.size = 0 /\ Idle.faulted = FALSE /\ Idle.ok = FALSE
<1>1. \A S : <<>> \in Seq(S) OBVIOUS
<1> QED BY <1>1 DEF Calls, Idle

\* A call as it starts.
Started(k, op, path, arg) ==
  /\ k \in Calls /\ k.op = op /\ k.path = path /\ k.arg = arg /\ k.pc = "idle"
  /\ k.fd = 0 /\ k.pos = 0 /\ k.cap = 0 /\ k.buf = <<>> /\ k.names = <<>>
  /\ k.stack = <<>> /\ k.size = 0 /\ k.faulted = FALSE /\ k.ok = FALSE

LEMMA Begun ==
  ASSUME NEW op \in {"open", "read", "readAll", "range", "write", "mkdir", "rename",
                     "list", "remove"},
         NEW path \in Seq(Names), NEW arg \in Seq(Names) \cup Seq(Byte) \cup Ranges
  PROVE  Started(Begin(op, path, arg), op, path, arg)
<1> USE IdleType
<1> DEFINE i == Idle  k == Begin(op, path, arg)
<1>1. k = [i EXCEPT !.op = op, !.path = path, !.arg = arg] BY DEF Begin
<1> HIDE DEF i, k
<1>2. i \in Calls BY DEF i
<1>3. k \in Calls /\ k.op = op /\ k.path = path /\ k.arg = arg BY <1>1, <1>2 DEF Calls
<1>4. /\ k.pc = i.pc /\ k.fd = i.fd /\ k.pos = i.pos /\ k.cap = i.cap /\ k.buf = i.buf
      /\ k.names = i.names /\ k.stack = i.stack /\ k.size = i.size
      /\ k.faulted = i.faulted /\ k.ok = i.ok
  BY <1>1, <1>2 DEF Calls
<1> QED BY <1>3, <1>4 DEF i, k, Started

LEMMA BegunPlain ==
  ASSUME NEW op \in {"open", "read", "readAll", "range", "write", "mkdir", "rename",
                     "list", "remove"},
         NEW path \in Seq(Names)
  PROVE  Started(Begin(op, path, <<>>), op, path, <<>>)
<1>1. <<>> \in Seq(Names) OBVIOUS
<1>2. <<>> \in Seq(Names) \cup Seq(Byte) \cup Ranges BY <1>1
<1> QED BY <1>2, Begun

-----------------------------------------------------------------------------
(* What every step does.                                                   *)

OthersSame(c) ==
  \A d \in Callers \ {c} : call'[d] = call[d] /\ handle'[d] = handle[d]

DiskKept ==
  /\ node' \in Disks
  /\ \A i \in Inodes : KindIs(node, i, "file") /\ IsOpenFile(i) => KindIs(node', i, "file")

Orderly(c) ==
  /\ AllTidy' /\ OthersSame(c) /\ DiskKept
  /\ call'[c].pc = "write" => KindIs(node', call'[c].fd, "file")

\* A step of a call in progress, or the first of one.
Does(c, op) == Orderly(c) /\ call'[c].op = op /\ call'[c].pc # "idle"

LEMMA SameDisk ==
  ASSUME Core, UNCHANGED node
  PROVE  DiskKept
BY DEF Core, DiskKept

LEMMA OneMoved ==
  ASSUME Core, NEW c \in Callers, NEW k, NEW h, NEW b, NEW f,
         Becomes(c, k, h, b, f), Tidy(k, h, b, f), DiskKept,
         k.pc = "write" => KindIs(node', k.fd, "file")
  PROVE  Orderly(c) /\ call'[c] = k
<1>1. AllTidy BY DEF Core
<1>2. /\ AllTidy' /\ call'[c] = k
      /\ \A d \in Callers \ {c} : call'[d] = call[d] /\ handle'[d] = handle[d]
  BY <1>1, StaysTidy
<1> QED BY <1>2 DEF Orderly, OthersSame

LEMMA OrderlyKeepsCore ==
  ASSUME Core, NEW c \in Callers, Orderly(c), UNCHANGED windows
  PROVE  Core'
<1>1. ASSUME NEW d \in Callers, call'[d].pc = "write" PROVE KindIs(node', call'[d].fd, "file")
  <2>1. CASE d = c BY <1>1, <2>1 DEF Orderly
  <2>2. CASE d # c
    <3>1. call'[d] = call[d] BY <2>2 DEF Orderly, OthersSame
    <3>2. KindIs(node, call[d].fd, "file") BY <1>1, <3>1 DEF Core, WritesFiles
    <3>3. call[d].fd \in Inodes BY <3>2 DEF Core, AllTidy, Calls, KindIs
    <3>4. IsOpenFile(call[d].fd) BY DEF IsOpenFile
    <3> QED BY <3>1, <3>2, <3>3, <3>4 DEF Orderly, DiskKept
  <2> QED BY <2>1, <2>2
<1> QED BY <1>1 DEF Core, Orderly, DiskKept, WritesFiles

\* A caller between calls holds what its File holds.
LEMMA BetweenCalls ==
  ASSUME Core, NEW c \in Callers, call[c].pc = "idle"
  PROVE  /\ handle[c] \in Files /\ (~handle[c].open => handle[c].ino = 0)
         /\ blocks[c] = HandleHolds(handle[c]) /\ fds[c] = HandleHolds(handle[c])
         /\ HandleHolds(handle[c]) \in Int
<1>1. Tidy(call[c], handle[c], blocks[c], fds[c]) BY DEF Core, AllTidy
<1>2. BlocksOf(call[c]) = 0 /\ FdsOf(call[c]) = 0 BY DEF BlocksOf, FdsOf
<1> QED BY <1>1, <1>2 DEF Tidy, HandleHolds

\* A result that owns nothing.
LEMMA HoldsNothing ==
  ASSUME NEW k \in Calls, k.pc = "done", k.cap = 0, k.op = "list" => ~k.ok
  PROVE  BlocksOf(k) = 0 /\ FdsOf(k) = 0 /\ Shape(k)
BY DEF BlocksOf, FdsOf, Shape, fs_free_buffer, fs_free_directory_listing

\* How a call ends that cannot start, or fails at once.
LEMMA RefusedResult ==
  ASSUME NEW k \in Calls, NEW r,
         \/ r = Return(k, FALSE) \/ r = Return(Faulted(k), FALSE)
         \/ r = Return(k, TRUE) \/ r = Return(Faulted(k), TRUE)
  PROVE  r \in Calls /\ r.pc = "done" /\ SameBut(k, r)
<1>1. CASE r = Return(k, FALSE) \/ r = Return(k, TRUE) BY <1>1, Returned
<1>2. CASE r = Return(Faulted(k), FALSE) \/ r = Return(Faulted(k), TRUE)
  <2> DEFINE g == Faulted(k)
  <2>1. g \in Calls /\ SameBut(k, g) BY AfterFault
  <2>2. r = Return(g, FALSE) \/ r = Return(g, TRUE) BY <1>2
  <2> HIDE DEF g
  <2>3. r \in Calls /\ r.pc = "done" /\ SameBut(g, r) BY <2>1, <2>2, Returned
  <2> QED BY <2>1, <2>3 DEF SameBut
<1> QED BY <1>1, <1>2

LEMMA RefusedOk ==
  ASSUME NEW k \in Calls, NEW r, r = Return(k, FALSE) \/ r = Return(Faulted(k), FALSE)
  PROVE  ~r.ok
BY AfterFault, Returned

\* It holds nothing.
LEMMA EndsAtOnce ==
  ASSUME Core, NEW c \in Callers, call[c].pc = "idle", UNCHANGED handle,
         NEW r \in Calls, r.pc = "done", r.cap = 0, r.op = "list" => ~r.ok,
         Goto(c, r), UNCHANGED <<node, blocks, fds>>
  PROVE  Orderly(c) /\ call'[c] = r
<1>1. BlocksOf(r) = 0 /\ FdsOf(r) = 0 /\ Shape(r) BY HoldsNothing
<1>2. Becomes(c, r, handle[c], blocks[c], fds[c]) BY HoldsSame DEF Core
<1>3. Tidy(r, handle[c], blocks[c], fds[c]) BY <1>1, BetweenCalls DEF Tidy
<1> QED BY <1>2, <1>3, SameDisk, OneMoved

-----------------------------------------------------------------------------
(* Calls that start.                                                       *)

LEMMA ArgTypes ==
  /\ \A p \in ArgPaths : p \in Seq(Names)
  /\ \A b \in Contents : b \in Seq(Byte)
  /\ <<>> \in Seq(Names)
BY DiskAssumption

LEMMA OpenableType ==
  ASSUME Core, NEW path \in ArgPaths
  PROVE  OpenableForRead(path) \in Inodes \cup {0}
BY ArgTypes, StatType DEF Core, OpenableForRead, Stat

LEMMA OpenFileStep ==
  ASSUME Core, NEW c \in Callers, NEW path \in ArgPaths, OpenFile(c, path)
  PROVE  Does(c, "open")
<1> DEFINE k == Begin("open", path, <<>>)  i == OpenableForRead(path)
<1>1. call[c].pc = "idle" /\ ~handle[c].open BY DEF OpenFile, CanCall
<1>2. Started(k, "open", path, <<>>) BY ArgTypes, BegunPlain
<1>3. handle[c].ino = 0 /\ handle[c] \in Files /\ blocks[c] = 0 /\ fds[c] = 0
  BY <1>1, BetweenCalls DEF HandleHolds
<1>4. i \in Inodes \cup {0} BY OpenableType
<1> DEFINE full == [NoFile EXCEPT !.ino = i, !.open = TRUE]
           null == [NoFile EXCEPT !.open = TRUE]
<1>5. /\ full \in Files /\ full.ino = i /\ full.open
      /\ null \in Files /\ null.ino = 0 /\ null.open
  BY <1>4, DiskAssumption DEF NoFile, Files
<1>6. \/ /\ i # 0 /\ Hold(c, 1, 1) /\ Goto(c, Return(k, TRUE)) /\ UNCHANGED node
         /\ handle' = [handle EXCEPT ![c] = full]
      \/ /\ Goto(c, Return(k, FALSE)) \/ Goto(c, Return(Faulted(k), FALSE))
         /\ UNCHANGED <<node, blocks, fds>> /\ handle' = [handle EXCEPT ![c] = null]
  BY DEF OpenFile, Refused
<1>7. PICK r : /\ Goto(c, r)
               /\ r = Return(k, TRUE) \/ r = Return(k, FALSE) \/ r = Return(Faulted(k), FALSE)
  BY <1>6
<1> HIDE DEF k, i, full, null
<1>8. r \in Calls /\ r.pc = "done" /\ r.cap = 0 /\ r.op = "open"
  BY <1>2, <1>7, RefusedResult DEF SameBut, Started
<1>9. BlocksOf(r) = 0 /\ FdsOf(r) = 0 /\ Shape(r) BY <1>8, HoldsNothing
<1>10. CASE i # 0 /\ Hold(c, 1, 1) /\ UNCHANGED node /\ handle' = [handle EXCEPT ![c] = full]
  <2>1. Becomes(c, r, full, blocks[c] + 1, fds[c] + 1) BY <1>7, <1>10 DEF Core, AllTidy, Goto, Hold, Becomes
  <2>2. Tidy(r, full, blocks[c] + 1, fds[c] + 1)
    BY <1>3, <1>5, <1>8, <1>9, <1>10 DEF Tidy, HandleHolds
  <2> QED BY <1>8, <1>10, <2>1, <2>2, SameDisk, OneMoved DEF Does
<1>11. CASE UNCHANGED <<node, blocks, fds>> /\ handle' = [handle EXCEPT ![c] = null]
  <2>1. Becomes(c, r, null, blocks[c], fds[c]) BY <1>7, <1>11, HoldsSame DEF Core
  <2>2. Tidy(r, null, blocks[c], fds[c]) BY <1>3, <1>5, <1>8, <1>9 DEF Tidy, HandleHolds
  <2> QED BY <1>8, <1>11, <2>1, <2>2, SameDisk, OneMoved DEF Does
<1> QED BY <1>6, <1>10, <1>11

-----------------------------------------------------------------------------
(* The end of a read.                                                      *)

ByRead(k) == IF k.op = "read" THEN 1 ELSE 0

Ends(c, k, q, h) ==
  /\ q \in Calls /\ h \in Files
  /\ q.op = k.op /\ q.path = k.path /\ q.arg = k.arg /\ q.pos = k.pos
  /\ q.faulted = k.faulted /\ q.names = k.names /\ q.stack = k.stack
  /\ q.pc = (IF k.op = "read" THEN "done" ELSE "size")
  /\ q.fd = (IF k.op = "read" THEN 0 ELSE k.fd)
  /\ h.ino = handle[c].ino /\ h.open = handle[c].open /\ h.reads = handle[c].reads
  /\ h.pos = (IF k.op = "read" THEN handle[c].pos ELSE k.pos)

\* The record a read leaves: its bytes, and a buffer if it succeeded.
ReadAs(k, r, bytes, room) ==
  /\ r \in Calls /\ r.buf = bytes /\ r.cap = room /\ r.fd = k.fd
  /\ r.op = k.op /\ r.path = k.path /\ r.arg = k.arg /\ r.pos = k.pos
  /\ r.faulted = k.faulted /\ r.names = k.names /\ r.stack = k.stack

LEMMA ReadInto ==
  ASSUME NEW k \in Calls, NEW bytes \in Seq(Byte), NEW room \in Nat, NEW r,
         r = [k EXCEPT !.buf = bytes, !.size = Len(bytes), !.cap = room]
  PROVE  ReadAs(k, r, bytes, room)
<1>1. PICK n \in Nat : n = Len(bytes) OBVIOUS
<1>2. r = [k EXCEPT !.buf = bytes, !.size = n, !.cap = room] BY <1>1
<1>3. r \in Calls BY <1>2 DEF Calls
<1> QED BY <1>2, <1>3 DEF ReadAs, Calls

Finishes(c, k, r, x) ==
  IF k.op = "read"
    THEN /\ Hold(c, x - 1, -1) /\ UNCHANGED handle
         /\ \/ Goto(c, Return([r EXCEPT !.fd = 0], TRUE))
            \/ Goto(c, Return([r EXCEPT !.fd = 0], FALSE))
    ELSE /\ Hold(c, x, 0)
         /\ handle' = [handle EXCEPT ![c].pos = k.pos]
         /\ Goto(c, [r EXCEPT !.pc = "size"])

LEMMA EndReadIs ==
  ASSUME Core, NEW c \in Callers, NEW k \in Calls, NEW r, NEW x \in Int,
         NEW bytes, NEW room, ReadAs(k, r, bytes, room), Finishes(c, k, r, x)
  PROVE  \E q, h :
           /\ Ends(c, k, q, h) /\ q.buf = bytes /\ q.cap = room
           /\ Becomes(c, q, h, blocks[c] + x - ByRead(k), fds[c] - ByRead(k))
<1> USE DEF ReadAs, Finishes
<1>2. handle[c] \in Files /\ handle \in [Callers -> Files] BY DEF Core, AllTidy
<1>3. CASE k.op = "read"
  <2> DEFINE z == [r EXCEPT !.fd = 0]
  <2>2. /\ z \in Calls /\ z.fd = 0 /\ z.buf = r.buf /\ z.cap = r.cap
        /\ z.op = r.op /\ z.path = r.path /\ z.arg = r.arg /\ z.pos = r.pos
        /\ z.faulted = r.faulted /\ z.names = r.names /\ z.stack = r.stack
    BY DiskAssumption DEF Calls
  <2>3. PICK q : Goto(c, q) /\ (q = Return(z, TRUE) \/ q = Return(z, FALSE)) BY <1>3
  <2> HIDE DEF z
  <2>4. q \in Calls /\ SameBut(z, q) /\ q.pc = "done" /\ q.faulted = z.faulted
    BY <2>2, <2>3, Returned
  <2>5. Ends(c, k, q, handle[c]) BY <1>2, <1>3, <2>2, <2>4 DEF Ends, SameBut
  <2>6. Becomes(c, q, handle[c], blocks[c] + x - 1, fds[c] - 1)
    BY <1>3, <2>3 DEF Core, AllTidy, Goto, Hold, Becomes
  <2>7. q.buf = r.buf /\ q.cap = r.cap BY <2>2, <2>4 DEF SameBut
  <2>8. ByRead(k) = 1 BY <1>3 DEF ByRead
  <2> QED BY <2>4, <2>5, <2>6, <2>7, <2>8
<1>4. CASE k.op # "read"
  <2> DEFINE h == [handle[c] EXCEPT !.pos = k.pos]  q == [r EXCEPT !.pc = "size"]
  <2>1. Hold(c, x, 0) /\ handle' = [handle EXCEPT ![c] = h] /\ Goto(c, q) BY <1>4
  <2>2. /\ q \in Calls /\ q.pc = "size" /\ q.fd = r.fd /\ q.buf = r.buf /\ q.cap = r.cap
        /\ q.op = r.op /\ q.path = r.path /\ q.arg = r.arg /\ q.pos = r.pos
        /\ q.faulted = r.faulted /\ q.names = r.names /\ q.stack = r.stack
    BY DEF Calls
  <2>3. /\ h \in Files /\ h.ino = handle[c].ino /\ h.open = handle[c].open
        /\ h.reads = handle[c].reads /\ h.pos = k.pos
    BY <1>2 DEF Files, Calls
  <2> HIDE DEF q, h
  <2>4. Ends(c, k, q, h) BY <1>4, <2>2, <2>3 DEF Ends
  <2>5. Becomes(c, q, h, blocks[c] + x, fds[c])
    <3>1. fds[c] + 0 = fds[c] /\ blocks \in [Callers -> Int] /\ fds \in [Callers -> Int]
      BY DEF Core, AllTidy
    <3> QED BY <2>1, <3>1 DEF Goto, Hold, Becomes
  <2>7. ByRead(k) = 0 BY <1>4 DEF ByRead
  <2>8. blocks[c] + x - 0 = blocks[c] + x /\ fds[c] - 0 = fds[c] BY DEF Core, AllTidy
  <2> QED BY <2>2, <2>4, <2>5, <2>7, <2>8
<1> QED BY <1>3, <1>4

LEMMA ReadFailed ==
  ASSUME Core, NEW c \in Callers, NEW k \in Calls, NEW x \in Int,
         EndRead(c, k, FALSE, <<>>, x)
  PROVE  \E q, h :
           /\ Ends(c, k, q, h) /\ q.buf = <<>> /\ q.cap = 0
           /\ Becomes(c, q, h, blocks[c] + x - ByRead(k), fds[c] - ByRead(k))
<1>1. <<>> \in Seq(Byte) OBVIOUS
<1>2. PICK r : r = [k EXCEPT !.buf = <<>>, !.size = Len(<<>>), !.cap = 0] OBVIOUS
<1>3. ReadAs(k, r, <<>>, 0) BY <1>1, <1>2, ReadInto
<1>4. Finishes(c, k, r, x) BY <1>2 DEF EndRead, Finishes
<1> QED BY <1>3, <1>4, EndReadIs

LEMMA ReadWorked ==
  ASSUME Core, NEW c \in Callers, NEW k \in Calls, NEW x \in Int, NEW bytes \in Seq(Byte),
         EndRead(c, k, TRUE, bytes, x)
  PROVE  \E q, h :
           /\ Ends(c, k, q, h) /\ q.buf = bytes /\ q.cap = k.cap
           /\ Becomes(c, q, h, blocks[c] + x - ByRead(k), fds[c] - ByRead(k))
<1>1. k.cap \in Nat BY DEF Calls
<1>2. PICK r : r = [k EXCEPT !.buf = bytes, !.size = Len(bytes), !.cap = k.cap] OBVIOUS
<1>3. ReadAs(k, r, bytes, k.cap) BY <1>1, <1>2, ReadInto
<1>4. Finishes(c, k, r, x) BY <1>2 DEF EndRead, Finishes
<1> QED BY <1>3, <1>4, EndReadIs

LEMMA ReadOver ==
  ASSUME Core, NEW c \in Callers, NEW k, NEW q, NEW h, NEW b, NEW f,
         k.op \in {"read", "readAll"}, Ends(c, k, q, h), Becomes(c, q, h, b, f),
         q.cap > 0 => Len(q.buf) < q.cap, UNCHANGED node,
         b = HandleHolds(handle[c]) + fs_free_buffer(q), f = HandleHolds(handle[c])
  PROVE  Does(c, k.op) /\ call'[c] = q
<1>1. ~handle[c].open => handle[c].ino = 0 BY DEF Core, AllTidy, Tidy
<1>2. /\ q \in Calls /\ h \in Files /\ q.op = k.op /\ h.ino = handle[c].ino
      /\ h.open = handle[c].open /\ q.pc = (IF k.op = "read" THEN "done" ELSE "size")
  BY DEF Ends
<1>3. HandleHolds(h) = HandleHolds(handle[c]) BY <1>2 DEF HandleHolds
<1>4. BlocksOf(q) = fs_free_buffer(q) /\ FdsOf(q) = 0 BY <1>2 DEF BlocksOf, FdsOf
<1>5. Shape(q) BY <1>2 DEF Shape
<1>6. HandleHolds(h) + 0 = HandleHolds(h) BY DEF HandleHolds
<1>7. Tidy(q, h, b, f) BY <1>1, <1>2, <1>3, <1>4, <1>5, <1>6 DEF Tidy
<1>8. Orderly(c) /\ call'[c] = q BY <1>2, <1>7, SameDisk, OneMoved
<1> QED BY <1>2, <1>8 DEF Does

LEMMA SizeType ==
  ASSUME Core, NEW i \in Inodes \cup {0}
  PROVE  SizeOf(i) \in Nat
<1>1. KindIs(node, i, "file") => Len(node[i].data) \in Nat
  BY NodeShape DEF Core, KindIs
<1> QED BY <1>1, DiskAssumption DEF SizeOf

\* From fstat to the loop.
LEMMA ReadAllFromStep ==
  ASSUME Core, NEW c \in Callers, NEW k \in Calls, k.op \in {"read", "readAll"}, k.buf = <<>>,
         blocks[c] = HandleHolds(handle[c]) + ByRead(k),
         fds[c] = HandleHolds(handle[c]) + ByRead(k),
         ReadAllFrom(c, k), UNCHANGED node
  PROVE  Does(c, k.op)
<1>0. HandleHolds(handle[c]) \in Int /\ ByRead(k) \in Int BY DEF HandleHolds, ByRead
<1>1. CASE EndRead(c, Faulted(k), FALSE, <<>>, 0)
  <2> DEFINE g == Faulted(k)
  <2>1. g \in Calls /\ g.op = k.op BY AfterFault DEF SameBut
  <2>2. EndRead(c, g, FALSE, <<>>, 0) BY <1>1
  <2>6. 0 \in Int OBVIOUS
  <2> HIDE DEF g
  <2>3. PICK q, h : /\ Ends(c, g, q, h) /\ q.cap = 0
                    /\ Becomes(c, q, h, blocks[c] + 0 - ByRead(g), fds[c] - ByRead(g))
    BY <2>1, <2>2, <2>6, ReadFailed
  <2>4. ByRead(g) = ByRead(k) /\ fs_free_buffer(q) = 0 BY <2>1, <2>3 DEF ByRead, fs_free_buffer
  <2>5. /\ blocks[c] + 0 - ByRead(g) = HandleHolds(handle[c]) + fs_free_buffer(q)
        /\ fds[c] - ByRead(g) = HandleHolds(handle[c])
    BY <1>0, <2>4
  <2> QED BY <2>1, <2>3, <2>5, ReadOver
<1>2. CASE EndRead(c, [k EXCEPT !.cap = 1], TRUE, <<>>, 1)
  <2> DEFINE g == [k EXCEPT !.cap = 1]
  <2>1. g \in Calls /\ g.op = k.op /\ g.cap = 1 BY DEF Calls
  <2>2. EndRead(c, g, TRUE, <<>>, 1) BY <1>2
  <2> HIDE DEF g
  <2>6. <<>> \in Seq(Byte) /\ 1 \in Int OBVIOUS
  <2>3. PICK q, h : /\ Ends(c, g, q, h) /\ q.buf = <<>> /\ q.cap = g.cap
                    /\ Becomes(c, q, h, blocks[c] + 1 - ByRead(g), fds[c] - ByRead(g))
    BY <2>1, <2>2, <2>6, ReadWorked
  <2>4. ByRead(g) = ByRead(k) /\ fs_free_buffer(q) = 1 /\ Len(q.buf) < q.cap
    BY <2>1, <2>3 DEF ByRead, fs_free_buffer
  <2>5. /\ blocks[c] + 1 - ByRead(g) = HandleHolds(handle[c]) + fs_free_buffer(q)
        /\ fds[c] - ByRead(g) = HandleHolds(handle[c])
    BY <1>0, <2>4
  <2> QED BY <2>1, <2>3, <2>4, <2>5, ReadOver
<1>3. CASE /\ SizeOf(k.fd) # 0 /\ Hold(c, 1, 0) /\ UNCHANGED handle
           /\ Goto(c, [k EXCEPT !.cap = SizeOf(k.fd) + 1, !.pc = "read"])
  <2>1. k.fd \in Inodes \cup {0} BY DEF Calls
  <2>2. PICK n \in Nat : n = SizeOf(k.fd) + 1 /\ n > 1 BY <1>3, <2>1, SizeType
  <2> DEFINE q == [k EXCEPT !.cap = n, !.pc = "read"]
  <2>3. q \in Calls /\ q.op = k.op /\ q.buf = <<>> /\ q.cap = n /\ q.pc = "read" BY DEF Calls
  <2>4. Goto(c, q) BY <1>3, <2>2
  <2> HIDE DEF q
  <2>5. Becomes(c, q, handle[c], blocks[c] + 1, fds[c])
    <3>1. fds[c] + 0 = fds[c] /\ blocks \in [Callers -> Int] /\ fds \in [Callers -> Int]
      BY DEF Core, AllTidy
    <3> QED BY <1>3, <2>4, <3>1 DEF Goto, Hold, Becomes, Core, AllTidy
  <2>6. Shape(q) BY <2>2, <2>3 DEF Shape
  <2>7. BlocksOf(q) = ByRead(k) + 1 /\ FdsOf(q) = ByRead(k)
    BY <2>3 DEF BlocksOf, FdsOf, ByRead
  <2>8. handle[c] \in Files /\ (~handle[c].open => handle[c].ino = 0) BY DEF Core, AllTidy, Tidy
  <2>9. Tidy(q, handle[c], blocks[c] + 1, fds[c]) BY <1>0, <2>3, <2>6, <2>7, <2>8 DEF Tidy
  <2> QED BY <2>3, <2>5, <2>9, SameDisk, OneMoved DEF Does
<1> QED BY <1>1, <1>2, <1>3 DEF ReadAllFrom

LEMMA ReadFileStep ==
  ASSUME Core, NEW c \in Callers, NEW path \in ArgPaths, ReadFile(c, path)
  PROVE  Does(c, "read")
<1> DEFINE k == Begin("read", path, <<>>)  i == OpenableForRead(path)
<1>1. call[c].pc = "idle" /\ UNCHANGED handle BY DEF ReadFile, CanCall
<1>2. Started(k, "read", path, <<>>) BY ArgTypes, BegunPlain
<1>3. i \in Inodes \cup {0} BY OpenableType
<1>4. \/ /\ Hold(c, 1, 1) /\ UNCHANGED node
         /\ Goto(c, [k EXCEPT !.fd = i, !.pc = "fstat"])
      \/ /\ Goto(c, Return(k, FALSE)) \/ Goto(c, Return(Faulted(k), FALSE))
         /\ UNCHANGED <<node, blocks, fds>>
  BY DEF ReadFile, Refused
<1> HIDE DEF k, i
<1>5. CASE /\ Hold(c, 1, 1) /\ UNCHANGED node
           /\ Goto(c, [k EXCEPT !.fd = i, !.pc = "fstat"])
  <2> DEFINE q == [k EXCEPT !.fd = i, !.pc = "fstat"]
  <2>1. q \in Calls /\ q.op = "read" /\ q.cap = 0 /\ q.pc = "fstat" /\ q.buf = <<>>
    BY <1>2, <1>3 DEF Started, Calls
  <2>2. Goto(c, q) BY <1>5
  <2> HIDE DEF q
  <2>3. Becomes(c, q, handle[c], blocks[c] + 1, fds[c] + 1)
    BY <1>1, <1>5, <2>2 DEF Core, AllTidy, Goto, Hold, Becomes
  <2>4. Shape(q) /\ BlocksOf(q) = 1 /\ FdsOf(q) = 1 BY <2>1 DEF Shape, BlocksOf, FdsOf
  <2>5. Tidy(q, handle[c], blocks[c] + 1, fds[c] + 1)
    BY <1>1, <2>1, <2>4, BetweenCalls DEF Tidy
  <2> QED BY <1>5, <2>1, <2>3, <2>5, SameDisk, OneMoved DEF Does
<1>6. CASE /\ Goto(c, Return(k, FALSE)) \/ Goto(c, Return(Faulted(k), FALSE))
           /\ UNCHANGED <<node, blocks, fds>>
  <2>1. PICK r : Goto(c, r) /\ (r = Return(k, FALSE) \/ r = Return(Faulted(k), FALSE)) BY <1>6
  <2>2. r \in Calls /\ r.pc = "done" /\ r.cap = 0 /\ r.op = "read"
    BY <1>2, <2>1, RefusedResult DEF SameBut, Started
  <2> QED BY <1>1, <1>6, <2>1, <2>2, EndsAtOnce DEF Does
<1> QED BY <1>4, <1>5, <1>6

LEMMA StatOpenedStep ==
  ASSUME Core, NEW c \in Callers, StatOpened(c)
  PROVE  Does(c, call[c].op)
<1>1. /\ call[c].pc = "fstat" /\ ReadAllFrom(c, call[c]) /\ UNCHANGED node BY DEF StatOpened
<1>2. Tidy(call[c], handle[c], blocks[c], fds[c]) BY DEF Core, AllTidy
<1>3. call[c] \in Calls /\ call[c].op = "read" /\ call[c].buf = <<>>
  BY <1>1, <1>2 DEF Tidy, Shape
<1>4. BlocksOf(call[c]) = ByRead(call[c]) /\ FdsOf(call[c]) = ByRead(call[c])
  BY <1>1, <1>3 DEF BlocksOf, FdsOf, ByRead
<1>5. /\ blocks[c] = HandleHolds(handle[c]) + ByRead(call[c])
      /\ fds[c] = HandleHolds(handle[c]) + ByRead(call[c])
  BY <1>2, <1>4 DEF Tidy
<1> QED BY <1>1, <1>3, <1>5, ReadAllFromStep

LEMMA ReadAllStep ==
  ASSUME Core, NEW c \in Callers, ReadAll(c)
  PROVE  Does(c, "readAll")
<1> DEFINE z == Begin("readAll", <<>>, <<>>)
           k == [z EXCEPT !.fd = handle[c].ino, !.pos = handle[c].pos]
<1>1. /\ call[c].pc = "idle" /\ UNCHANGED node
      /\ IF handle[c].ino = 0
           THEN Goto(c, Return(k, FALSE)) /\ UNCHANGED <<handle, blocks, fds>>
           ELSE ReadAllFrom(c, k)
  BY DEF ReadAll
<1>2. Started(z, "readAll", <<>>, <<>>) BY ArgTypes, BegunPlain
<1> HIDE DEF z
<1>3. handle[c] \in Files BY DEF Core, AllTidy
<1>4. k \in Calls /\ k.op = "readAll" /\ k.buf = <<>> /\ k.cap = 0
  BY <1>2, <1>3 DEF Started, Calls, Files
<1> HIDE DEF k
<1>5. CASE handle[c].ino = 0
  <2>1. PICK r : Goto(c, r) /\ r = Return(k, FALSE) BY <1>1, <1>5
  <2>2. r \in Calls /\ r.pc = "done" /\ r.cap = 0 /\ r.op = "readAll"
    BY <1>4, <2>1, RefusedResult DEF SameBut
  <2>3. UNCHANGED <<node, blocks, fds>> /\ UNCHANGED handle BY <1>1, <1>5
  <2> QED BY <1>1, <2>1, <2>2, <2>3, EndsAtOnce DEF Does
<1>6. CASE handle[c].ino # 0
  <2>1. ByRead(k) = 0 BY <1>4 DEF ByRead
  <2>2. /\ blocks[c] = HandleHolds(handle[c]) + ByRead(k)
        /\ fds[c] = HandleHolds(handle[c]) + ByRead(k)
    BY <1>1, <2>1, BetweenCalls
  <2>3. ReadAllFrom(c, k) /\ UNCHANGED node BY <1>1, <1>6
  <2> QED BY <1>4, <2>2, <2>3, ReadAllFromStep
<1> QED BY <1>5, <1>6

LEMMA CloseFileStep ==
  ASSUME Core, NEW c \in Callers, CloseFile(c)
  PROVE  Orderly(c)
<1>1. /\ call[c].pc = "idle" /\ UNCHANGED node /\ UNCHANGED call
      /\ handle' = [handle EXCEPT ![c] = NoFile]
      /\ IF handle[c].ino = 0 THEN UNCHANGED <<blocks, fds>> ELSE Hold(c, -1, -1)
  BY DEF CloseFile
<1>2. NoFile \in Files /\ NoFile.ino = 0 /\ ~NoFile.open BY DEF NoFile, Files
<1>3. call[c] \in Calls /\ Shape(call[c]) BY DEF Core, AllTidy, Tidy
<1>4. BlocksOf(call[c]) = 0 /\ FdsOf(call[c]) = 0 BY <1>1 DEF BlocksOf, FdsOf
<1>5. blocks[c] = HandleHolds(handle[c]) /\ fds[c] = HandleHolds(handle[c])
  BY <1>1, BetweenCalls
<1>6. HandleHolds(NoFile) = 0 BY <1>2 DEF HandleHolds
<1>7. Becomes(c, call[c], NoFile, 0, 0)
  <2>1. CASE handle[c].ino = 0
    <3>1. blocks[c] = 0 /\ fds[c] = 0 BY <1>5, <2>1 DEF HandleHolds
    <3> QED BY <1>1, <2>1, <3>1 DEF Becomes, Core, AllTidy
  <2>2. CASE handle[c].ino # 0
    <3>1. blocks[c] + (-1) = 0 /\ fds[c] + (-1) = 0 BY <1>5, <2>2 DEF HandleHolds
    <3> QED BY <1>1, <2>2, <3>1 DEF Becomes, Hold, Core, AllTidy
  <2> QED BY <2>1, <2>2
<1>8. Tidy(call[c], NoFile, 0, 0) BY <1>2, <1>3, <1>4, <1>6 DEF Tidy
<1> QED BY <1>1, <1>7, <1>8, SameDisk, OneMoved

LEMMA HandleSizeStep ==
  ASSUME Core, NEW c \in Callers, HandleSize(c)
  PROVE  Does(c, "readAll")
<1> DEFINE i == call[c].fd  k == [call[c] EXCEPT !.fd = 0]
           z == [k EXCEPT !.size = fs_file_handle_size(i)]
           h == [handle[c] EXCEPT !.reads = @ + 1]
<1>1. Tidy(call[c], handle[c], blocks[c], fds[c]) BY DEF Core, AllTidy
<1>2. /\ call[c].pc = "size" /\ UNCHANGED node /\ UNCHANGED <<blocks, fds>>
      /\ Goto(c, Return(z, TRUE)) \/ Goto(c, Return(Faulted(k), TRUE))
  BY DEF HandleSize
<1>3. handle' = [handle EXCEPT ![c] = h] BY DEF HandleSize
<1>4. call[c] \in Calls /\ call[c].op = "readAll" /\ Shape(call[c]) BY <1>1, <1>2 DEF Tidy, Shape
<1>5. h \in Files /\ h.ino = handle[c].ino /\ h.open = handle[c].open BY <1>1 DEF Tidy, Files
<1>6. k \in Calls /\ k.op = "readAll" /\ k.cap = call[c].cap /\ k.buf = call[c].buf
  BY <1>4, DiskAssumption DEF Calls
<1>7. fs_file_handle_size(i) \in Nat BY <1>4, SizeType DEF Calls, fs_file_handle_size
<1> HIDE DEF k
<1>8. z \in Calls /\ z.op = "readAll" /\ z.cap = call[c].cap /\ z.buf = call[c].buf
  BY <1>6, <1>7 DEF Calls
<1> HIDE DEF z, h
<1>9. PICK r : Goto(c, r) /\ (r = Return(z, TRUE) \/ r = Return(Faulted(k), TRUE)) BY <1>2
<1>10. r \in Calls /\ r.pc = "done" /\ r.op = "readAll" /\ r.cap = call[c].cap /\ r.buf = call[c].buf
  BY <1>6, <1>8, <1>9, RefusedResult DEF SameBut
<1>11. BlocksOf(r) = BlocksOf(call[c]) /\ FdsOf(r) = FdsOf(call[c])
  BY <1>2, <1>4, <1>10 DEF BlocksOf, FdsOf, fs_free_buffer
<1>12. Shape(r) BY <1>4, <1>10 DEF Shape
<1>13. HandleHolds(h) = HandleHolds(handle[c]) BY <1>5 DEF HandleHolds
<1>14. Becomes(c, r, h, blocks[c], fds[c]) BY <1>2, <1>3, <1>9 DEF Goto, Becomes, Core, AllTidy
<1>15. Tidy(r, h, blocks[c], fds[c]) BY <1>1, <1>5, <1>10, <1>11, <1>12, <1>13 DEF Tidy
<1> QED BY <1>2, <1>10, <1>14, <1>15, SameDisk, OneMoved DEF Does

-----------------------------------------------------------------------------
(* The read loops.                                                         *)

LEMMA RequestBound ==
  ASSUME Core, NEW n \in Int
  PROVE  Request(n) \in Int /\ (n >= 0 => Request(n) <= n)
<1> USE DiskAssumption
<1>1. n % Dword \in 0 .. Dword - 1 OBVIOUS
<1>2. ASSUME n >= 0 PROVE n % Dword <= n
  <2>1. CASE n >= Dword BY <1>1, <2>1
  <2>2. CASE n < Dword BY <1>2, <2>2
  <2> QED BY <2>1, <2>2
<1> QED BY <1>1, <1>2 DEF Request

\* A read returns bytes, no more than it was asked for.
LEMMA ChunkBound ==
  ASSUME Core, NEW i \in Inodes, node[i].kind = "file", NEW pos \in Nat, NEW want \in Int,
         NEW chunk \in Chunks(i, pos, want)
  PROVE  /\ chunk \in Seq(Byte)
         /\ chunk = <<>> \/ (Len(chunk) > 0 /\ Len(chunk) <= want /\ pos + Len(chunk) <= Len(node[i].data))
         /\ \A j \in 1 .. Len(chunk) : chunk[j] = node[i].data[pos + j]
<1>1. node[i].data \in Seq(Byte) /\ Len(node[i].data) \in Nat BY NodeShape DEF Core
<1> DEFINE data == node[i].data  most == Minimum(want, Len(data) - pos)
<1> HIDE DEF data
<1>2. most \in Int /\ most <= want /\ most <= Len(data) - pos
  BY <1>1 DEF Minimum, data
<1>3. CASE chunk = <<>> BY <1>3
<1>4. CASE most > 0 /\ \E n \in 1 .. most : chunk = SubSeq(data, pos + 1, pos + n)
  <2>1. PICK n \in 1 .. most : chunk = SubSeq(data, pos + 1, pos + n) BY <1>4
  <2> HIDE DEF most
  <2>2. pos + 1 \in 1 .. Len(data) + 1 /\ pos + n \in 0 .. Len(data) /\ n \in Nat /\ n > 0
        /\ n <= want
    BY <1>1, <1>2, <2>1 DEF data
  <2>3. /\ chunk \in Seq(Byte) /\ Len(chunk) = n
        /\ \A j \in 1 .. n : chunk[j] = data[pos + j]
    BY <1>1, <2>1, <2>2 DEF data
  <2>4. Len(chunk) > 0 /\ Len(chunk) <= want /\ pos + Len(chunk) <= Len(data) BY <1>1, <2>2, <2>3 DEF data
  <2> QED BY <2>3, <2>4 DEF data
<1>5. most <= 0 => chunk = <<>> BY DEF Chunks, data
<1>6. most > 0 => \E n \in 1 .. most : chunk = SubSeq(data, pos + 1, pos + n)
  BY <1>2 DEF Chunks, data
<1> QED BY <1>2, <1>3, <1>4, <1>5, <1>6

\* A turn of a read loop: the bytes are added, the position advances.
Advanced(k, chunk, q) ==
  /\ q \in Calls /\ q.op = k.op /\ q.pc = k.pc /\ q.arg = k.arg /\ q.cap = k.cap
  /\ q.path = k.path /\ q.fd = k.fd /\ q.names = k.names /\ q.stack = k.stack
  /\ q.faulted = k.faulted
  /\ q.buf = k.buf \o chunk /\ q.pos = k.pos + Len(chunk)

LEMMA Advances ==
  ASSUME NEW k \in Calls, NEW chunk \in Seq(Byte), NEW q,
         q = [k EXCEPT !.buf = @ \o chunk, !.pos = @ + Len(chunk)]
  PROVE  Advanced(k, chunk, q)
<1>1. k.buf \in Seq(Byte) /\ k.pos \in Nat BY DEF Calls
<1>2. PICK more \in Seq(Byte) : more = k.buf \o chunk
  <2>1. k.buf \o chunk \in Seq(Byte) BY <1>1, ConcatProperties
  <2> QED BY <2>1
<1>3. PICK n \in Nat : n = k.pos + Len(chunk) BY <1>1
<1>4. q = [k EXCEPT !.buf = more, !.pos = n] BY <1>2, <1>3
<1>5. q \in Calls BY <1>4 DEF Calls
<1> QED BY <1>2, <1>3, <1>4, <1>5 DEF Advanced, Calls

\* What a reader holds inside the loop.
LEMMA InReadLoop ==
  ASSUME Core, NEW c \in Callers, call[c].pc = "read"
  PROVE  /\ call[c] \in Calls /\ call[c].op \in {"read", "readAll"}
         /\ Len(call[c].buf) < call[c].cap - 1 /\ call[c].buf \in Seq(Byte)
         /\ call[c].cap \in Nat /\ call[c].pos \in Nat
         /\ blocks[c] = HandleHolds(handle[c]) + ByRead(call[c]) + 1
         /\ fds[c] = HandleHolds(handle[c]) + ByRead(call[c])
         /\ HandleHolds(handle[c]) \in Int /\ ByRead(call[c]) \in Int
<1>1. Tidy(call[c], handle[c], blocks[c], fds[c]) BY DEF Core, AllTidy
<1>2. /\ call[c] \in Calls /\ call[c].op \in {"read", "readAll"}
      /\ Len(call[c].buf) < call[c].cap - 1
  BY <1>1 DEF Tidy, Shape
<1>3. BlocksOf(call[c]) = ByRead(call[c]) + 1 /\ FdsOf(call[c]) = ByRead(call[c])
  BY <1>2 DEF BlocksOf, FdsOf, ByRead
<1>4. HandleHolds(handle[c]) \in Int /\ ByRead(call[c]) \in Int BY DEF HandleHolds, ByRead
<1> QED BY <1>1, <1>2, <1>3, <1>4 DEF Tidy, Calls

LEMMA ReadChunkStep ==
  ASSUME Core, NEW c \in Callers, ReadChunk(c)
  PROVE  Does(c, call[c].op)
<1>10. PICK op : op = call[c].op OBVIOUS
<1> SUFFICES Does(c, op) BY <1>10
<1> DEFINE k == call[c]  room == Room(k)
<1>1. /\ k.pc = "read" /\ UNCHANGED node
      /\ \/ EndRead(c, Faulted(k), FALSE, <<>>, -1)
         \/ EndRead(c, k, FALSE, <<>>, -1)
         \/ /\ KindIs(node, k.fd, "file")
            /\ \E chunk \in Chunks(k.fd, k.pos, Request(room)) :
                 LET next == [k EXCEPT !.buf = @ \o chunk, !.pos = @ + Len(chunk)]
                 IN  IF ReadEnds(chunk, room)
                       THEN EndRead(c, next, TRUE, next.buf, 0)
                       ELSE Goto(c, next) /\ UNCHANGED <<handle, blocks, fds>>
  BY DEF ReadChunk
<1>2. /\ k \in Calls /\ k.op \in {"read", "readAll"} /\ Len(k.buf) < k.cap - 1
      /\ k.buf \in Seq(Byte) /\ k.cap \in Nat /\ k.pos \in Nat
      /\ blocks[c] = HandleHolds(handle[c]) + ByRead(k) + 1
      /\ fds[c] = HandleHolds(handle[c]) + ByRead(k)
      /\ HandleHolds(handle[c]) \in Int /\ ByRead(k) \in Int /\ k.op = op
  BY <1>1, <1>10, InReadLoop
<1>3. room \in Nat /\ room > 0 /\ room = k.cap - 1 - Len(k.buf)
  <2>0. Len(k.buf) \in Nat BY <1>2
  <2>1. PICK n \in Nat, m \in Nat : n = Len(k.buf) /\ m = k.cap /\ n < m - 1 BY <1>2, <2>0
  <2>2. room = m - 1 - n BY <2>1 DEF Room
  <2> HIDE DEF room, k
  <2>3. room \in Nat /\ room > 0 BY <2>1, <2>2
  <2> QED BY <2>1, <2>2, <2>3
<1>0. UNCHANGED node BY <1>1
<1> DEFINE g == Faulted(k)
<1>4. g \in Calls /\ g.op = k.op BY <1>2, AfterFault DEF SameBut
<1>5. ASSUME NEW f \in Calls, f.op = k.op, EndRead(c, f, FALSE, <<>>, -1) PROVE Does(c, op)
  <2>1. -1 \in Int OBVIOUS
  <2>2. PICK q, h : /\ Ends(c, f, q, h) /\ q.cap = 0
                    /\ Becomes(c, q, h, blocks[c] + (-1) - ByRead(f), fds[c] - ByRead(f))
    BY <1>5, <2>1, ReadFailed
  <2>3. ByRead(f) = ByRead(k) /\ fs_free_buffer(q) = 0 BY <1>5, <2>2 DEF ByRead, fs_free_buffer
  <2>4. /\ blocks[c] + (-1) - ByRead(f) = HandleHolds(handle[c]) + fs_free_buffer(q)
        /\ fds[c] - ByRead(f) = HandleHolds(handle[c])
    BY <1>2, <2>3
  <2> HIDE DEF k
  <2>5. f.op \in {"read", "readAll"} BY <1>2, <1>5
  <2>6. f.op = op BY <1>2, <1>5
  <2> QED BY <1>0, <2>2, <2>4, <2>5, <2>6, ReadOver
<1>6. CASE EndRead(c, g, FALSE, <<>>, -1)
  <2> HIDE DEF g, k
  <2> QED BY <1>4, <1>5, <1>6
<1>7. CASE EndRead(c, k, FALSE, <<>>, -1)
  <2> HIDE DEF g, k
  <2> QED BY <1>2, <1>5, <1>7
<1>8. ASSUME KindIs(node, k.fd, "file"),
             NEW chunk \in Chunks(k.fd, k.pos, Request(room)), NEW q,
             q = [k EXCEPT !.buf = @ \o chunk, !.pos = @ + Len(chunk)],
             IF ReadEnds(chunk, room)
               THEN EndRead(c, q, TRUE, q.buf, 0)
               ELSE Goto(c, q) /\ UNCHANGED <<handle, blocks, fds>>
      PROVE  Does(c, op)
  <2> HIDE DEF k, room
  <2>1. k.fd \in Inodes /\ node[k.fd].kind = "file" BY <1>2, <1>8 DEF KindIs, Calls
  <2>2. Request(room) \in Int /\ Request(room) <= room BY <1>3, RequestBound
  <2>3. chunk \in Seq(Byte) /\ (chunk = <<>> \/ Len(chunk) <= Request(room))
    BY <1>2, <1>8, <2>1, <2>2, ChunkBound
  <2>4. Len(chunk) \in Nat /\ Len(chunk) <= room BY <1>3, <2>2, <2>3
  <2>5. Advanced(k, chunk, q) BY <1>2, <1>8, <2>3, Advances
  <2>6. Len(q.buf) = Len(k.buf) + Len(chunk) /\ q.buf \in Seq(Byte) BY <1>2, <2>3, <2>5 DEF Advanced
  <2>7. CASE ReadEnds(chunk, room)
    <3>1. EndRead(c, q, TRUE, q.buf, 0) BY <1>8, <2>7
    <3>2. 0 \in Int /\ q \in Calls BY <2>5 DEF Advanced
    <3>3. PICK e, h : /\ Ends(c, q, e, h) /\ e.buf = q.buf /\ e.cap = q.cap
                      /\ Becomes(c, e, h, blocks[c] + 0 - ByRead(q), fds[c] - ByRead(q))
      BY <2>6, <3>1, <3>2, ReadWorked
    <3>4. q.op = k.op /\ q.cap = k.cap BY <2>5 DEF Advanced
    <3>5. ByRead(q) = ByRead(k) /\ fs_free_buffer(e) = 1
      BY <1>2, <3>3, <3>4 DEF ByRead, fs_free_buffer
    <3>6. /\ blocks[c] + 0 - ByRead(q) = HandleHolds(handle[c]) + fs_free_buffer(e)
          /\ fds[c] - ByRead(q) = HandleHolds(handle[c])
      BY <1>2, <3>5
    <3>7. Len(e.buf) < e.cap BY <1>2, <1>3, <2>4, <2>6, <3>3, <3>4
    <3>8. q.op \in {"read", "readAll"} BY <1>2, <3>4
    <3>9. q.op = op BY <1>2, <3>4
    <3> QED BY <1>0, <3>3, <3>6, <3>7, <3>8, <3>9, ReadOver
  <2>8. CASE ~ReadEnds(chunk, room)
    <3>1. Goto(c, q) /\ UNCHANGED handle /\ UNCHANGED <<blocks, fds>> BY <1>8, <2>8
    <3>2. Len(chunk) # room BY <2>8 DEF ReadEnds
    <3>3. /\ q \in Calls /\ q.op = k.op /\ q.pc = "read" /\ q.cap = k.cap
      BY <1>1, <2>5 DEF Advanced
    <3>4. Len(q.buf) < q.cap - 1 BY <1>2, <1>3, <2>4, <2>6, <3>2, <3>3
    <3>5. Shape(q) BY <1>2, <2>6, <3>3, <3>4 DEF Shape
    <3>6. BlocksOf(q) = ByRead(k) + 1 /\ FdsOf(q) = ByRead(k)
      BY <1>2, <3>3 DEF BlocksOf, FdsOf, ByRead
    <3>7. Becomes(c, q, handle[c], blocks[c], fds[c]) BY <3>1, HoldsSame DEF Core
    <3>8. handle[c] \in Files /\ (~handle[c].open => handle[c].ino = 0) BY DEF Core, AllTidy, Tidy
    <3>9. Tidy(q, handle[c], blocks[c], fds[c]) BY <1>2, <3>3, <3>5, <3>6, <3>8 DEF Tidy
    <3>10. q.op = op BY <1>2, <3>3
    <3> QED BY <1>0, <3>3, <3>7, <3>9, <3>10, SameDisk, OneMoved DEF Does
  <2> QED BY <2>7, <2>8
<1> QED BY <1>1, <1>6, <1>7, <1>8

LEMMA ReadRangeStep ==
  ASSUME Core, NEW c \in Callers, NEW path \in ArgPaths, NEW range \in Ranges,
         ReadRange(c, path, range)
  PROVE  Does(c, "range")
<1> DEFINE k == Begin("range", path, range)  i == OpenableForRead(path)
<1>1. call[c].pc = "idle" /\ UNCHANGED handle BY DEF ReadRange, CanCall
<1>2. Started(k, "range", path, range)
  <2>1. range \in Seq(Names) \cup Seq(Byte) \cup Ranges OBVIOUS
  <2> QED BY <2>1, ArgTypes, Begun
<1>3. i \in Inodes \cup {0} /\ range.offset \in Nat BY OpenableType, DiskAssumption
<1>4. \/ /\ Hold(c, 0, 1) /\ UNCHANGED node
         /\ Goto(c, [k EXCEPT !.fd = i, !.pos = range.offset, !.pc = "pread"])
      \/ /\ Goto(c, Return(k, TRUE)) \/ Goto(c, Return(Faulted(k), TRUE))
         /\ UNCHANGED <<node, blocks, fds>>
  BY DEF ReadRange, Refused
<1> HIDE DEF k, i
<1>5. CASE /\ Hold(c, 0, 1) /\ UNCHANGED node
           /\ Goto(c, [k EXCEPT !.fd = i, !.pos = range.offset, !.pc = "pread"])
  <2> DEFINE q == [k EXCEPT !.fd = i, !.pos = range.offset, !.pc = "pread"]
  <2>1. q \in Calls /\ q.op = "range" /\ q.pc = "pread" /\ q.arg = range
    BY <1>2, <1>3 DEF Started, Calls
  <2>2. Goto(c, q) BY <1>5
  <2> HIDE DEF q
  <2>3. Becomes(c, q, handle[c], blocks[c] + 0, fds[c] + 1)
    BY <1>1, <1>5, <2>2 DEF Core, AllTidy, Goto, Hold, Becomes
  <2>4. Shape(q) /\ BlocksOf(q) = 0 /\ FdsOf(q) = 1 BY <2>1 DEF Shape, BlocksOf, FdsOf
  <2>5. Tidy(q, handle[c], blocks[c] + 0, fds[c] + 1)
    BY <1>1, <2>1, <2>4, BetweenCalls DEF Tidy
  <2> QED BY <1>5, <2>1, <2>3, <2>5, SameDisk, OneMoved DEF Does
<1>6. CASE /\ Goto(c, Return(k, TRUE)) \/ Goto(c, Return(Faulted(k), TRUE))
           /\ UNCHANGED <<node, blocks, fds>>
  <2>1. PICK r : Goto(c, r) /\ (r = Return(k, TRUE) \/ r = Return(Faulted(k), TRUE)) BY <1>6
  <2>2. r \in Calls /\ r.pc = "done" /\ r.cap = 0 /\ r.op = "range"
    BY <1>2, <2>1, RefusedResult DEF SameBut, Started
  <2> QED BY <1>1, <1>6, <2>1, <2>2, EndsAtOnce DEF Does
<1> QED BY <1>4, <1>5, <1>6

\* A loop that holds one descriptor goes on, or closes it.
LEMMA HoldsOneFd ==
  ASSUME Core, NEW c \in Callers, call[c].pc \in {"pread", "write"}
  PROVE  /\ call[c] \in Calls /\ Shape(call[c]) /\ handle[c] \in Files
         /\ ~handle[c].open => handle[c].ino = 0
         /\ blocks[c] = HandleHolds(handle[c]) /\ fds[c] = HandleHolds(handle[c]) + 1
         /\ HandleHolds(handle[c]) \in Int
<1>1. Tidy(call[c], handle[c], blocks[c], fds[c]) BY DEF Core, AllTidy
<1>2. BlocksOf(call[c]) = 0 /\ FdsOf(call[c]) = 1 BY DEF BlocksOf, FdsOf
<1> QED BY <1>1, <1>2 DEF Tidy, HandleHolds

LEMMA ClosesFd ==
  ASSUME Core, NEW c \in Callers, call[c].pc \in {"pread", "write"}, DiskKept,
         NEW r \in Calls, r.pc = "done", r.op \in {"range", "write"},
         Goto(c, r), Hold(c, 0, -1), UNCHANGED handle
  PROVE  Orderly(c) /\ call'[c] = r
<1>1. Becomes(c, r, handle[c], blocks[c] + 0, fds[c] + (-1))
  BY DEF Core, AllTidy, Goto, Hold, Becomes
<1>2. BlocksOf(r) = 0 /\ FdsOf(r) = 0 /\ Shape(r) BY DEF BlocksOf, FdsOf, Shape
<1>3. Tidy(r, handle[c], blocks[c] + 0, fds[c] + (-1)) BY <1>2, HoldsOneFd DEF Tidy
<1> QED BY <1>1, <1>3, OneMoved

LEMMA KeepsFd ==
  ASSUME Core, NEW c \in Callers, call[c].pc \in {"pread", "write"}, DiskKept,
         NEW r \in Calls, r.pc = call[c].pc, r.op = call[c].op, r.arg = call[c].arg,
         r.fd = call[c].fd, r.pc = "write" => KindIs(node', r.fd, "file"),
         Goto(c, r), UNCHANGED handle, UNCHANGED <<blocks, fds>>
  PROVE  Does(c, call[c].op) /\ call'[c] = r
<1>1. Becomes(c, r, handle[c], blocks[c], fds[c]) BY HoldsSame DEF Core
<1>2. BlocksOf(r) = 0 /\ FdsOf(r) = 1 BY DEF BlocksOf, FdsOf
<1>3. Shape(r) BY HoldsOneFd DEF Shape
<1>4. Tidy(r, handle[c], blocks[c], fds[c]) BY <1>2, <1>3, HoldsOneFd DEF Tidy
<1>5. Orderly(c) /\ call'[c] = r BY <1>1, <1>4, OneMoved
<1> QED BY <1>5 DEF Does

\* The result of a loop: its bytes, and no descriptor.
ClosedWith(k, bytes) == [k EXCEPT !.buf = bytes, !.fd = 0]

ClosedCall(k, bytes) == Return(ClosedWith(k, bytes), TRUE)

LEMMA ClosedResult ==
  ASSUME NEW k \in Calls, NEW bytes \in Seq(Byte)
  PROVE  /\ ClosedCall(k, bytes) \in Calls
         /\ ClosedCall(k, bytes).pc = "done" /\ ClosedCall(k, bytes).op = k.op
<1>1. PICK z : z = ClosedWith(k, bytes) OBVIOUS
<1>2. z \in Calls /\ z.op = k.op BY <1>1, DiskAssumption DEF Calls, ClosedWith
<1>3. PICK r : r = Return(z, TRUE) OBVIOUS
<1>4. r \in Calls /\ r.pc = "done" /\ SameBut(z, r) BY <1>2, <1>3, Returned
<1>5. r = ClosedCall(k, bytes) BY <1>1, <1>3 DEF ClosedCall
<1> QED BY <1>2, <1>4, <1>5 DEF SameBut

LEMMA PreadChunkStep ==
  ASSUME Core, NEW c \in Callers, PreadChunk(c)
  PROVE  Does(c, "range")
<1> DEFINE k == call[c]  room == k.arg.size - Len(k.buf)
           End(r, bytes) == /\ Hold(c, 0, -1)
                            /\ Goto(c, Return([r EXCEPT !.buf = bytes, !.fd = 0], TRUE))
<1>0. k.pc = "pread" /\ UNCHANGED node /\ UNCHANGED handle BY DEF PreadChunk
<1>1. \/ End(Faulted(k), <<>>)
      \/ End(k, <<>>)
      \/ /\ KindIs(node, k.fd, "file")
         /\ \E chunk \in Chunks(k.fd, k.pos, Request(room)) :
              LET next == [k EXCEPT !.buf = @ \o chunk, !.pos = @ + Len(chunk)]
              IN  IF PreadEnds(chunk, room) THEN End(next, next.buf)
                  ELSE Goto(c, next) /\ UNCHANGED <<blocks, fds>>
  BY DEF PreadChunk
<1>2. k \in Calls /\ k.op = "range" /\ k.arg \in Ranges BY <1>0, HoldsOneFd DEF Shape
<1>3. k.buf \in Seq(Byte) /\ k.pos \in Nat /\ room \in Int BY <1>2, DiskAssumption DEF Calls
<1>4. ASSUME NEW f \in Calls, NEW bytes \in Seq(Byte), f.op = k.op, End(f, bytes)
      PROVE  Does(c, "range")
  <2>1. PICK r : r = ClosedCall(f, bytes) OBVIOUS
  <2>2. Hold(c, 0, -1) /\ Goto(c, r) BY <1>4, <2>1 DEF ClosedCall, ClosedWith
  <2> HIDE DEF End, k
  <2>3. r \in Calls /\ r.pc = "done" /\ r.op = f.op BY <2>1, ClosedResult
  <2>4. r.op = "range" BY <1>2, <1>4, <2>3
  <2> USE DEF k
  <2> QED BY <1>0, <2>2, <2>3, <2>4, SameDisk, ClosesFd DEF Does
<1> DEFINE g == Faulted(k)
<1>9. g \in Calls /\ g.op = k.op BY <1>2, AfterFault DEF SameBut
<1>5. g \in Calls /\ g.op = k.op /\ <<>> \in Seq(Byte)
  <2> HIDE DEF g, k, End
  <2> QED BY <1>9
<1>6. CASE End(g, <<>>)
  <2> HIDE DEF g, End
  <2> QED BY <1>4, <1>5, <1>6
<1>7. CASE End(k, <<>>)
  <2> HIDE DEF k, End
  <2> QED BY <1>2, <1>4, <1>5, <1>7
<1>8. ASSUME KindIs(node, k.fd, "file"),
             NEW chunk \in Chunks(k.fd, k.pos, Request(room)), NEW q,
             q = [k EXCEPT !.buf = @ \o chunk, !.pos = @ + Len(chunk)],
             IF PreadEnds(chunk, room) THEN End(q, q.buf)
             ELSE Goto(c, q) /\ UNCHANGED <<blocks, fds>>
      PROVE  Does(c, "range")
  <2> HIDE DEF room, End
  <2>1. k.fd \in Inodes /\ node[k.fd].kind = "file" BY <1>2, <1>8 DEF KindIs, Calls
  <2>2. Request(room) \in Int BY <1>3, RequestBound
  <2>3. chunk \in Seq(Byte) BY <1>3, <1>8, <2>1, <2>2, ChunkBound
  <2>5. Advanced(k, chunk, q) BY <1>2, <1>8, <2>3, Advances
  <2>6. /\ q \in Calls /\ q.buf \in Seq(Byte) /\ q.op = k.op /\ q.pc = k.pc /\ q.arg = k.arg
        /\ q.fd = k.fd
    BY <2>5 DEF Advanced, Calls
  <2>7. CASE PreadEnds(chunk, room) BY <1>4, <1>8, <2>6, <2>7
  <2>8. CASE ~PreadEnds(chunk, room)
    <3>1. Goto(c, q) /\ UNCHANGED <<blocks, fds>> BY <1>8, <2>8
    <3> QED BY <1>0, <1>2, <2>6, <3>1, SameDisk, KeepsFd
  <2> QED BY <2>7, <2>8
<1> QED BY <1>1, <1>6, <1>7, <1>8

-----------------------------------------------------------------------------
(* Steps that change the disk.                                             *)

\* What a walk finds has a name, or is the root.
LEMMA WalkInUse ==
  ASSUME Core, NEW path \in Seq(Names), WalkOn(node, path) # 0
  PROVE  WalkOn(node, path) \in Inodes /\ InUse(WalkOn(node, path))
<1>1. PICK w \in Inodes : w = WalkOn(node, path) BY WalkType DEF Core
<1>2. w # 0 BY <1>1
<1>3. CASE path = <<>>
  <2>1. w = Root BY <1>1, <1>3, WalkStep
  <2> QED BY <1>1, <2>1 DEF InUse
<1>4. CASE path # <<>>
  <2>1. Front(path) \in Seq(Names) /\ Last(path) \in Names BY <1>4, PathParts
  <2>2. PICK n \in Names : n = Last(path) BY <2>1
  <2>3. PICK d \in Inodes \cup {0} : d = WalkOn(node, Front(path)) BY <2>1, WalkType DEF Core
  <2>4. w = Onward(node, d, n) BY <1>1, <1>4, <2>2, <2>3, WalkStep
  <2>5. PICK e \in Inodes \cup {0} : e = EntryOf(node, d, n) BY OnwardType DEF Core
  <2>6. w = FollowOn(node, e) BY <2>4, <2>5 DEF Onward
  <2>7. e # 0 BY <1>2, <2>6 DEF FollowOn
  <2>8. d # 0 BY <2>5, <2>7 DEF EntryOf
  <2>9. CASE node[e].kind = "link"
    <3>1. node[e].to \in Names BY <2>7, <2>9, NodeShape DEF Core
    <3>2. w = EntryOf(node, Root, node[e].to) BY <1>2, <2>6, <2>7, <2>9 DEF FollowOn
    <3> QED BY <1>1, <3>1, <3>2, DiskAssumption DEF InUse
  <2>10. CASE node[e].kind # "link"
    <3>1. w = EntryOf(node, d, n) BY <2>5, <2>6, <2>10 DEF FollowOn
    <3> QED BY <1>1, <2>8, <3>1 DEF InUse
  <2> QED BY <2>9, <2>10
<1> QED BY <1>3, <1>4

\* A fresh inode is nobody's.
LEMMA FreshIsUnused ==
  ASSUME NEW j \in FreshInodes
  PROVE  j \in Inodes /\ ~InUse(j) /\ ~IsOpenFile(j) /\ j # Root
BY DEF FreshInodes, InUse

\* A name where there was something is in a directory.
LEMMA ParentIsDir ==
  ASSUME Core, NEW path \in Seq(Names), LStat(path) # 0
  PROVE  /\ path # <<>> /\ ParentOf(path) \in Inodes /\ node[ParentOf(path)].kind = "dir"
         /\ Last(path) \in Names /\ LStat(path) \in Inodes
<1>1. path # <<>> BY DEF LStat, LStatOn
<1>2. /\ ParentOf(path) \in Inodes \cup {0} /\ Last(path) \in Names
      /\ LStat(path) \in Inodes \cup {0}
  BY <1>1, StatType, PathParts DEF Core, ParentOf, LStat
<1>3. LStat(path) = EntryOf(node, ParentOf(path), Last(path))
  BY <1>1 DEF LStat, LStatOn, ParentOf
<1>4. ParentOf(path) # 0 /\ node[ParentOf(path)].kind = "dir" BY <1>3 DEF EntryOf
<1> QED BY <1>1, <1>2, <1>4

\* Changing an entry changes no kinds.
LEMMA EntryChanged ==
  ASSUME Core, NEW d \in Inodes, node[d].kind = "dir", NEW n \in Names,
         NEW i \in Inodes \cup {0}, node' = SetEntry(node, d, n, i)
  PROVE  DiskKept
<1>1. node' \in Disks /\ \A j \in Inodes : node'[j].kind = node[j].kind
  BY EntryType DEF Core
<1> QED BY <1>1 DEF DiskKept, KindIs

\* Making a file or directory with a fresh inode.
LEMMA EntryMade ==
  ASSUME Core, NEW d \in Inodes, node[d].kind = "dir", NEW n \in Names, InUse(d),
         NEW j \in FreshInodes, NEW mid \in Disks,
         \A i \in Inodes \ {j} : mid[i] = node[i],
         NEW disk, disk = SetEntry(mid, d, n, j)
  PROVE  /\ disk \in Disks /\ disk[j].kind = mid[j].kind
         /\ \A i \in Inodes \ {j} : disk[i].kind = node[i].kind
<1>1. j \in Inodes /\ j # d BY FreshIsUnused
<1>2. j \in Inodes \cup {0} BY <1>1
<1>3. mid[d].kind = "dir" BY <1>1
<1>4. disk \in Disks /\ \A i \in Inodes : disk[i].kind = mid[i].kind
  BY <1>2, <1>3, EntryType
<1> QED BY <1>1, <1>4

\* Where a file is made: in a place that is in use, if any.
LEMMA PlaceFound ==
  ASSUME Core, NEW path \in Seq(Names), path # <<>>
  PROVE  \E p \in Inodes \cup {0}, m \in Names : PlaceOf(path) = <<p, m>> /\ (p # 0 => InUse(p))
<1>1. PICK d \in Inodes \cup {0} : d = ParentOf(path)
  BY StatType DEF Core, ParentOf
<1>2. PICK n \in Names : n = Last(path) BY PathParts
<1>3. PICK e \in Inodes \cup {0} : e = EntryOf(node, d, n) BY OnwardType DEF Core
<1>4. d # 0 => d \in Inodes /\ InUse(d)
  BY <1>1, PathParts, WalkInUse DEF ParentOf
<1> QED
  <2>1. CASE KindIs(node, e, "link")
    <3>1. node[e].to \in Names BY <2>1, NodeShape DEF Core, KindIs
    <3>2. PlaceOf(path) = <<Root, node[e].to>> BY <1>1, <1>2, <1>3, <2>1 DEF PlaceOf
    <3> QED BY <3>1, <3>2, DiskAssumption DEF InUse
  <2>2. CASE ~KindIs(node, e, "link")
    <3>1. PlaceOf(path) = <<d, n>> BY <1>1, <1>2, <1>3, <2>2 DEF PlaceOf
    <3> QED BY <1>4, <3>1
  <2> QED BY <2>1, <2>2

\* The disk after open(O_CREAT | O_TRUNC): the file is one, and others stay.
LEMMA OpenedFile ==
  ASSUME Core, NEW path \in ArgPaths, NEW o \in OpenedForWrite(path)
  PROVE  /\ o.ino \in Inodes /\ o.disk \in Disks /\ o.disk[o.ino].kind = "file"
         /\ \A i \in Inodes : node[i].kind = "file" /\ IsOpenFile(i) => o.disk[i].kind = "file"
<1>1. path \in Seq(Names) /\ path # <<>> BY ArgTypes DEF OpenedForWrite
<1>6. PICK p \in Inodes \cup {0}, m \in Names : PlaceOf(path) = <<p, m>> /\ (p # 0 => InUse(p))
  BY <1>1, PlaceFound
<1>7. PICK i \in Inodes \cup {0} : i = EntryOf(node, p, m) BY OnwardType DEF Core
<1>8. PICK x \in Nodes : x = File(<<>>) /\ x.kind = "file"
  <2>1. <<>> \in Seq(Byte) OBVIOUS
  <2> QED BY <2>1, FileType
<1>9. CASE KindIs(node, i, "file")
  <2>1. i \in Inodes BY <1>9 DEF KindIs
  <2>2. o = [ino |-> i, disk |-> [node EXCEPT ![i] = x]]
    BY <1>1, <1>6, <1>7, <1>8, <1>9 DEF OpenedForWrite
  <2>0. PICK mid : mid = [node EXCEPT ![i] = x] OBVIOUS
  <2>3. mid \in Disks /\ mid[i] = x /\ \A k \in Inodes \ {i} : mid[k] = node[k]
    BY <2>0, <2>1 DEF Core, Disks
  <2>4. o.ino = i /\ o.disk = mid BY <2>0, <2>2
  <2> QED BY <1>8, <2>1, <2>3, <2>4
<1>10. CASE ~KindIs(node, i, "file")
  <2>1. PICK j \in FreshInodes :
          /\ KindIs(node, p, "dir")
          /\ o = [ino |-> j, disk |-> SetEntry([node EXCEPT ![j] = x], p, m, j)]
    <3>1. o \in {[ino |-> j, disk |-> SetEntry([node EXCEPT ![j] = File(<<>>)], p, m, j)] :
                   j \in IF i = 0 /\ KindIs(node, p, "dir") THEN FreshInodes ELSE {}}
      BY <1>1, <1>6, <1>7, <1>10 DEF OpenedForWrite
    <3>2. i = 0 /\ KindIs(node, p, "dir") BY <3>1
    <3>3. o \in {[ino |-> j, disk |-> SetEntry([node EXCEPT ![j] = File(<<>>)], p, m, j)] :
                   j \in FreshInodes}
      BY <3>1, <3>2
    <3> QED BY <1>8, <3>2, <3>3
  <2>2. j \in Inodes /\ ~IsOpenFile(j) BY FreshIsUnused
  <2>0. PICK mid : mid = [node EXCEPT ![j] = x] OBVIOUS
  <2>3. mid \in Disks /\ mid[j] = x /\ \A k \in Inodes \ {j} : mid[k] = node[k]
    BY <2>0, <2>2 DEF Core, Disks
  <2>4. PICK disk : disk = SetEntry(mid, p, m, j) OBVIOUS
  <2>5. o.ino = j /\ o.disk = disk BY <2>0, <2>1, <2>4
  <2>6. p \in Inodes /\ node[p].kind = "dir" /\ InUse(p) BY <1>6, <2>1 DEF KindIs
  <2>7. disk \in Disks /\ disk[j].kind = "file" /\ \A k \in Inodes \ {j} : disk[k].kind = node[k].kind
    BY <1>8, <2>3, <2>4, <2>6, EntryMade
  <2> QED BY <2>2, <2>5, <2>7
<1> QED BY <1>9, <1>10

LEMMA WriteFileStep ==
  ASSUME Core, NEW c \in Callers, NEW path \in ArgPaths, NEW content \in Contents,
         WriteFile(c, path, content)
  PROVE  Does(c, "write")
<1> DEFINE k == Begin("write", path, content)
<1>1. call[c].pc = "idle" /\ UNCHANGED handle BY DEF WriteFile, CanCall
<1>2. Started(k, "write", path, content) /\ content \in Seq(Byte)
  <2>1. content \in Seq(Names) \cup Seq(Byte) \cup Ranges /\ content \in Seq(Byte) BY ArgTypes
  <2> QED BY <2>1, ArgTypes, Begun
<1>4. \/ /\ Hold(c, 0, 1)
         /\ \E o \in OpenedForWrite(path) :
              node' = o.disk /\ Goto(c, [k EXCEPT !.fd = o.ino, !.pc = "write"])
      \/ /\ Goto(c, Return(k, FALSE)) \/ Goto(c, Return(Faulted(k), FALSE))
         /\ UNCHANGED <<node, blocks, fds>>
  BY DEF WriteFile, Refused
<1> HIDE DEF k
<1>5. ASSUME Hold(c, 0, 1), NEW o \in OpenedForWrite(path), node' = o.disk,
             Goto(c, [k EXCEPT !.fd = o.ino, !.pc = "write"])
      PROVE  Does(c, "write")
  <2>1. PICK i \in Inodes :
          /\ i = o.ino /\ node' \in Disks /\ node'[i].kind = "file"
          /\ \A j \in Inodes : node[j].kind = "file" /\ IsOpenFile(j) => node'[j].kind = "file"
    BY <1>5, OpenedFile
  <2>2. DiskKept /\ i # 0 /\ KindIs(node', i, "file") BY <2>1, DiskAssumption DEF DiskKept, KindIs
  <2> DEFINE q == [k EXCEPT !.fd = i, !.pc = "write"]
  <2>3. q \in Calls /\ q.op = "write" /\ q.pc = "write" /\ q.arg = content /\ q.fd = i
    BY <1>2, <2>1 DEF Started, Calls
  <2>4. Goto(c, q) BY <1>5, <2>1
  <2> HIDE DEF q
  <2>5. Becomes(c, q, handle[c], blocks[c] + 0, fds[c] + 1)
    BY <1>1, <1>5, <2>4 DEF Core, AllTidy, Goto, Hold, Becomes
  <2>6. Shape(q) /\ BlocksOf(q) = 0 /\ FdsOf(q) = 1 BY <1>2, <2>2, <2>3 DEF Shape, BlocksOf, FdsOf
  <2>7. Tidy(q, handle[c], blocks[c] + 0, fds[c] + 1)
    BY <1>1, <2>3, <2>6, BetweenCalls DEF Tidy
  <2> QED BY <2>2, <2>3, <2>5, <2>7, OneMoved DEF Does
<1>6. CASE /\ Goto(c, Return(k, FALSE)) \/ Goto(c, Return(Faulted(k), FALSE))
           /\ UNCHANGED <<node, blocks, fds>>
  <2>1. PICK r : Goto(c, r) /\ (r = Return(k, FALSE) \/ r = Return(Faulted(k), FALSE)) BY <1>6
  <2>2. r \in Calls /\ r.pc = "done" /\ r.cap = 0 /\ r.op = "write"
    BY <1>2, <2>1, RefusedResult DEF SameBut, Started
  <2> QED BY <1>1, <1>6, <2>1, <2>2, EndsAtOnce DEF Does
<1> QED BY <1>4, <1>5, <1>6

\* Writing keeps a sequence of bytes one.
LEMMA WrittenBytes ==
  ASSUME NEW data \in Seq(Byte), NEW pos \in Nat, NEW bytes \in Seq(Byte)
  PROVE  WriteAt(data, pos, bytes) \in Seq(Byte)
<1>1. PICK m \in Nat : m = IF Len(data) > pos + Len(bytes) THEN Len(data) ELSE pos + Len(bytes)
  OBVIOUS
<1> DEFINE V(j) == IF j \in pos + 1 .. pos + Len(bytes) THEN bytes[j - pos]
                   ELSE IF j <= Len(data) THEN data[j] ELSE 0
<1>2. ASSUME NEW j \in 1 .. m PROVE V(j) \in Byte
  <2>1. CASE j \in pos + 1 .. pos + Len(bytes)
    <3>1. j - pos \in 1 .. Len(bytes) BY <2>1
    <3> QED BY <2>1, <3>1
  <2>2. CASE j \notin pos + 1 .. pos + Len(bytes)
    <3>1. 0 \in Byte BY DEF Byte
    <3>2. j <= Len(data) => j \in 1 .. Len(data) OBVIOUS
    <3> QED BY <2>2, <3>1, <3>2
  <2> QED BY <2>1, <2>2
<1>3. WriteAt(data, pos, bytes) = [j \in 1 .. m |-> V(j)] BY <1>1 DEF WriteAt
<1> HIDE DEF V
<1> QED BY <1>2, <1>3

LEMMA WrittenDisk ==
  ASSUME Core, NEW i \in Inodes, node[i].kind = "file", NEW pos \in Nat, NEW bytes \in Seq(Byte),
         node' = [node EXCEPT ![i].data = WriteAt(@, pos, bytes)]
  PROVE  DiskKept /\ KindIs(node', i, "file")
<1>1. node[i] \in [kind : {"file"}, data : Seq(Byte)] BY NodeShape DEF Core
<1>2. PICK more \in Seq(Byte) : more = WriteAt(node[i].data, pos, bytes) BY <1>1, WrittenBytes
<1> DEFINE x == [node[i] EXCEPT !.data = more]
<1>3. x \in [kind : {"file"}, data : Seq(Byte)] BY <1>1
<1>4. x \in Nodes /\ x.kind = "file" BY <1>3 DEF Nodes
<1>5. node' = [node EXCEPT ![i] = x] BY <1>2
<1> HIDE DEF x
<1>6. node' \in Disks /\ node'[i] = x /\ \A j \in Inodes \ {i} : node'[j] = node[j]
  BY <1>4, <1>5 DEF Core, Disks
<1> QED BY <1>4, <1>6, DiskAssumption DEF DiskKept, KindIs

LEMMA WriteChunkStep ==
  ASSUME Core, NEW c \in Callers, WriteChunk(c)
  PROVE  Does(c, "write")
<1> DEFINE k == call[c]  left == Len(k.arg) - k.pos
           End(r, success) == /\ Hold(c, 0, -1)
                              /\ Goto(c, Return([r EXCEPT !.fd = 0], success))
           Write(n) == node' = [node EXCEPT ![k.fd].data =
                                  WriteAt(@, k.pos, SubSeq(k.arg, k.pos + 1, k.pos + n))]
<1>0. k.pc = "write" /\ UNCHANGED handle BY DEF WriteChunk
<1>1. \/ End(Faulted(k), FALSE) /\ UNCHANGED node
      \/ End(k, TRUE) /\ UNCHANGED node
      \/ left > 0 /\ Write(Request(left)) /\ End(k, Request(left) = left)
      \/ /\ left > 0
         /\ \E n \in 1 .. left :
              /\ Write(n)
              /\ IF WriteEnds(n, left) THEN End(k, TRUE)
                 ELSE Goto(c, [k EXCEPT !.pos = @ + n]) /\ UNCHANGED <<blocks, fds>>
  BY DEF WriteChunk
<1>2. /\ k \in Calls /\ k.op = "write" /\ k.arg \in Seq(Byte) /\ k.fd # 0
  BY <1>0, HoldsOneFd DEF Shape
<1>3. k.fd \in Inodes /\ k.pos \in Nat /\ left \in Int /\ node[k.fd].kind = "file"
  BY <1>0, <1>2 DEF Calls, Core, WritesFiles, KindIs
<1>4. ASSUME NEW f \in Calls, f.op = k.op, DiskKept, Hold(c, 0, -1), NEW z, NEW r,
             z = [f EXCEPT !.fd = 0], r = Return(z, TRUE) \/ r = Return(z, FALSE), Goto(c, r)
      PROVE  Does(c, "write")
  <2> HIDE DEF Write, End, left
  <2>1. z \in Calls /\ z.op = "write" BY <1>2, <1>4, DiskAssumption DEF Calls
  <2>2. r \in Calls /\ r.pc = "done" /\ r.op = "write"
    <3>1. r = Return(z, TRUE) \/ r = Return(z, FALSE) BY <1>4
    <3> QED BY <2>1, <3>1, RefusedResult DEF SameBut
  <2> QED BY <1>0, <1>4, <2>2, ClosesFd DEF Does
<1>5. ASSUME NEW n \in 0 .. left, left > 0, Write(n)
      PROVE  DiskKept /\ KindIs(node', k.fd, "file")
  <2>1. k.pos + 1 \in 1 .. Len(k.arg) + 1 /\ k.pos + n \in 0 .. Len(k.arg)
    <3>1. PICK p \in Nat, m \in Nat : p = k.pos /\ m = Len(k.arg) BY <1>2, <1>3
    <3>2. n \in 0 .. m - p /\ m - p > 0 BY <1>5, <3>1
    <3> HIDE DEF k, left, Write
    <3>3. p + 1 \in 1 .. m + 1 /\ p + n \in 0 .. m BY <3>2
    <3> QED BY <3>1, <3>3
  <2>2. PICK bytes \in Seq(Byte) : bytes = SubSeq(k.arg, k.pos + 1, k.pos + n)
    <3> HIDE DEF k
    <3>1. SubSeq(k.arg, k.pos + 1, k.pos + n) \in Seq(Byte) BY <1>2, <1>3, <2>1
    <3> QED BY <3>1
  <2>3. node' = [node EXCEPT ![k.fd].data = WriteAt(@, k.pos, bytes)] BY <1>5, <2>2
  <2> HIDE DEF k, Write, End, left
  <2> QED BY <1>3, <2>3, WrittenDisk
<1>6. CASE End(Faulted(k), FALSE) /\ UNCHANGED node
  <2> DEFINE g == Faulted(k)
  <2>1. g \in Calls /\ g.op = k.op BY <1>2, AfterFault DEF SameBut
  <2>2. Hold(c, 0, -1) /\ Goto(c, Return([g EXCEPT !.fd = 0], FALSE)) BY <1>6
  <2> HIDE DEF g, k, Write, End, left
  <2>3. PICK z, r : z = [g EXCEPT !.fd = 0] /\ r = Return(z, FALSE) /\ Goto(c, r) BY <2>2
  <2> QED BY <1>4, <1>6, <2>1, <2>2, <2>3, SameDisk
<1>7. CASE End(k, TRUE) /\ UNCHANGED node
  <2>2. Hold(c, 0, -1) /\ Goto(c, Return([k EXCEPT !.fd = 0], TRUE)) BY <1>7
  <2> HIDE DEF k, Write, End, left
  <2>3. PICK z, r : z = [k EXCEPT !.fd = 0] /\ r = Return(z, TRUE) /\ Goto(c, r) BY <2>2
  <2> QED BY <1>2, <1>4, <1>7, <2>2, <2>3, SameDisk
<1>8. CASE left > 0 /\ Write(Request(left)) /\ End(k, Request(left) = left)
  <2>1. Request(left) \in 0 .. left
    <3> HIDE DEF left
    <3>1. Request(left) \in Int /\ Request(left) <= left BY <1>3, <1>8, RequestBound
    <3>2. Request(left) >= 0 BY <1>3, <1>8, DiskAssumption DEF Request
    <3> QED BY <1>3, <3>1, <3>2
  <2>2. DiskKept BY <1>5, <1>8, <2>1
  <2>3. Hold(c, 0, -1) /\ Goto(c, Return([k EXCEPT !.fd = 0], Request(left) = left)) BY <1>8
  <2>4. PICK z, r : /\ z = [k EXCEPT !.fd = 0] /\ Goto(c, r)
                    /\ r = Return(z, TRUE) \/ r = Return(z, FALSE)
    <3>1. CASE Request(left) = left
      <4>1. Goto(c, Return([k EXCEPT !.fd = 0], TRUE)) BY <2>3, <3>1 DEF Return
      <4> HIDE DEF k, Write, End, left
      <4> QED BY <4>1
    <3>2. CASE Request(left) # left
      <4>1. Goto(c, Return([k EXCEPT !.fd = 0], FALSE)) BY <2>3, <3>2 DEF Return
      <4> HIDE DEF k, Write, End, left
      <4> QED BY <4>1
    <3> QED BY <3>1, <3>2
  <2> HIDE DEF k, Write, End, left
  <2> QED BY <1>2, <1>4, <2>2, <2>3, <2>4
<1>9. ASSUME left > 0, NEW n \in 1 .. left, Write(n),
             IF WriteEnds(n, left) THEN End(k, TRUE)
             ELSE Goto(c, [k EXCEPT !.pos = @ + n]) /\ UNCHANGED <<blocks, fds>>
      PROVE  Does(c, "write")
  <2>1. n \in 0 .. left /\ n \in Nat BY <1>3, <1>9
  <2>2. DiskKept /\ KindIs(node', k.fd, "file") BY <1>5, <1>9, <2>1
  <2>3. CASE WriteEnds(n, left)
    <3>1. Hold(c, 0, -1) /\ Goto(c, Return([k EXCEPT !.fd = 0], TRUE)) BY <1>9, <2>3
    <3> HIDE DEF k, Write, End, left
    <3>2. PICK z, r : z = [k EXCEPT !.fd = 0] /\ r = Return(z, TRUE) /\ Goto(c, r) BY <3>1
    <3> QED BY <1>2, <1>4, <2>2, <3>1, <3>2
  <2>4. CASE ~WriteEnds(n, left)
    <3> DEFINE q == [k EXCEPT !.pos = @ + n]
    <3>1. Goto(c, q) /\ UNCHANGED <<blocks, fds>> BY <1>9, <2>4
    <3>3. PICK m \in Nat : m = k.pos + n BY <1>3, <2>1
    <3>4. q = [k EXCEPT !.pos = m] BY <3>3
    <3> HIDE DEF Write, End, left, k, q
    <3>2. q \in Calls /\ q.pc = k.pc /\ q.op = k.op /\ q.arg = k.arg /\ q.fd = k.fd
      BY <1>2, <3>4 DEF Calls
    <3> USE DEF k
    <3>5. call[c].op = "write" BY <1>2
    <3> QED BY <1>0, <2>2, <3>1, <3>2, <3>5, KeepsFd
  <2> QED BY <2>3, <2>4
<1> QED BY <1>1, <1>6, <1>7, <1>8, <1>9

LEMMA MakeDirectoryStep ==
  ASSUME Core, NEW c \in Callers, NEW path \in ArgPaths, MakeDirectory(c, path)
  PROVE  Does(c, "mkdir")
<1> DEFINE k == Begin("mkdir", path, <<>>)  d == ParentOf(path)
<1>1. call[c].pc = "idle" /\ UNCHANGED handle BY DEF MakeDirectory, CanCall
<1>2. Started(k, "mkdir", path, <<>>) BY ArgTypes, BegunPlain
<1>3. \/ /\ path # <<>> /\ KindIs(node, d, "dir") /\ Hold(c, 0, 0) /\ Goto(c, Return(k, TRUE))
         /\ \E j \in FreshInodes :
              node' = SetEntry([node EXCEPT ![j] = EmptyDir], d, Last(path), j)
      \/ /\ Goto(c, [k EXCEPT !.pc = "eexist"])
         /\ UNCHANGED <<node, blocks, fds>>
      \/ /\ Goto(c, Return(k, FALSE)) \/ Goto(c, Return(Faulted(k), FALSE))
         /\ UNCHANGED <<node, blocks, fds>>
  BY DEF MakeDirectory, Refused
<1> HIDE DEF k
<1>4. ASSUME path # <<>>, KindIs(node, d, "dir"), Hold(c, 0, 0), Goto(c, Return(k, TRUE)),
             NEW j \in FreshInodes,
             node' = SetEntry([node EXCEPT ![j] = EmptyDir], d, Last(path), j)
      PROVE  Does(c, "mkdir")
  <2>1. path \in Seq(Names) /\ Front(path) \in Seq(Names) BY <1>4, ArgTypes, PathParts
  <2>2. d \in Inodes /\ InUse(d) /\ node[d].kind = "dir"
    BY <1>4, <2>1, WalkInUse DEF ParentOf, KindIs
  <2>3. PICK n \in Names : n = Last(path) BY <1>4, <2>1, PathParts
  <2>4. j \in Inodes /\ ~IsOpenFile(j) BY FreshIsUnused
  <2>5. PICK mid : mid = [node EXCEPT ![j] = EmptyDir] OBVIOUS
  <2>6. mid \in Disks /\ \A i \in Inodes \ {j} : mid[i] = node[i]
    BY <2>4, <2>5, FileType DEF Core, Disks
  <2>7. PICK disk : disk = SetEntry(mid, d, n, j) OBVIOUS
  <2>8. node' = disk BY <1>4, <2>3, <2>5, <2>7
  <2> HIDE DEF d
  <2>9. disk \in Disks /\ \A i \in Inodes \ {j} : disk[i].kind = node[i].kind
    BY <2>2, <2>6, <2>7, EntryMade
  <2>10. DiskKept BY <2>4, <2>8, <2>9 DEF DiskKept, KindIs
  <2>11. PICK r \in Calls : Goto(c, r) /\ r.pc = "done" /\ r.cap = 0 /\ r.op = "mkdir"
    <3>1. PICK r : r = Return(k, TRUE) OBVIOUS
    <3>2. k \in Calls /\ k.cap = 0 /\ k.op = "mkdir" BY <1>2 DEF Started
    <3>3. r \in Calls /\ r.pc = "done" /\ SameBut(k, r) BY <3>1, <3>2, RefusedResult
    <3>4. r.cap = 0 /\ r.op = "mkdir" BY <3>2, <3>3 DEF SameBut
    <3>5. Goto(c, r) BY <1>4, <3>1
    <3> QED BY <3>3, <3>4, <3>5
  <2>12. BlocksOf(r) = 0 /\ FdsOf(r) = 0 /\ Shape(r) BY <2>11, HoldsNothing
  <2>13. Becomes(c, r, handle[c], blocks[c] + 0, fds[c] + 0)
    BY <1>1, <1>4, <2>11 DEF Core, AllTidy, Goto, Hold, Becomes
  <2>14. Tidy(r, handle[c], blocks[c] + 0, fds[c] + 0)
    BY <1>1, <2>12, BetweenCalls DEF Tidy
  <2> QED BY <2>10, <2>11, <2>13, <2>14, OneMoved DEF Does
<1>5. CASE Goto(c, [k EXCEPT !.pc = "eexist"]) /\ UNCHANGED <<node, blocks, fds>>
  <2> DEFINE q == [k EXCEPT !.pc = "eexist"]
  <2>1. q \in Calls /\ q.op = "mkdir" /\ q.pc = "eexist" /\ Goto(c, q)
    BY <1>2, <1>5 DEF Started, Calls
  <2> HIDE DEF q
  <2>2. Becomes(c, q, handle[c], blocks[c], fds[c]) BY <1>1, <1>5, <2>1, HoldsSame DEF Core
  <2>3. Shape(q) /\ BlocksOf(q) = 0 /\ FdsOf(q) = 0 BY <2>1 DEF Shape, BlocksOf, FdsOf
  <2>4. Tidy(q, handle[c], blocks[c], fds[c]) BY <1>1, <2>1, <2>3, BetweenCalls DEF Tidy
  <2> QED BY <1>5, <2>1, <2>2, <2>4, SameDisk, OneMoved DEF Does
<1>6. CASE /\ Goto(c, Return(k, FALSE)) \/ Goto(c, Return(Faulted(k), FALSE))
           /\ UNCHANGED <<node, blocks, fds>>
  <2>1. PICK r : Goto(c, r) /\ (r = Return(k, FALSE) \/ r = Return(Faulted(k), FALSE)) BY <1>6
  <2>2. r \in Calls /\ r.pc = "done" /\ r.cap = 0 /\ r.op = "mkdir"
    BY <1>2, <2>1, RefusedResult DEF SameBut, Started
  <2> QED BY <1>1, <1>6, <2>1, <2>2, EndsAtOnce DEF Does
<1> QED BY <1>3, <1>4, <1>5, <1>6

LEMMA RecheckDirectoryStep ==
  ASSUME Core, NEW c \in Callers, RecheckDirectory(c)
  PROVE  Does(c, "mkdir")
<1> DEFINE k == call[c]
<1>0. \/ Goto(c, Return(k, fs_is_directory(k.path)))
      \/ Goto(c, Return(Faulted(k), FALSE))
  BY DEF RecheckDirectory
<1>1. /\ k.pc = "eexist" /\ UNCHANGED node /\ UNCHANGED handle /\ UNCHANGED <<blocks, fds>>
      /\ \/ Goto(c, Return(k, TRUE)) \/ Goto(c, Return(k, FALSE))
         \/ Goto(c, Return(Faulted(k), FALSE))
  <2>1. CASE Goto(c, Return(Faulted(k), FALSE)) BY <2>1 DEF RecheckDirectory
  <2>2. CASE Goto(c, Return(k, fs_is_directory(k.path)))
    <3>1. Goto(c, [k EXCEPT !.pc = "done", !.ok = fs_is_directory(k.path)])
      BY <2>2 DEF Return
    <3>2. CASE fs_is_directory(k.path)
      <4>1. Goto(c, [k EXCEPT !.pc = "done", !.ok = TRUE]) BY <3>1, <3>2
      <4> QED BY <4>1 DEF Return, RecheckDirectory
    <3>3. CASE ~fs_is_directory(k.path)
      <4>1. Goto(c, [k EXCEPT !.pc = "done", !.ok = FALSE])
        BY <3>1, <3>3 DEF fs_is_directory, DirLike, KindIs
      <4> QED BY <4>1 DEF Return, RecheckDirectory
    <3> QED BY <3>2, <3>3
  <2> QED BY <1>0, <2>1, <2>2
<1>2. Tidy(k, handle[c], blocks[c], fds[c]) BY DEF Core, AllTidy
<1>3. k \in Calls /\ k.op = "mkdir" BY <1>1, <1>2 DEF Tidy, Shape
<1>4. BlocksOf(k) = 0 /\ FdsOf(k) = 0 BY <1>1 DEF BlocksOf, FdsOf
<1>5. PICK r : /\ Goto(c, r)
               /\ r = Return(k, TRUE) \/ r = Return(k, FALSE) \/ r = Return(Faulted(k), FALSE)
  BY <1>1
<1> HIDE DEF k
<1>6. r \in Calls /\ r.pc = "done" /\ r.op = "mkdir" BY <1>3, <1>5, RefusedResult DEF SameBut
<1>7. BlocksOf(r) = 0 /\ FdsOf(r) = 0 /\ Shape(r) BY <1>6 DEF BlocksOf, FdsOf, Shape
<1>8. Becomes(c, r, handle[c], blocks[c], fds[c]) BY <1>1, <1>5, HoldsSame DEF Core
<1>9. Tidy(r, handle[c], blocks[c], fds[c]) BY <1>2, <1>4, <1>6, <1>7 DEF Tidy
<1> QED BY <1>1, <1>6, <1>8, <1>9, SameDisk, OneMoved DEF Does

LEMMA RenamePathStep ==
  ASSUME Core, NEW c \in Callers, NEW old \in ArgPaths, NEW new \in ArgPaths,
         RenamePath(c, old, new)
  PROVE  Does(c, "rename")
<1> DEFINE k == Begin("rename", old, new)  i == LStat(old)
<1>1. call[c].pc = "idle" /\ UNCHANGED handle BY DEF RenamePath, CanCall
<1>2. Started(k, "rename", old, new)
  <2>1. old \in Seq(Names) /\ new \in Seq(Names) \cup Seq(Byte) \cup Ranges BY ArgTypes
  <2> QED BY <2>1, Begun
<1>3. \/ /\ Renamable(old, new) /\ Hold(c, 0, 0) /\ Goto(c, Return(k, TRUE))
         /\ node' = IF LStat(new) = i THEN node
                    ELSE SetEntry(SetEntry(node, ParentOf(old), Last(old), 0),
                                  ParentOf(new), Last(new), i)
      \/ /\ Goto(c, Return(k, FALSE)) \/ Goto(c, Return(Faulted(k), FALSE))
         /\ UNCHANGED <<node, blocks, fds>>
  BY DEF RenamePath, Refused
<1> HIDE DEF k
<1>4. CASE /\ Renamable(old, new) /\ Hold(c, 0, 0) /\ Goto(c, Return(k, TRUE))
           /\ node' = IF LStat(new) = i THEN node
                      ELSE SetEntry(SetEntry(node, ParentOf(old), Last(old), 0),
                                    ParentOf(new), Last(new), i)
  <2>1. /\ i # 0 /\ new # <<>> /\ KindIs(node, ParentOf(new), "dir") BY <1>4 DEF Renamable
  <2>2. old \in Seq(Names) /\ new \in Seq(Names) BY ArgTypes
  <2>3. PICK d \in Inodes, n \in Names :
          d = ParentOf(old) /\ node[d].kind = "dir" /\ n = Last(old) /\ i \in Inodes
    BY <2>1, <2>2, ParentIsDir
  <2>4. PICK e \in Inodes, m \in Names :
          e = ParentOf(new) /\ node[e].kind = "dir" /\ m = Last(new)
    BY <2>1, <2>2, StatType, PathParts DEF Core, ParentOf, KindIs
  <2>5. DiskKept
    <3>1. CASE LStat(new) = i BY <1>4, <3>1, SameDisk
    <3>2. CASE LStat(new) # i
      <4>1. PICK mid : mid = SetEntry(node, d, n, 0) OBVIOUS
      <4>2. node' = SetEntry(mid, e, m, i) BY <1>4, <2>3, <2>4, <3>2, <4>1
      <4>3. 0 \in Inodes \cup {0} OBVIOUS
      <4>4. mid \in Disks /\ \A j \in Inodes : mid[j].kind = node[j].kind
        BY <2>3, <4>1, <4>3, EntryType DEF Core
      <4>5. mid[e].kind = "dir" BY <2>4, <4>4
      <4> HIDE DEF i
      <4>6. i \in Inodes \cup {0} BY <2>3
      <4>7. node' \in Disks /\ \A j \in Inodes : node'[j].kind = mid[j].kind
        BY <4>2, <4>4, <4>5, <4>6, EntryType
      <4> QED BY <4>4, <4>7 DEF DiskKept, KindIs
    <3> QED BY <3>1, <3>2
  <2>10. PICK r : Goto(c, r) /\ r = Return(k, TRUE) BY <1>4
  <2>6. r \in Calls /\ Goto(c, r) /\ r.pc = "done" /\ r.cap = 0 /\ r.op = "rename"
    BY <1>2, <2>10, RefusedResult DEF SameBut, Started
  <2>7. BlocksOf(r) = 0 /\ FdsOf(r) = 0 /\ Shape(r) BY <2>6, HoldsNothing
  <2>8. Becomes(c, r, handle[c], blocks[c] + 0, fds[c] + 0)
    BY <1>1, <1>4, <2>6 DEF Core, AllTidy, Goto, Hold, Becomes
  <2>9. Tidy(r, handle[c], blocks[c] + 0, fds[c] + 0)
    BY <1>1, <2>6, <2>7, BetweenCalls DEF Tidy
  <2> QED BY <2>5, <2>6, <2>8, <2>9, OneMoved DEF Does
<1>5. CASE /\ Goto(c, Return(k, FALSE)) \/ Goto(c, Return(Faulted(k), FALSE))
           /\ UNCHANGED <<node, blocks, fds>>
  <2>1. PICK r : Goto(c, r) /\ (r = Return(k, FALSE) \/ r = Return(Faulted(k), FALSE)) BY <1>5
  <2>2. r \in Calls /\ r.pc = "done" /\ r.cap = 0 /\ r.op = "rename"
    BY <1>2, <2>1, RefusedResult DEF SameBut, Started
  <2> QED BY <1>1, <1>5, <2>1, <2>2, EndsAtOnce DEF Does
<1> QED BY <1>3, <1>4, <1>5

-----------------------------------------------------------------------------
(* Listings.                                                               *)

LEMMA FrameType ==
  ASSUME NEW path \in Seq(Names), NEW at \in {"opendir", "unlink"}
  PROVE  /\ Frame(path, at) \in Frames /\ Frame(path, at).at = at
         /\ Frame(path, at).path = path /\ Frame(path, at).seen = {}
BY DEF Frame, Frames

LEMMA OpenedType ==
  ASSUME NEW f \in Frames, NEW i \in Inodes \cup {0}
  PROVE  /\ Opened(f, i) \in Frames /\ Opened(f, i).at = "readdir" /\ Opened(f, i).dir = i
         /\ Opened(f, i).path = f.path /\ Opened(f, i).seen = f.seen
         /\ Opened(f, i).first = {n \in Names : EntryOf(node, i, n) # 0}
<1>1. {n \in Names : EntryOf(node, i, n) # 0} \in SUBSET Names OBVIOUS
<1>2. PICK S \in SUBSET Names : S = {n \in Names : EntryOf(node, i, n) # 0} BY <1>1
<1>3. Opened(f, i) = [f EXCEPT !.at = "readdir", !.dir = i, !.first = S] BY <1>2 DEF Opened
<1> QED BY <1>2, <1>3 DEF Frames

LEMMA SawType ==
  ASSUME NEW f \in Frames, NEW n \in Names
  PROVE  /\ Saw(f, n) \in Frames /\ Saw(f, n).at = f.at /\ Saw(f, n).dir = f.dir
         /\ Saw(f, n).path = f.path /\ Saw(f, n).first = f.first
         /\ Saw(f, n).seen = f.seen \cup {n}
<1>1. PICK S \in SUBSET Names : S = f.seen \cup {n} BY DEF Frames
<1>2. Saw(f, n) = [f EXCEPT !.seen = S] BY <1>1 DEF Saw
<1> QED BY <1>1, <1>2 DEF Frames

\* A stack of one frame.
LEMMA OneFrame ==
  ASSUME NEW f \in Frames
  PROVE  <<f>> \in Seq(Frames) /\ Len(<<f>>) = 1
OBVIOUS

\* The listing call as it opens the directory.
LEMMA ListDirectoryStep ==
  ASSUME Core, NEW c \in Callers, NEW path \in ArgPaths, ListDirectory(c, path)
  PROVE  Does(c, "list")
<1> DEFINE k == Begin("list", path, <<>>)
           f == Opened(Frame(path, "opendir"), Stat(path))
<1>1. call[c].pc = "idle" /\ UNCHANGED handle BY DEF ListDirectory, CanCall
<1>2. Started(k, "list", path, <<>>) BY ArgTypes, BegunPlain
<1>3. f \in Frames
  <2>1. path \in Seq(Names) /\ Stat(path) \in Inodes \cup {0} BY ArgTypes, StatType DEF Core, Stat
  <2> QED BY <2>1, FrameType, OpenedType
<1>4. \/ /\ Hold(c, 1, 1) /\ UNCHANGED node
         /\ Goto(c, [k EXCEPT !.pc = "list", !.stack = <<f>>])
      \/ /\ Goto(c, Return(k, FALSE)) \/ Goto(c, Return(Faulted(k), FALSE))
         /\ UNCHANGED <<node, blocks, fds>>
  BY DEF ListDirectory, Refused
<1> HIDE DEF k, f
<1>5. CASE /\ Hold(c, 1, 1) /\ UNCHANGED node
           /\ Goto(c, [k EXCEPT !.pc = "list", !.stack = <<f>>])
  <2> DEFINE q == [k EXCEPT !.pc = "list", !.stack = <<f>>]
  <2>0. PICK st \in Seq(Frames) : st = <<f>> /\ Len(st) = 1 BY <1>3, OneFrame
  <2>1. q \in Calls /\ q.op = "list" /\ q.pc = "list" /\ q.cap = 0 /\ q.names = <<>> /\ q.stack = st
    BY <1>2, <2>0 DEF Started, Calls
  <2>2. Goto(c, q) BY <1>5
  <2> HIDE DEF q
  <2>3. Becomes(c, q, handle[c], blocks[c] + 1, fds[c] + 1)
    BY <1>1, <1>5, <2>2 DEF Core, AllTidy, Goto, Hold, Becomes
  <2>4. Shape(q) /\ BlocksOf(q) = 1 /\ FdsOf(q) = 1 BY <2>0, <2>1 DEF Shape, BlocksOf, FdsOf
  <2>5. Tidy(q, handle[c], blocks[c] + 1, fds[c] + 1)
    BY <1>1, <2>1, <2>4, BetweenCalls DEF Tidy
  <2> QED BY <1>5, <2>1, <2>3, <2>5, SameDisk, OneMoved DEF Does
<1>6. CASE /\ Goto(c, Return(k, FALSE)) \/ Goto(c, Return(Faulted(k), FALSE))
           /\ UNCHANGED <<node, blocks, fds>>
  <2>1. PICK r : Goto(c, r) /\ (r = Return(k, FALSE) \/ r = Return(Faulted(k), FALSE)) BY <1>6
  <2>2. r \in Calls /\ r.pc = "done" /\ r.cap = 0 /\ r.op = "list"
    BY <1>2, <2>1, RefusedResult DEF SameBut, Started
  <2>3. ~r.ok BY <1>2, <2>1, RefusedOk DEF Started
  <2> QED BY <1>1, <1>6, <2>1, <2>2, <2>3, EndsAtOnce DEF Does
<1> QED BY <1>4, <1>5, <1>6

\* What a listing holds while it is made.
LEMMA InListing ==
  ASSUME Core, NEW c \in Callers, call[c].pc = "list"
  PROVE  /\ call[c] \in Calls /\ call[c].op = "list" /\ call[c].cap \in {0, 1}
         /\ Len(call[c].stack) = 1 /\ call[c].stack[1] \in Frames
         /\ Last(call[c].stack) = call[c].stack[1]
         /\ handle[c] \in Files /\ (~handle[c].open => handle[c].ino = 0)
         /\ blocks[c] = HandleHolds(handle[c]) + Len(call[c].names) + call[c].cap + 1
         /\ fds[c] = HandleHolds(handle[c]) + 1
         /\ HandleHolds(handle[c]) \in Int /\ Len(call[c].names) \in Nat
<1>1. Tidy(call[c], handle[c], blocks[c], fds[c]) BY DEF Core, AllTidy
<1>2. /\ call[c] \in Calls /\ call[c].op = "list" /\ call[c].cap \in {0, 1}
      /\ Len(call[c].stack) = 1
  BY <1>1 DEF Tidy, Shape
<1>3. Last(call[c].stack) = call[c].stack[1] BY <1>2 DEF Last
<1>4. call[c].stack[1] \in Frames /\ Len(call[c].names) \in Nat BY <1>2 DEF Calls
<1>5. BlocksOf(call[c]) = Len(call[c].names) + call[c].cap + 1 /\ FdsOf(call[c]) = 1
  BY DEF BlocksOf, FdsOf
<1>6. HandleHolds(handle[c]) \in Int BY DEF HandleHolds
<1> QED BY <1>1, <1>2, <1>3, <1>4, <1>5, <1>6 DEF Tidy

\* A listing changed: q is the call, b the blocks added.
LEMMA ListingMoves ==
  ASSUME Core, NEW c \in Callers, call[c].pc = "list", UNCHANGED node,
         NEW q \in Calls, q.pc = "list", q.op = "list", q.cap \in {0, 1}, Len(q.stack) = 1,
         NEW b, b = HandleHolds(handle[c]) + Len(q.names) + q.cap + 1,
         Becomes(c, q, handle[c], b, fds[c])
  PROVE  Orderly(c) /\ call'[c] = q
<1>1. Shape(q) /\ BlocksOf(q) = Len(q.names) + q.cap + 1 /\ FdsOf(q) = 1
  BY DEF Shape, BlocksOf, FdsOf
<1>2. q.cap \in Int /\ Len(q.names) \in Int BY DEF Calls
<1>3. Tidy(q, handle[c], b, fds[c]) BY <1>1, <1>2, InListing DEF Tidy
<1> QED BY <1>3, SameDisk, OneMoved

\* The call with another stack.
LEMMA Restacked ==
  ASSUME NEW k \in Calls, NEW st \in Seq(Frames), NEW q, q = [k EXCEPT !.stack = st]
  PROVE  /\ q \in Calls /\ q.stack = st /\ q.pc = k.pc /\ q.op = k.op /\ q.path = k.path
         /\ q.cap = k.cap /\ q.names = k.names /\ q.buf = k.buf /\ q.fd = k.fd
         /\ q.faulted = k.faulted /\ q.ok = k.ok /\ q.arg = k.arg /\ q.pos = k.pos
BY DEF Calls

\* A step that takes or gives back blocks only.
LEMMA HoldsMore ==
  ASSUME Core, NEW c \in Callers, NEW k, NEW b \in Int, Goto(c, k), Hold(c, b, 0),
         UNCHANGED handle
  PROVE  Becomes(c, k, handle[c], blocks[c] + b, fds[c])
<1>1. /\ fds[c] + 0 = fds[c] /\ blocks \in [Callers -> Int] /\ fds \in [Callers -> Int]
      /\ handle \in [Callers -> Files]
  BY DEF Core, AllTidy
<1> QED BY <1>1 DEF Goto, Hold, Becomes

\* What fs_listing_add makes of the listing.
LEMMA AddStep ==
  ASSUME Core, NEW c \in Callers, call[c].pc = "list", UNCHANGED <<node, handle>>,
         NEW k \in Calls, k.pc = "list", k.op = "list", k.cap = call[c].cap,
         k.names = call[c].names, Len(k.stack) = 1, NEW n \in Names, fs_listing_add(c, k, n)
  PROVE  Does(c, "list")
<1>1. /\ k.cap \in {0, 1} /\ Len(k.names) \in Nat
      /\ blocks[c] = HandleHolds(handle[c]) + Len(k.names) + k.cap + 1
      /\ HandleHolds(handle[c]) \in Int /\ fds[c] \in Int
  BY InListing
<1>2. CASE /\ Hold(c, 2 - k.cap, 0)
           /\ Goto(c, [k EXCEPT !.names = Append(@, n), !.cap = 1])
  <2>0. k.names \in Seq(Names) BY DEF Calls
  <2>9. Append(k.names, n) \in Seq(Names) /\ Len(Append(k.names, n)) = Len(k.names) + 1
    BY <2>0, AppendProperties
  <2>1. PICK ns \in Seq(Names) : ns = Append(k.names, n) /\ Len(ns) = Len(k.names) + 1
    BY <2>9
  <2> DEFINE q == [k EXCEPT !.names = ns, !.cap = 1]
  <2>2. /\ q \in Calls /\ q.pc = "list" /\ q.op = "list" /\ q.cap = 1 /\ q.names = ns
        /\ q.stack = k.stack
    BY DEF Calls
  <2>3. Goto(c, q) BY <1>2, <2>1
  <2> HIDE DEF q
  <2>4. PICK b : b = blocks[c] + (2 - k.cap) OBVIOUS
  <2>7. 2 - k.cap \in Int BY <1>1
  <2>5. Becomes(c, q, handle[c], b, fds[c]) BY <1>2, <2>3, <2>4, <2>7, HoldsMore
  <2>6. b = HandleHolds(handle[c]) + Len(q.names) + q.cap + 1
    <3>1. PICK x \in Int, m \in Int, z \in Int :
            x = HandleHolds(handle[c]) /\ m = Len(k.names) /\ z = k.cap
      BY <1>1
    <3>2. b = (x + m + z + 1) + (2 - z) BY <1>1, <2>4, <3>1
    <3>3. Len(q.names) = m + 1 /\ q.cap = 1 BY <2>1, <2>2, <3>1
    <3>4. (x + m + z + 1) + (2 - z) = x + (m + 1) + 1 + 1 OBVIOUS
    <3> QED BY <3>1, <3>2, <3>3, <3>4
  <2> QED BY <2>2, <2>5, <2>6, ListingMoves DEF Does
<1>3. CASE Goto(c, Faulted(k)) /\ UNCHANGED <<blocks, fds>>
  <2> DEFINE q == Faulted(k)
  <2>1. q \in Calls /\ SameBut(k, q) /\ q.pc = "list" /\ Goto(c, q) BY <1>3, AfterFault
  <2> HIDE DEF q
  <2>2. Becomes(c, q, handle[c], blocks[c], fds[c]) BY <1>3, <2>1, HoldsSame DEF Core
  <2> QED BY <1>1, <2>1, <2>2, ListingMoves DEF SameBut, Does
<1>4. CASE Hold(c, 1 - k.cap, 0) /\ Goto(c, Faulted([k EXCEPT !.cap = 1]))
  <2> DEFINE z == [k EXCEPT !.cap = 1]  q == Faulted(z)
  <2>1. /\ z \in Calls /\ z.pc = "list" /\ z.op = "list" /\ z.cap = 1 /\ z.names = k.names
        /\ z.stack = k.stack
    BY DEF Calls
  <2>2. Goto(c, q) BY <1>4
  <2> HIDE DEF z
  <2>3. q \in Calls /\ SameBut(z, q) /\ q.pc = "list" BY <2>1, AfterFault
  <2> HIDE DEF q
  <2>4. PICK b : b = blocks[c] + (1 - k.cap) OBVIOUS
  <2>8. 1 - k.cap \in Int BY <1>1
  <2>5. Becomes(c, q, handle[c], b, fds[c]) BY <1>4, <2>2, <2>4, <2>8, HoldsMore
  <2>6. q.cap = 1 /\ q.names = k.names /\ Len(q.stack) = 1 /\ q.op = "list"
    BY <2>1, <2>3 DEF SameBut
  <2>7. b = HandleHolds(handle[c]) + Len(q.names) + q.cap + 1 BY <1>1, <2>4, <2>6
  <2> QED BY <2>3, <2>5, <2>6, <2>7, ListingMoves DEF Does
<1> QED BY <1>2, <1>3, <1>4 DEF fs_listing_add

\* A success keeps being one.
LEMMA SuccessOk ==
  ASSUME NEW k \in Calls, NEW r, r = Return(k, TRUE) \/ r = Return(Faulted(k), TRUE)
  PROVE  r.ok = TRUE
<1>1. CASE r = Return(k, TRUE) BY <1>1, Returned
<1>2. CASE r = Return(Faulted(k), TRUE)
  <2>1. Faulted(k) \in Calls BY AfterFault
  <2> QED BY <1>2, <2>1, Returned
<1> QED BY <1>1, <1>2

LEMMA ListNextStep ==
  ASSUME Core, NEW c \in Callers, ListNext(c)
  PROVE  Does(c, "list")
<1> DEFINE k == call[c]  f == Last(k.stack)  z == [k EXCEPT !.stack = <<>>]
<1>0. k.pc = "list" /\ UNCHANGED handle /\ UNCHANGED node BY DEF ListNext
<1>1. \/ Hold(c, 0, -1) /\ (Goto(c, Return(z, TRUE)) \/ Goto(c, Return(Faulted(z), TRUE)))
      \/ \E n \in NamesLeft(f) : fs_listing_add(c, [k EXCEPT !.stack = <<Saw(f, n)>>], n)
  BY DEF ListNext
<1>2. /\ k \in Calls /\ k.op = "list" /\ k.cap \in {0, 1} /\ f \in Frames
  BY <1>0, InListing
<1>3. CASE Hold(c, 0, -1) /\ (Goto(c, Return(z, TRUE)) \/ Goto(c, Return(Faulted(z), TRUE)))
  <2>0. <<>> \in Seq(Frames) OBVIOUS
  <2>1. z \in Calls /\ z.op = "list" /\ z.cap = k.cap /\ z.names = k.names
    <3> HIDE DEF k
    <3>1. PICK st \in Seq(Frames) : st = <<>> BY <2>0
    <3>2. z = [k EXCEPT !.stack = st] BY <3>1
    <3> QED BY <1>2, <3>2, Restacked
  <2>2. PICK r : Goto(c, r) /\ (r = Return(z, TRUE) \/ r = Return(Faulted(z), TRUE)) BY <1>3
  <2> HIDE DEF z
  <2>3. r \in Calls /\ r.pc = "done" /\ SameBut(z, r) BY <2>1, <2>2, RefusedResult
  <2>4. r.ok = TRUE BY <2>1, <2>2, SuccessOk
  <2>5. r.op = "list" /\ r.cap = k.cap /\ r.names = k.names BY <2>1, <2>3 DEF SameBut
  <2>6. /\ BlocksOf(r) = Len(k.names) + k.cap + 1 /\ FdsOf(r) = 0 /\ Shape(r)
    BY <2>3, <2>4, <2>5 DEF BlocksOf, FdsOf, Shape, fs_free_directory_listing
  <2>7. Becomes(c, r, handle[c], blocks[c] + 0, fds[c] + -1)
    BY <1>0, <1>3, <2>2 DEF Core, AllTidy, Goto, Hold, Becomes
  <2>8. k.cap \in Int BY <1>2
  <2>9. Tidy(r, handle[c], blocks[c] + 0, fds[c] + -1)
    <3>1. /\ handle[c] \in Files /\ (~handle[c].open => handle[c].ino = 0)
          /\ HandleHolds(handle[c]) \in Int /\ Len(k.names) \in Nat
          /\ blocks[c] = HandleHolds(handle[c]) + Len(k.names) + k.cap + 1
          /\ fds[c] = HandleHolds(handle[c]) + 1
      BY <1>0, InListing
    <3> HIDE DEF k
    <3>2. /\ blocks[c] + 0 = HandleHolds(handle[c]) + (Len(k.names) + k.cap + 1)
          /\ fds[c] + -1 = HandleHolds(handle[c]) + 0
      BY <2>8, <3>1
    <3> QED BY <2>3, <2>6, <3>1, <3>2 DEF Tidy
  <2> QED BY <1>0, <2>3, <2>5, <2>7, <2>9, SameDisk, OneMoved DEF Does
<1>4. ASSUME NEW n \in NamesLeft(f), fs_listing_add(c, [k EXCEPT !.stack = <<Saw(f, n)>>], n)
      PROVE  Does(c, "list")
  <2>1. n \in Names BY <1>2 DEF NamesLeft, Frames
  <2>2. PICK st \in Seq(Frames) : st = <<Saw(f, n)>> /\ Len(st) = 1
    BY <1>2, <2>1, SawType, OneFrame
  <2> DEFINE q == [k EXCEPT !.stack = st]
  <2>3. /\ q \in Calls /\ q.stack = st /\ q.op = k.op /\ q.pc = k.pc /\ q.cap = k.cap
        /\ q.names = k.names
    BY <1>2, Restacked
  <2>4. fs_listing_add(c, q, n) BY <1>4, <2>2
  <2> HIDE DEF q
  <2> QED BY <1>0, <1>2, <2>1, <2>2, <2>3, <2>4, AddStep
<1> QED BY <1>1, <1>3, <1>4

-----------------------------------------------------------------------------
(* Removals: a stack of frames.                                            *)

\* The stack without its top, and with another top.
LEMMA StackTop ==
  ASSUME NEW st \in Seq(Frames), NEW m \in Nat, m = Len(st), m > 0
  PROVE  /\ Last(st) = st[m] /\ st[m] \in Frames
         /\ Front(st) \in Seq(Frames) /\ Len(Front(st)) = m - 1
         /\ \A j \in 1 .. m - 1 : Front(st)[j] = st[j]
<1>1. st # <<>> OBVIOUS
<1> QED BY <1>1, FrontOf DEF Last

LEMMA NewTop ==
  ASSUME NEW st \in Seq(Frames), NEW m \in Nat, m = Len(st), m > 0, NEW f \in Frames
  PROVE  /\ Append(Front(st), f) \in Seq(Frames) /\ Len(Append(Front(st), f)) = m
         /\ Append(Front(st), f)[m] = f
         /\ \A j \in 1 .. m - 1 : Append(Front(st), f)[j] = st[j]
<1>1. PICK t \in Seq(Frames) :
        t = Front(st) /\ Len(t) = m - 1 /\ \A j \in 1 .. m - 1 : t[j] = st[j]
  BY StackTop
<1>2. /\ Append(t, f) \in Seq(Frames) /\ Len(Append(t, f)) = m /\ Append(t, f)[m] = f
      /\ \A j \in 1 .. m - 1 : Append(t, f)[j] = t[j]
  BY <1>1, AppendProperties
<1> QED BY <1>1, <1>2

\* The same walk, with m frames of which only the top may not be reading.
Walks(q, m) ==
  /\ q \in Calls /\ q.pc = "remove" /\ q.op = "remove"
  /\ m \in Nat \ {0} /\ Len(q.stack) = m
  /\ \A j \in 1 .. m - 1 : q.stack[j].at = "readdir"

LEMMA TopIs ==
  ASSUME NEW k, NEW m, Walks(k, m), NEW f \in Frames
  PROVE  Walks(Top(k, f), m) /\ Top(k, f).stack[m] = f
<1>1. k.stack \in Seq(Frames) /\ m \in Nat /\ m > 0 /\ k \in Calls /\ Len(k.stack) = m
  BY DEF Calls, Walks
<1>2. PICK st \in Seq(Frames) :
        /\ st = Append(Front(k.stack), f) /\ Len(st) = m /\ st[m] = f
        /\ \A j \in 1 .. m - 1 : st[j] = k.stack[j]
  BY <1>1, NewTop
<1>3. PICK q : q = [k EXCEPT !.stack = st] OBVIOUS
<1>4. q = Top(k, f) BY <1>2, <1>3 DEF Top
<1>5. q \in Calls /\ q.stack = st /\ q.pc = k.pc /\ q.op = k.op BY <1>1, <1>3, Restacked
<1> QED BY <1>2, <1>4, <1>5 DEF Walks

LEMMA FaultedWalks ==
  ASSUME NEW k, NEW m, Walks(k, m)
  PROVE  Walks(Faulted(k), m) /\ Faulted(k).stack = k.stack
<1>1. k \in Calls BY DEF Walks
<1>2. Faulted(k) \in Calls /\ SameBut(k, Faulted(k)) /\ Faulted(k).pc = k.pc
  BY <1>1, AfterFault
<1> QED BY <1>2 DEF Walks, SameBut

\* What a removal holds while it walks: the path of every frame but the first,
\* the stream of every frame that is reading.
LEMMA InRemoval ==
  ASSUME Core, NEW c \in Callers, call[c].pc = "remove"
  PROVE  \E m \in Nat \ {0} :
           /\ Walks(call[c], m) /\ Last(call[c].stack) = call[c].stack[m]
           /\ call[c].stack[m] \in Frames
           /\ blocks[c] = HandleHolds(handle[c]) + (m - 1)
           /\ fds[c] = HandleHolds(handle[c]) + (m - 1)
                        + (IF call[c].stack[m].at = "readdir" THEN 1 ELSE 0)
<1>1. Tidy(call[c], handle[c], blocks[c], fds[c]) BY DEF Core, AllTidy
<1>2. /\ call[c] \in Calls /\ call[c].op = "remove" /\ Len(call[c].stack) > 0
      /\ \A j \in 1 .. Len(call[c].stack) - 1 : call[c].stack[j].at = "readdir"
  BY <1>1 DEF Tidy, Shape
<1>3. call[c].stack \in Seq(Frames) BY <1>2 DEF Calls
<1>4. PICK m \in Nat \ {0} : m = Len(call[c].stack) BY <1>2, <1>3
<1>5. Walks(call[c], m) BY <1>2, <1>4 DEF Walks
<1>6. Last(call[c].stack) = call[c].stack[m] /\ call[c].stack[m] \in Frames
  BY <1>3, <1>4, StackTop
<1>7. /\ BlocksOf(call[c]) = m - 1
      /\ FdsOf(call[c]) = m - 1 + (IF call[c].stack[m].at = "readdir" THEN 1 ELSE 0)
  BY <1>4 DEF BlocksOf, FdsOf
<1>8. HandleHolds(handle[c]) \in Int BY DEF HandleHolds
<1> QED BY <1>1, <1>5, <1>6, <1>7, <1>8 DEF Tidy

LEMMA WalkMoves ==
  ASSUME Core, NEW c \in Callers, DiskKept, NEW q, NEW m, Walks(q, m), NEW b, NEW f,
         b = HandleHolds(handle[c]) + (m - 1),
         f = HandleHolds(handle[c]) + (m - 1)
               + (IF q.stack[m].at = "readdir" THEN 1 ELSE 0),
         Becomes(c, q, handle[c], b, f)
  PROVE  Does(c, "remove") /\ call'[c] = q
<1>1. /\ q \in Calls /\ q.pc = "remove" /\ q.op = "remove" /\ Len(q.stack) = m
      /\ m \in Nat \ {0}
  BY DEF Walks
<1>2. Shape(q) BY <1>1 DEF Walks, Shape
<1>3. /\ BlocksOf(q) = m - 1
      /\ FdsOf(q) = m - 1 + (IF q.stack[m].at = "readdir" THEN 1 ELSE 0)
  BY <1>1 DEF BlocksOf, FdsOf
<1>4. HandleHolds(handle[c]) \in Int BY DEF HandleHolds
<1>5. Tidy(q, handle[c], b, f)
  <2>1. handle[c] \in Files /\ (~handle[c].open => handle[c].ino = 0)
    BY DEF Core, AllTidy, Tidy
  <2>2. b = HandleHolds(handle[c]) + BlocksOf(q) BY <1>1, <1>3, <1>4
  <2>3. f = HandleHolds(handle[c]) + FdsOf(q) BY <1>1, <1>3, <1>4
  <2> QED BY <1>1, <1>2, <2>1, <2>2, <2>3 DEF Tidy
<1>6. Orderly(c) /\ call'[c] = q BY <1>1, <1>5, OneMoved
<1> QED BY <1>1, <1>6 DEF Does

LEMMA LeaveStep ==
  ASSUME Core, NEW c \in Callers, call[c].pc = "remove", DiskKept, UNCHANGED handle,
         NEW k, NEW m, Walks(k, m), k.stack[m].at # "readdir",
         blocks[c] = HandleHolds(handle[c]) + (m - 1), fds[c] = HandleHolds(handle[c]) + (m - 1),
         Leave(c, k, TRUE) \/ Leave(c, k, FALSE)
  PROVE  Does(c, "remove")
<1>1. k \in Calls /\ m \in Nat \ {0} /\ Len(k.stack) = m /\ k.op = "remove" BY DEF Walks
<1>2. k.stack \in Seq(Frames) BY <1>1 DEF Calls
<1>3. HandleHolds(handle[c]) \in Int BY DEF HandleHolds
<1>4. CASE m = 1
  <2> DEFINE z == [k EXCEPT !.stack = <<>>]
  <2>1. UNCHANGED <<blocks, fds>> /\ (Goto(c, Return(z, TRUE)) \/ Goto(c, Return(z, FALSE)))
    BY <1>1, <1>4 DEF Leave
  <2>2. z \in Calls /\ z.op = "remove"
    <3>0. <<>> \in Seq(Frames) OBVIOUS
    <3>1. PICK st \in Seq(Frames) : st = <<>> BY <3>0
    <3>2. z = [k EXCEPT !.stack = st] BY <3>1
    <3> QED BY <1>1, <3>2, Restacked
  <2> HIDE DEF z
  <2>3. PICK r : Goto(c, r) /\ (r = Return(z, TRUE) \/ r = Return(z, FALSE)) BY <2>1
  <2>4. r \in Calls /\ r.pc = "done" /\ r.op = "remove"
    <3>1. r \in Calls /\ r.pc = "done" /\ SameBut(z, r) BY <2>2, <2>3, RefusedResult
    <3> QED BY <2>2, <3>1 DEF SameBut
  <2>5. BlocksOf(r) = 0 /\ FdsOf(r) = 0 /\ Shape(r)
    <3>1. BlocksOf(r) = 0 BY <2>4 DEF BlocksOf
    <3>2. FdsOf(r) = 0 BY <2>4 DEF FdsOf
    <3>3. Shape(r) BY <2>4 DEF Shape
    <3> QED BY <3>1, <3>2, <3>3
  <2>6. Becomes(c, r, handle[c], blocks[c], fds[c]) BY <2>1, <2>3, HoldsSame DEF Core
  <2>7. handle[c] \in Files /\ (~handle[c].open => handle[c].ino = 0)
    BY DEF Core, AllTidy, Tidy
  <2>8. blocks[c] = HandleHolds(handle[c]) + 0 /\ fds[c] = HandleHolds(handle[c]) + 0 BY <1>3, <1>4
  <2>9. Tidy(r, handle[c], blocks[c], fds[c]) BY <2>4, <2>5, <2>7, <2>8 DEF Tidy
  <2> QED BY <2>4, <2>6, <2>9, OneMoved DEF Does
<1>5. CASE m # 1
  <2>1. Goto(c, [k EXCEPT !.stack = Front(@)]) /\ Hold(c, -1, 0) BY <1>1, <1>5 DEF Leave
  <2>2. PICK st \in Seq(Frames) : /\ st = Front(k.stack) /\ Len(st) = m - 1
                                  /\ \A j \in 1 .. m - 1 : st[j] = k.stack[j]
    BY <1>1, <1>2, StackTop
  <2> DEFINE q == [k EXCEPT !.stack = st]
  <2>3. q \in Calls /\ q.stack = st /\ q.pc = k.pc /\ q.op = k.op BY <1>1, Restacked
  <2>4. Goto(c, q) BY <2>1, <2>2
  <2> HIDE DEF q
  <2>5. PICK l \in Nat \ {0} : l = m - 1 /\ l \in 1 .. m - 1 BY <1>1, <1>5
  <2>6. Walks(q, l) /\ q.stack[l].at = "readdir" 
    <3>1. \A j \in 1 .. m - 1 : st[j].at = "readdir" BY <2>2 DEF Walks
    <3>2. \A j \in 1 .. l - 1 : j \in 1 .. m - 1 BY <1>1, <2>5
    <3>3. k.pc = "remove" /\ k.op = "remove" BY DEF Walks
    <3> QED BY <2>2, <2>3, <2>5, <3>1, <3>2, <3>3 DEF Walks
  <2>7. PICK b : b = blocks[c] + -1 OBVIOUS
  <2>8. -1 \in Int OBVIOUS
  <2>9. Becomes(c, q, handle[c], b, fds[c]) BY <2>1, <2>4, <2>7, <2>8, HoldsMore
  <2>10. b = HandleHolds(handle[c]) + (l - 1) /\ fds[c] = HandleHolds(handle[c]) + (l - 1) + 1
    BY <1>1, <1>3, <2>5, <2>7
  <2> QED BY <2>6, <2>9, <2>10, WalkMoves
<1> QED BY <1>4, <1>5

LEMMA FrameForType ==
  ASSUME NEW path \in Seq(Names)
  PROVE  FrameFor(path) \in Frames /\ FrameFor(path).at # "readdir" /\ FrameFor(path).path = path
BY FrameType DEF FrameFor

LEMMA RemovePathStep ==
  ASSUME Core, NEW c \in Callers, NEW path \in ArgPaths, RemovePath(c, path)
  PROVE  Does(c, "remove")
<1> DEFINE k == Begin("remove", path, <<>>)  f == FrameFor(path)
<1>1. call[c].pc = "idle" /\ UNCHANGED handle BY DEF RemovePath, CanCall
<1>2. Started(k, "remove", path, <<>>) BY ArgTypes, BegunPlain
<1>3. f \in Frames /\ f.at # "readdir" BY ArgTypes, FrameForType
<1>4. \/ /\ UNCHANGED <<node, blocks, fds>>
         /\ Goto(c, [k EXCEPT !.pc = "remove", !.stack = <<f>>])
      \/ /\ Goto(c, Return(k, FALSE)) \/ Goto(c, Return(Faulted(k), FALSE))
         /\ UNCHANGED <<node, blocks, fds>>
  BY DEF RemovePath, Refused
<1> HIDE DEF k, f
<1>5. CASE /\ UNCHANGED <<node, blocks, fds>>
           /\ Goto(c, [k EXCEPT !.pc = "remove", !.stack = <<f>>])
  <2> DEFINE q == [k EXCEPT !.pc = "remove", !.stack = <<f>>]
  <2>0. PICK st \in Seq(Frames) : st = <<f>> /\ Len(st) = 1 /\ st[1] = f BY <1>3, OneFrame
  <2>1. q \in Calls /\ q.op = "remove" /\ q.pc = "remove" /\ q.stack = st
    BY <1>2, <2>0 DEF Started, Calls
  <2>2. Goto(c, q) BY <1>5
  <2> HIDE DEF q
  <2>3. Becomes(c, q, handle[c], blocks[c], fds[c]) BY <1>1, <1>5, <2>2, HoldsSame DEF Core
  <2>4. Walks(q, 1) /\ q.stack[1].at # "readdir" BY <1>3, <2>0, <2>1 DEF Walks
  <2>5. /\ blocks[c] = HandleHolds(handle[c]) + (1 - 1)
        /\ fds[c] = HandleHolds(handle[c]) + (1 - 1) + 0
    BY <1>1, BetweenCalls
  <2> QED BY <1>5, <2>3, <2>4, <2>5, SameDisk, WalkMoves
<1>6. CASE /\ Goto(c, Return(k, FALSE)) \/ Goto(c, Return(Faulted(k), FALSE))
           /\ UNCHANGED <<node, blocks, fds>>
  <2>1. PICK r : Goto(c, r) /\ (r = Return(k, FALSE) \/ r = Return(Faulted(k), FALSE)) BY <1>6
  <2>2. r \in Calls /\ r.pc = "done" /\ r.cap = 0 /\ r.op = "remove"
    BY <1>2, <2>1, RefusedResult DEF SameBut, Started
  <2> QED BY <1>1, <1>6, <2>1, <2>2, EndsAtOnce DEF Does
<1> QED BY <1>4, <1>5, <1>6

\* The frame with another program counter.
LEMMA AtType ==
  ASSUME NEW f \in Frames, NEW g, g = [f EXCEPT !.at = "rmdir"]
  PROVE  g \in Frames /\ g.at = "rmdir" /\ g.path = f.path
BY DEF Frames

LEMMA RemoveOpenStep ==
  ASSUME Core, NEW c \in Callers, RemoveOpen(c)
  PROVE  Does(c, "remove")
<1> DEFINE k == call[c]  f == Last(k.stack)  g == [f EXCEPT !.at = "rmdir"]
           o == Opened(f, Stat(f.path))
<1>0. /\ k.pc = "remove" /\ f.at = "opendir" /\ UNCHANGED handle /\ UNCHANGED node
  BY DEF RemoveOpen, Walking
<1>1. \/ Hold(c, 0, 1) /\ Goto(c, Top(k, o))
      \/ /\ Goto(c, Top(k, g)) \/ Goto(c, Top(Faulted(k), g))
         /\ UNCHANGED <<blocks, fds>>
      \/ Leave(c, Faulted(k), FALSE)
  BY DEF RemoveOpen
<1>2. PICK m \in Nat \ {0} :
        /\ Walks(k, m) /\ f = k.stack[m] /\ f \in Frames
        /\ blocks[c] = HandleHolds(handle[c]) + (m - 1)
        /\ fds[c] = HandleHolds(handle[c]) + (m - 1) + (IF k.stack[m].at = "readdir" THEN 1 ELSE 0)
  BY <1>0, InRemoval
<1>3. fds[c] = HandleHolds(handle[c]) + (m - 1)
  <2>1. HandleHolds(handle[c]) \in Int BY DEF HandleHolds
  <2> QED BY <1>0, <1>2, <2>1
<1>4. g \in Frames /\ g.at = "rmdir" BY <1>2, AtType
<1>5. o \in Frames /\ o.at = "readdir"
  <2>1. f.path \in Seq(Names) BY <1>2 DEF Frames
  <2>2. Stat(f.path) \in Inodes \cup {0} BY <2>1, StatType DEF Core, Stat
  <2> QED BY <1>2, <2>2, OpenedType
<1>6. DiskKept BY <1>0, SameDisk
<1>7. HandleHolds(handle[c]) \in Int BY DEF HandleHolds
<1> HIDE DEF f, g, o
<1>8. CASE Hold(c, 0, 1) /\ Goto(c, Top(k, o))
  <2> DEFINE q == Top(k, o)
  <2>1. Walks(q, m) /\ q.stack[m] = o /\ Goto(c, q) BY <1>2, <1>5, <1>8, TopIs
  <2> HIDE DEF q, k
  <2>2. Becomes(c, q, handle[c], blocks[c] + 0, fds[c] + 1)
    BY <1>0, <1>8, <2>1 DEF Core, AllTidy, Goto, Hold, Becomes
  <2>3. /\ blocks[c] + 0 = HandleHolds(handle[c]) + (m - 1)
        /\ fds[c] + 1 = HandleHolds(handle[c]) + (m - 1) + 1
    BY <1>2, <1>3, <1>7
  <2> QED BY <1>5, <1>6, <2>1, <2>2, <2>3, WalkMoves
<1>9. CASE /\ Goto(c, Top(k, g)) \/ Goto(c, Top(Faulted(k), g))
           /\ UNCHANGED <<blocks, fds>>
  <2>1. PICK w : Walks(w, m) /\ Goto(c, Top(w, g)) BY <1>2, <1>9, FaultedWalks
  <2> DEFINE q == Top(w, g)
  <2>2. Walks(q, m) /\ q.stack[m] = g /\ Goto(c, q) BY <1>4, <2>1, TopIs
  <2> HIDE DEF q, k
  <2>3. Becomes(c, q, handle[c], blocks[c], fds[c]) BY <1>0, <1>9, <2>2, HoldsSame DEF Core
  <2>4. fds[c] = HandleHolds(handle[c]) + (m - 1) + 0 BY <1>2, <1>3, <1>7
  <2> QED BY <1>2, <1>4, <1>6, <2>2, <2>3, <2>4, WalkMoves
<1>10. CASE Leave(c, Faulted(k), FALSE)
  <2> DEFINE w == Faulted(k)
  <2>1. Walks(w, m) /\ w.stack[m].at # "readdir" BY <1>0, <1>2, FaultedWalks
  <2>2. Leave(c, w, FALSE) BY <1>10
  <2> HIDE DEF w
  <2> QED BY <1>0, <1>2, <1>3, <1>6, <2>1, <2>2, LeaveStep
<1> QED BY <1>1, <1>8, <1>9, <1>10

\* A walk with one more frame on top of a reading one.
Push(k, f) == [k EXCEPT !.stack = Append(@, f)]

LEMMA Pushed ==
  ASSUME NEW k, NEW m, Walks(k, m), k.stack[m].at = "readdir", NEW f \in Frames
  PROVE  Walks(Push(k, f), m + 1) /\ Push(k, f).stack[m + 1] = f
<1>1. /\ k \in Calls /\ m \in Nat \ {0} /\ Len(k.stack) = m
      /\ \A j \in 1 .. m - 1 : k.stack[j].at = "readdir"
  BY DEF Walks
<1>2. k.stack \in Seq(Frames) BY <1>1 DEF Calls
<1>3. /\ Append(k.stack, f) \in Seq(Frames) /\ Len(Append(k.stack, f)) = m + 1
      /\ Append(k.stack, f)[m + 1] = f
      /\ \A j \in 1 .. m : Append(k.stack, f)[j] = k.stack[j]
  BY <1>1, <1>2, AppendProperties
<1>4. PICK st \in Seq(Frames) :
        /\ st = Append(k.stack, f) /\ Len(st) = m + 1 /\ st[m + 1] = f
        /\ \A j \in 1 .. m : st[j] = k.stack[j]
  BY <1>3
<1>0. PICK q : q = [k EXCEPT !.stack = st] OBVIOUS
<1>5. q = Push(k, f) BY <1>0, <1>4 DEF Push
<1>6. q \in Calls /\ q.stack = st /\ q.pc = k.pc /\ q.op = k.op BY <1>0, <1>1, Restacked
<1>7. \A j \in 1 .. (m + 1) - 1 : st[j].at = "readdir"
  <2> SUFFICES ASSUME NEW j \in 1 .. (m + 1) - 1 PROVE st[j].at = "readdir" OBVIOUS
  <2>1. j \in 1 .. m /\ (j = m \/ j \in 1 .. m - 1) BY <1>1
  <2> QED BY <1>1, <1>4, <2>1
<1>8. m + 1 \in Nat \ {0} BY <1>1
<1>9. k.pc = "remove" /\ k.op = "remove" BY DEF Walks
<1> QED BY <1>4, <1>5, <1>6, <1>7, <1>8, <1>9 DEF Walks

LEMMA RemoveNextStep ==
  ASSUME Core, NEW c \in Callers, RemoveNext(c)
  PROVE  Does(c, "remove")
<1> DEFINE k == call[c]  f == Last(k.stack)  g == [f EXCEPT !.at = "rmdir"]
           Rest(n) == Top(k, Saw(f, n))
<1>0. /\ k.pc = "remove" /\ f.at = "readdir" /\ UNCHANGED handle /\ UNCHANGED node
  BY DEF RemoveNext, Walking
<1>1. \/ Hold(c, 0, -1) /\ (Goto(c, Top(k, g)) \/ Goto(c, Top(Faulted(k), g)))
      \/ \E n \in NamesLeft(f) :
           \/ /\ Hold(c, 1, 0)
              /\ Goto(c, [Rest(n) EXCEPT !.stack = Append(@, FrameFor(Append(f.path, n)))])
           \/ (Goto(c, Rest(n)) \/ Goto(c, Faulted(Rest(n)))) /\ UNCHANGED <<blocks, fds>>
  BY DEF RemoveNext
<1>2. PICK m \in Nat \ {0} :
        /\ Walks(k, m) /\ f = k.stack[m] /\ f \in Frames
        /\ blocks[c] = HandleHolds(handle[c]) + (m - 1)
        /\ fds[c] = HandleHolds(handle[c]) + (m - 1) + (IF k.stack[m].at = "readdir" THEN 1 ELSE 0)
  BY <1>0, InRemoval
<1>3. fds[c] = HandleHolds(handle[c]) + (m - 1) + 1 BY <1>0, <1>2
<1>4. g \in Frames /\ g.at = "rmdir" BY <1>2, AtType
<1>6. DiskKept BY <1>0, SameDisk
<1>7. HandleHolds(handle[c]) \in Int BY DEF HandleHolds
<1> HIDE DEF f, g
<1>8. CASE Hold(c, 0, -1) /\ (Goto(c, Top(k, g)) \/ Goto(c, Top(Faulted(k), g)))
  <2>1. PICK w : Walks(w, m) /\ Goto(c, Top(w, g)) BY <1>2, <1>8, FaultedWalks
  <2> DEFINE q == Top(w, g)
  <2>2. Walks(q, m) /\ q.stack[m] = g /\ Goto(c, q) BY <1>4, <2>1, TopIs
  <2> HIDE DEF q, k
  <2>3. Becomes(c, q, handle[c], blocks[c] + 0, fds[c] + -1)
    BY <1>0, <1>8, <2>2 DEF Core, AllTidy, Goto, Hold, Becomes
  <2>4. /\ blocks[c] + 0 = HandleHolds(handle[c]) + (m - 1)
        /\ fds[c] + -1 = HandleHolds(handle[c]) + (m - 1) + 0
    BY <1>2, <1>3, <1>7
  <2> QED BY <1>4, <1>6, <2>2, <2>3, <2>4, WalkMoves
<1>9. ASSUME NEW n \in NamesLeft(f)
      PROVE  /\ n \in Names /\ Walks(Rest(n), m) /\ Rest(n).stack[m].at = "readdir"
             /\ FrameFor(Append(f.path, n)) \in Frames
             /\ FrameFor(Append(f.path, n)).at # "readdir"
  <2>1. n \in Names /\ f.path \in Seq(Names) BY <1>2 DEF NamesLeft, Frames
  <2>2. Saw(f, n) \in Frames /\ Saw(f, n).at = "readdir" BY <1>0, <1>2, <2>1, SawType DEF f
  <2>3. Append(f.path, n) \in Seq(Names) BY <2>1
  <2>4. Walks(Rest(n), m) /\ Rest(n).stack[m] = Saw(f, n) BY <1>2, <2>2, TopIs
  <2>5. PICK p \in Seq(Names) : p = Append(f.path, n) BY <2>3
  <2>6. FrameFor(p) \in Frames /\ FrameFor(p).at # "readdir" BY FrameForType
  <2> HIDE DEF Rest
  <2> QED BY <2>1, <2>2, <2>4, <2>5, <2>6
<1> HIDE DEF Rest
<1>10. ASSUME NEW n \in NamesLeft(f), Hold(c, 1, 0),
              Goto(c, [Rest(n) EXCEPT !.stack = Append(@, FrameFor(Append(f.path, n)))])
       PROVE  Does(c, "remove")
  <2>1. PICK w : \E h \in Frames :
          /\ w = Rest(n) /\ h = FrameFor(Append(f.path, n))
          /\ Walks(w, m) /\ w.stack[m].at = "readdir" /\ h.at # "readdir"
    BY <1>9
  <2>8. PICK h \in Frames :
          /\ w = Rest(n) /\ h = FrameFor(Append(f.path, n))
          /\ Walks(w, m) /\ w.stack[m].at = "readdir" /\ h.at # "readdir"
    BY <2>1
  <2> DEFINE q == Push(w, h)
  <2>3. Goto(c, q) BY <1>10, <2>8 DEF Push
  <2>4. Walks(q, m + 1) /\ q.stack[m + 1] = h BY <2>8, Pushed
  <2> HIDE DEF q
  <2> HIDE DEF k
  <2>7. 1 \in Int OBVIOUS
  <2>5. Becomes(c, q, handle[c], blocks[c] + 1, fds[c]) BY <1>0, <1>10, <2>3, <2>7, HoldsMore
  <2>6. /\ blocks[c] + 1 = HandleHolds(handle[c]) + ((m + 1) - 1)
        /\ fds[c] = HandleHolds(handle[c]) + ((m + 1) - 1) + 0
    BY <1>2, <1>3, <1>7
  <2> QED BY <1>6, <2>4, <2>5, <2>6, <2>8, WalkMoves
<1>11. ASSUME NEW n \in NamesLeft(f), Goto(c, Rest(n)) \/ Goto(c, Faulted(Rest(n))),
              UNCHANGED <<blocks, fds>>
       PROVE  Does(c, "remove")
  <2>1. Walks(Rest(n), m) /\ Rest(n).stack[m].at = "readdir" BY <1>9
  <2>2. PICK q : Goto(c, q) /\ Walks(q, m) /\ q.stack[m].at = "readdir"
    BY <1>11, <2>1, FaultedWalks
  <2> HIDE DEF k
  <2>3. Becomes(c, q, handle[c], blocks[c], fds[c]) BY <1>0, <1>11, <2>2, HoldsSame DEF Core
  <2> QED BY <1>2, <1>3, <1>6, <2>2, <2>3, WalkMoves
<1> QED BY <1>1, <1>8, <1>10, <1>11

\* unlink and rmdir: the entry is cleared, or the frame just returns.
LEMMA RemoveEntryStep ==
  ASSUME Core, NEW c \in Callers, NEW k, NEW p, k = call[c], p = Last(k.stack).path,
         k.pc = "remove", Last(k.stack).at # "readdir", UNCHANGED handle,
         \/ /\ Leave(c, k, TRUE) /\ LStat(p) # 0
            /\ node' = SetEntry(node, ParentOf(p), Last(p), 0)
         \/ (Leave(c, k, FALSE) \/ Leave(c, Faulted(k), FALSE)) /\ UNCHANGED node
  PROVE  Does(c, "remove")
<1>2. PICK m \in Nat \ {0} :
        /\ Walks(k, m) /\ Last(k.stack) = k.stack[m] /\ k.stack[m] \in Frames
        /\ blocks[c] = HandleHolds(handle[c]) + (m - 1)
        /\ fds[c] = HandleHolds(handle[c]) + (m - 1) + (IF k.stack[m].at = "readdir" THEN 1 ELSE 0)
  BY InRemoval
<1>3. fds[c] = HandleHolds(handle[c]) + (m - 1)
  <2>1. HandleHolds(handle[c]) \in Int BY DEF HandleHolds
  <2> QED BY <1>2, <2>1
<1>4. p \in Seq(Names) BY <1>2 DEF Frames
<1>5. k.stack[m].at # "readdir" BY <1>2
<1>6. CASE Leave(c, k, TRUE) /\ LStat(p) # 0 /\ node' = SetEntry(node, ParentOf(p), Last(p), 0)
  <2>1. PICK d \in Inodes, n \in Names :
          d = ParentOf(p) /\ n = Last(p) /\ node[d].kind = "dir"
    BY <1>4, <1>6, ParentIsDir
  <2>2. 0 \in Inodes \cup {0} OBVIOUS
  <2>3. node' = SetEntry(node, d, n, 0) BY <1>6, <2>1
  <2>4. DiskKept BY <2>1, <2>2, <2>3, EntryChanged
  <2> QED BY <1>2, <1>3, <1>5, <1>6, <2>4, LeaveStep
<1>7. CASE (Leave(c, k, FALSE) \/ Leave(c, Faulted(k), FALSE)) /\ UNCHANGED node
  <2>1. PICK w : Leave(c, w, FALSE) /\ Walks(w, m) /\ w.stack[m].at # "readdir"
    BY <1>2, <1>5, <1>7, FaultedWalks
  <2>2. DiskKept BY <1>7, SameDisk
  <2> QED BY <1>2, <1>3, <2>1, <2>2, LeaveStep
<1> QED BY <1>6, <1>7

LEMMA RemoveLeafStep ==
  ASSUME Core, NEW c \in Callers, RemoveLeaf(c)
  PROVE  Does(c, "remove")
<1>1. PICK k, p : k = call[c] /\ p = Last(k.stack).path OBVIOUS
<1>2. /\ k.pc = "remove" /\ Last(k.stack).at # "readdir" /\ UNCHANGED handle
  BY <1>1 DEF RemoveLeaf, RemoveEntry, Walking
<1>3. \/ /\ Leave(c, k, TRUE) /\ LStat(p) # 0
         /\ node' = SetEntry(node, ParentOf(p), Last(p), 0)
      \/ (Leave(c, k, FALSE) \/ Leave(c, Faulted(k), FALSE)) /\ UNCHANGED node
  BY <1>1 DEF RemoveLeaf, RemoveEntry
<1> QED BY <1>1, <1>2, <1>3, RemoveEntryStep

LEMMA RemoveDirStep ==
  ASSUME Core, NEW c \in Callers, RemoveDir(c)
  PROVE  Does(c, "remove")
<1>1. PICK k, p : k = call[c] /\ p = Last(k.stack).path OBVIOUS
<1>2. /\ k.pc = "remove" /\ Last(k.stack).at # "readdir" /\ UNCHANGED handle
  BY <1>1 DEF RemoveDir, RemoveEntry, Walking
<1>3. \/ /\ Leave(c, k, TRUE) /\ LStat(p) # 0
         /\ node' = SetEntry(node, ParentOf(p), Last(p), 0)
      \/ (Leave(c, k, FALSE) \/ Leave(c, Faulted(k), FALSE)) /\ UNCHANGED node
  BY <1>1 DEF RemoveDir, RemoveEntry, IsRemovable, IsEmptyDir, KindIs
<1> QED BY <1>1, <1>2, <1>3, RemoveEntryStep

-----------------------------------------------------------------------------
(* The end of a call, and the invariant.                                   *)

LEMMA ReleaseStep ==
  ASSUME Core, NEW c \in Callers, Release(c)
  PROVE  Orderly(c)
<1> DEFINE k == call[c]
           freed == CASE k.op \in {"read", "readAll"} -> -fs_free_buffer(k)
                      [] k.op = "list" -> -fs_free_directory_listing(k)
                      [] OTHER -> 0
<1>1. k.pc = "done" /\ UNCHANGED handle /\ UNCHANGED node /\ Goto(c, Idle) /\ Hold(c, freed, 0)
  BY DEF Release
<1>2. Tidy(k, handle[c], blocks[c], fds[c]) BY DEF Core, AllTidy
<1>3. k.cap \in Nat /\ Len(k.names) \in Nat /\ k \in Calls BY <1>2 DEF Tidy, Calls
<1>4. freed \in Int /\ BlocksOf(k) = -freed /\ FdsOf(k) = 0
  <2>1. fs_free_buffer(k) \in Int /\ fs_free_directory_listing(k) \in Int
    BY <1>3 DEF fs_free_buffer, fs_free_directory_listing
  <2>2. CASE k.op \in {"read", "readAll"} BY <1>1, <2>1, <2>2 DEF BlocksOf, FdsOf
  <2>3. CASE k.op = "list" BY <1>1, <2>1, <2>3 DEF BlocksOf, FdsOf
  <2>4. CASE k.op \notin {"read", "readAll", "list"} BY <1>1, <2>4 DEF BlocksOf, FdsOf
  <2> QED BY <2>2, <2>3, <2>4
<1>5. HandleHolds(handle[c]) \in Int BY DEF HandleHolds
<1> HIDE DEF freed
<1>6. PICK q \in Calls : q = Idle /\ q.pc = "idle" /\ q.op = "none" BY IdleType
<1>7. BlocksOf(q) = 0 /\ FdsOf(q) = 0 /\ Shape(q) BY <1>6 DEF BlocksOf, FdsOf, Shape
<1>8. Becomes(c, q, handle[c], blocks[c] + freed, fds[c])
  BY <1>1, <1>4, <1>6, HoldsMore
<1>9. blocks[c] + freed = HandleHolds(handle[c]) + 0 /\ fds[c] = HandleHolds(handle[c]) + 0
  BY <1>2, <1>4, <1>5 DEF Tidy
<1>10. Tidy(q, handle[c], blocks[c] + freed, fds[c]) BY <1>2, <1>7, <1>9 DEF Tidy
<1> QED BY <1>1, <1>6, <1>8, <1>10, SameDisk, OneMoved

LEMMA InitCore == Init => Core
<1> SUFFICES ASSUME Init PROVE Core OBVIOUS
<1>1. PICK w \in Worlds : windows = w.windows /\ node = w.disk BY DEF Init
<1>2. windows \in BOOLEAN /\ node \in Disks BY <1>1, DiskAssumption DEF Disks
<1>3. PICK q \in Calls : q = Idle /\ q.pc = "idle" /\ q.op = "none" BY IdleType
<1>4. BlocksOf(q) = 0 /\ FdsOf(q) = 0 /\ Shape(q) BY <1>3 DEF BlocksOf, FdsOf, Shape
<1>5. PICK h \in Files : h = NoFile /\ h.ino = 0
  <2>1. NoFile \in Files /\ NoFile.ino = 0 BY DEF NoFile, Files
  <2> QED BY <2>1
<1>6. Tidy(q, h, 0, 0)
  <2>1. HandleHolds(h) = 0 BY <1>5 DEF HandleHolds
  <2> QED BY <1>4, <1>5, <2>1 DEF Tidy
<1>7. /\ call = [c \in Callers |-> q] /\ handle = [c \in Callers |-> h]
      /\ blocks = [c \in Callers |-> 0] /\ fds = [c \in Callers |-> 0]
  BY <1>3, <1>5 DEF Init
<1>8. AllTidy BY <1>6, <1>7 DEF AllTidy
<1>9. WritesFiles BY <1>3, <1>7 DEF WritesFiles
<1> QED BY <1>2, <1>8, <1>9 DEF Core

LEMMA StartStep ==
  ASSUME Core, NEW c \in Callers, Start(c)
  PROVE  Orderly(c) /\ UNCHANGED windows
<1> USE DEF Does
<1>1. CASE \E p \in ArgPaths : OpenFile(c, p) BY <1>1, OpenFileStep DEF OpenFile
<1>2. CASE \E p \in ArgPaths : ReadFile(c, p) BY <1>2, ReadFileStep DEF ReadFile
<1>3. CASE \E p \in ArgPaths, r \in Ranges : ReadRange(c, p, r)
  BY <1>3, ReadRangeStep DEF ReadRange
<1>4. CASE \E p \in ArgPaths, b \in Contents : WriteFile(c, p, b)
  BY <1>4, WriteFileStep DEF WriteFile
<1>5. CASE \E p \in ArgPaths : MakeDirectory(c, p) BY <1>5, MakeDirectoryStep DEF MakeDirectory
<1>6. CASE \E p, q \in ArgPaths : RenamePath(c, p, q) BY <1>6, RenamePathStep DEF RenamePath
<1>7. CASE \E p \in ArgPaths : ListDirectory(c, p) BY <1>7, ListDirectoryStep DEF ListDirectory
<1>8. CASE \E p \in ArgPaths : RemovePath(c, p) BY <1>8, RemovePathStep DEF RemovePath
<1>9. CASE ReadAll(c) BY <1>9, ReadAllStep DEF ReadAll
<1>10. CASE CloseFile(c) BY <1>10, CloseFileStep DEF CloseFile
<1> QED BY <1>1, <1>2, <1>3, <1>4, <1>5, <1>6, <1>7, <1>8, <1>9, <1>10 DEF Start

LEMMA ContinueStep ==
  ASSUME Core, NEW c \in Callers, Continue(c)
  PROVE  Orderly(c) /\ UNCHANGED windows
<1> USE DEF Does
<1>1. CASE StatOpened(c) BY <1>1, StatOpenedStep DEF StatOpened
<1>2. CASE ReadChunk(c) BY <1>2, ReadChunkStep DEF ReadChunk
<1>3. CASE HandleSize(c) BY <1>3, HandleSizeStep DEF HandleSize
<1>4. CASE PreadChunk(c) BY <1>4, PreadChunkStep DEF PreadChunk
<1>5. CASE WriteChunk(c) BY <1>5, WriteChunkStep DEF WriteChunk
<1>6. CASE RecheckDirectory(c) BY <1>6, RecheckDirectoryStep DEF RecheckDirectory
<1>7. CASE ListNext(c) BY <1>7, ListNextStep DEF ListNext
<1>8. CASE RemoveOpen(c) BY <1>8, RemoveOpenStep DEF RemoveOpen
<1>9. CASE RemoveNext(c) BY <1>9, RemoveNextStep DEF RemoveNext
<1>10. CASE RemoveLeaf(c) BY <1>10, RemoveLeafStep DEF RemoveLeaf, RemoveEntry
<1>11. CASE RemoveDir(c) BY <1>11, RemoveDirStep DEF RemoveDir, RemoveEntry
<1> QED BY <1>1, <1>2, <1>3, <1>4, <1>5, <1>6, <1>7, <1>8, <1>9, <1>10, <1>11 DEF Continue

LEMMA NextCore == Core /\ [Next]_vars => Core'
<1> SUFFICES ASSUME Core, [Next]_vars PROVE Core' OBVIOUS
<1>1. ASSUME NEW c \in Callers, Start(c) \/ Continue(c) \/ Release(c) PROVE Core'
  <2>1. Orderly(c) /\ UNCHANGED windows
    BY <1>1, StartStep, ContinueStep, ReleaseStep DEF Release
  <2> QED BY <2>1, OrderlyKeepsCore
<1>2. CASE UNCHANGED vars
  BY <1>2 DEF vars, Core, AllTidy, WritesFiles
<1> QED BY <1>1, <1>2 DEF Next

\* At every system call of fs.c each caller holds exactly the blocks and
\* descriptors that its program point says, and the disk stays a disk: the
\* invariant that every action preserves (fs.c:66-571).
THEOREM Inductive == Spec => []Core
BY InitCore, NextCore, PTL DEF Spec

\* Whatever fails and whoever else changes the disk, every way out of every
\* fs.c function gives back exactly what it took (fs.c:66-571).
THEOREM NoLeaks == Spec => []NothingLeaks
<1>1. Core => NothingLeaks
  <2> SUFFICES ASSUME Core, NEW c \in Callers
      PROVE  /\ blocks[c] >= 0 /\ fds[c] >= 0
             /\ call[c].pc = "idle" /\ ~handle[c].open => blocks[c] = 0 /\ fds[c] = 0
    BY DEF NothingLeaks
  <2>1. Tidy(call[c], handle[c], blocks[c], fds[c]) BY DEF Core, AllTidy
  <2>2. HandleHolds(handle[c]) \in Nat BY DEF HandleHolds
  <2>3. PICK k : k = call[c] /\ k \in Calls /\ Shape(k) BY <2>1 DEF Tidy
  <2>4. k.cap \in Nat /\ Len(k.names) \in Nat /\ Len(k.stack) \in Nat BY <2>3 DEF Calls
  <2>5. k.pc = "remove" => Len(k.stack) > 0 BY <2>3 DEF Shape
  <2>6. BlocksOf(k) \in Nat
    BY <2>4, <2>5 DEF BlocksOf, fs_free_buffer, fs_free_directory_listing
  <2>7. FdsOf(k) \in Nat
    <3>1. CASE k.pc = "remove"
      <4>1. PICK x \in Nat : x = IF k.stack[Len(k.stack)].at = "readdir" THEN 1 ELSE 0
        OBVIOUS
      <4>2. FdsOf(k) = Len(k.stack) - 1 + x BY <3>1, <4>1 DEF FdsOf
      <4> QED BY <2>4, <2>5, <3>1, <4>2
    <3>2. CASE k.pc # "remove" BY <3>2 DEF FdsOf
    <3> QED BY <3>1, <3>2
  <2>8. blocks[c] >= 0 /\ fds[c] >= 0 BY <2>1, <2>2, <2>3, <2>6, <2>7 DEF Tidy
  <2>9. ASSUME call[c].pc = "idle", ~handle[c].open PROVE blocks[c] = 0 /\ fds[c] = 0
    BY <2>9, BetweenCalls DEF HandleHolds
  <2> QED BY <2>8, <2>9
<1> QED BY <1>1, Inductive, PTL

\* The read loop of fs.c:115-151 never fills the byte kept for the final NUL,
\* whatever happens to the file between fstat and read.
THEOREM Fits == Spec => []BufferFits
<1>1. Core => BufferFits BY DEF Core, AllTidy, Tidy, Shape, BufferFits
<1> QED BY <1>1, Inductive, PTL

-----------------------------------------------------------------------------
(* What a call saw: its history.                                           *)

\* The steps of each kind of call.
Steps(c) ==
  \/ /\ call'[c].op = "mkdir"
     /\ (\E p \in ArgPaths : MakeDirectory(c, p)) \/ RecheckDirectory(c)
  \/ /\ call'[c].op = "list"
     /\ (\E p \in ArgPaths : ListDirectory(c, p)) \/ ListNext(c)
  \/ /\ call'[c].op = "range"
     /\ (\E p \in ArgPaths, r \in Ranges : ReadRange(c, p, r)) \/ PreadChunk(c)
  \/ /\ call'[c].op = "read"
     /\ (\E p \in ArgPaths : ReadFile(c, p)) \/ StatOpened(c) \/ ReadChunk(c)
  \/ /\ call'[c].op = "write"
     /\ (\E p \in ArgPaths, b \in Contents : WriteFile(c, p, b)) \/ WriteChunk(c)
  \/ /\ call'[c].op = "readAll"
     /\ ReadAll(c) \/ ReadChunk(c) \/ HandleSize(c)
  \/ /\ call'[c].op = "remove"
     /\ \/ \E p \in ArgPaths : RemovePath(c, p)
        \/ RemoveOpen(c) \/ RemoveNext(c) \/ RemoveLeaf(c) \/ RemoveDir(c)
  \/ call'[c].op \in {"open", "rename"}

Moves(c) ==
  /\ Orderly(c) /\ Observe(c)
  /\ call[c].pc = "done" => call'[c].pc = "idle"
  /\ call[c].pc \notin {"idle", "done"} => call'[c].pc # "idle"
  /\ call'[c].pc # "idle" => Steps(c)

LEMMA StartMoves ==
  ASSUME Core, NEW c \in Callers, Start(c)
  PROVE  Moves(c)
<1> USE DEF Does, Moves, Steps
<1>1. CASE \E p \in ArgPaths : OpenFile(c, p) BY <1>1, OpenFileStep DEF OpenFile, CanCall
<1>2. CASE \E p \in ArgPaths : ReadFile(c, p) BY <1>2, ReadFileStep DEF ReadFile, CanCall
<1>3. CASE \E p \in ArgPaths, r \in Ranges : ReadRange(c, p, r)
  BY <1>3, ReadRangeStep DEF ReadRange, CanCall
<1>4. CASE \E p \in ArgPaths, b \in Contents : WriteFile(c, p, b)
  BY <1>4, WriteFileStep DEF WriteFile, CanCall
<1>5. CASE \E p \in ArgPaths : MakeDirectory(c, p)
  BY <1>5, MakeDirectoryStep DEF MakeDirectory, CanCall
<1>6. CASE \E p, q \in ArgPaths : RenamePath(c, p, q)
  BY <1>6, RenamePathStep DEF RenamePath, CanCall
<1>7. CASE \E p \in ArgPaths : ListDirectory(c, p)
  BY <1>7, ListDirectoryStep DEF ListDirectory, CanCall
<1>8. CASE \E p \in ArgPaths : RemovePath(c, p) BY <1>8, RemovePathStep DEF RemovePath, CanCall
<1>9. CASE ReadAll(c) BY <1>9, ReadAllStep DEF ReadAll
<1>10. CASE CloseFile(c) BY <1>10, CloseFileStep DEF CloseFile
<1> QED BY <1>1, <1>2, <1>3, <1>4, <1>5, <1>6, <1>7, <1>8, <1>9, <1>10 DEF Start

LEMMA ContinueMoves ==
  ASSUME Core, NEW c \in Callers, Continue(c)
  PROVE  Moves(c)
<1> USE DEF Does, Moves, Steps
<1>0. /\ call[c].pc = "fstat" => call[c].op = "read"
      /\ call[c].pc = "read" => call[c].op \in {"read", "readAll"}
  BY DEF Core, AllTidy, Tidy, Shape
<1>1. CASE StatOpened(c) BY <1>0, <1>1, StatOpenedStep DEF StatOpened
<1>2. CASE ReadChunk(c) BY <1>0, <1>2, ReadChunkStep DEF ReadChunk
<1>3. CASE HandleSize(c) BY <1>3, HandleSizeStep DEF HandleSize
<1>4. CASE PreadChunk(c) BY <1>4, PreadChunkStep DEF PreadChunk
<1>5. CASE WriteChunk(c) BY <1>5, WriteChunkStep DEF WriteChunk
<1>6. CASE RecheckDirectory(c) BY <1>6, RecheckDirectoryStep DEF RecheckDirectory
<1>7. CASE ListNext(c) BY <1>7, ListNextStep DEF ListNext
<1>8. CASE RemoveOpen(c) BY <1>8, RemoveOpenStep DEF RemoveOpen, Walking
<1>9. CASE RemoveNext(c) BY <1>9, RemoveNextStep DEF RemoveNext, Walking
<1>10. CASE RemoveLeaf(c) BY <1>10, RemoveLeafStep DEF RemoveLeaf, RemoveEntry, Walking
<1>11. CASE RemoveDir(c) BY <1>11, RemoveDirStep DEF RemoveDir, RemoveEntry, Walking
<1> QED BY <1>1, <1>2, <1>3, <1>4, <1>5, <1>6, <1>7, <1>8, <1>9, <1>10, <1>11 DEF Continue

LEMMA ReleaseMoves ==
  ASSUME Core, NEW c \in Callers, Release(c)
  PROVE  Moves(c)
<1>1. Orderly(c) /\ Observe(c) /\ call[c].pc = "done" BY ReleaseStep DEF Release
<1>2. call'[c] = Idle BY DEF Release, Goto, Core, AllTidy
<1>3. call'[c].pc = "idle" BY <1>2, IdleType
<1> QED BY <1>1, <1>3 DEF Moves

\* The history of a call, from what it was when the call started or was last
\* seen, to the disk after the step.
Grown(h, g) ==
  /\ g \in Seq(Disks) /\ Len(g) >= Len(h) /\ Len(g) > 0 /\ g[Len(g)] = node'
  /\ \A j \in 1 .. Len(h) : g[j] = h[j]
  /\ \A j \in Len(h) + 1 .. Len(g) : g[j] = node'

LEMMA Grows ==
  ASSUME NEW h \in Seq(Disks), Len(h) > 0, h[Len(h)] = node, node' \in Disks
  PROVE  Grown(h, h \o (IF node' = node THEN <<>> ELSE <<node'>>))
<1>1. CASE node' = node
  <2>1. h \o <<>> = h OBVIOUS
  <2>2. Grown(h, h) BY <1>1 DEF Grown
  <2> QED BY <1>1, <2>1, <2>2
<1>2. CASE node' # node
  <2>1. PICK g : g = Append(h, node') OBVIOUS
  <2>2. g = h \o <<node'>> BY <2>1
  <2>3. /\ g \in Seq(Disks) /\ Len(g) = Len(h) + 1 /\ g[Len(h) + 1] = node'
        /\ \A j \in 1 .. Len(h) : g[j] = h[j]
    BY <2>1, AppendProperties
  <2>4. Grown(h, g) BY <2>3 DEF Grown
  <2> QED BY <1>2, <2>2, <2>4
<1> QED BY <1>1, <1>2

\* A call in progress has seen the present disk.
Histories ==
  /\ hist \in [Callers -> Seq(Disks)]
  /\ \A c \in Callers : call[c].pc # "idle" => Len(hist[c]) > 0
  /\ \A c \in Callers : call[c].pc \notin {"idle", "done"} => hist[c][Len(hist[c])] = node

LEMMA Observed ==
  ASSUME Core, Histories, NEW c \in Callers, Moves(c), NEW d \in Callers, call'[d].pc # "idle"
  PROVE  /\ call[d].pc = "done" => hist'[d] = hist[d]
         /\ call[d].pc = "idle" => Grown(<<node>>, hist'[d])
         /\ call[d].pc \notin {"idle", "done"} => Grown(hist[d], hist'[d])
<1>1. node \in Disks /\ node' \in Disks BY DEF Core, Moves, Orderly, DiskKept
<1>2. hist'[d] = IF call[d].pc = "done" THEN hist[d]
                 ELSE (IF call[d].pc = "idle" THEN <<node>> ELSE hist[d])
                        \o (IF node' = node THEN <<>> ELSE <<node'>>)
  BY DEF Moves, Observe
<1>3. CASE call[d].pc = "done" BY <1>2, <1>3
<1>4. CASE call[d].pc = "idle"
  <2>1. <<node>> \in Seq(Disks) /\ Len(<<node>>) = 1 /\ <<node>>[1] = node BY <1>1
  <2>2. PICK h \in Seq(Disks) : h = <<node>> /\ Len(h) = 1 /\ h[1] = node BY <2>1
  <2>3. Grown(h, hist'[d]) BY <1>1, <1>2, <1>4, <2>2, Grows
  <2> QED BY <1>4, <2>2, <2>3
<1>5. CASE call[d].pc \notin {"idle", "done"}
  <2>1. hist[d] \in Seq(Disks) /\ Len(hist[d]) > 0 /\ hist[d][Len(hist[d])] = node
    BY <1>5 DEF Histories
  <2> QED BY <1>1, <1>2, <1>5, <2>1, Grows
<1> QED BY <1>3, <1>4, <1>5

LEMMA HistoriesStep ==
  ASSUME Core, Histories, NEW c \in Callers, Moves(c)
  PROVE  Histories'
<1>1. ASSUME NEW d \in Callers
      PROVE  /\ hist'[d] \in Seq(Disks)
             /\ call'[d].pc # "idle" => Len(hist'[d]) > 0
             /\ call'[d].pc \notin {"idle", "done"} => hist'[d][Len(hist'[d])] = node'
  <2>1. CASE call'[d].pc = "idle"
    <3>1. hist'[d] = <<>> BY <2>1 DEF Moves, Observe
    <3> QED BY <2>1, <3>1
  <2>2. CASE call'[d].pc # "idle"
    <3>1. CASE call[d].pc = "done"
      <4>1. hist'[d] = hist[d] BY <2>2, <3>1, Observed
      <4>2. d # c BY <2>2, <3>1 DEF Moves
      <4>3. call'[d] = call[d] BY <4>2 DEF Moves, Orderly, OthersSame
      <4> QED BY <3>1, <4>1, <4>3 DEF Histories
    <3>2. CASE call[d].pc = "idle" BY <2>2, <3>2, Observed DEF Grown
    <3>3. CASE call[d].pc \notin {"idle", "done"} BY <2>2, <3>3, Observed DEF Grown
    <3> QED BY <3>1, <3>2, <3>3
  <2> QED BY <2>1, <2>2
<1>2. hist' \in [Callers -> Seq(Disks)]
  <2>1. hist' = [d \in Callers |-> hist'[d]] BY DEF Moves, Observe
  <2> QED BY <1>1, <2>1
<1> QED BY <1>1, <1>2 DEF Histories

-----------------------------------------------------------------------------
(* Making a directory.                                                     *)

\* Two disks on which everything reachable from one is found in the other: S
\* holds the root and what is found from members of S.
LEMMA WalkSame ==
  ASSUME NEW disk, NEW new, NEW S, Root \in S, NEW path \in Seq(Names),
         \A i \in S, n \in Names : Onward(disk, i, n) # 0 =>
           Onward(disk, i, n) \in S /\ Onward(new, i, n) = Onward(disk, i, n),
         WalkOn(disk, path) # 0
  PROVE  WalkOn(new, path) = WalkOn(disk, path)
<1>0. PICK m \in Nat : m = Len(path) OBVIOUS
<1>1. PICK at : IsWalk(disk, path, at, m) /\ WalkOn(disk, path) = at[m] BY <1>0, WalkIs
<1>2. PICK bt : IsWalk(new, path, bt, m) /\ WalkOn(new, path) = bt[m] BY <1>0, WalkIs
<1>3. /\ \A k \in 0 .. m : at[k] = IF k = 0 THEN Root ELSE Onward(disk, at[k - 1], path[k])
      /\ \A k \in 0 .. m : bt[k] = IF k = 0 THEN Root ELSE Onward(new, bt[k - 1], path[k])
  BY <1>1, <1>2 DEF IsWalk
<1>4. ASSUME NEW k \in 0 .. m PROVE at[k] # 0
  <2> DEFINE Zero == {j \in 0 .. m : at[m - j] = 0}
  <2>1. Zero = {}
    <3> SUFFICES ASSUME Zero # {} PROVE FALSE OBVIOUS
    <3>1. Zero \in SUBSET Nat OBVIOUS
    <3>2. PICK j \in Zero : \A y \in Zero : j <= y BY <3>1, LeastOf
    <3>3. j # 0 BY <1>1, <3>2
    <3>4. j - 1 \in 0 .. m /\ j - 1 \notin Zero BY <3>2, <3>3
    <3>5. at[m - j] = 0 /\ at[m - (j - 1)] # 0 BY <3>2, <3>4
    <3>6. m - (j - 1) \in 1 .. m /\ (m - (j - 1)) - 1 = m - j BY <3>3
    <3>7. at[m - (j - 1)] = Onward(disk, at[m - j], path[m - (j - 1)]) BY <1>3, <3>6
    <3>8. Onward(disk, 0, path[m - (j - 1)]) = 0 BY DEF Onward, EntryOf, FollowOn
    <3> QED BY <3>5, <3>7, <3>8
  <2>2. m - k \in 0 .. m /\ m - (m - k) = k OBVIOUS
  <2> QED BY <2>1, <2>2
<1> DEFINE Bad == {k \in 0 .. m : ~(at[k] \in S /\ bt[k] = at[k])}
<1>5. Bad = {}
  <2> SUFFICES ASSUME Bad # {} PROVE FALSE OBVIOUS
  <2>1. Bad \in SUBSET Nat OBVIOUS
  <2>2. PICK k \in Bad : \A y \in Bad : k <= y BY <2>1, LeastOf
  <2>3. k # 0 BY <1>3, <2>2
  <2>4. k - 1 \in 0 .. m /\ k - 1 \notin Bad /\ k \in 1 .. m BY <2>2, <2>3
  <2>5. at[k - 1] \in S /\ bt[k - 1] = at[k - 1] BY <2>4
  <2>6. path[k] \in Names BY <1>0, <2>4
  <2>7. at[k] = Onward(disk, at[k - 1], path[k]) /\ bt[k] = Onward(new, at[k - 1], path[k])
    BY <1>3, <2>3, <2>5
  <2>8. at[k] # 0 BY <1>4
  <2> QED BY <2>2, <2>5, <2>6, <2>7, <2>8
<1>6. m \in 0 .. m OBVIOUS
<1> QED BY <1>1, <1>2, <1>5, <1>6

\* The disk after mkdir or open(O_CREAT), and what lookups find on it.
Made(x, d, n, j) == SetEntry([node EXCEPT ![j] = x], d, n, j)

LEMMA MadeEntries ==
  ASSUME Core, NEW d \in Inodes, node[d].kind = "dir", NEW n \in Names, NEW x \in Nodes,
         NEW j \in FreshInodes, d # j, NEW new, new = Made(x, d, n, j)
  PROVE  /\ new[j] = x /\ new[d].kind = "dir" /\ new[d].entries[n] = j
         /\ \A m \in Names \ {n} : new[d].entries[m] = node[d].entries[m]
         /\ \A i \in Inodes \ {d, j} : new[i] = node[i]
<1>1. j \in Inodes BY FreshIsUnused
<1>2. PICK mid : mid = [node EXCEPT ![j] = x] OBVIOUS
<1>3. mid \in Disks /\ mid[j] = x /\ \A i \in Inodes \ {j} : mid[i] = node[i]
  BY <1>1, <1>2 DEF Core, Disks
<1>4. mid[d] = node[d] /\ mid[d] \in [kind : {"dir"}, entries : [Names -> Inodes \cup {0}]]
  BY <1>3, NodeShape DEF Core
<1>5. PICK y : y = [mid[d] EXCEPT !.entries = [@ EXCEPT ![n] = j]] OBVIOUS
<1>6. /\ y.kind = "dir" /\ y.entries[n] = j
      /\ \A m \in Names \ {n} : y.entries[m] = mid[d].entries[m]
  BY <1>4, <1>5
<1>7. new = [mid EXCEPT ![d] = y] BY <1>2, <1>5 DEF SetEntry, Made
<1>8. new[d] = y /\ \A i \in Inodes \ {d} : new[i] = mid[i] BY <1>3, <1>7 DEF Disks
<1> QED BY <1>1, <1>3, <1>4, <1>6, <1>8

\* Linking a fresh inode under a directory, where there was nothing, disturbs
\* no lookup that found something.
LEMMA MadeWalks ==
  ASSUME Core, NEW d \in Inodes, InUse(d), node[d].kind = "dir", NEW n \in Names,
         EntryOf(node, d, n) = 0, NEW x \in Nodes, NEW j \in FreshInodes, NEW new,
         new = Made(x, d, n, j)
  PROVE  /\ new[j] = x /\ EntryOf(new, d, n) = j /\ j # 0
         /\ \A i \in Inodes : InUse(i) /\ node[i].kind # "dir" => new[i] = node[i]
         /\ \A i \in Inodes, m \in Names : InUse(i) /\ EntryOf(node, i, m) # 0 =>
              EntryOf(new, i, m) = EntryOf(node, i, m)
         /\ \A p \in Seq(Names) : WalkOn(node, p) # 0 => WalkOn(new, p) = WalkOn(node, p)
<1>4. j \in Inodes /\ ~InUse(j) /\ d # j /\ j # Root BY FreshIsUnused
<1>5. /\ new[j] = x /\ new[d].kind = "dir" /\ new[d].entries[n] = j
      /\ \A m \in Names \ {n} : new[d].entries[m] = node[d].entries[m]
      /\ \A i \in Inodes \ {d, j} : new[i] = node[i]
  BY <1>4, MadeEntries
<1> DEFINE S == {i \in Inodes : InUse(i)}
<1>7. ASSUME NEW i \in S, NEW m \in Names, EntryOf(node, i, m) # 0
      PROVE  EntryOf(node, i, m) \in S /\ EntryOf(new, i, m) = EntryOf(node, i, m)
  <2>1. i \in Inodes /\ i # j /\ i # 0 BY <1>4, DiskAssumption
  <2>2. EntryOf(node, i, m) \in Inodes BY <1>7, <2>1, OnwardType DEF Core
  <2>3. InUse(EntryOf(node, i, m)) BY <2>1 DEF InUse
  <2>4. CASE i = d
    <3>1. m # n BY <1>7, <2>4
    <3> QED BY <1>5, <2>1, <2>2, <2>3, <2>4, <3>1 DEF EntryOf
  <2>5. CASE i # d BY <1>5, <2>1, <2>2, <2>3, <2>5 DEF EntryOf
  <2> QED BY <2>4, <2>5
<1>8. ASSUME NEW i \in S PROVE i \in Inodes /\ i # 0 /\ new[i].kind = node[i].kind
  BY <1>4, <1>5, DiskAssumption
<1>9. Root \in S BY DiskAssumption DEF InUse
<1>11. ASSUME NEW i \in Inodes, InUse(i), node[i].kind # "dir" PROVE new[i] = node[i]
  BY <1>4, <1>5, <1>11
<1>12. \A i \in Inodes, m \in Names : InUse(i) /\ EntryOf(node, i, m) # 0 =>
         EntryOf(new, i, m) = EntryOf(node, i, m)
  BY <1>7
<1>13. EntryOf(new, d, n) = j /\ j # 0
  <2>1. d # 0 /\ j # 0 BY <1>4, DiskAssumption
  <2> QED BY <1>5, <2>1 DEF EntryOf
<1> HIDE DEF S
<1>10. ASSUME NEW i \in S, NEW m \in Names, Onward(node, i, m) # 0
       PROVE  Onward(node, i, m) \in S /\ Onward(new, i, m) = Onward(node, i, m)
  <2>1. PICK e : e = EntryOf(node, i, m) OBVIOUS
  <2>2. e # 0 /\ Onward(node, i, m) = FollowOn(node, e) BY <1>10, <2>1 DEF Onward, FollowOn
  <2>3. e \in S /\ EntryOf(new, i, m) = e BY <1>7, <2>1, <2>2
  <2>4. Onward(new, i, m) = FollowOn(new, e) BY <2>3 DEF Onward
  <2>5. e \in Inodes /\ new[e].kind = node[e].kind BY <1>8, <2>3
  <2>6. CASE node[e].kind = "link"
    <3>1. new[e] = node[e] BY <1>11, <2>3, <2>6 DEF S
    <3>2. PICK o \in Names : o = node[e].to BY <2>5, <2>6, NodeShape DEF Core
    <3>3. PICK t : t = EntryOf(node, Root, o) OBVIOUS
    <3>4. t # 0 /\ node[t].kind # "link" /\ FollowOn(node, e) = t
      BY <1>10, <2>2, <2>6, <3>2, <3>3 DEF FollowOn
    <3>5. t \in S /\ EntryOf(new, Root, o) = t BY <1>7, <1>9, <3>3, <3>4
    <3>6. new[t].kind = node[t].kind BY <1>8, <3>5
    <3>7. FollowOn(new, e) = t BY <2>2, <2>6, <3>1, <3>2, <3>4, <3>5, <3>6 DEF FollowOn
    <3> QED BY <2>2, <2>4, <3>4, <3>5, <3>7
  <2>7. CASE node[e].kind # "link"
    <3>1. FollowOn(node, e) = e /\ FollowOn(new, e) = e BY <2>5, <2>7 DEF FollowOn
    <3> QED BY <2>2, <2>3, <2>4, <3>1
  <2> QED BY <2>6, <2>7
<1>14. \A i \in S, m \in Names : Onward(node, i, m) # 0 =>
         Onward(node, i, m) \in S /\ Onward(new, i, m) = Onward(node, i, m)
  BY <1>10
<1>15. ASSUME NEW p \in Seq(Names), WalkOn(node, p) # 0 PROVE WalkOn(new, p) = WalkOn(node, p)
  BY <1>9, <1>14, <1>15, WalkSame
<1> QED BY <1>5, <1>11, <1>12, <1>13, <1>15

\* mkdir makes the path a directory.
LEMMA MadeIsThere ==
  ASSUME Core, NEW path \in Seq(Names), path # <<>>, NEW d, d = ParentOf(path),
         KindIs(node, d, "dir"), LStat(path) = 0, NEW j \in FreshInodes, NEW new,
         new = Made(EmptyDir, d, Last(path), j)
  PROVE  DirLike(new, NamedOn(new, path))
<1>1. PICK front \in Seq(Names) : front = Front(path) BY PathParts
<1>2. PICK n \in Names : n = Last(path) BY PathParts
<1>3. d = WalkOn(node, front) /\ d # 0 BY <1>1 DEF ParentOf, KindIs
<1>4. d \in Inodes /\ InUse(d) /\ node[d].kind = "dir" BY <1>3, WalkInUse DEF KindIs
<1>5. EntryOf(node, d, n) = 0 BY <1>2 DEF LStat, LStatOn, ParentOf
<1>6. EmptyDir \in Nodes /\ EmptyDir.kind = "dir" BY FileType
<1>7. new = Made(EmptyDir, d, n, j) BY <1>2
<1>8. /\ new[j] = EmptyDir /\ EntryOf(new, d, n) = j /\ j # 0
      /\ \A p \in Seq(Names) : WalkOn(node, p) # 0 => WalkOn(new, p) = WalkOn(node, p)
  BY <1>4, <1>5, <1>6, <1>7, MadeWalks
<1>9. WalkOn(new, front) = d BY <1>3, <1>8
<1>10. WalkOn(new, path) = Onward(new, d, n) BY <1>1, <1>2, <1>9, WalkStep
<1>11. Onward(new, d, n) = j BY <1>6, <1>8 DEF Onward, FollowOn
<1>12. StatOn(new, path) = j /\ LStatOn(new, path) = j
  BY <1>1, <1>2, <1>8, <1>9, <1>10, <1>11 DEF StatOn, LStatOn
<1> QED BY <1>6, <1>8, <1>12 DEF KindIs, DirLike, NamedOn

\* The answer of a finished call and its history.
Honest(k, h) ==
  k.pc = "done" /\ k.op = "mkdir" =>
    /\ k.ok => \E j \in DOMAIN h : DirLike(h[j], NamedOn(h[j], k.path))
    /\ ~k.ok /\ ~k.faulted =>
         \E j \in DOMAIN h : ~DirLike(h[j], NamedOn(h[j], k.path))

LEMMA HonestIs == MakeDirectoryIsHonest <=> \A c \in Callers : Honest(call[c], hist[c])
BY DEF MakeDirectoryIsHonest, Honest, Once, Finished

\* The disks before and after a step are in the history.
LEMMA GrownHas ==
  ASSUME NEW h, NEW g, Grown(h, g), Len(h) \in Nat, Len(h) > 0
  PROVE  /\ \E j \in DOMAIN g : g[j] = node'
         /\ \E j \in DOMAIN g : g[j] = h[1]
         /\ \E j \in DOMAIN g : g[j] = h[Len(h)]
<1>1. PICK l \in Nat : l = Len(g) BY DEF Grown
<1>2. DOMAIN g = 1 .. l BY <1>1 DEF Grown
<1>3. l > 0 /\ l >= Len(h) /\ g[l] = node' /\ \A j \in 1 .. Len(h) : g[j] = h[j]
  BY <1>1 DEF Grown
<1>4. l \in 1 .. l /\ 1 \in 1 .. l /\ Len(h) \in 1 .. l /\ 1 \in 1 .. Len(h) /\ Len(h) \in 1 .. Len(h)
  BY <1>3
<1> QED BY <1>2, <1>3, <1>4

LEMMA MakeDirectoryHonest ==
  ASSUME Core, Histories, NEW c \in Callers, Moves(c), NEW path \in ArgPaths,
         MakeDirectory(c, path)
  PROVE  Honest(call'[c], hist'[c])
<1> DEFINE k == Begin("mkdir", path, <<>>)  d == ParentOf(path)
           Missing == path # <<>> /\ KindIs(node, d, "dir") /\ LStat(path) = 0
<1>1. call[c].pc = "idle" BY DEF MakeDirectory, CanCall
<1>2. Started(k, "mkdir", path, <<>>) BY ArgTypes, BegunPlain
<1>3. \/ /\ Missing /\ Goto(c, Return(k, TRUE))
         /\ \E j \in FreshInodes : node' = Made(EmptyDir, d, Last(path), j)
      \/ Goto(c, [k EXCEPT !.pc = "eexist"])
      \/ ~Missing /\ LStat(path) = 0 /\ Goto(c, Return(k, FALSE))
      \/ Goto(c, Return(Faulted(k), FALSE))
  BY DEF MakeDirectory, Refused, Made
<1>4. path \in Seq(Names) BY ArgTypes
<1> HIDE DEF k
<1>5. \A q : Goto(c, q) => call'[c] = q BY DEF Goto, Core, AllTidy
<1>6. k \in Calls /\ k.path = path /\ k.op = "mkdir" BY <1>2 DEF Started
<1>7. ASSUME call'[c].pc # "idle"
      PROVE  /\ \E j \in DOMAIN hist'[c] : hist'[c][j] = node'
             /\ \E j \in DOMAIN hist'[c] : hist'[c][j] = node
  <2>0. Len(<<node>>) = 1 /\ <<node>>[1] = node OBVIOUS
  <2>1. PICK h : h = <<node>> /\ Len(h) = 1 /\ h[1] = node BY <2>0
  <2>2. Grown(h, hist'[c]) BY <1>1, <1>7, <2>1, Observed
  <2>3. Len(h) \in Nat /\ Len(h) > 0 BY <2>1
  <2> QED BY <2>1, <2>2, <2>3, GrownHas
<1>8. ASSUME Missing, Goto(c, Return(k, TRUE)), NEW j \in FreshInodes,
             node' = Made(EmptyDir, d, Last(path), j)
      PROVE  Honest(call'[c], hist'[c])
  <2>1. PICK r : r = Return(k, TRUE) OBVIOUS
  <2>2. r.path = path /\ r.ok = TRUE /\ r.pc = "done" BY <1>6, <2>1, Returned DEF SameBut
  <2>3. call'[c] = r BY <1>5, <1>8, <2>1
  <2>4. DirLike(node', NamedOn(node', path)) BY <1>4, <1>8, MadeIsThere
  <2>5. \E i \in DOMAIN hist'[c] : hist'[c][i] = node' BY <1>7, <2>2, <2>3
  <2> QED BY <2>2, <2>3, <2>4, <2>5 DEF Honest
<1>9. CASE Goto(c, [k EXCEPT !.pc = "eexist"])
  <2>1. PICK q : q = [k EXCEPT !.pc = "eexist"] OBVIOUS
  <2>2. q.pc = "eexist" BY <1>6, <2>1 DEF Calls
  <2>3. call'[c] = q BY <1>5, <1>9, <2>1
  <2> QED BY <2>2, <2>3 DEF Honest
<1>10. CASE ~Missing /\ LStat(path) = 0 /\ Goto(c, Return(k, FALSE))
  <2>1. PICK r : r = Return(k, FALSE) OBVIOUS
  <2>2. r.path = path /\ r.ok = FALSE /\ r.pc = "done" BY <1>6, <2>1, Returned DEF SameBut
  <2>3. call'[c] = r BY <1>5, <1>10, <2>1
  <2>4. ~DirLike(node, NamedOn(node, path))
    <3>1. CASE path = <<>> BY <3>1 DEF NamedOn, DirLike, StatOn, LStatOn, KindIs
    <3>2. CASE path # <<>>
      <4>1. WalkOn(node, path) = Onward(node, WalkOn(node, Front(path)), Last(path))
        BY <1>4, <3>2, WalkStep
      <4>2. EntryOf(node, WalkOn(node, Front(path)), Last(path)) = 0
        BY <1>10, <3>2 DEF LStat, LStatOn
      <4>3. WalkOn(node, path) = 0 BY <4>1, <4>2 DEF Onward, FollowOn
      <4> QED BY <1>10, <3>2, <4>3 DEF NamedOn, DirLike, LStat, StatOn, KindIs
    <3> QED BY <3>1, <3>2
  <2>5. \E i \in DOMAIN hist'[c] : hist'[c][i] = node BY <1>7, <2>2, <2>3
  <2> QED BY <2>2, <2>3, <2>4, <2>5 DEF Honest
<1>11. CASE Goto(c, Return(Faulted(k), FALSE))
  <2>1. PICK g : g = Faulted(k) OBVIOUS
  <2>2. g \in Calls /\ g.faulted = TRUE BY <1>6, <2>1, AfterFault
  <2>3. PICK r : r = Return(g, FALSE) OBVIOUS
  <2>4. r.ok = FALSE /\ r.faulted = TRUE BY <2>2, <2>3, Returned
  <2>5. call'[c] = r BY <1>5, <1>11, <2>1, <2>3
  <2> QED BY <2>4, <2>5 DEF Honest
<1> QED BY <1>3, <1>8, <1>9, <1>10, <1>11

LEMMA RecheckDirectoryHonest ==
  ASSUME Core, Histories, NEW c \in Callers, Moves(c), RecheckDirectory(c)
  PROVE  Honest(call'[c], hist'[c])
<1>1. PICK k : k = call[c] OBVIOUS
<1>2. k \in Calls /\ k.pc = "eexist" BY <1>1 DEF RecheckDirectory, Core, AllTidy
<1>3. \A q : Goto(c, q) => call'[c] = q BY DEF Goto, Core, AllTidy
<1>4. \/ Goto(c, Return(k, fs_is_directory(k.path)))
      \/ Goto(c, Return(Faulted(k), FALSE))
  BY <1>1 DEF RecheckDirectory
<1>5. ASSUME call'[c].pc # "idle"
      PROVE  \E j \in DOMAIN hist'[c] : hist'[c][j] = node
  <2>1. Grown(hist[c], hist'[c]) BY <1>1, <1>2, <1>5, Observed
  <2>2. hist[c] \in Seq(Disks) /\ Len(hist[c]) > 0 /\ hist[c][Len(hist[c])] = node
    BY <1>1, <1>2 DEF Histories
  <2>3. Len(hist[c]) \in Nat BY <2>2
  <2> QED BY <2>1, <2>2, <2>3, GrownHas
<1>6. CASE Goto(c, Return(k, fs_is_directory(k.path)))
  <2>1. PICK b \in BOOLEAN : b <=> fs_is_directory(k.path) OBVIOUS
  <2>2. b = fs_is_directory(k.path) BY <2>1 DEF fs_is_directory, DirLike, KindIs
  <2>3. PICK r : r = Return(k, b) OBVIOUS
  <2>4. r.path = k.path /\ r.ok = b /\ r.pc = "done" BY <1>2, <2>3, Returned DEF SameBut
  <2>5. call'[c] = r BY <1>3, <1>6, <2>2, <2>3
  <2>6. PICK i \in DOMAIN hist'[c] : hist'[c][i] = node BY <1>5, <2>4, <2>5
  <2>7. b <=> DirLike(node, NamedOn(node, k.path)) BY <2>1 DEF fs_is_directory
  <2> QED BY <2>4, <2>5, <2>6, <2>7 DEF Honest
<1>7. CASE Goto(c, Return(Faulted(k), FALSE))
  <2>1. PICK g : g = Faulted(k) OBVIOUS
  <2>2. g \in Calls /\ g.faulted = TRUE BY <1>2, <2>1, AfterFault
  <2>3. PICK r : r = Return(g, FALSE) OBVIOUS
  <2>4. r.ok = FALSE /\ r.faulted = TRUE BY <2>2, <2>3, Returned
  <2>5. call'[c] = r BY <1>3, <1>7, <2>1, <2>3
  <2> QED BY <2>4, <2>5 DEF Honest
<1> QED BY <1>4, <1>6, <1>7

LEMMA HonestStep ==
  ASSUME Core, Histories, NEW c \in Callers, Moves(c),
         \A d \in Callers : Honest(call[d], hist[d])
  PROVE  \A d \in Callers : Honest(call'[d], hist'[d])
<1> SUFFICES ASSUME NEW d \in Callers, call'[d].pc = "done", call'[d].op = "mkdir"
    PROVE  Honest(call'[d], hist'[d])
  BY DEF Honest
<1>1. CASE d = c
  <2>1. (\E p \in ArgPaths : MakeDirectory(c, p)) \/ RecheckDirectory(c)
    BY <1>1 DEF Moves, Steps
  <2> QED BY <1>1, <2>1, MakeDirectoryHonest, RecheckDirectoryHonest
<1>2. CASE d # c
  <2>1. call'[d] = call[d] BY <1>2 DEF Moves, Orderly, OthersSame
  <2>2. hist'[d] = hist[d] BY <2>1, Observed
  <2> QED BY <2>1, <2>2
<1> QED BY <1>1, <1>2

-----------------------------------------------------------------------------
(* Listing a directory.                                                    *)

NoRepeats(s) == \A i, j \in 1 .. Len(s) : s[i] = s[j] => i = j
NamesIn(s) == {s[j] : j \in 1 .. Len(s)}
Listed(k) == NamesIn(k.names)
WasThere(h, i, n) == \E j \in 1 .. Len(h) : EntryOf(h[j], i, n) # 0
StayedThere(h, i, n) == \A j \in 1 .. Len(h) : EntryOf(h[j], i, n) # 0

\* While the directory is read: it is the one the path named, its names at
\* opendir are known, and what was read is in the listing unless memory failed.
Reading(k, h) ==
  /\ NoRepeats(k.names)
  /\ k.stack[1].dir = StatOn(h[1], k.path)
  /\ \A n \in Names : n \in k.stack[1].first <=> EntryOf(h[1], k.stack[1].dir, n) # 0
  /\ \A n \in k.stack[1].seen : WasThere(h, k.stack[1].dir, n)
  /\ Listed(k) \subseteq k.stack[1].seen
  /\ k.faulted \/ k.stack[1].seen \subseteq Listed(k)

Faithful(k, h) ==
  /\ NoRepeats(k.names)
  /\ \A n \in Listed(k) : WasThere(h, StatOn(h[1], k.path), n)
  /\ k.faulted \/ \A n \in Names : StayedThere(h, StatOn(h[1], k.path), n) => n \in Listed(k)

ListingOk(k, h) ==
  /\ k.pc = "list" => Reading(k, h)
  /\ k.pc = "done" /\ k.op = "list" /\ k.ok => Faithful(k, h)

\* A history that grows keeps what it showed.
LEMMA StillReading ==
  ASSUME NEW k, NEW h, NEW g, Len(h) \in Nat, Len(h) > 0, Grown(h, g), Reading(k, h)
  PROVE  Reading(k, g)
<1>1. Len(g) \in Nat /\ Len(g) >= Len(h) /\ \A j \in 1 .. Len(h) : g[j] = h[j] BY DEF Grown
<1>2. g[1] = h[1] BY <1>1
<1>3. \A i, n : WasThere(h, i, n) => WasThere(g, i, n)
  <2> SUFFICES ASSUME NEW i, NEW n, NEW j \in 1 .. Len(h), EntryOf(h[j], i, n) # 0
      PROVE  WasThere(g, i, n)
    BY DEF WasThere
  <2>1. j \in 1 .. Len(g) /\ g[j] = h[j] BY <1>1
  <2> QED BY <2>1 DEF WasThere
<1> QED BY <1>2, <1>3 DEF Reading

\* A call's history starts at the disk it started on.
LEMMA FirstSeen ==
  ASSUME Core, Histories, NEW c \in Callers, Moves(c), call[c].pc = "idle", call'[c].pc # "idle"
  PROVE  hist'[c][1] = node
<1>1. Len(<<node>>) = 1 /\ <<node>>[1] = node OBVIOUS
<1>2. PICK h : h = <<node>> /\ Len(h) = 1 /\ h[1] = node BY <1>1
<1>3. Grown(h, hist'[c]) BY <1>2, Observed
<1> QED BY <1>2, <1>3 DEF Grown

LEMMA ListDirectoryOk ==
  ASSUME Core, Histories, NEW c \in Callers, Moves(c), NEW path \in ArgPaths,
         ListDirectory(c, path)
  PROVE  ListingOk(call'[c], hist'[c])
<1> DEFINE k == Begin("list", path, <<>>)  fr == Frame(path, "opendir")
           f == Opened(fr, Stat(path))
<1>1. call[c].pc = "idle" BY DEF ListDirectory, CanCall
<1>2. Started(k, "list", path, <<>>) BY ArgTypes, BegunPlain
<1>3. /\ f \in Frames /\ f.dir = Stat(path) /\ f.seen = {}
      /\ f.first = {n \in Names : EntryOf(node, f.dir, n) # 0}
  <2>1. path \in Seq(Names) /\ Stat(path) \in Inodes \cup {0} BY ArgTypes, StatType DEF Core, Stat
  <2>2. fr \in Frames /\ fr.seen = {} BY <2>1, FrameType
  <2> HIDE DEF fr
  <2> QED BY <2>1, <2>2, OpenedType
<1>4. \/ Goto(c, [k EXCEPT !.pc = "list", !.stack = <<f>>])
      \/ Goto(c, Return(k, FALSE)) \/ Goto(c, Return(Faulted(k), FALSE))
  BY DEF ListDirectory, Refused
<1> HIDE DEF k, f
<1>5. \A q : Goto(c, q) => call'[c] = q BY DEF Goto, Core, AllTidy
<1>6. CASE Goto(c, [k EXCEPT !.pc = "list", !.stack = <<f>>])
  <2>0. PICK st \in Seq(Frames) : st = <<f>> /\ st[1] = f BY <1>3, OneFrame
  <2>1. PICK q : q = [k EXCEPT !.pc = "list", !.stack = st] OBVIOUS
  <2>2. /\ q.pc = "list" /\ q.names = <<>> /\ q.stack = st /\ q.path = path /\ q.faulted = FALSE
    BY <1>2, <2>1 DEF Started, Calls
  <2>3. call'[c] = q BY <1>5, <1>6, <2>0, <2>1
  <2>4. hist'[c][1] = node BY <1>1, <2>2, <2>3, FirstSeen
  <2>5. NoRepeats(q.names) /\ Listed(q) = {} BY <2>2 DEF NoRepeats, Listed, NamesIn
  <2>6. q.stack[1] = f BY <2>0, <2>2
  <2>7. Reading(q, hist'[c]) BY <1>3, <2>2, <2>4, <2>5, <2>6 DEF Reading, Stat
  <2> QED BY <2>2, <2>3, <2>7 DEF ListingOk
<1>7. CASE Goto(c, Return(k, FALSE)) \/ Goto(c, Return(Faulted(k), FALSE))
  <2>1. PICK r : Goto(c, r) /\ (r = Return(k, FALSE) \/ r = Return(Faulted(k), FALSE)) BY <1>7
  <2>2. r.pc = "done" BY <1>2, <2>1, RefusedResult DEF Started
  <2>3. ~r.ok BY <1>2, <2>1, RefusedOk DEF Started
  <2>4. call'[c] = r BY <1>5, <2>1
  <2> QED BY <2>2, <2>3, <2>4 DEF ListingOk
<1> QED BY <1>4, <1>6, <1>7

\* How a step of the reading loop changes the call.
ReadOne(k, q, n) ==
  /\ q.pc = "list" /\ q.path = k.path /\ q.stack[1] = Saw(k.stack[1], n)
  /\ \/ q.names = Append(k.names, n) /\ q.faulted = k.faulted
     \/ q.names = k.names /\ q.faulted

ReadAllOf(k, q) ==
  /\ q.pc = "done" /\ q.path = k.path /\ q.names = k.names
  /\ q.faulted \/ (q.faulted = k.faulted /\ AtEnd(k.stack[1]))

LEMMA AddIs ==
  ASSUME Core, NEW c \in Callers, NEW k \in Calls, k.pc = "list", NEW n, n \in Names,
         fs_listing_add(c, k, n)
  PROVE  /\ call'[c].pc = "list" /\ call'[c].path = k.path /\ call'[c].stack = k.stack
         /\ \/ call'[c].names = Append(k.names, n) /\ call'[c].faulted = k.faulted
            \/ call'[c].names = k.names /\ call'[c].faulted
<1>1. \A q : Goto(c, q) => call'[c] = q BY DEF Goto, Core, AllTidy
<1>2. CASE Goto(c, [k EXCEPT !.names = Append(@, n), !.cap = 1])
  <2>1. PICK q : q = [k EXCEPT !.names = Append(@, n), !.cap = 1] OBVIOUS
  <2>2. /\ q.pc = k.pc /\ q.path = k.path /\ q.stack = k.stack
        /\ q.names = Append(k.names, n) /\ q.faulted = k.faulted
    BY <2>1 DEF Calls
  <2>3. call'[c] = q BY <1>1, <1>2, <2>1
  <2> QED BY <2>2, <2>3
<1>3. CASE Goto(c, Faulted(k))
  <2>1. PICK q : q = Faulted(k) OBVIOUS
  <2>2. call'[c] = q BY <1>1, <1>3, <2>1
  <2>3. SameBut(k, q) /\ q.pc = k.pc /\ q.faulted = TRUE BY <2>1, AfterFault
  <2> QED BY <2>2, <2>3 DEF SameBut
<1>4. CASE Goto(c, Faulted([k EXCEPT !.cap = 1]))
  <2>1. PICK z : z = [k EXCEPT !.cap = 1] OBVIOUS
  <2>2. /\ z \in Calls /\ z.pc = k.pc /\ z.path = k.path /\ z.stack = k.stack
        /\ z.names = k.names
    BY <2>1 DEF Calls
  <2>3. PICK q : q = Faulted(z) OBVIOUS
  <2>4. call'[c] = q BY <1>1, <1>4, <2>1, <2>3
  <2>5. SameBut(z, q) /\ q.pc = z.pc /\ q.faulted = TRUE BY <2>2, <2>3, AfterFault
  <2> QED BY <2>2, <2>4, <2>5 DEF SameBut
<1> QED BY <1>2, <1>3, <1>4 DEF fs_listing_add

LEMMA ListNextIs ==
  ASSUME Core, NEW c \in Callers, ListNext(c)
  PROVE  \/ ReadAllOf(call[c], call'[c])
         \/ \E n \in NamesLeft(call[c].stack[1]) : ReadOne(call[c], call'[c], n)
<1>1. PICK k, f : k = call[c] /\ f = Last(k.stack) OBVIOUS
<1>2. k.pc = "list" BY <1>1 DEF ListNext
<1>3. k \in Calls /\ f = k.stack[1] /\ f \in Frames BY <1>1, <1>2, InListing
<1>4. \A q : Goto(c, q) => call'[c] = q BY DEF Goto, Core, AllTidy
<1>5. PICK z : z = [k EXCEPT !.stack = <<>>] OBVIOUS
<1>6. z \in Calls /\ z.path = k.path /\ z.names = k.names /\ z.faulted = k.faulted
  <2>1. <<>> \in Seq(Frames) OBVIOUS
  <2>2. PICK st \in Seq(Frames) : st = <<>> BY <2>1
  <2>3. z = [k EXCEPT !.stack = st] BY <1>5, <2>2
  <2> QED BY <1>3, <2>3, Restacked
<1>7. \/ AtEnd(f) /\ Goto(c, Return(z, TRUE))
      \/ Goto(c, Return(Faulted(z), TRUE))
      \/ \E n \in NamesLeft(f) : fs_listing_add(c, [k EXCEPT !.stack = <<Saw(f, n)>>], n)
  BY <1>1, <1>5 DEF ListNext
<1>8. CASE AtEnd(f) /\ Goto(c, Return(z, TRUE))
  <2>1. PICK q : q = Return(z, TRUE) OBVIOUS
  <2>2. q.pc = "done" /\ q.faulted = z.faulted /\ SameBut(z, q) BY <1>6, <2>1, Returned
  <2>3. call'[c] = q BY <1>4, <1>8, <2>1
  <2> QED BY <1>1, <1>3, <1>6, <1>8, <2>2, <2>3 DEF ReadAllOf, SameBut
<1>9. CASE Goto(c, Return(Faulted(z), TRUE))
  <2>1. PICK g : g = Faulted(z) OBVIOUS
  <2>2. g \in Calls /\ g.faulted = TRUE /\ SameBut(z, g) BY <1>6, <2>1, AfterFault
  <2>3. PICK q : q = Return(g, TRUE) OBVIOUS
  <2>4. q.pc = "done" /\ q.faulted = TRUE /\ SameBut(g, q) BY <2>2, <2>3, Returned
  <2>5. call'[c] = q BY <1>4, <1>9, <2>1, <2>3
  <2> QED BY <1>1, <1>6, <2>2, <2>4, <2>5 DEF ReadAllOf, SameBut
<1>10. ASSUME NEW n \in NamesLeft(f), fs_listing_add(c, [k EXCEPT !.stack = <<Saw(f, n)>>], n)
       PROVE  ReadOne(k, call'[c], n)
  <2>1. n \in Names BY <1>3 DEF NamesLeft, Frames
  <2>2. PICK st \in Seq(Frames) : st = <<Saw(f, n)>> /\ Len(st) = 1 /\ st[1] = Saw(f, n)
    BY <1>3, <2>1, SawType, OneFrame
  <2>3. PICK q : q = [k EXCEPT !.stack = st] OBVIOUS
  <2>4. /\ q \in Calls /\ q.stack = st /\ q.pc = k.pc /\ q.path = k.path
        /\ q.names = k.names /\ q.faulted = k.faulted
    BY <1>3, <2>3, Restacked
  <2>5. fs_listing_add(c, q, n) BY <1>10, <2>2, <2>3
  <2>6. /\ call'[c].pc = "list" /\ call'[c].path = q.path /\ call'[c].stack = q.stack
        /\ \/ call'[c].names = Append(q.names, n) /\ call'[c].faulted = q.faulted
           \/ call'[c].names = q.names /\ call'[c].faulted
    BY <1>2, <2>1, <2>4, <2>5, AddIs
  <2> QED BY <1>3, <2>2, <2>4, <2>6 DEF ReadOne
<1> QED BY <1>1, <1>3, <1>7, <1>8, <1>9, <1>10

\* The listing with one more name.
LEMMA OneMore ==
  ASSUME NEW s \in Seq(Names), NEW n \in Names, NEW t, t = Append(s, n),
         \A j \in 1 .. Len(s) : s[j] # n, NoRepeats(s)
  PROVE  /\ NoRepeats(t)
         /\ NamesIn(t) = NamesIn(s) \cup {n}
<1>1. PICK m \in Nat : m = Len(s) OBVIOUS
<1>2. Len(t) = m + 1 /\ t[m + 1] = n /\ \A j \in 1 .. m : t[j] = s[j]
  BY <1>1, AppendProperties
<1>3. \A j \in 1 .. Len(t) : j \in 1 .. m \/ j = m + 1 BY <1>1, <1>2
<1>4. NoRepeats(t)
  <2> SUFFICES ASSUME NEW i \in 1 .. Len(t), NEW j \in 1 .. Len(t), t[i] = t[j]
      PROVE  i = j
    BY DEF NoRepeats
  <2>1. CASE i \in 1 .. m /\ j \in 1 .. m BY <1>1, <1>2, <2>1 DEF NoRepeats
  <2>2. CASE i \in 1 .. m /\ j = m + 1 BY <1>1, <1>2, <2>2
  <2>3. CASE i = m + 1 /\ j \in 1 .. m BY <1>1, <1>2, <2>3
  <2> QED BY <1>3, <2>1, <2>2, <2>3
<1>5. ASSUME NEW x PROVE (\E j \in 1 .. Len(t) : x = t[j]) <=> (\E j \in 1 .. m : x = s[j]) \/ x = n
  <2>1. 1 .. Len(t) = (1 .. m) \cup {m + 1} BY <1>2
  <2> QED BY <1>2, <2>1
<1>6. NamesIn(t) = NamesIn(s) \cup {n} BY <1>1, <1>5 DEF NamesIn
<1> QED BY <1>4, <1>6

LEMMA ListNextOk ==
  ASSUME Core, Histories, NEW c \in Callers, Moves(c), ListNext(c),
         ListingOk(call[c], hist[c])
  PROVE  ListingOk(call'[c], hist'[c])
<1>1. PICK k, f, h, q, g :
        k = call[c] /\ f = k.stack[1] /\ h = hist[c] /\ q = call'[c] /\ g = hist'[c]
  OBVIOUS
<1>2. k.pc = "list" BY <1>1 DEF ListNext
<1>3. k \in Calls /\ f \in Frames BY <1>1, <1>2, InListing
<1>4. Reading(k, h) BY <1>1, <1>2 DEF ListingOk
<1>5. h \in Seq(Disks) /\ Len(h) \in Nat /\ Len(h) > 0 /\ h[Len(h)] = node
  BY <1>1, <1>2 DEF Histories
<1>6. q.pc # "idle" /\ UNCHANGED node BY <1>1, <1>2 DEF Moves, ListNext
<1>7. Grown(h, g) BY <1>1, <1>2, <1>6, Observed
<1>8. /\ Len(g) \in Nat /\ Len(g) >= Len(h) /\ \A j \in 1 .. Len(h) : g[j] = h[j]
      /\ g[1] = h[1] /\ 1 \in 1 .. Len(g) /\ Len(h) \in 1 .. Len(g) /\ g[Len(h)] = node
  BY <1>5, <1>7 DEF Grown
<1>9. Reading(k, g) BY <1>4, <1>5, <1>7, StillReading
<1>10. /\ NoRepeats(k.names) /\ f.dir = StatOn(g[1], k.path)
       /\ \A n \in Names : n \in f.first <=> EntryOf(g[1], f.dir, n) # 0
       /\ \A n \in f.seen : WasThere(g, f.dir, n)
       /\ Listed(k) \subseteq f.seen /\ (k.faulted \/ f.seen \subseteq Listed(k))
  BY <1>1, <1>9 DEF Reading
<1>11. CASE ReadAllOf(k, q)
  <2>1. q.pc = "done" /\ q.path = k.path /\ q.names = k.names BY <1>11 DEF ReadAllOf
  <2>2. Listed(q) = Listed(k) BY <2>1 DEF Listed
  <2>3. ASSUME ~q.faulted, NEW n \in Names, StayedThere(g, f.dir, n) PROVE n \in Listed(q)
    <3>1. q.faulted = k.faulted /\ AtEnd(f) BY <1>1, <1>11, <2>3 DEF ReadAllOf
    <3>2. EntryOf(g[1], f.dir, n) # 0 /\ EntryOf(node, f.dir, n) # 0
      BY <1>8, <2>3 DEF StayedThere
    <3>3. n \in f.seen BY <1>10, <3>1, <3>2 DEF AtEnd
    <3> QED BY <1>10, <2>2, <2>3, <3>1, <3>3
  <2>4. Faithful(q, g)
    <3>1. q.faulted \/ \A n \in Names : StayedThere(g, StatOn(g[1], q.path), n) => n \in Listed(q)
      BY <1>10, <2>1, <2>3
    <3>2. \A n \in Listed(q) : WasThere(g, StatOn(g[1], q.path), n) BY <1>10, <2>1, <2>2
    <3> QED BY <1>10, <2>1, <3>1, <3>2 DEF Faithful
  <2> QED BY <1>1, <2>1, <2>4 DEF ListingOk
<1>12. ASSUME NEW n \in NamesLeft(f), ReadOne(k, q, n) PROVE ListingOk(q, g)
  <2>1. n \in Names /\ n \notin f.seen /\ (EntryOf(node, f.dir, n) # 0 \/ n \in f.first)
    BY <1>3 DEF NamesLeft, Frames
  <2>2. WasThere(g, f.dir, n)
    <3>1. EntryOf(node, f.dir, n) # 0 \/ EntryOf(g[1], f.dir, n) # 0 BY <1>10, <2>1
    <3> QED BY <1>8, <3>1 DEF WasThere
  <2>3. PICK e : e = Saw(f, n) OBVIOUS
  <2>4. e.dir = f.dir /\ e.first = f.first /\ e.seen = f.seen \cup {n}
    BY <1>3, <2>1, <2>3, SawType
  <2>5. q.pc = "list" /\ q.path = k.path /\ q.stack[1] = e BY <1>1, <1>12, <2>3 DEF ReadOne
  <2>6. \A x \in e.seen : WasThere(g, e.dir, x) BY <1>10, <2>2, <2>4
  <2>7. /\ NoRepeats(q.names) /\ Listed(q) \subseteq e.seen
        /\ q.faulted \/ e.seen \subseteq Listed(q)
    <3>1. CASE q.names = Append(k.names, n) /\ q.faulted = k.faulted
      <4>1. k.names \in Seq(Names) BY <1>3 DEF Calls
      <4>2. \A j \in 1 .. Len(k.names) : k.names[j] # n BY <1>10, <2>1 DEF Listed, NamesIn
      <4>3. PICK t, s : t = q.names /\ s = k.names OBVIOUS
      <4>4. /\ s \in Seq(Names) /\ n \in Names /\ t = Append(s, n) /\ NoRepeats(s)
            /\ \A j \in 1 .. Len(s) : s[j] # n
        BY <1>10, <2>1, <3>1, <4>1, <4>2, <4>3
      <4>5. NoRepeats(t) /\ NamesIn(t) = NamesIn(s) \cup {n} BY <4>4, OneMore
      <4>6. NoRepeats(q.names) /\ Listed(q) = Listed(k) \cup {n} BY <4>3, <4>5 DEF Listed
      <4> QED BY <1>10, <2>4, <3>1, <4>6
    <3>2. CASE q.names = k.names /\ q.faulted
      <4>1. Listed(q) = Listed(k) BY <3>2 DEF Listed
      <4> QED BY <1>10, <2>4, <3>2, <4>1
    <3> QED BY <1>12, <3>1, <3>2 DEF ReadOne
  <2>8. Reading(q, g) BY <1>10, <2>4, <2>5, <2>6, <2>7 DEF Reading
  <2> QED BY <2>5, <2>8 DEF ListingOk
<1>13. ReadAllOf(k, q) \/ \E n \in NamesLeft(f) : ReadOne(k, q, n) BY <1>1, ListNextIs
<1> QED BY <1>1, <1>11, <1>12, <1>13

LEMMA ListingStep ==
  ASSUME Core, Histories, NEW c \in Callers, Moves(c),
         \A d \in Callers : ListingOk(call[d], hist[d])
  PROVE  \A d \in Callers : ListingOk(call'[d], hist'[d])
<1> SUFFICES ASSUME NEW d \in Callers
    PROVE  ListingOk(call'[d], hist'[d])
  OBVIOUS
<1>1. CASE d = c
  <2>1. CASE call'[c].op = "list" /\ call'[c].pc # "idle"
    <3>1. (\E p \in ArgPaths : ListDirectory(c, p)) \/ ListNext(c) BY <2>1 DEF Moves, Steps
    <3> QED BY <1>1, <3>1, ListDirectoryOk, ListNextOk
  <2>2. CASE ~(call'[c].op = "list" /\ call'[c].pc # "idle")
    <3>1. call'[c].pc = "list" => call'[c].op = "list"
      BY DEF Moves, Orderly, AllTidy, Tidy, Shape
    <3> QED BY <1>1, <2>2, <3>1 DEF ListingOk
  <2> QED BY <2>1, <2>2
<1>2. CASE d # c
  <2>1. call'[d] = call[d] BY <1>2 DEF Moves, Orderly, OthersSame
  <2>2. CASE call[d].pc = "list"
    <3>1. Grown(hist[d], hist'[d]) BY <2>1, <2>2, Observed
    <3>2. Len(hist[d]) \in Nat /\ Len(hist[d]) > 0 BY <2>2 DEF Histories
    <3>3. Reading(call[d], hist[d]) BY <2>2 DEF ListingOk
    <3>4. Reading(call[d], hist'[d]) BY <3>1, <3>2, <3>3, StillReading
    <3> QED BY <2>1, <2>2, <3>4 DEF ListingOk
  <2>3. CASE call[d].pc = "done"
    <3>1. hist'[d] = hist[d] BY <2>1, <2>3, Observed
    <3> QED BY <2>1, <3>1
  <2>4. CASE call[d].pc \notin {"list", "done"} BY <2>1, <2>4 DEF ListingOk
  <2> QED BY <2>2, <2>3, <2>4
<1> QED BY <1>1, <1>2

-----------------------------------------------------------------------------
(* What a call of fs_write_file leaves.                                    *)

\* Writing a file disturbs no lookup.
Put(i, x) == [node EXCEPT ![i] = x]

LEMMA DataWalks ==
  ASSUME Core, NEW i \in Inodes, node[i].kind = "file", NEW x \in Nodes, x.kind = "file",
         NEW new, new = Put(i, x)
  PROVE  /\ new[i] = x
         /\ \A p \in Seq(Names) : WalkOn(node, p) # 0 => WalkOn(new, p) = WalkOn(node, p)
         /\ \A p \in Seq(Names) : LStatOn(node, p) # 0 => LStatOn(new, p) = LStatOn(node, p)
<1>1. new[i] = x /\ \A j \in Inodes \ {i} : new[j] = node[j] BY DEF Core, Disks, Put
<1>2. \A j \in Inodes : new[j].kind = node[j].kind BY <1>1
<1>3. ASSUME NEW a \in Inodes, NEW n \in Names PROVE EntryOf(new, a, n) = EntryOf(node, a, n)
  BY <1>1 DEF EntryOf
<1>4. ASSUME NEW a \in Inodes, NEW n \in Names
      PROVE  Onward(new, a, n) = Onward(node, a, n) /\ Onward(node, a, n) \in Inodes \cup {0}
  <2>1. PICK e \in Inodes \cup {0} : e = EntryOf(node, a, n) BY OnwardType DEF Core
  <2>2. Onward(new, a, n) = FollowOn(new, e) /\ Onward(node, a, n) = FollowOn(node, e)
    BY <1>3, <2>1 DEF Onward
  <2>3. Onward(node, a, n) \in Inodes \cup {0} BY OnwardType DEF Core
  <2>4. CASE e # 0 /\ node[e].kind = "link"
    <3>1. new[e] = node[e] BY <1>1, <2>4
    <3>2. PICK o \in Names : o = node[e].to BY <2>4, NodeShape DEF Core
    <3>3. PICK t \in Inodes \cup {0} : t = EntryOf(node, Root, o)
      BY DiskAssumption, OnwardType DEF Core
    <3>4. EntryOf(new, Root, o) = t BY <1>3, <3>3, DiskAssumption
    <3>5. t # 0 => new[t].kind = node[t].kind BY <1>2
    <3>6. FollowOn(new, e) = FollowOn(node, e)
      BY <2>4, <3>1, <3>2, <3>3, <3>4, <3>5 DEF FollowOn
    <3> QED BY <2>2, <2>3, <3>6
  <2>5. CASE ~(e # 0 /\ node[e].kind = "link")
    <3>1. e # 0 => new[e].kind = node[e].kind BY <1>2
    <3>2. FollowOn(new, e) = e /\ FollowOn(node, e) = e BY <2>5, <3>1 DEF FollowOn
    <3> QED BY <2>2, <2>3, <3>2
  <2> QED BY <2>4, <2>5
<1>5. ASSUME NEW p \in Seq(Names), WalkOn(node, p) # 0 PROVE WalkOn(new, p) = WalkOn(node, p)
  <2>1. \A a \in Inodes, n \in Names : Onward(node, a, n) # 0 =>
          Onward(node, a, n) \in Inodes /\ Onward(new, a, n) = Onward(node, a, n)
    BY <1>4
  <2>2. Root \in Inodes BY DiskAssumption
  <2> QED BY <1>5, <2>1, <2>2, WalkSame
<1>6. ASSUME NEW p \in Seq(Names), LStatOn(node, p) # 0 PROVE LStatOn(new, p) = LStatOn(node, p)
  <2>1. p # <<>> BY <1>6 DEF LStatOn
  <2>2. PICK front \in Seq(Names), n \in Names : front = Front(p) /\ n = Last(p)
    BY <2>1, PathParts
  <2>3. PICK d \in Inodes \cup {0} : d = WalkOn(node, front) BY WalkType DEF Core
  <2>4. LStatOn(node, p) = EntryOf(node, d, n) BY <2>1, <2>2, <2>3 DEF LStatOn
  <2>5. d # 0 BY <1>6, <2>4 DEF EntryOf
  <2>6. WalkOn(new, front) = d BY <1>5, <2>3, <2>5
  <2> QED BY <1>3, <2>1, <2>2, <2>4, <2>5, <2>6 DEF LStatOn
<1> QED BY <1>1, <1>5, <1>6

\* The path names the inode itself and, on Windows, no link to it.
IsNamed(disk, path, i) == StatOn(disk, path) = i /\ (windows => LStatOn(disk, path) = i)

\* The file that open(O_CREAT | O_TRUNC) opens is the one its path names.
OpensEmpty(path, i, new) ==
  IsNamed(new, path, i) /\ i # 0 /\ new[i].kind = "file" /\ new[i].data = <<>>

LEMMA OpenedIsThere ==
  ASSUME Core, NEW path \in Seq(Names), path # <<>>, ~DirLike(node, LStat(path)), NEW at, at = PlaceOf(path),
         NEW i, i = EntryOf(node, at[1], at[2])
  PROVE  /\ \A new : KindIs(node, i, "file") /\ new = Put(i, File(<<>>)) =>
              OpensEmpty(path, i, new)
         /\ \A j \in FreshInodes : \A new :
              /\ i = 0 /\ KindIs(node, at[1], "dir")
              /\ new = Made(File(<<>>), at[1], at[2], j)
              => OpensEmpty(path, j, new)
<1>1. PICK front \in Seq(Names), n \in Names : front = Front(path) /\ n = Last(path) BY PathParts
<1>2. PICK d \in Inodes \cup {0}, e \in Inodes \cup {0} :
        d = ParentOf(path) /\ d = WalkOn(node, front) /\ e = EntryOf(node, d, n)
  <2>1. WalkOn(node, front) \in Inodes \cup {0} BY <1>1, WalkType DEF Core
  <2>2. PICK d \in Inodes \cup {0} : d = WalkOn(node, front) BY <2>1
  <2>3. EntryOf(node, d, n) \in Inodes \cup {0} BY OnwardType DEF Core
  <2> QED BY <1>1, <2>2, <2>3 DEF ParentOf
<1>3. \A disk : WalkOn(disk, path) = Onward(disk, WalkOn(disk, front), n) BY <1>1, WalkStep
<1>4. d # 0 => InUse(d) BY <1>2, WalkInUse
<1>5. e # 0 => d # 0 /\ InUse(e) BY <1>2 DEF EntryOf, InUse
<1>6. PICK x \in Nodes : x = File(<<>>) /\ x.kind = "file" /\ x.data = <<>>
  <2>1. <<>> \in Seq(Byte) OBVIOUS
  <2>2. File(<<>>).data = <<>> BY DEF File
  <2> QED BY <2>1, <2>2, FileType
<1>7. LStat(path) = e BY <1>1, <1>2 DEF LStat, LStatOn, ParentOf
<1>8. CASE KindIs(node, e, "link")
  <2>0. ~windows BY <1>8, <1>7 DEF DirLike
  <2>1. e \in Inodes /\ d \in Inodes /\ InUse(d) /\ InUse(e) BY <1>4, <1>5, <1>8 DEF KindIs
  <2>2. PICK o \in Names : o = node[e].to BY <1>8, <2>1, NodeShape DEF KindIs, Core
  <2>3. at[1] = Root /\ at[2] = o /\ i = EntryOf(node, Root, o)
    <3>1. at = <<Root, o>> BY <1>1, <1>2, <1>8, <2>2 DEF PlaceOf
    <3> QED BY <3>1
  <2>4. ASSUME NEW new, KindIs(node, i, "file"), new = Put(i, x)
        PROVE  OpensEmpty(path, i, new)
    <3>1. i \in Inodes /\ node[i].kind = "file" /\ i # 0
      BY <2>3, <2>4, DiskAssumption, OnwardType DEF KindIs, Core
    <3>2. new[i] = x /\ \A p \in Seq(Names) : WalkOn(node, p) # 0 => WalkOn(new, p) = WalkOn(node, p)
      BY <1>6, <2>4, <3>1, DataWalks
    <3>3. FollowOn(node, e) = i BY <1>8, <2>2, <2>3, <3>1 DEF FollowOn, KindIs
    <3>4. WalkOn(node, path) = i BY <1>2, <1>3, <3>3 DEF Onward
    <3> QED BY <1>6, <2>0, <3>1, <3>2, <3>4 DEF OpensEmpty, IsNamed, StatOn
  <2>5. ASSUME NEW j \in FreshInodes, NEW new, i = 0, KindIs(node, Root, "dir"),
               new = Made(x, Root, o, j)
        PROVE  OpensEmpty(path, j, new)
    <3>1. Root \in Inodes /\ InUse(Root) /\ node[Root].kind = "dir"
      BY <2>5, DiskAssumption DEF InUse, KindIs
    <3>2. /\ new[j] = x /\ EntryOf(new, Root, o) = j /\ j # 0
          /\ \A a \in Inodes : InUse(a) /\ node[a].kind # "dir" => new[a] = node[a]
          /\ \A a \in Inodes, m \in Names : InUse(a) /\ EntryOf(node, a, m) # 0 =>
               EntryOf(new, a, m) = EntryOf(node, a, m)
          /\ \A p \in Seq(Names) : WalkOn(node, p) # 0 => WalkOn(new, p) = WalkOn(node, p)
      <4>1. EntryOf(node, Root, o) = 0 /\ new = Made(x, Root, o, j) BY <2>3, <2>5
      <4> QED BY <3>1, <4>1, MadeWalks
    <3>3. e # 0 /\ node[e].kind = "link" BY <1>8 DEF KindIs
    <3>4. WalkOn(new, front) = d BY <1>2, <1>5, <3>2, <3>3
    <3>5. EntryOf(new, d, n) = e BY <1>2, <2>1, <3>2, <3>3
    <3>6. new[e] = node[e] BY <2>1, <3>2, <3>3
    <3>7. FollowOn(new, e) = j BY <1>6, <2>2, <3>2, <3>3, <3>6 DEF FollowOn
    <3>8. WalkOn(new, path) = j BY <1>3, <3>4, <3>5, <3>7 DEF Onward
    <3> QED BY <1>6, <2>0, <3>2, <3>8 DEF OpensEmpty, IsNamed, StatOn
  <2> QED BY <1>6, <2>3, <2>4, <2>5
<1>9. CASE ~KindIs(node, e, "link")
  <2>1. at[1] = d /\ at[2] = n /\ i = e
    <3>1. at = <<d, n>> BY <1>1, <1>2, <1>9 DEF PlaceOf
    <3> QED BY <1>2, <3>1
  <2>2. ASSUME NEW new, KindIs(node, i, "file"), new = Put(i, x)
        PROVE  OpensEmpty(path, i, new)
    <3>1. i \in Inodes /\ node[i].kind = "file" /\ i # 0 BY <2>1, <2>2 DEF KindIs
    <3>2. /\ new[i] = x
          /\ \A p \in Seq(Names) : WalkOn(node, p) # 0 => WalkOn(new, p) = WalkOn(node, p)
          /\ \A p \in Seq(Names) : LStatOn(node, p) # 0 => LStatOn(new, p) = LStatOn(node, p)
      BY <1>6, <2>2, <3>1, DataWalks
    <3>3. FollowOn(node, e) = i BY <1>9, <2>1 DEF FollowOn, KindIs
    <3>4. WalkOn(node, path) = i BY <1>2, <1>3, <3>3 DEF Onward
    <3>5. LStatOn(new, path) = i BY <1>7, <2>1, <3>1, <3>2 DEF LStat
    <3> QED BY <1>6, <3>1, <3>2, <3>4, <3>5 DEF OpensEmpty, IsNamed, StatOn
  <2>3. ASSUME NEW j \in FreshInodes, NEW new, i = 0, KindIs(node, d, "dir"),
               new = Made(x, d, n, j)
        PROVE  OpensEmpty(path, j, new)
    <3>1. d \in Inodes /\ d # 0 /\ InUse(d) /\ node[d].kind = "dir" BY <1>4, <2>3 DEF KindIs
    <3>2. /\ new[j] = x /\ EntryOf(new, d, n) = j /\ j # 0
          /\ \A p \in Seq(Names) : WalkOn(node, p) # 0 => WalkOn(new, p) = WalkOn(node, p)
      <4>1. EntryOf(node, d, n) = 0 /\ new = Made(x, d, n, j) BY <1>2, <2>1, <2>3
      <4> QED BY <3>1, <4>1, MadeWalks
    <3>3. WalkOn(new, front) = d BY <1>2, <3>1, <3>2
    <3>4. FollowOn(new, j) = j BY <1>6, <3>2 DEF FollowOn
    <3>5. WalkOn(new, path) = j BY <1>3, <3>2, <3>3, <3>4 DEF Onward
    <3>6. LStatOn(new, path) = j BY <1>1, <3>2, <3>3 DEF LStatOn
    <3> QED BY <1>6, <3>2, <3>5, <3>6 DEF OpensEmpty, IsNamed, StatOn
  <2> QED BY <1>6, <2>1, <2>2, <2>3
<1> QED BY <1>8, <1>9

LEMMA OpenedEmpty ==
  ASSUME Core, NEW path \in Seq(Names), NEW o \in OpenedForWrite(path)
  PROVE  path # <<>> /\ OpensEmpty(path, o.ino, o.disk)
<1>1. path # <<>> /\ ~DirLike(node, LStat(path)) BY DEF OpenedForWrite
<1>2. PICK at, i : at = PlaceOf(path) /\ i = EntryOf(node, at[1], at[2]) OBVIOUS
<1>3. \/ KindIs(node, i, "file") /\ o.ino = i /\ o.disk = Put(i, File(<<>>))
      \/ /\ i = 0 /\ KindIs(node, at[1], "dir")
         /\ o.ino \in FreshInodes /\ o.disk = Made(File(<<>>), at[1], at[2], o.ino)
  <2>1. CASE KindIs(node, i, "file") BY <1>1, <1>2, <2>1 DEF OpenedForWrite, Put
  <2>2. CASE ~KindIs(node, i, "file")
    <3>1. \E j \in IF i = 0 /\ KindIs(node, at[1], "dir") THEN FreshInodes ELSE {} :
            o = [ino |-> j, disk |-> SetEntry([node EXCEPT ![j] = File(<<>>)], at[1], at[2], j)]
      BY <1>1, <1>2, <2>2 DEF OpenedForWrite
    <3> QED BY <3>1 DEF Made
  <2> QED BY <2>1, <2>2
<1> QED BY <1>1, <1>2, <1>3, OpenedIsThere

\* The part of a sequence after its first p elements and up to element q.
LEMMA PartOf ==
  ASSUME NEW arg \in Seq(Byte), NEW p \in Nat, NEW q \in Nat, p <= q, q <= Len(arg),
         NEW f \in Nat, f = p + 1
  PROVE  /\ SubSeq(arg, f, q) \in Seq(Byte) /\ Len(SubSeq(arg, f, q)) = q - p
         /\ \A j \in 1 .. q - p : SubSeq(arg, f, q)[j] = arg[p + j]
<1>1. PICK m \in Nat : m = Len(arg) /\ q <= m OBVIOUS
<1>2. f \in 1 .. m + 1 /\ q \in p .. m BY <1>1
<1>3. PICK t : t = SubSeq(arg, f, q) OBVIOUS
<1>6. \A j \in f .. q : arg[j] \in Byte BY <1>1, <1>2
<1>4. t \in Seq(Byte) /\ Len(t) = (IF f <= q THEN q - f + 1 ELSE 0)
      /\ \A j \in 1 .. q - f + 1 : t[j] = arg[f + j - 1]
  BY <1>2, <1>3, <1>6, SubSeqProperties
<1>5. q - f + 1 = q - p /\ \A j \in 1 .. q - p : f + j - 1 = p + j OBVIOUS
<1>7. Len(t) = q - p BY <1>4
<1>8. \A j \in 1 .. q - p : t[j] = arg[p + j] BY <1>4, <1>5
<1> QED BY <1>3, <1>4, <1>7, <1>8

LEMMA PrefixOf ==
  ASSUME NEW arg \in Seq(Byte), NEW q \in Nat, q <= Len(arg)
  PROVE  /\ SubSeq(arg, 1, q) \in Seq(Byte) /\ Len(SubSeq(arg, 1, q)) = q
         /\ \A j \in 1 .. q : SubSeq(arg, 1, q)[j] = arg[j]
<1>1. PICK z \in Nat, f \in Nat : z = 0 /\ f = 1 /\ f = z + 1 /\ z <= q OBVIOUS
<1>2. PICK t : t = SubSeq(arg, f, q) OBVIOUS
<1>3. t \in Seq(Byte) /\ Len(t) = q - z /\ \A j \in 1 .. q - z : t[j] = arg[z + j]
  BY <1>1, <1>2, PartOf
<1>4. q - z = q /\ \A j \in 1 .. q : z + j = j BY <1>1
<1> QED BY <1>1, <1>2, <1>3, <1>4

\* A write at the end of what is there adds its bytes.
LEMMA WriteAtEnd ==
  ASSUME NEW arg \in Seq(Byte), NEW pos \in Nat, NEW n \in Nat, pos + n <= Len(arg)
  PROVE  WriteAt(SubSeq(arg, 1, pos), pos, SubSeq(arg, pos + 1, pos + n)) = SubSeq(arg, 1, pos + n)
<1>1. PICK m \in Nat : m = Len(arg) /\ pos + n <= m OBVIOUS
<1>2. PICK a : a = SubSeq(arg, 1, pos) /\ Len(a) = pos /\ \A j \in 1 .. pos : a[j] = arg[j]
  <2>1. pos <= Len(arg) BY <1>1
  <2>2. PICK a : a = SubSeq(arg, 1, pos) OBVIOUS
  <2>3. Len(a) = pos /\ \A j \in 1 .. pos : a[j] = arg[j] BY <2>1, <2>2, PrefixOf
  <2> QED BY <2>2, <2>3
<1>3. PICK b : b = SubSeq(arg, pos + 1, pos + n) /\ Len(b) = n /\ \A j \in 1 .. n : b[j] = arg[pos + j]
  <2>1. PICK f \in Nat, q \in Nat : f = pos + 1 /\ q = pos + n /\ pos <= q OBVIOUS
  <2>2. PICK t : t = SubSeq(arg, f, q) OBVIOUS
  <2>3. Len(t) = q - pos /\ \A j \in 1 .. q - pos : t[j] = arg[pos + j]
    BY <2>1, <2>2, PartOf
  <2>4. q - pos = n BY <2>1
  <2> QED BY <2>1, <2>2, <2>3, <2>4
<1>4. PICK l : l = pos + n /\ l \in Nat OBVIOUS
<1>5. WriteAt(a, pos, b) =
        [j \in 1 .. l |-> IF j \in pos + 1 .. l THEN b[j - pos] ELSE IF j <= pos THEN a[j] ELSE 0]
  <2>1. (IF Len(a) > pos + Len(b) THEN Len(a) ELSE pos + Len(b)) = l BY <1>2, <1>3, <1>4
  <2> QED BY <1>2, <1>3, <1>4, <2>1 DEF WriteAt
<1>6. ASSUME NEW j \in 1 .. l
      PROVE  (IF j \in pos + 1 .. l THEN b[j - pos] ELSE IF j <= pos THEN a[j] ELSE 0) = arg[j]
  <2>1. CASE j \in pos + 1 .. l
    <3>1. j - pos \in 1 .. n /\ pos + (j - pos) = j BY <1>4, <2>1
    <3>2. b[j - pos] = arg[pos + (j - pos)] BY <1>3, <3>1
    <3> QED BY <2>1, <3>1, <3>2
  <2>2. CASE j \notin pos + 1 .. l
    <3>1. j \in 1 .. pos BY <1>4, <2>2
    <3> QED BY <1>2, <2>2, <3>1
  <2> QED BY <2>1, <2>2
<1>7. WriteAt(a, pos, b) = [j \in 1 .. l |-> arg[j]] BY <1>5, <1>6
<1>8. SubSeq(arg, 1, l) = [j \in 1 .. l |-> arg[j]]
  <2>1. PICK t : t = SubSeq(arg, 1, l) /\ t \in Seq(Byte) /\ Len(t) = l /\ \A j \in 1 .. l : t[j] = arg[j]
    <3>1. l <= Len(arg) BY <1>1, <1>4
    <3>2. PICK t : t = SubSeq(arg, 1, l) OBVIOUS
    <3>3. t \in Seq(Byte) /\ Len(t) = l /\ \A j \in 1 .. l : t[j] = arg[j]
      BY <1>4, <3>1, <3>2, PrefixOf
    <3> QED BY <3>2, <3>3
  <2>2. t = [j \in 1 .. Len(t) |-> t[j]] BY <2>1
  <2> QED BY <2>1, <2>2
<1> QED BY <1>2, <1>3, <1>4, <1>7, <1>8

Wrote(i, pos, bytes) == [node EXCEPT ![i].data = WriteAt(@, pos, bytes)]

\* The file i that path names holds the first pos bytes of arg and is given the
\* next n.
Appends(i, path, arg, pos, n, new) ==
  /\ i \in Inodes /\ path \in Seq(Names) /\ arg \in Seq(Byte)
  /\ pos \in Nat /\ n \in Nat /\ pos + n <= Len(arg)
  /\ node[i].kind = "file" /\ node[i].data = SubSeq(arg, 1, pos) /\ IsNamed(node, path, i)
  /\ new = Wrote(i, pos, SubSeq(arg, pos + 1, pos + n))

LEMMA WroteMore ==
  ASSUME Core, NEW i, NEW path, NEW arg, NEW pos, NEW n, NEW new,
         Appends(i, path, arg, pos, n, new)
  PROVE  /\ KindIs(new, i, "file") /\ IsNamed(new, path, i)
         /\ new[i].data = SubSeq(arg, 1, pos + n)
<1> USE DEF Appends
<1>1. PICK a : a = SubSeq(arg, 1, pos + n) /\ a \in Seq(Byte)
  <2>1. PICK m \in Nat : m = Len(arg) /\ pos + n <= m OBVIOUS
  <2>2. pos + n \in 0 .. m BY <2>1
  <2>3. SubSeq(arg, 1, pos + n) \in Seq(Byte) BY <2>1, <2>2
  <2> QED BY <2>3
<1>2. WriteAt(node[i].data, pos, SubSeq(arg, pos + 1, pos + n)) = a BY <1>1, WriteAtEnd
<1>3. node[i] \in [kind : {"file"}, data : Seq(Byte)] BY NodeShape DEF Core
<1>4. PICK x : x = [node[i] EXCEPT !.data = a] OBVIOUS
<1>5. x \in Nodes /\ x.kind = "file" /\ x.data = a
  <2>1. x \in [kind : {"file"}, data : Seq(Byte)] /\ x.data = a BY <1>1, <1>3, <1>4
  <2> QED BY <2>1 DEF Nodes
<1>6. new = Put(i, x) BY <1>2, <1>4 DEF Wrote, Put
<1>7. /\ new[i] = x
      /\ \A p \in Seq(Names) : WalkOn(node, p) # 0 => WalkOn(new, p) = WalkOn(node, p)
      /\ \A p \in Seq(Names) : LStatOn(node, p) # 0 => LStatOn(new, p) = LStatOn(node, p)
  BY <1>5, <1>6, DataWalks
<1>8. i # 0 BY DiskAssumption
<1>9. path # <<>> /\ WalkOn(node, path) = i BY <1>8 DEF IsNamed, StatOn
<1>10. StatOn(new, path) = i BY <1>7, <1>8, <1>9 DEF StatOn
<1>11. windows => LStatOn(new, path) = i BY <1>7, <1>8 DEF IsNamed
<1> QED BY <1>1, <1>5, <1>7, <1>8, <1>10, <1>11 DEF IsNamed, KindIs

\* How a call ends that closes its file.
Shut(k, success) == Return([k EXCEPT !.fd = 0], success)

LEMMA ShutIs ==
  ASSUME NEW k \in Calls, NEW r, r = Shut(k, TRUE) \/ r = Shut(k, FALSE)
  PROVE  /\ r.pc = "done" /\ r.op = k.op /\ r.path = k.path /\ r.arg = k.arg
         /\ r.faulted = k.faulted /\ (r = Shut(k, FALSE) => r.ok = FALSE)
<1>1. PICK z : z = [k EXCEPT !.fd = 0] OBVIOUS
<1>2. /\ z \in Calls /\ z.op = k.op /\ z.path = k.path /\ z.arg = k.arg /\ z.faulted = k.faulted
  BY <1>1, DiskAssumption DEF Calls
<1>3. CASE r = Shut(k, TRUE)
  <2>1. r = Return(z, TRUE) BY <1>1, <1>3 DEF Shut
  <2>2. PICK s : s = Return(z, FALSE) OBVIOUS
  <2>3. r.ok = TRUE /\ s.ok = FALSE BY <1>2, <2>1, <2>2, Returned
  <2>4. r # Shut(k, FALSE) BY <1>1, <2>2, <2>3 DEF Shut
  <2> QED BY <1>2, <2>1, <2>4, Returned DEF SameBut
<1>4. CASE r = Shut(k, FALSE)
  <2>1. r = Return(z, FALSE) BY <1>1, <1>4 DEF Shut
  <2>2. r.pc = "done" /\ r.ok = FALSE /\ r.faulted = z.faulted /\ SameBut(z, r)
    BY <1>2, <2>1, Returned
  <2> QED BY <1>2, <2>2 DEF SameBut
<1> QED BY <1>3, <1>4

LEMMA ShutOk ==
  ASSUME NEW k \in Calls
  PROVE  Shut(k, TRUE).ok = TRUE
<1>1. PICK z : z = [k EXCEPT !.fd = 0] OBVIOUS
<1>2. z \in Calls BY <1>1, DiskAssumption DEF Calls
<1>3. PICK r : r = Return(z, TRUE) OBVIOUS
<1>4. r.ok = TRUE BY <1>2, <1>3, Returned
<1> QED BY <1>1, <1>3, <1>4 DEF Shut

\* What a call of fs_write_file has written, and what its answer says.
Writing(k, disk) ==
  IsNamed(disk, k.path, k.fd) /\ disk[k.fd].data = SubSeq(k.arg, 1, k.pos)

Landed(k, disk) ==
  /\ KindIs(disk, StatOn(disk, k.path), "file")
  /\ IsNamed(disk, k.path, StatOn(disk, k.path))
  /\ disk[StatOn(disk, k.path)].data = k.arg

\* The answer is true of the disk it left.
Truthful(k, h) ==
  /\ k.ok => Landed(k, h[Len(h)])
  /\ ~k.ok /\ ~k.faulted => h[Len(h)] = h[1] \/ (windows /\ Len(k.arg) >= Dword)

WritesOk ==
  \A c \in Callers :
    /\ call[c].pc = "write" => call[c].pos <= Len(call[c].arg)
    /\ call[c].pc = "write" /\ alone[c] => Writing(call[c], node)
    /\ call[c].pc = "done" /\ call[c].op = "write" /\ alone[c] => Truthful(call[c], hist[c])

LEMMA WriteFileOk ==
  ASSUME Core, Histories, NEW c \in Callers, Moves(c), NEW path \in ArgPaths,
         NEW content \in Contents, WriteFile(c, path, content)
  PROVE  /\ call'[c].pc = "write" => /\ call'[c].pos <= Len(call'[c].arg)
                                     /\ Writing(call'[c], node')
         /\ call'[c].pc = "done" => Truthful(call'[c], hist'[c])
<1> DEFINE k == Begin("write", path, content)
<1>1. call[c].pc = "idle" BY DEF WriteFile, CanCall
<1>2. Started(k, "write", path, content) /\ content \in Seq(Byte) /\ path \in Seq(Names)
  <2>1. content \in Seq(Names) \cup Seq(Byte) \cup Ranges /\ content \in Seq(Byte) BY ArgTypes
  <2> QED BY <2>1, ArgTypes, Begun
<1>4. \/ \E o \in OpenedForWrite(path) :
           node' = o.disk /\ Goto(c, [k EXCEPT !.fd = o.ino, !.pc = "write"])
      \/ Goto(c, Return(k, FALSE)) /\ UNCHANGED node
      \/ Goto(c, Return(Faulted(k), FALSE))
  BY DEF WriteFile, Refused
<1> HIDE DEF k
<1>5. \A q : Goto(c, q) => call'[c] = q BY DEF Goto, Core, AllTidy
<1>6. k \in Calls /\ k.path = path /\ k.arg = content /\ k.pos = 0 BY <1>2 DEF Started
<1>7. ASSUME NEW o \in OpenedForWrite(path), node' = o.disk,
             Goto(c, [k EXCEPT !.fd = o.ino, !.pc = "write"])
      PROVE  /\ call'[c].pc = "write" /\ call'[c].pos <= Len(call'[c].arg)
             /\ Writing(call'[c], node')
  <2>1. PICK i : i = o.ino OBVIOUS
  <2>2. OpensEmpty(path, i, node') BY <1>2, <1>7, <2>1, OpenedEmpty
  <2>3. PICK q : q = [k EXCEPT !.fd = i, !.pc = "write"] OBVIOUS
  <2>4. q.pc = "write" /\ q.fd = i /\ q.path = path /\ q.arg = content /\ q.pos = 0
    BY <1>6, <2>3 DEF Calls
  <2>5. call'[c] = q BY <1>5, <1>7, <2>1, <2>3
  <2>6. SubSeq(content, 1, 0) = <<>> BY <1>2
  <2>7. 0 <= Len(content) BY <1>2
  <2> QED BY <2>2, <2>4, <2>5, <2>6, <2>7 DEF Writing, OpensEmpty
<1>8. CASE Goto(c, Return(k, FALSE)) /\ UNCHANGED node
  <2>1. PICK r : r = Return(k, FALSE) OBVIOUS
  <2>2. r.ok = FALSE /\ r.pc = "done" BY <1>6, <2>1, Returned
  <2>3. call'[c] = r BY <1>5, <1>8, <2>1
  <2>4. hist'[c][1] = node BY <1>1, <2>2, <2>3, FirstSeen
  <2>5. Grown(<<node>>, hist'[c]) BY <1>1, <2>2, <2>3, Observed
  <2>6. hist'[c][Len(hist'[c])] = node' BY <2>5 DEF Grown
  <2> QED BY <1>8, <2>2, <2>3, <2>4, <2>6 DEF Truthful
<1>9. CASE Goto(c, Return(Faulted(k), FALSE))
  <2>1. PICK g : g = Faulted(k) OBVIOUS
  <2>2. g \in Calls /\ g.faulted = TRUE BY <1>6, <2>1, AfterFault
  <2>3. PICK r : r = Return(g, FALSE) OBVIOUS
  <2>4. r.ok = FALSE /\ r.faulted = TRUE /\ r.pc = "done" BY <2>2, <2>3, Returned
  <2>5. call'[c] = r BY <1>5, <1>9, <2>1, <2>3
  <2> QED BY <2>4, <2>5 DEF Truthful
<1> QED BY <1>4, <1>7, <1>8, <1>9

\* A turn of the write loop: it fails, finds nothing left, or writes n bytes.
Wrote1(k, n) == node' = Wrote(k.fd, k.pos, SubSeq(k.arg, k.pos + 1, k.pos + n))

Turn(k, left, q) ==
  \/ q = Shut(Faulted(k), FALSE)
  \/ left = 0 /\ node' = node /\ q = Shut(k, TRUE)
  \/ Wrote1(k, left) /\ left > 0 /\ q = Shut(k, TRUE)
  \/ windows /\ left >= Dword /\ q = Shut(k, FALSE)
  \/ \E n \in 1 .. left : n # left /\ Wrote1(k, n) /\ q = [k EXCEPT !.pos = @ + n]

LEMMA WriteChunkIs ==
  ASSUME Core, NEW c \in Callers, WriteChunk(c), NEW k, k = call[c],
         NEW left, left = Len(k.arg) - k.pos
  PROVE  /\ k.pc = "write" /\ k \in Calls /\ k.op = "write" /\ k.arg \in Seq(Byte)
         /\ k.fd \in Inodes /\ node[k.fd].kind = "file"
         /\ Turn(k, left, call'[c])
<1>0. k.pc = "write" BY DEF WriteChunk
<1>1. k \in Calls /\ k.op = "write" /\ k.arg \in Seq(Byte) /\ k.fd # 0
  BY <1>0, HoldsOneFd DEF Shape
<1>2. k.fd \in Inodes /\ k.pos \in Nat /\ left \in Int /\ node[k.fd].kind = "file"
  BY <1>0, <1>1 DEF Calls, Core, WritesFiles, KindIs
<1>3. \A q : Goto(c, q) => call'[c] = q BY DEF Goto, Core, AllTidy
<1>4. \/ Goto(c, Shut(Faulted(k), FALSE))
      \/ left = 0 /\ Goto(c, Shut(k, TRUE)) /\ UNCHANGED node
      \/ left > 0 /\ windows /\ Wrote1(k, Request(left)) /\ Goto(c, Shut(k, Request(left) = left))
      \/ /\ left > 0
         /\ \E n \in 1 .. left :
              /\ Wrote1(k, n)
              /\ IF n = left THEN Goto(c, Shut(k, TRUE)) ELSE Goto(c, [k EXCEPT !.pos = @ + n])
  BY DEF WriteChunk, Shut, Wrote1, Wrote, WriteEnds
<1>5. CASE left > 0 /\ windows /\ Wrote1(k, Request(left)) /\ Goto(c, Shut(k, Request(left) = left))
  <2>1. CASE Request(left) = left
    <3>1. Goto(c, Shut(k, TRUE)) BY <1>5, <2>1 DEF Shut, Return
    <3>2. Wrote1(k, left) BY <1>5, <2>1
    <3>3. Turn(k, left, call'[c]) BY <1>3, <1>5, <3>1, <3>2 DEF Turn
    <3> QED BY <1>0, <1>1, <1>2, <3>3
  <2>2. CASE Request(left) # left
    <3>1. Goto(c, Shut(k, FALSE)) BY <1>5, <2>2 DEF Shut, Return
    <3>2. left >= Dword
      <4>1. SUFFICES ASSUME left < Dword PROVE FALSE BY <1>2, DiskAssumption
      <4>2. PICK l \in Nat, D \in Nat : l = left /\ D = Dword /\ 0 < l /\ l < D
        BY <1>2, <1>5, <4>1, DiskAssumption
      <4>3. l % D = l BY <4>2
      <4> QED BY <1>5, <2>2, <4>2, <4>3 DEF Request
    <3>3. Turn(k, left, call'[c]) BY <1>3, <1>5, <3>1, <3>2 DEF Turn
    <3> QED BY <1>0, <1>1, <1>2, <3>3
  <2> QED BY <2>1, <2>2
<1>6. ASSUME left > 0, NEW n \in 1 .. left, Wrote1(k, n),
             IF n = left THEN Goto(c, Shut(k, TRUE)) ELSE Goto(c, [k EXCEPT !.pos = @ + n])
      PROVE  Turn(k, left, call'[c])
  BY <1>3, <1>6 DEF Turn
<1>7. Turn(k, left, call'[c]) BY <1>3, <1>4, <1>5, <1>6 DEF Turn
<1> QED BY <1>0, <1>1, <1>2, <1>7

LEMMA WriteChunkOk ==
  ASSUME Core, Histories, NEW c \in Callers, Moves(c), WriteChunk(c),
         call[c].pos <= Len(call[c].arg)
  PROVE  /\ call'[c].pc = "write" => call'[c].pos <= Len(call'[c].arg)
         /\ Writing(call[c], node) =>
              /\ call'[c].pc = "write" => Writing(call'[c], node')
              /\ call'[c].pc = "done" => Truthful(call'[c], hist'[c])
<1>1. PICK k, left : k = call[c] /\ left = Len(k.arg) - k.pos OBVIOUS
<1>2. /\ k.pc = "write" /\ k \in Calls /\ k.op = "write" /\ k.arg \in Seq(Byte)
      /\ k.fd \in Inodes /\ node[k.fd].kind = "file" /\ Turn(k, left, call'[c])
  BY <1>1, WriteChunkIs
<1>3. PICK pos \in Nat, m \in Nat : pos = k.pos /\ m = Len(k.arg) /\ pos <= m /\ left = m - pos
  <2>1. k.pos \in Nat BY <1>2 DEF Calls
  <2>2. Len(k.arg) \in Nat BY <1>2
  <2>3. PICK p, m : p = k.pos /\ m = Len(k.arg) OBVIOUS
  <2>4. p \in Nat /\ m \in Nat /\ p <= m /\ left = m - p BY <1>1, <2>1, <2>2, <2>3
  <2> QED BY <2>3, <2>4
<1>4. k.path \in Seq(Names) /\ k.fd # 0 BY <1>2, DiskAssumption DEF Calls
<1>5. ASSUME call'[c].pc # "idle" PROVE hist'[c][Len(hist'[c])] = node'
  BY <1>1, <1>2, <1>5, Observed DEF Grown
<1>6. ASSUME NEW n \in Nat, pos + n <= m, Wrote1(k, n), Writing(k, node)
      PROVE  /\ KindIs(node', k.fd, "file") /\ IsNamed(node', k.path, k.fd)
             /\ node'[k.fd].data = SubSeq(k.arg, 1, pos + n)
  <2>1. PICK i, arg, path, new : i = k.fd /\ arg = k.arg /\ path = k.path /\ new = node'
    OBVIOUS
  <2>2. Appends(i, path, arg, pos, n, new)
    BY <1>2, <1>3, <1>4, <1>6, <2>1 DEF Appends, Writing, Wrote1
  <2>3. /\ KindIs(new, i, "file") /\ IsNamed(new, path, i)
        /\ new[i].data = SubSeq(arg, 1, pos + n)
    BY <2>2, WroteMore
  <2> QED BY <2>1, <2>3
<1>7. SubSeq(k.arg, 1, m) = k.arg BY <1>2, <1>3, SubSeqFull
<1>8. CASE call'[c] = Shut(Faulted(k), FALSE)
  <2>1. PICK g : g = Faulted(k) OBVIOUS
  <2>2. g \in Calls /\ g.faulted = TRUE BY <1>2, <2>1, AfterFault
  <2>3. PICK r : r = Shut(g, FALSE) OBVIOUS
  <2>4. r.pc = "done" /\ r.faulted = TRUE /\ r.ok = FALSE BY <2>2, <2>3, ShutIs
  <2> QED BY <1>8, <2>1, <2>3, <2>4 DEF Truthful
<1>9. ASSUME call'[c] = Shut(k, TRUE),
             Writing(k, node) => /\ KindIs(node', k.fd, "file") /\ IsNamed(node', k.path, k.fd)
                                 /\ node'[k.fd].data = k.arg
      PROVE  call'[c].pc = "done" /\ (Writing(k, node) => Truthful(call'[c], hist'[c]))
  <2>1. PICK r : r = Shut(k, TRUE) OBVIOUS
  <2>2. r.pc = "done" /\ r.path = k.path /\ r.arg = k.arg BY <1>2, <2>1, ShutIs
  <2>3. r.ok BY <2>1 , <1>2, ShutOk
  <2>4. hist'[c][Len(hist'[c])] = node' BY <1>5, <1>9, <2>1, <2>2
  <2>5. ASSUME Writing(k, node) PROVE Landed(r, node') BY <1>9, <2>2, <2>5 DEF Landed, IsNamed
  <2> QED BY <1>9, <2>1, <2>2, <2>3, <2>4, <2>5 DEF Truthful
<1>10. CASE left = 0 /\ node' = node /\ call'[c] = Shut(k, TRUE)
  <2>1. pos = m BY <1>3, <1>10
  <2>2. ASSUME Writing(k, node)
        PROVE  /\ KindIs(node', k.fd, "file") /\ IsNamed(node', k.path, k.fd)
               /\ node'[k.fd].data = k.arg
    BY <1>2, <1>3, <1>4, <1>7, <1>10, <2>1, <2>2 DEF Writing, IsNamed, KindIs
  <2>3. call'[c].pc = "done" /\ (Writing(k, node) => Truthful(call'[c], hist'[c]))
    BY <1>9, <1>10, <2>2
  <2> QED BY <1>1, <2>3
<1>11. CASE Wrote1(k, left) /\ left > 0 /\ call'[c] = Shut(k, TRUE)
  <2>1. left \in Nat /\ pos + left = m /\ pos + left <= m BY <1>3, <1>11
  <2>2. ASSUME Writing(k, node)
        PROVE  /\ KindIs(node', k.fd, "file") /\ IsNamed(node', k.path, k.fd)
               /\ node'[k.fd].data = k.arg
    BY <1>6, <1>7, <1>11, <2>1, <2>2
  <2>3. call'[c].pc = "done" /\ (Writing(k, node) => Truthful(call'[c], hist'[c]))
    BY <1>9, <1>11, <2>2
  <2> QED BY <1>1, <2>3
<1>12. CASE windows /\ left >= Dword /\ call'[c] = Shut(k, FALSE)
  <2>1. PICK r : r = Shut(k, FALSE) OBVIOUS
  <2>2. r.pc = "done" /\ r.arg = k.arg /\ r.ok = FALSE BY <1>2, <2>1, ShutIs
  <2>3. Len(k.arg) >= Dword BY <1>3, <1>12, DiskAssumption
  <2> QED BY <1>12, <2>1, <2>2, <2>3 DEF Truthful
<1>13. ASSUME NEW n \in 1 .. left, n # left, Wrote1(k, n), call'[c] = [k EXCEPT !.pos = @ + n]
       PROVE  /\ call'[c].pc = "write" /\ call'[c].pos <= Len(call'[c].arg)
              /\ Writing(k, node) => Writing(call'[c], node')
  <2>1. n \in Nat /\ pos + n <= m /\ pos + n \in Nat BY <1>3
  <2>2. PICK q : q = [k EXCEPT !.pos = pos + n] OBVIOUS
  <2>3. q.pc = "write" /\ q.pos = pos + n /\ q.arg = k.arg /\ q.path = k.path /\ q.fd = k.fd
    BY <1>2, <2>2 DEF Calls
  <2>4. call'[c] = q BY <1>3, <1>13, <2>2
  <2>5. q.pos <= Len(q.arg) BY <1>3, <2>1, <2>3
  <2>6. ASSUME Writing(k, node) PROVE Writing(q, node')
    <3>1. IsNamed(node', k.path, k.fd) /\ node'[k.fd].data = SubSeq(k.arg, 1, pos + n)
      BY <1>6, <1>13, <2>1, <2>6
    <3> QED BY <2>3, <3>1 DEF Writing
  <2> QED BY <2>3, <2>4, <2>5, <2>6
<1> QED BY <1>1, <1>2, <1>8, <1>10, <1>11, <1>12, <1>13 DEF Turn

LEMMA WritesStep ==
  ASSUME Core, Histories, WritesOk, NEW c \in Callers, Moves(c), UNCHANGED windows
  PROVE  WritesOk'
<1>1. ASSUME NEW d \in Callers
      PROVE  /\ call'[d].pc = "write" => call'[d].pos <= Len(call'[d].arg)
             /\ call'[d].pc = "write" /\ alone'[d] => Writing(call'[d], node')
             /\ call'[d].pc = "done" /\ call'[d].op = "write" /\ alone'[d] =>
                  Truthful(call'[d], hist'[d])
  <2>1. CASE d = c
    <3>1. CASE call'[c].op = "write" /\ call'[c].pc # "idle"
      <4>1. (\E p \in ArgPaths, b \in Contents : WriteFile(c, p, b)) \/ WriteChunk(c)
        BY <3>1 DEF Moves, Steps
      <4>2. CASE \E p \in ArgPaths, b \in Contents : WriteFile(c, p, b)
        BY <2>1, <4>2, WriteFileOk
      <4>3. CASE WriteChunk(c)
        <5>1. call[c].pc = "write" BY <4>3 DEF WriteChunk
        <5>2. alone'[c] => alone[c] BY <3>1 DEF Moves, Observe
        <5>3. call[c].pos <= Len(call[c].arg) /\ (alone[c] => Writing(call[c], node))
          BY <5>1 DEF WritesOk
        <5>4. /\ call'[c].pc = "write" => call'[c].pos <= Len(call'[c].arg)
              /\ Writing(call[c], node) =>
                   /\ call'[c].pc = "write" => Writing(call'[c], node')
                   /\ call'[c].pc = "done" => Truthful(call'[c], hist'[c])
          BY <4>3, <5>3, WriteChunkOk
        <5> QED BY <2>1, <5>2, <5>3, <5>4
      <4> QED BY <4>1, <4>2, <4>3
    <3>2. CASE ~(call'[c].op = "write" /\ call'[c].pc # "idle")
      <4>1. call'[c].pc = "write" => call'[c].op = "write"
        BY DEF Moves, Orderly, AllTidy, Tidy, Shape
      <4> QED BY <2>1, <3>2, <4>1
    <3> QED BY <3>1, <3>2
  <2>2. CASE d # c
    <3>1. call'[d] = call[d] BY <2>2 DEF Moves, Orderly, OthersSame
    <3>2. ASSUME call[d].pc = "write", alone'[d] PROVE alone[d] /\ node' = node
      BY <2>2, <3>1, <3>2 DEF Moves, Observe
    <3>3. ASSUME call[d].pc = "done", alone'[d] PROVE alone[d] /\ hist'[d] = hist[d]
      <4>1. alone[d] BY <2>2, <3>1, <3>3 DEF Moves, Observe
      <4>2. hist'[d] = hist[d] BY <3>1, <3>3, Observed
      <4> QED BY <4>1, <4>2
    <3> QED BY <3>1, <3>2, <3>3 DEF WritesOk
  <2> QED BY <2>1, <2>2
<1> QED BY <1>1 DEF WritesOk, Writing, Landed, IsNamed, Truthful

LEMMA SameBuild ==
  ASSUME NEW c \in Callers, Start(c) \/ Continue(c) \/ Release(c)
  PROVE  UNCHANGED windows
<1>1. CASE Start(c)
  BY <1>1 DEF Start, OpenFile, ReadFile, ReadRange, WriteFile, MakeDirectory, RenamePath,
              ListDirectory, RemovePath, ReadAll, CloseFile
<1>2. CASE Continue(c)
  BY <1>2 DEF Continue, StatOpened, ReadChunk, HandleSize, PreadChunk, WriteChunk,
              RecheckDirectory, ListNext, RemoveOpen, RemoveNext, RemoveLeaf, RemoveDir, RemoveEntry
<1>3. CASE Release(c) BY <1>3 DEF Release
<1> QED BY <1>1, <1>2, <1>3

-----------------------------------------------------------------------------
(* What holds of the calls in progress and of what they have seen.         *)

Seen ==
  /\ Core /\ Histories
  /\ \A c \in Callers : Honest(call[c], hist[c])
  /\ \A c \in Callers : ListingOk(call[c], hist[c])
  /\ WritesOk

LEMMA InitSeen == Init => Seen
<1> SUFFICES ASSUME Init PROVE Seen OBVIOUS
<1>1. Core BY InitCore
<1>2. \A c \in Callers : call[c].pc = "idle" /\ hist[c] = <<>> BY IdleType DEF Init
<1>3. hist \in [Callers -> Seq(Disks)]
  <2>1. <<>> \in Seq(Disks) OBVIOUS
  <2> QED BY <2>1 DEF Init
<1>4. Histories BY <1>2, <1>3 DEF Histories
<1>5. \A c \in Callers : Honest(call[c], hist[c]) BY <1>2 DEF Honest
<1>6. \A c \in Callers : ListingOk(call[c], hist[c]) BY <1>2 DEF ListingOk
<1>7. WritesOk BY <1>2 DEF WritesOk
<1> QED BY <1>1, <1>4, <1>5, <1>6, <1>7 DEF Seen

LEMMA NextSeen == Seen /\ [Next]_vars => Seen'
<1> SUFFICES ASSUME Seen, [Next]_vars PROVE Seen' OBVIOUS
<1>1. Core /\ Histories /\ Core' BY NextCore DEF Seen
<1>2. ASSUME NEW c \in Callers, Start(c) \/ Continue(c) \/ Release(c) PROVE Seen'
  <2>1. Moves(c) BY <1>1, <1>2, StartMoves, ContinueMoves, ReleaseMoves
  <2>2. Histories' BY <1>1, <2>1, HistoriesStep
  <2>3. \A d \in Callers : Honest(call'[d], hist'[d]) BY <1>1, <2>1, HonestStep DEF Seen
  <2>4. \A d \in Callers : ListingOk(call'[d], hist'[d]) BY <1>1, <2>1, ListingStep DEF Seen
  <2>5. UNCHANGED windows BY <1>2, SameBuild
  <2>6. WritesOk' BY <1>1, <2>1, <2>5, WritesStep DEF Seen
  <2>7. (\A d \in Callers : Honest(call[d], hist[d]))'
    BY <2>3, <2>5 DEF Honest, DirLike, NamedOn
  <2> QED BY <1>1, <2>2, <2>4, <2>6, <2>7 DEF Seen
<1>3. CASE UNCHANGED vars
  <2>1. call' = call /\ hist' = hist /\ node' = node /\ alone' = alone /\ windows' = windows
    BY <1>3 DEF vars
  <2>2. Histories' BY <1>1, <2>1 DEF Histories
  <2>3. WritesOk' BY <2>1 DEF Seen, WritesOk, Writing, Landed, IsNamed, Truthful
  <2>4. (\A d \in Callers : Honest(call[d], hist[d]))'
    BY <2>1 DEF Seen, Honest, DirLike, NamedOn
  <2> QED BY <1>1, <2>1, <2>2, <2>3, <2>4 DEF Seen
<1> QED BY <1>2, <1>3 DEF Next

\* With Core, each call in progress knows the present disk as the last of those
\* it has seen, the answer of a finished fs_make_directory was true of one of
\* them, and a listing in progress holds the names that readdir has returned
\* (fs.c:362-384, 498-571).
THEOREM InductiveHistory == Spec => []Seen
BY InitSeen, NextSeen, PTL DEF Spec

\* fs_make_directory answers TRUE only if the path was a directory at some
\* moment of the call, and FALSE without a failure only if at some moment it was
\* none, however many callers make, rename and remove meanwhile (fs.c:362-384).
THEOREM HonestMkdir == Spec => []MakeDirectoryIsHonest
<1>1. Seen => MakeDirectoryIsHonest BY HonestIs DEF Seen
<1> QED BY <1>1, InductiveHistory, PTL

\* A sequence that repeats nothing has as many elements as it is long.
LEMMA AsManyNames ==
  ASSUME NEW s \in Seq(Names), NoRepeats(s)
  PROVE  Cardinality(NamesIn(s)) = Len(s)
<1>1. PICK m \in Nat : m = Len(s) OBVIOUS
<1>2. PICK f : f = [j \in 1 .. m |-> s[j]] OBVIOUS
<1>3. f \in [1 .. m -> NamesIn(s)] BY <1>1, <1>2 DEF NamesIn
<1>4. IsInjective(f) BY <1>1, <1>2 DEF IsInjective, NoRepeats
<1>5. \A x \in NamesIn(s) : \E j \in 1 .. m : f[j] = x BY <1>1, <1>2 DEF NamesIn
<1>6. f \in Bijection(1 .. m, NamesIn(s))
  BY <1>3, <1>4, <1>5 DEF Bijection, Injection, Surjection
<1>7. ExistsBijection(1 .. m, NamesIn(s)) BY <1>6 DEF ExistsBijection
<1> QED BY <1>1, <1>7, FS_CountingElements

\* A listing that is returned names no entry twice, names only entries that were
\* there at some moment, and misses one that was there throughout only if memory
\* or readdir failed, however the directory changes under it (fs.c:498-571).
THEOREM FaithfulListings == Spec => []ListingIsFaithful
<1>1. ASSUME Seen PROVE ListingIsFaithful
  <2> SUFFICES ASSUME NEW c \in Callers, NEW k, k = call[c], NEW h, h = hist[c],
                      NEW listed,
                      listed = {fs_directory_entry(k, j) : j \in 0 .. fs_directory_count(k) - 1},
                      NEW i, i = StatOn(Head(h), k.path),
                      k.pc = "done", k.op = "list", k.ok
      PROVE  /\ Cardinality(listed) = fs_directory_count(k)
             /\ \A n \in Names :
                  /\ n \in listed => \E j \in DOMAIN h : EntryOf(h[j], i, n) # 0
                  /\ ~k.faulted /\ (\A j \in DOMAIN h : EntryOf(h[j], i, n) # 0) => n \in listed
    BY DEF ListingIsFaithful, Finished, Before, Once, Always
  <2>1. Tidy(call[c], handle[c], blocks[c], fds[c]) BY <1>1 DEF Seen, Core, AllTidy
  <2>2. PICK s \in Seq(Names) : s = k.names BY <2>1 DEF Tidy, Calls
  <2>3. PICK m \in Nat : m = Len(s) BY <2>2
  <2>4. Faithful(k, h) BY <1>1 DEF Seen, ListingOk
  <2>5. fs_directory_count(k) = m BY <2>2, <2>3 DEF fs_directory_count
  <2>6. listed = NamesIn(s)
    <3>1. ASSUME NEW x PROVE (\E j \in 0 .. m - 1 : x = s[j + 1]) <=> (\E j \in 1 .. m : x = s[j])
      <4>1. ASSUME NEW j \in 1 .. m PROVE j - 1 \in 0 .. m - 1 /\ (j - 1) + 1 = j BY <2>3
      <4>2. ASSUME NEW j \in 0 .. m - 1 PROVE j + 1 \in 1 .. m BY <2>3
      <4> QED BY <4>1, <4>2
    <3>2. listed = {s[j + 1] : j \in 0 .. m - 1} BY <2>2, <2>5 DEF fs_directory_entry
    <3>3. ASSUME NEW x PROVE x \in listed <=> x \in NamesIn(s)
      <4>1. x \in listed <=> \E j \in 0 .. m - 1 : x = s[j + 1] BY <3>2
      <4>2. x \in NamesIn(s) <=> \E j \in 1 .. m : x = s[j] BY <2>3 DEF NamesIn
      <4> QED BY <3>1, <4>1, <4>2
    <3>4. \A x : x \in listed <=> x \in NamesIn(s) BY <3>3
    <3> HIDE DEF NamesIn
    <3> QED BY <3>4, Zenon
  <2>7. h \in Seq(Disks) /\ Len(h) > 0 BY <1>1 DEF Seen, Histories
  <2>8. Head(h) = h[1] /\ DOMAIN h = 1 .. Len(h) BY <2>7
  <2>9. NoRepeats(s) /\ Listed(k) = listed BY <2>2, <2>4, <2>6 DEF Faithful, Listed
  <2>10. Cardinality(listed) = fs_directory_count(k) BY <2>2, <2>3, <2>5, <2>6, <2>9, AsManyNames
  <2>11. /\ \A n \in listed : \E j \in 1 .. Len(h) : EntryOf(h[j], i, n) # 0
         /\ k.faulted \/ \A n \in Names :
              (\A j \in 1 .. Len(h) : EntryOf(h[j], i, n) # 0) => n \in listed
    BY <2>4, <2>8, <2>9 DEF Faithful, WasThere, StayedThere
  <2> QED BY <2>8, <2>10, <2>11
<1> QED BY <1>1, InductiveHistory, PTL

\* A write reported as done, by the only caller to change the disk meanwhile,
\* left the whole content in the file that its path names, however short the
\* single writes; one refused without an I/O error left the disk alone, or is the
\* Windows count that a DWORD does not hold (fs.c:210-241, 287-319).
THEOREM WholeWrites == Spec => []WritesAreWhole
<1>1. ASSUME Seen PROVE WritesAreWhole
  <2> SUFFICES ASSUME NEW c \in Callers, NEW k, k = call[c], NEW h, h = hist[c],
                      NEW last, last = Last(h), NEW i, i = StatOn(last, k.path),
                      k.pc = "done", k.op = "write", alone[c]
      PROVE  /\ k.ok => KindIs(last, i, "file") /\ last[i].data = k.arg
             /\ k.ok /\ last = node =>
                  fs_file_exists(k.path) /\ fs_file_size(k.path) = Len(k.arg)
             /\ ~k.ok /\ ~k.faulted =>
                  last = Head(h) \/ (windows /\ Len(k.arg) >= Dword)
    BY DEF WritesAreWhole, Finished, Before, After
  <2>1. h \in Seq(Disks) /\ Len(h) > 0 BY <1>1 DEF Seen, Histories
  <2>2. last = h[Len(h)] /\ Head(h) = h[1] BY <2>1 DEF Last
  <2>3. Truthful(k, h) BY <1>1 DEF Seen, WritesOk
  <2>4. k.ok => Landed(k, last) BY <2>2, <2>3 DEF Truthful
  <2>5. k.ok => KindIs(last, i, "file") /\ last[i].data = k.arg BY <2>4 DEF Landed
  <2>6. ASSUME k.ok, last = node
        PROVE  fs_file_exists(k.path) /\ fs_file_size(k.path) = Len(k.arg)
    <3>1. NamedOn(node, k.path) = i /\ KindIs(node, i, "file") /\ node[i].data = k.arg
      BY <2>4, <2>5, <2>6 DEF NamedOn, Landed, IsNamed
    <3>2. PICK a : a = NamedOn(node, k.path) OBVIOUS
    <3>3. KindIs(node, a, "file") => SizeOf(a) = Len(node[a].data) BY DEF SizeOf, KindIs
    <3> QED BY <3>1, <3>2, <3>3 DEF fs_file_exists, fs_file_size
  <2> QED BY <2>2, <2>3, <2>5, <2>6 DEF Truthful
<1> QED BY <1>1, InductiveHistory, PTL

===============================================================================
