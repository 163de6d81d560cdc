---------------------------- MODULE FileReadProofs ----------------------------
(***************************************************************************)
(* FileSystem reads exactly.                                               *)
(*                                                                         *)
(* ReadOk says, for every program point of the three reading calls, how    *)
(* the bytes in the buffer relate to the disks the call has seen.  It      *)
(* needs what is open to stay what it is: no step of any caller turns an   *)
(* inode in use into another kind, and no entry names a free inode.        *)
(***************************************************************************)
EXTENDS FileSystemProofs

-----------------------------------------------------------------------------
(* The disk: what is in use keeps its kind.                                *)

\* The root is a directory, and an entry names something.
Live(disk) ==
  /\ disk[Root].kind = "dir"
  /\ \A d \in Inodes, n \in Names :
       EntryOf(disk, d, n) # 0 => disk[EntryOf(disk, d, n)].kind # "unused"

Linked(t) == \E d \in Inodes, n \in Names : EntryOf(node, d, n) = t

\* What is in use keeps its kind, and an entry names what one did or what is new.
Reshaped(new) ==
  /\ \A i \in Inodes : InUse(i) => new[i].kind = node[i].kind
  /\ \A d \in Inodes, n \in Names :
       EntryOf(new, d, n) # 0 =>
         Linked(EntryOf(new, d, n)) \/ new[EntryOf(new, d, n)].kind # "unused"

LEMMA SameShape ==
  ASSUME NEW new, new = node
  PROVE  Reshaped(new)
BY DEF Reshaped, Linked

LEMMA StaysLive ==
  ASSUME Core, Live(node), NEW new, new \in Disks, Reshaped(new)
  PROVE  Live(new)
<1>1. Root \in Inodes /\ InUse(Root) BY DiskAssumption DEF InUse
<1>2. new[Root].kind = "dir" BY <1>1 DEF Live, Reshaped
<1>3. ASSUME NEW d \in Inodes, NEW n \in Names, EntryOf(new, d, n) # 0
      PROVE  new[EntryOf(new, d, n)].kind # "unused"
  <2>1. EntryOf(new, d, n) \in Inodes \cup {0} BY OnwardType
  <2>2. PICK t \in Inodes : t = EntryOf(new, d, n) BY <1>3, <2>1
  <2>3. CASE Linked(t)
    <3>1. PICK e \in Inodes, m \in Names : EntryOf(node, e, m) = t BY <2>3 DEF Linked
    <3>2. t # 0 BY <1>3, <2>2
    <3>3. node[t].kind # "unused" BY <3>1, <3>2 DEF Live
    <3>4. InUse(t) BY <3>1 DEF InUse
    <3> QED BY <2>2, <3>3, <3>4 DEF Reshaped
  <2>4. CASE ~Linked(t) BY <1>3, <2>2, <2>4 DEF Reshaped
  <2> QED BY <2>3, <2>4
<1> QED BY <1>2, <1>3 DEF Live

\* A file is given new data.
LEMMA PutShape ==
  ASSUME Core, NEW i \in Inodes, node[i].kind = "file", NEW x, x.kind = "file",
         NEW new, new = Put(i, x)
  PROVE  Reshaped(new)
<1>1. new[i] = x /\ \A j \in Inodes \ {i} : new[j] = node[j] BY DEF Core, Disks, Put
<1>2. \A j \in Inodes : new[j].kind = node[j].kind BY <1>1
<1>3. ASSUME NEW a \in Inodes, NEW n \in Names PROVE EntryOf(new, a, n) = EntryOf(node, a, n)
  BY <1>1 DEF EntryOf
<1> QED BY <1>2, <1>3 DEF Reshaped, Linked

LEMMA EntrySet ==
  ASSUME NEW disk \in Disks, NEW d \in Inodes, disk[d].kind = "dir", NEW n \in Names,
         NEW t \in Inodes \cup {0}, NEW new, new = SetEntry(disk, d, n, t)
  PROVE  /\ new \in Disks /\ \A i \in Inodes : new[i].kind = disk[i].kind
         /\ \A a \in Inodes, m \in Names :
              EntryOf(new, a, m) = EntryOf(disk, a, m) \/ EntryOf(new, a, m) = t
<1>1. new \in Disks /\ \A i \in Inodes : new[i].kind = disk[i].kind BY EntryType
<1>2. disk[d] \in [kind : {"dir"}, entries : [Names -> Inodes \cup {0}]] BY NodeShape
<1>3. PICK y : y = [disk[d] EXCEPT !.entries = [@ EXCEPT ![n] = t]] OBVIOUS
<1>4. /\ y.entries[n] = t /\ \A m \in Names \ {n} : y.entries[m] = disk[d].entries[m]
  BY <1>2, <1>3
<1>5. new = [disk EXCEPT ![d] = y] BY <1>3 DEF SetEntry
<1>6. new[d] = y /\ \A i \in Inodes \ {d} : new[i] = disk[i] BY <1>5 DEF Disks
<1>7. ASSUME NEW a \in Inodes, NEW m \in Names
      PROVE  EntryOf(new, a, m) = EntryOf(disk, a, m) \/ EntryOf(new, a, m) = t
  <2>1. CASE a = d
    <3>1. EntryOf(new, d, m) = (IF d # 0 THEN y.entries[m] ELSE 0)
          /\ EntryOf(disk, d, m) = (IF d # 0 THEN disk[d].entries[m] ELSE 0)
      BY <1>1, <1>6 DEF EntryOf
    <3> QED BY <1>4, <2>1, <3>1
  <2>2. CASE a # d BY <1>6, <2>2 DEF EntryOf
  <2> QED BY <2>1, <2>2
<1> QED BY <1>1, <1>7

\* A file or an empty directory is made under a name.
LEMMA MadeShape ==
  ASSUME Core, NEW d \in Inodes, node[d].kind = "dir", InUse(d), NEW n \in Names,
         NEW j \in FreshInodes, NEW x \in Nodes, x = File(<<>>) \/ x = EmptyDir,
         NEW new, new = Made(x, d, n, j)
  PROVE  Reshaped(new)
<1>1. j \in Inodes /\ ~InUse(j) /\ j # d BY FreshIsUnused
<1>2. PICK mid : mid = [node EXCEPT ![j] = x] OBVIOUS
<1>3. mid \in Disks /\ mid[j] = x /\ \A i \in Inodes \ {j} : mid[i] = node[i]
  BY <1>1, <1>2 DEF Core, Disks
<1>4. mid[d].kind = "dir" /\ new = SetEntry(mid, d, n, j) /\ j \in Inodes \cup {0}
  BY <1>1, <1>2, <1>3 DEF Made
<1>5. /\ \A i \in Inodes : new[i].kind = mid[i].kind
      /\ \A a \in Inodes, m \in Names :
           EntryOf(new, a, m) = EntryOf(mid, a, m) \/ EntryOf(new, a, m) = j
  BY <1>3, <1>4, EntrySet
<1>6. x.kind # "unused" /\ \A m \in Names : x.kind = "dir" => x.entries[m] = 0
  BY DEF File, EmptyDir, Dir
<1>7. ASSUME NEW a \in Inodes, NEW m \in Names, EntryOf(mid, a, m) # 0
      PROVE  EntryOf(mid, a, m) = EntryOf(node, a, m)
  <2>1. a # j BY <1>3, <1>6, <1>7 DEF EntryOf
  <2> QED BY <1>3, <2>1 DEF EntryOf
<1>8. new[j].kind # "unused" BY <1>1, <1>3, <1>5, <1>6
<1>9. ASSUME NEW i \in Inodes, InUse(i) PROVE new[i].kind = node[i].kind
  BY <1>1, <1>3, <1>5, <1>9
<1>10. ASSUME NEW a \in Inodes, NEW m \in Names, EntryOf(new, a, m) # 0
       PROVE  Linked(EntryOf(new, a, m)) \/ new[EntryOf(new, a, m)].kind # "unused"
  <2>1. PICK t : t = EntryOf(new, a, m) /\ (t = EntryOf(mid, a, m) \/ t = j) BY <1>5
  <2>2. t # j => t = EntryOf(node, a, m) BY <1>7, <1>10, <2>1
  <2> QED BY <1>8, <2>1, <2>2 DEF Linked
<1> QED BY <1>9, <1>10 DEF Reshaped

\* An entry is removed.
LEMMA RemovedShape ==
  ASSUME Core, NEW d \in Inodes, node[d].kind = "dir", NEW n \in Names,
         NEW t \in Inodes \cup {0}, t # 0 => Linked(t), NEW new, new = SetEntry(node, d, n, t)
  PROVE  Reshaped(new)
<1>1. /\ \A i \in Inodes : new[i].kind = node[i].kind
      /\ \A a \in Inodes, m \in Names :
           EntryOf(new, a, m) = EntryOf(node, a, m) \/ EntryOf(new, a, m) = t
  BY EntrySet DEF Core
<1>2. ASSUME NEW a \in Inodes, NEW m \in Names, EntryOf(new, a, m) # 0
      PROVE  Linked(EntryOf(new, a, m))
  BY <1>1, <1>2 DEF Linked
<1> QED BY <1>1, <1>2 DEF Reshaped

\* An entry is moved.
LEMMA MovedShape ==
  ASSUME Core, NEW d \in Inodes, node[d].kind = "dir", NEW n \in Names,
         NEW e \in Inodes, node[e].kind = "dir", NEW m \in Names,
         NEW t \in Inodes, Linked(t), NEW z \in Inodes \cup {0}, z = 0,
         NEW new, new = SetEntry(SetEntry(node, d, n, z), e, m, t)
  PROVE  Reshaped(new)
<1>1. PICK mid : mid = SetEntry(node, d, n, z) OBVIOUS
<1>2. /\ mid \in Disks /\ \A i \in Inodes : mid[i].kind = node[i].kind
      /\ \A a \in Inodes, l \in Names :
           EntryOf(mid, a, l) = EntryOf(node, a, l) \/ EntryOf(mid, a, l) = z
  BY <1>1, EntrySet DEF Core
<1>3. mid[e].kind = "dir" /\ t \in Inodes \cup {0} /\ new = SetEntry(mid, e, m, t)
  BY <1>1, <1>2
<1>4. /\ \A i \in Inodes : new[i].kind = mid[i].kind
      /\ \A a \in Inodes, l \in Names :
           EntryOf(new, a, l) = EntryOf(mid, a, l) \/ EntryOf(new, a, l) = t
  BY <1>2, <1>3, EntrySet
<1>5. ASSUME NEW a \in Inodes, NEW l \in Names, EntryOf(new, a, l) # 0
      PROVE  Linked(EntryOf(new, a, l))
  BY <1>2, <1>4, <1>5 DEF Linked
<1> QED BY <1>2, <1>4, <1>5 DEF Reshaped

LEMMA WriteFileShape ==
  ASSUME Core, NEW c \in Callers, NEW path \in ArgPaths, NEW content \in Contents,
         WriteFile(c, path, content)
  PROVE  Reshaped(node')
<1>1. node' = node \/ \E o \in OpenedForWrite(path) : node' = o.disk BY DEF WriteFile, Refused
<1>2. ASSUME NEW o \in OpenedForWrite(path), node' = o.disk PROVE Reshaped(node')
  <2>1. path \in Seq(Names) /\ path # <<>> BY <1>2, ArgTypes DEF OpenedForWrite
  <2>2. PICK d \in Inodes \cup {0}, n \in Names : PlaceOf(path) = <<d, n>> /\ (d # 0 => InUse(d))
    BY <2>1, PlaceFound
  <2>3. PICK i \in Inodes \cup {0} : i = EntryOf(node, d, n) BY OnwardType DEF Core
  <2>4. PICK x \in Nodes : x = File(<<>>) /\ x.kind = "file"
    <3>1. <<>> \in Seq(Byte) OBVIOUS
    <3> QED BY <3>1, FileType
  <2>5. CASE KindIs(node, i, "file")
    <3>1. node' = Put(i, x) BY <1>2, <2>1, <2>2, <2>3, <2>4, <2>5 DEF OpenedForWrite, Put
    <3>2. i \in Inodes /\ node[i].kind = "file" BY <2>5 DEF KindIs
    <3> QED BY <2>4, <3>1, <3>2, PutShape
  <2>6. CASE ~KindIs(node, i, "file")
    <3>1. \E j \in IF i = 0 /\ KindIs(node, d, "dir") THEN FreshInodes ELSE {} :
            o = [ino |-> j, disk |-> Made(File(<<>>), d, n, j)]
      BY <1>2, <2>1, <2>2, <2>3, <2>6 DEF OpenedForWrite, Made
    <3>2. PICK j \in FreshInodes : KindIs(node, d, "dir") /\ node' = Made(x, d, n, j)
      <4> HIDE DEF Made
      <4> QED BY <1>2, <2>4, <3>1
    <3>3. d \in Inodes /\ node[d].kind = "dir" /\ InUse(d) BY <2>2, <3>2 DEF KindIs
    <3> QED BY <2>4, <3>2, <3>3, MadeShape
  <2> QED BY <2>5, <2>6
<1> QED BY <1>1, <1>2, SameShape

LEMMA WriteChunkShape ==
  ASSUME Core, NEW c \in Callers, WriteChunk(c)
  PROVE  Reshaped(node')
<1>1. PICK k : k = call[c] /\ k.pc = "write" BY DEF WriteChunk
<1>2. KindIs(node, k.fd, "file") BY <1>1 DEF Core, WritesFiles
<1>3. k.fd \in Inodes BY <1>1, <1>2 DEF KindIs, Core, AllTidy, Calls
<1>4. node' = node \/ \E n : Wrote1(k, n) BY <1>1 DEF WriteChunk, Wrote1, Wrote
<1>5. ASSUME NEW n, Wrote1(k, n) PROVE Reshaped(node')
  <2>1. PICK i \in Inodes : i = k.fd /\ node[i].kind = "file" BY <1>2, <1>3 DEF KindIs
  <2>2. PICK data : data = WriteAt(node[i].data, k.pos, SubSeq(k.arg, k.pos + 1, k.pos + n))
    OBVIOUS
  <2>3. PICK x : x = [node[i] EXCEPT !.data = data] OBVIOUS
  <2>4. node' = Put(i, x) BY <1>5, <2>1, <2>2, <2>3 DEF Wrote1, Wrote, Put
  <2>5. node[i] \in [kind : {"file"}, data : Seq(Byte)] BY <2>1, NodeShape DEF Core
  <2>6. x.kind = "file" BY <2>3, <2>5
  <2> QED BY <2>1, <2>4, <2>6, PutShape
<1> QED BY <1>4, <1>5, SameShape

LEMMA MakeDirectoryShape ==
  ASSUME Core, NEW c \in Callers, NEW path \in ArgPaths, MakeDirectory(c, path)
  PROVE  Reshaped(node')
<1>1. \/ node' = node
      \/ /\ path # <<>> /\ KindIs(node, ParentOf(path), "dir") /\ LStat(path) = 0
         /\ \E j \in FreshInodes :
              node' = SetEntry([node EXCEPT ![j] = EmptyDir], ParentOf(path), Last(path), j)
  BY DEF MakeDirectory, Refused
<1>2. ASSUME path # <<>>, KindIs(node, ParentOf(path), "dir"), NEW j \in FreshInodes,
             node' = SetEntry([node EXCEPT ![j] = EmptyDir], ParentOf(path), Last(path), j)
      PROVE  Reshaped(node')
  <2>1. PICK front \in Seq(Names), n \in Names : front = Front(path) /\ n = Last(path)
    BY <1>2, ArgTypes, PathParts
  <2>2. PICK d : d = ParentOf(path) OBVIOUS
  <2>3. d \in Inodes /\ InUse(d) BY <1>2, <2>1, <2>2, WalkInUse DEF ParentOf, KindIs
  <2>4. node[d].kind = "dir" BY <1>2, <2>2 DEF KindIs
  <2>5. PICK x \in Nodes : x = EmptyDir BY FileType
  <2>6. node' = Made(x, d, n, j) BY <1>2, <2>1, <2>2, <2>5 DEF Made
  <2> QED BY <2>3, <2>4, <2>5, <2>6, MadeShape
<1> QED BY <1>1, <1>2, SameShape

LEMMA RenamePathShape ==
  ASSUME Core, NEW c \in Callers, NEW old \in ArgPaths, NEW new \in ArgPaths,
         RenamePath(c, old, new)
  PROVE  Reshaped(node')
<1>1. PICK t : t = LStat(old) OBVIOUS
<1>2. \/ node' = node
      \/ /\ Renamable(old, new)
         /\ node' = SetEntry(SetEntry(node, ParentOf(old), Last(old), 0),
                             ParentOf(new), Last(new), t)
  BY <1>1 DEF RenamePath, Refused
<1>3. CASE Renamable(old, new)
           /\ node' = SetEntry(SetEntry(node, ParentOf(old), Last(old), 0),
                             ParentOf(new), Last(new), t)
  <2>1. t # 0 /\ new # <<>> /\ KindIs(node, ParentOf(new), "dir") BY <1>1, <1>3 DEF Renamable
  <2>2. old \in Seq(Names) /\ new \in Seq(Names) BY ArgTypes
  <2>3. PICK d \in Inodes, n \in Names :
          d = ParentOf(old) /\ node[d].kind = "dir" /\ n = Last(old) /\ t \in Inodes
    BY <1>1, <2>1, <2>2, ParentIsDir
  <2>4. PICK e \in Inodes, m \in Names :
          e = ParentOf(new) /\ node[e].kind = "dir" /\ m = Last(new)
    BY <2>1, <2>2, StatType, PathParts DEF Core, ParentOf, KindIs
  <2>5. t = EntryOf(node, d, n) BY <1>1, <2>1, <2>3 DEF LStat, LStatOn, ParentOf
  <2>6. Linked(t) BY <2>3, <2>5 DEF Linked
  <2>7. PICK z \in Inodes \cup {0} : z = 0 OBVIOUS
  <2>8. node' = SetEntry(SetEntry(node, d, n, z), e, m, t) BY <1>3, <2>3, <2>4, <2>7
  <2> QED BY <2>3, <2>4, <2>6, <2>7, <2>8, MovedShape
<1> QED BY <1>2, <1>3, SameShape

LEMMA RemoveShape ==
  ASSUME Core, NEW c \in Callers, RemoveLeaf(c) \/ RemoveDir(c)
  PROVE  Reshaped(node')
<1>1. PICK k, p : k = call[c] /\ p = Last(k.stack).path /\ k.pc = "remove"
  BY DEF RemoveLeaf, RemoveDir, RemoveEntry, Walking
<1>2. node' = node \/ (LStat(p) # 0 /\ node' = SetEntry(node, ParentOf(p), Last(p), 0))
  BY <1>1 DEF RemoveLeaf, RemoveDir, RemoveEntry, IsRemovable, IsEmptyDir, KindIs
<1>3. CASE LStat(p) # 0 /\ node' = SetEntry(node, ParentOf(p), Last(p), 0)
  <2>1. PICK m \in Nat \ {0} : Last(k.stack) = k.stack[m] /\ k.stack[m] \in Frames
    BY <1>1, InRemoval
  <2>2. p \in Seq(Names) BY <1>1, <2>1 DEF Frames
  <2>3. PICK d \in Inodes, n \in Names :
          d = ParentOf(p) /\ n = Last(p) /\ node[d].kind = "dir"
    BY <1>3, <2>2, ParentIsDir
  <2>4. PICK z \in Inodes \cup {0} : z = 0 OBVIOUS
  <2>5. node' = SetEntry(node, d, n, z) BY <1>3, <2>3, <2>4
  <2> QED BY <2>3, <2>4, <2>5, RemovedShape
<1> QED BY <1>2, <1>3, SameShape

LEMMA StepShape ==
  ASSUME Core, NEW c \in Callers, Start(c) \/ Continue(c) \/ Release(c)
  PROVE  Reshaped(node')
<1>1. CASE \E p \in ArgPaths, b \in Contents : WriteFile(c, p, b) BY <1>1, WriteFileShape
<1>2. CASE WriteChunk(c) BY <1>2, WriteChunkShape
<1>3. CASE \E p \in ArgPaths : MakeDirectory(c, p) BY <1>3, MakeDirectoryShape
<1>4. CASE \E p, q \in ArgPaths : RenamePath(c, p, q) BY <1>4, RenamePathShape
<1>5. CASE RemoveLeaf(c) \/ RemoveDir(c) BY <1>5, RemoveShape
<1>6. ASSUME node' = node PROVE Reshaped(node') BY <1>6, SameShape
<1>7. CASE \/ \E p \in ArgPaths : OpenFile(c, p)
           \/ \E p \in ArgPaths : ReadFile(c, p)
           \/ \E p \in ArgPaths, r \in Ranges : ReadRange(c, p, r)
           \/ \E p \in ArgPaths : ListDirectory(c, p)
           \/ \E p \in ArgPaths : RemovePath(c, p)
           \/ ReadAll(c) \/ CloseFile(c) \/ Release(c)
  BY <1>6, <1>7 DEF OpenFile, ReadFile, ReadRange, ListDirectory, RemovePath, ReadAll, CloseFile,
                    Release, Refused
<1>8. CASE \/ StatOpened(c) \/ ReadChunk(c) \/ HandleSize(c) \/ PreadChunk(c)
           \/ RecheckDirectory(c) \/ ListNext(c) \/ RemoveOpen(c) \/ RemoveNext(c)
  BY <1>6, <1>8 DEF StatOpened, ReadChunk, HandleSize, PreadChunk, RecheckDirectory, ListNext,
                    RemoveOpen, RemoveNext
<1> QED BY <1>1, <1>2, <1>3, <1>4, <1>5, <1>7, <1>8 DEF Start, Continue

-----------------------------------------------------------------------------
(* What a reader saw of one inode.                                         *)

\* Nothing changed i among the disks of a call; each byte was at its place on
\* one of them, from after the first b on.
Still(h, i) == \A m \in 1 .. Len(h) : h[m][i] = h[1][i]
Came(h, i, b, bytes) ==
  \A j \in 1 .. Len(bytes) : \E m \in 1 .. Len(h) :
    b + j <= Len(h[m][i].data) /\ h[m][i].data[b + j] = bytes[j]

Quiet(h, i) == KindIs(h[1], i, "file") /\ Still(h, i)
Countable(h, i) == windows => Len(h[1][i].data) < Dword
Rest(k, data) == k.buf = SubSeq(data, k.pos - Len(k.buf) + 1, Len(data))

\* The inode is open: what it is does not change.
OpenOn(disk, i, h) ==
  i # 0 /\ disk[i].kind \in {"file", "dir"} /\ h[1][i].kind = disk[i].kind

LEMMA LongerHistory ==
  ASSUME NEW h \in Seq(Disks), Len(h) > 0, NEW g, Grown(h, g)
  PROVE  /\ g[1] = h[1]
         /\ \A i : Still(g, i) => Still(h, i)
         /\ \A i : Quiet(g, i) => Quiet(h, i)
         /\ \A i, b, bytes : Came(h, i, b, bytes) => Came(g, i, b, bytes)
<1>1. PICK n \in Nat : n = Len(h) /\ n > 0 OBVIOUS
<1>2. PICK m \in Nat : m = Len(g) /\ m >= n BY <1>1 DEF Grown
<1>3. (\A j \in 1 .. n : j \in 1 .. m) /\ 1 \in 1 .. n BY <1>1, <1>2
<1>4. \A j \in 1 .. n : g[j] = h[j] BY <1>1 DEF Grown
<1>5. g[1] = h[1] BY <1>3, <1>4
<1>6. ASSUME NEW i, Still(g, i) PROVE Still(h, i)
  BY <1>1, <1>2, <1>3, <1>4, <1>5, <1>6 DEF Still
<1>7. ASSUME NEW i, NEW b, NEW bytes, Came(h, i, b, bytes) PROVE Came(g, i, b, bytes)
  <2> SUFFICES ASSUME NEW j \in 1 .. Len(bytes)
      PROVE  \E l \in 1 .. m : b + j <= Len(g[l][i].data) /\ g[l][i].data[b + j] = bytes[j]
    BY <1>2 DEF Came
  <2>1. PICK l \in 1 .. n : b + j <= Len(h[l][i].data) /\ h[l][i].data[b + j] = bytes[j]
    BY <1>1, <1>7 DEF Came
  <2> QED BY <1>3, <1>4, <2>1
<1> QED BY <1>5, <1>6, <1>7 DEF Quiet

\* Of a file that nobody changes, the bytes are a part.
LEMMA StillBytes ==
  ASSUME NEW h, NEW i, Still(h, i), NEW data \in Seq(Byte), data = h[1][i].data,
         NEW bytes \in Seq(Byte), bytes # <<>>, NEW b \in Nat, Came(h, i, b, bytes)
  PROVE  b + Len(bytes) <= Len(data) /\ bytes = SubSeq(data, b + 1, b + Len(bytes))
<1>1. PICK n \in Nat, l \in Nat : n = Len(bytes) /\ l = Len(data) OBVIOUS
<1>2. n > 0 BY <1>1
<1>3. ASSUME NEW j \in 1 .. n PROVE b + j <= l /\ data[b + j] = bytes[j]
  <2>1. PICK m \in 1 .. Len(h) : b + j <= Len(h[m][i].data) /\ h[m][i].data[b + j] = bytes[j]
    BY <1>1 DEF Came
  <2>2. h[m][i].data = data BY <2>1 DEF Still
  <2> QED BY <1>1, <2>1, <2>2
<1>4. b + n <= l
  <2>1. n \in 1 .. n BY <1>2
  <2> QED BY <1>3, <2>1
<1>5. PICK q \in Nat, f \in Nat : q = b + n /\ f = b + 1 /\ b <= q /\ q <= l BY <1>4
<1>6. PICK t : t = SubSeq(data, f, q) OBVIOUS
<1>7. t \in Seq(Byte) /\ Len(t) = q - b /\ \A j \in 1 .. q - b : t[j] = data[b + j]
  BY <1>1, <1>5, <1>6, PartOf
<1>8. q - b = n BY <1>5
<1>9. Len(t) = n /\ \A j \in 1 .. n : t[j] = bytes[j] BY <1>3, <1>7, <1>8
<1>10. t = bytes
  <2>1. t = [j \in 1 .. n |-> t[j]] BY <1>7, <1>9
  <2>2. bytes = [j \in 1 .. n |-> bytes[j]] BY <1>1
  <2> QED BY <1>9, <2>1, <2>2
<1> QED BY <1>1, <1>5, <1>6, <1>10

\* The bytes of a read join those that came before.
LEMMA CameMore ==
  ASSUME NEW h, NEW i, NEW b \in Nat, NEW buf \in Seq(Byte), Came(h, i, b, buf),
         NEW chunk \in Seq(Byte), NEW m \in 1 .. Len(h), NEW pos \in Nat, pos = b + Len(buf),
         chunk = <<>> \/ pos + Len(chunk) <= Len(h[m][i].data), Len(h[m][i].data) \in Nat,
         \A j \in 1 .. Len(chunk) : chunk[j] = h[m][i].data[pos + j],
         NEW more, more = buf \o chunk
  PROVE  Came(h, i, b, more)
<1>1. PICK n \in Nat, l \in Nat : n = Len(buf) /\ l = Len(chunk) OBVIOUS
<1>2. /\ Len(more) = n + l /\ \A j \in 1 .. n : more[j] = buf[j]
      /\ \A j \in n + 1 .. n + l : more[j] = chunk[j - n]
  BY <1>1, ConcatProperties
<1>3. ASSUME NEW j \in 1 .. n + l
      PROVE  \E a \in 1 .. Len(h) : b + j <= Len(h[a][i].data) /\ h[a][i].data[b + j] = more[j]
  <2>1. CASE j \in 1 .. n
    <3>1. PICK a \in 1 .. Len(h) : b + j <= Len(h[a][i].data) /\ h[a][i].data[b + j] = buf[j]
      BY <1>1, <2>1 DEF Came
    <3> QED BY <1>2, <2>1, <3>1
  <2>2. CASE j \notin 1 .. n
    <3>1. PICK e \in 1 .. l : e = j - n /\ j \in n + 1 .. n + l BY <2>2
    <3>2. pos + e = b + j BY <1>1, <3>1
    <3>3. more[j] = chunk[e] BY <1>2, <3>1
    <3>4. chunk[e] = h[m][i].data[b + j] BY <1>1, <3>1, <3>2
    <3>5. PICK z \in Nat : z = Len(h[m][i].data) /\ pos + l <= z
      <4>1. chunk # <<>> BY <1>1, <3>1
      <4> QED BY <1>1, <4>1
    <3>6. b + j <= z
      <4>1. e <= l /\ pos \in Int /\ l \in Int /\ e \in Int /\ z \in Int BY <1>1, <3>1, <3>5
      <4>2. pos + e <= z BY <3>5, <4>1
      <4> QED BY <3>2, <4>2
    <3> QED BY <3>3, <3>4, <3>5, <3>6
  <2> QED BY <2>1, <2>2
<1> QED BY <1>2, <1>3 DEF Came

\* A read returns nothing only if it asked for nothing, or at the end.
LEMMA NoChunk ==
  ASSUME Core, NEW i \in Inodes, node[i].kind = "file", NEW pos \in Nat, NEW want \in Int,
         NEW chunk \in Chunks(i, pos, want), chunk = <<>>
  PROVE  want <= 0 \/ Len(node[i].data) <= pos
<1>1. node[i].data \in Seq(Byte) BY NodeShape DEF Core
<1>2. PICK data \in Seq(Byte), l \in Nat : data = node[i].data /\ l = Len(data) BY <1>1
<1>3. Minimum(want, l - pos) \in Int BY DEF Minimum
<1>4. PICK most \in Int : most = Minimum(want, l - pos) BY <1>3
<1>5. most <= 0 => want <= 0 \/ l <= pos BY <1>4 DEF Minimum
<1>6. ASSUME most > 0 PROVE FALSE
  <2>1. most = Minimum(want, Len(node[i].data) - pos) /\ ~(most <= 0) BY <1>2, <1>4, <1>6
  <2>2. chunk \in {SubSeq(node[i].data, pos + 1, pos + n) :
                    n \in (IF windows THEN {most} ELSE 1 .. most)}
    BY <2>1, Zenon DEF Chunks
  <2>3. chunk \in {SubSeq(data, pos + 1, pos + n) :
                    n \in (IF windows THEN {most} ELSE 1 .. most)}
    BY <1>2, <2>2
  <2>4. \E n \in 1 .. most : chunk = SubSeq(data, pos + 1, pos + n)
    <3>1. (IF windows THEN {most} ELSE 1 .. most) \subseteq 1 .. most BY <1>6
    <3> QED BY <2>3, <3>1
  <2>5. PICK n \in Nat : n \in 1 .. most /\ chunk = SubSeq(data, pos + 1, pos + n) BY <2>4
  <2>6. pos + n <= l BY <1>2, <1>4, <2>5 DEF Minimum
  <2>7. PICK q \in Nat, f \in Nat : q = pos + n /\ f = pos + 1 /\ pos <= q BY <2>5
  <2>8. PICK t : t = SubSeq(data, f, q) OBVIOUS
  <2>9. Len(t) = q - pos BY <1>2, <2>6, <2>7, <2>8, PartOf
  <2>10. Len(t) = n /\ n > 0 BY <2>5, <2>7, <2>9
  <2>11. t = <<>> BY <2>5, <2>7, <2>8
  <2> QED BY <2>10, <2>11
<1> QED BY <1>2, <1>5, <1>6

\* Bytes that are a part of the data are that part up to any end that is theirs.
LEMMA PartTo ==
  ASSUME NEW data \in Seq(Byte), NEW bytes \in Seq(Byte), NEW b \in Nat, NEW e \in Nat,
         bytes # <<>> => bytes = SubSeq(data, b + 1, b + Len(bytes)) /\ e = b + Len(bytes),
         bytes = <<>> => e <= b
  PROVE  bytes = SubSeq(data, b + 1, e)
<1>1. CASE bytes # <<>> BY <1>1
<1>2. CASE bytes = <<>>
  <2>1. PICK f \in Nat : f = b + 1 /\ e < f BY <1>2
  <2>2. SubSeq(data, f, e) = <<>> BY <2>1
  <2> QED BY <1>2, <2>1, <2>2
<1> QED BY <1>1, <1>2

-----------------------------------------------------------------------------
(* A loop of reads.                                                        *)

\* The disks of the step of a reader: the last is the present one.
Watched(h) == h \in Seq(Disks) /\ Len(h) > 0 /\ h[Len(h)] = node

\* A call that has read i from b on.
SoFar(h, k, i, b) == k \in Calls /\ k.pos = b + Len(k.buf) /\ Came(h, i, b, k.buf)

\* A turn of a loop that has read from b on, as far as the last disk goes.
LEMMA LoopOn ==
  ASSUME Core, NEW h, Watched(h), NEW i \in Inodes, node[i].kind = "file",
         NEW k, NEW b \in Nat, SoFar(h, k, i, b), NEW want \in Int,
         NEW chunk \in Chunks(i, k.pos, want), NEW q, Advanced(k, chunk, q)
  PROVE  /\ SoFar(h, q, i, b) /\ q.buf \in Seq(Byte)
         /\ Len(q.buf) = Len(k.buf) + Len(chunk)
<1> USE DEF SoFar, Watched
<1>1. k.buf \in Seq(Byte) /\ k.pos \in Nat BY DEF Calls
<1>2. PICK n \in Nat, m \in Nat : n = Len(k.buf) /\ m = Len(h) /\ m > 0 BY <1>1
<1>3. /\ chunk \in Seq(Byte)
      /\ chunk = <<>> \/ k.pos + Len(chunk) <= Len(node[i].data)
      /\ \A j \in 1 .. Len(chunk) : chunk[j] = node[i].data[k.pos + j]
  BY <1>1, ChunkBound
<1>4. q.buf = k.buf \o chunk /\ q.pos = k.pos + Len(chunk) BY DEF Advanced
<1>5. node[i].data \in Seq(Byte) BY NodeShape DEF Core
<1>6. h[m] = node /\ m \in 1 .. Len(h) BY <1>2
<1>7. Came(h, i, b, q.buf)
  <2>1. PICK pos \in Nat, buf \in Seq(Byte), data \in Seq(Byte) :
          pos = k.pos /\ buf = k.buf /\ data = node[i].data
    BY <1>1, <1>5
  <2>2. pos = b + Len(buf) /\ Came(h, i, b, buf) BY <2>1
  <2> HIDE DEF SoFar, Watched
  <2>3. h[m][i].data = data /\ Len(data) \in Nat BY <1>6, <2>1
  <2>4. /\ chunk = <<>> \/ pos + Len(chunk) <= Len(h[m][i].data)
        /\ \A j \in 1 .. Len(chunk) : chunk[j] = h[m][i].data[pos + j]
    BY <1>3, <2>1, <2>3
  <2>5. PICK more : more = buf \o chunk OBVIOUS
  <2>6. Came(h, i, b, more) BY <1>3, <1>6, <2>2, <2>3, <2>4, <2>5, CameMore
  <2> QED BY <1>4, <2>1, <2>5, <2>6
<1>8. PICK l \in Nat : l = Len(chunk) BY <1>3
<1>9. q.buf \in Seq(Byte) /\ Len(q.buf) = n + l BY <1>1, <1>2, <1>3, <1>4, <1>8, ConcatProperties
<1> QED BY <1>2, <1>4, <1>7, <1>8, <1>9 DEF Advanced

\* What has been read of the data up to `to` is all there is up to e.
Reaches(data, to, e) ==
  e <= Len(data) /\ (to <= e \/ e = Len(data)) /\ (Len(data) <= to \/ e = to)

\* A loop over a file that nobody changed has read it as far as e, where the file
\* or the request ends.
LEMMA ReadAsFar ==
  ASSUME Core, NEW h \in Seq(Disks), Len(h) > 0, NEW i \in Inodes, Quiet(h, i),
         NEW data, data = h[1][i].data, NEW b \in Nat, NEW bytes \in Seq(Byte),
         Came(h, i, b, bytes), NEW to \in Nat, to = b + Len(bytes),
         NEW e \in Nat, Reaches(data, to, e)
  PROVE  bytes = SubSeq(data, b + 1, e)
<1>1. data \in Seq(Byte)
  <2>1. h[1] \in Disks OBVIOUS
  <2>2. h[1][i].kind = "file" BY DEF Quiet, KindIs
  <2> QED BY <2>1, <2>2, NodeShape
<1>2. PICK n \in Nat, l \in Nat : n = Len(bytes) /\ l = Len(data) BY <1>1
<1>3. CASE bytes # <<>>
  <2>1. Still(h, i) BY DEF Quiet
  <2>2. b + Len(bytes) <= Len(data) /\ bytes = SubSeq(data, b + 1, b + Len(bytes))
    BY <1>1, <1>3, <2>1, StillBytes
  <2>3. b + n <= l /\ bytes = SubSeq(data, b + 1, b + n) BY <1>2, <2>2
  <2>4. e = b + n BY <1>2, <1>3, <2>3 DEF Reaches
  <2> QED BY <1>1, <1>2, <1>3, <2>3, <2>4, PartTo
<1>4. CASE bytes = <<>>
  <2>1. n = 0 BY <1>2, <1>4
  <2>2. e <= b BY <1>2, <2>1 DEF Reaches
  <2> QED BY <1>1, <1>4, <2>2, PartTo
<1> QED BY <1>3, <1>4

\* A count that fits is asked for as it is.
LEMMA SmallCount ==
  ASSUME NEW n \in Nat, NEW w \in Nat \ {0}, n < w
  PROVE  n % w = n
OBVIOUS

LEMMA WholeRequest ==
  ASSUME NEW n \in Nat, windows => n < Dword
  PROVE  Request(n) = n
<1>1. PICK w \in Nat \ {0} : w = Dword BY DiskAssumption
<1>2. windows => n % w = n BY <1>1, SmallCount
<1> QED BY <1>1, <1>2 DEF Request

\* What there is from b on was read, if nobody wrote it.
FromOn(h, i, b, bytes) ==
  Quiet(h, i) /\ Countable(h, i) => bytes = SubSeq(h[1][i].data, b + 1, Len(h[1][i].data))

\* The last turn of a loop with room for what a file that nobody changed had.
LastTurn(h, i, k, b, room, chunk, q) ==
  /\ i \in Inodes /\ node[i].kind = "file" /\ Quiet(h, i) /\ Countable(h, i)
  /\ b \in Nat /\ SoFar(h, k, i, b)
  /\ room \in Nat /\ room > 0 /\ Len(k.buf) + room = Len(h[1][i].data)
  /\ chunk \in Chunks(i, k.pos, Request(room)) /\ ReadEnds(chunk, room)
  /\ Advanced(k, chunk, q)

\* The file read to its end: the last read had nothing left to ask for or to get.
LEMMA ReadToEnd ==
  ASSUME Core, NEW h, Watched(h), NEW i, NEW k, NEW b, NEW room, NEW chunk, NEW q,
         LastTurn(h, i, k, b, room, chunk, q)
  PROVE  FromOn(h, i, b, q.buf)
<1> SUFFICES ASSUME i \in Inodes, node[i].kind = "file", Quiet(h, i), Countable(h, i),
                    b \in Nat, SoFar(h, k, i, b), room \in Nat, room > 0,
                    Len(k.buf) + room = Len(h[1][i].data),
                    chunk \in Chunks(i, k.pos, Request(room)), ReadEnds(chunk, room),
                    Advanced(k, chunk, q)
    PROVE  q.buf = SubSeq(h[1][i].data, b + 1, Len(h[1][i].data))
  BY DEF LastTurn, FromOn
<1>1. Request(room) \in Int BY RequestBound
<1>2. PICK want \in Int : want = Request(room) BY <1>1
<1>3. /\ SoFar(h, q, i, b) /\ q.buf \in Seq(Byte)
      /\ Len(q.buf) = Len(k.buf) + Len(chunk)
  BY <1>2, LoopOn
<1> USE DEF SoFar, Watched
<1>4. node[i] = h[1][i]
  <2>1. Len(h) \in 1 .. Len(h) OBVIOUS
  <2> QED BY <2>1 DEF Quiet, Still
<1>5. PICK data \in Seq(Byte) : data = h[1][i].data /\ data = node[i].data
  BY <1>4, NodeShape DEF Core
<1>6. PICK l \in Nat : l = Len(data) BY <1>5
<1>7. k.buf \in Seq(Byte) /\ k.pos \in Nat BY DEF Calls
<1>8. PICK n \in Nat : n = Len(k.buf) /\ n + room = l BY <1>5, <1>6, <1>7
<1>9. ASSUME l <= b + Len(q.buf) PROVE q.buf = SubSeq(data, b + 1, l)
  <2>1. PICK bytes \in Seq(Byte) : bytes = q.buf BY <1>3
  <2>2. PICK to \in Nat : to = b + Len(bytes) BY <2>1
  <2>3. Came(h, i, b, bytes) /\ Reaches(data, to, l) BY <1>3, <1>6, <1>9, <2>1, <2>2 DEF Reaches
  <2>4. h \in Seq(Disks) /\ Len(h) > 0 OBVIOUS
  <2> HIDE DEF SoFar, Watched
  <2>5. bytes = SubSeq(data, b + 1, l) BY <1>5, <2>2, <2>3, <2>4, ReadAsFar
  <2> QED BY <2>1, <2>5
<1>10. CASE chunk = <<>>
  <2>1. Request(room) <= 0 \/ l <= k.pos BY <1>1, <1>5, <1>6, <1>7, <1>10, NoChunk
  <2>2. Request(room) = room
    <3>1. windows => room < Dword
      <4>1. PICK w \in Nat : w = Dword BY DiskAssumption
      <4>2. windows => l < w BY <1>5, <1>6, <4>1 DEF Countable
      <4> QED BY <1>8, <4>1, <4>2
    <3> QED BY <3>1, WholeRequest
  <2>3. Len(q.buf) = n BY <1>3, <1>8, <1>10
  <2>4. l <= b + Len(q.buf) BY <1>8, <2>1, <2>2, <2>3
  <2> QED BY <1>5, <1>6, <1>9, <2>4
<1>11. CASE Len(chunk) = room
  <2>1. Len(q.buf) = l BY <1>3, <1>8, <1>11
  <2>2. l <= b + Len(q.buf) BY <2>1
  <2> QED BY <1>5, <1>6, <1>9, <2>2
<1> QED BY <1>10, <1>11 DEF ReadEnds

\* Of the size asked for, room is left.
Leaves(k, size, room) == Len(k.buf) <= size /\ room = size - Len(k.buf)

RangeRead(h, i, b, size, bytes) ==
  bytes = SubSeq(h[1][i].data, b + 1, Minimum(Len(h[1][i].data), b + size))

\* A range read to its end, or to the end of the file.
LEMMA ReadToRange ==
  ASSUME Core, ~windows, NEW h, Watched(h), NEW i \in Inodes, node[i].kind = "file",
         NEW k, NEW b \in Nat, SoFar(h, k, i, b), NEW size \in Nat,
         NEW room \in Nat, Leaves(k, size, room),
         NEW chunk \in Chunks(i, k.pos, Request(room)), NEW q, Advanced(k, chunk, q),
         PreadEnds(chunk, room), Quiet(h, i)
  PROVE  RangeRead(h, i, b, size, q.buf)
<1>1. k.buf \in Seq(Byte) /\ k.pos \in Nat BY DEF Calls, SoFar
<1>2. PICK n \in Nat : n = Len(k.buf) /\ n <= size /\ room = size - n BY <1>1 DEF Leaves
<1>3. Request(room) \in Int /\ Request(room) = room BY DEF Request
<1>4. PICK want \in Int : want = Request(room) BY <1>3
<1>5. /\ SoFar(h, q, i, b) /\ q.buf \in Seq(Byte)
      /\ Len(q.buf) = Len(k.buf) + Len(chunk)
  BY <1>4, LoopOn
<1> USE DEF SoFar, Watched
<1>6. node[i] = h[1][i]
  <2>1. Len(h) \in 1 .. Len(h) OBVIOUS
  <2> QED BY <2>1 DEF Quiet, Still
<1>7. PICK data \in Seq(Byte) : data = h[1][i].data /\ data = node[i].data
  BY <1>6, NodeShape DEF Core
<1>8. PICK l \in Nat : l = Len(data) BY <1>7
<1>9. PICK e \in Nat :
        e = Minimum(l, b + size) /\ e <= l /\ e <= b + size /\ (e = l \/ e = b + size)
  <2>1. PICK z \in Nat : z = b + size OBVIOUS
  <2>2. Minimum(l, z) \in Nat BY DEF Minimum
  <2>3. PICK e \in Nat : e = Minimum(l, z) BY <2>2
  <2>4. e <= l /\ e <= z /\ (e = l \/ e = z) BY <2>3 DEF Minimum
  <2> QED BY <2>1, <2>3, <2>4
<1>10. chunk = <<>> => l <= k.pos \/ room = 0
  BY <1>3, <1>7, <1>8, <1>1, NoChunk
<1>11. PICK m \in Nat : m = Len(q.buf) BY <1>5
<1>12. chunk = <<>> => m = n BY <1>5, <1>2, <1>11
<1>13. Len(chunk) = room => m = size BY <1>5, <1>2, <1>11
<1>14. chunk = <<>> \/ Len(chunk) = room BY DEF PreadEnds
<1>15. m <= size
  <2>1. chunk \in Seq(Byte) /\ (chunk = <<>> \/ Len(chunk) <= room) BY <1>3, <1>1, ChunkBound
  <2> QED BY <1>2, <1>12, <1>13, <1>14
<1>16. l <= b + m \/ m = size BY <1>2, <1>10, <1>12, <1>13, <1>14
<1>17. l <= b + m \/ e = b + m BY <1>9, <1>16
<1>18. b + m <= e \/ e = l BY <1>9, <1>15
<1>19. q.buf = SubSeq(data, b + 1, e)
  <2>1. PICK bytes \in Seq(Byte) : bytes = q.buf BY <1>5
  <2>2. PICK to \in Nat : to = b + Len(bytes) BY <2>1
  <2>3. Came(h, i, b, bytes) /\ Reaches(data, to, e)
    BY <1>5, <1>8, <1>9, <1>11, <1>17, <1>18, <2>1, <2>2 DEF Reaches
  <2>4. bytes = SubSeq(data, b + 1, e) BY <1>7, <2>2, <2>3, ReadAsFar
  <2> QED BY <2>1, <2>4
<1> QED BY <1>7, <1>8, <1>9, <1>19 DEF RangeRead

-----------------------------------------------------------------------------
(* What a call that reads has read.                                        *)

\* The read loop: it is at its place in what it opened, holds what came from
\* there on, and its buffer is a byte longer than a file that nobody changed.
Looping(k, ha, h) ==
  /\ k.op = "read" => k.fd = StatOn(h[1], k.path) /\ k.pos = Len(k.buf)
  /\ k.op = "readAll" => ha.ino = k.fd
  /\ \E b \in Nat : k.pos = b + Len(k.buf) /\ Came(h, k.fd, b, k.buf)
  /\ Quiet(h, k.fd) => k.cap = Len(h[1][k.fd].data) + 1

\* readAll between its read and its size: the rest of the file was read.
Sized(k, ha, h) ==
  /\ ha.ino = k.fd
  /\ ~k.faulted /\ Quiet(h, k.fd) /\ Countable(h, k.fd) => Rest(k, h[1][k.fd].data)

\* The pread loop, inside its range.
Ranging(k, h) ==
  /\ k.fd = StatOn(h[1], k.path)
  /\ k.pos = k.arg.offset + Len(k.buf) /\ Len(k.buf) <= k.arg.size
  /\ Came(h, k.fd, k.arg.offset, k.buf)

\* A whole file was read from i, or a directory said to have no bytes.
WholeFile(h, i, bytes) ==
  \/ KindIs(h[1], i, "dir") /\ DirSize = 0 /\ bytes = <<>>
  \/ /\ KindIs(h[1], i, "file") /\ Came(h, i, 0, bytes)
     /\ Still(h, i) => bytes = h[1][i].data \/ ~Countable(h, i)

\* The rest of a file was read, and its size.
RestOfFile(k, ha, h) ==
  Quiet(h, ha.ino) /\ Countable(h, ha.ino) =>
    k.size = Len(h[1][ha.ino].data) /\ Rest(k, h[1][ha.ino].data)

\* A range of the file i was read, as far as the file goes.
RangeOfFile(k, h, i) ==
  Quiet(h, i) => k.buf = SubSeq(h[1][i].data, k.arg.offset + 1,
                                Minimum(Len(h[1][i].data), k.arg.offset + k.arg.size))

\* What a call that reads, with the handle ha, has read of the disks h.
ReadOk(disk, k, ha, h) ==
  /\ k.pc \in {"fstat", "read", "size", "pread"} => OpenOn(disk, k.fd, h)
  /\ k.pc = "fstat" => k.fd = StatOn(h[1], k.path) /\ k.pos = 0
  /\ k.pc = "read" => Looping(k, ha, h)
  /\ k.pc = "size" => Sized(k, ha, h)
  /\ k.pc = "pread" => Ranging(k, h)
  /\ k.pc = "done" /\ k.op = "read" /\ k.ok => WholeFile(h, StatOn(h[1], k.path), k.buf)
  /\ k.pc = "done" /\ k.op = "readAll" /\ ~k.faulted => RestOfFile(k, ha, h)
  /\ k.pc = "done" /\ k.op = "range" /\ ~k.faulted /\ ~windows =>
       RangeOfFile(k, h, StatOn(h[1], k.path))

\* The tree is sound, an open File is of a file or a directory, and every call
\* has read what it should.
ReadsOk ==
  /\ Live(node)
  /\ \A c \in Callers :
       /\ handle[c].ino # 0 => node[handle[c].ino].kind \in {"file", "dir"}
       /\ ReadOk(node, call[c], handle[c], hist[c])

LEMMA ReadWatched ==
  ASSUME Core, Histories, NEW c \in Callers, Moves(c), UNCHANGED node,
         call[c].pc # "done", call'[c].pc # "idle"
  PROVE  /\ call[c].pc = "idle" => hist'[c] = <<node>>
         /\ call[c].pc # "idle" => hist'[c] = hist[c]
         /\ Watched(hist'[c])
<1>1. node \in Disks BY DEF Core
<1>2. hist'[c] = (IF call[c].pc = "idle" THEN <<node>> ELSE hist[c]) \o <<>>
  BY DEF Moves, Observe
<1>3. CASE call[c].pc = "idle"
  <2>1. <<node>> \in Seq(Disks) /\ Len(<<node>>) = 1 /\ <<node>>[1] = node BY <1>1
  <2>2. PICK h \in Seq(Disks) : h = <<node>> /\ Len(h) = 1 /\ h[1] = node BY <2>1
  <2>3. h \o <<>> = h OBVIOUS
  <2>4. hist'[c] = h BY <1>2, <1>3, <2>2, <2>3
  <2> QED BY <1>3, <2>2, <2>4 DEF Watched
<1>4. CASE call[c].pc # "idle"
  <2>1. PICK h \in Seq(Disks) : h = hist[c] /\ Len(h) > 0 /\ h[Len(h)] = node
    BY <1>4 DEF Histories
  <2>2. h \o <<>> = h OBVIOUS
  <2>3. hist'[c] = h BY <1>2, <1>4, <2>1, <2>2
  <2> QED BY <1>4, <2>1, <2>3 DEF Watched
<1> QED BY <1>3, <1>4

\* A read that failed.
LEMMA EndedBadly ==
  ASSUME Core, NEW c \in Callers, NEW k \in Calls, NEW x \in Int, k.op = "read",
         EndRead(c, k, FALSE, <<>>, x)
  PROVE  ~call'[c].ok
<1>1. <<>> \in Seq(Byte) OBVIOUS
<1>2. PICK r : r = [k EXCEPT !.buf = <<>>, !.size = Len(<<>>), !.cap = 0] OBVIOUS
<1>3. r \in Calls BY <1>1, <1>2, ReadInto DEF ReadAs
<1>4. PICK z : z = [r EXCEPT !.fd = 0] OBVIOUS
<1>5. z \in Calls BY <1>3, <1>4, DiskAssumption DEF Calls
<1>6. Goto(c, Return(z, FALSE)) BY <1>2, <1>4 DEF EndRead
<1>7. PICK q : q = Return(z, FALSE) OBVIOUS
<1>8. ~q.ok BY <1>5, <1>7, Returned
<1>9. call'[c] = q BY <1>6, <1>7 DEF Goto, Core, AllTidy
<1> QED BY <1>8, <1>9

LEMMA EndedAs ==
  ASSUME Core, NEW c \in Callers, NEW k, NEW q, NEW ha, NEW b, NEW f,
         Ends(c, k, q, ha), Becomes(c, q, ha, b, f)
  PROVE  call'[c] = q /\ handle'[c] = ha
BY DEF Becomes, Core, AllTidy

LEMMA ReadFails ==
  ASSUME Core, NEW c \in Callers, NEW k \in Calls, NEW x \in Int, k.op \in {"read", "readAll"},
         EndRead(c, k, FALSE, <<>>, x), NEW h, Watched(h),
         k.faulted \/ node[k.fd].kind = "dir", OpenOn(node, k.fd, h),
         k.op = "readAll" => handle[c].ino = k.fd
  PROVE  ReadOk(node, call'[c], handle'[c], h)
<1>1. PICK q, ha, b, f : Ends(c, k, q, ha) /\ Becomes(c, q, ha, b, f) BY ReadFailed
<1>2. call'[c] = q /\ handle'[c] = ha BY <1>1, EndedAs
<1>3. CASE k.op = "read"
  <2>1. ~q.ok BY <1>2, <1>3, EndedBadly
  <2>2. q.pc = "done" /\ q.op = "read" BY <1>1, <1>3 DEF Ends
  <2> QED BY <1>2, <2>1, <2>2 DEF ReadOk
<1>4. CASE k.op = "readAll"
  <2>1. /\ q.pc = "size" /\ q.op = "readAll" /\ q.fd = k.fd /\ q.faulted = k.faulted
        /\ ha.ino = k.fd
    BY <1>1, <1>4 DEF Ends
  <2>2. ~k.faulted => ~Quiet(h, k.fd) BY DEF OpenOn, Quiet, KindIs
  <2>3. Sized(q, ha, h) BY <2>1, <2>2 DEF Sized
  <2> QED BY <1>2, <2>1, <2>3 DEF ReadOk
<1> QED BY <1>3, <1>4

\* A read that worked, with the bytes it read.
LEMMA ReadWorks ==
  ASSUME Core, NEW c \in Callers, NEW k \in Calls, NEW x \in Int, NEW bytes \in Seq(Byte),
         k.op \in {"read", "readAll"},
         EndRead(c, k, TRUE, bytes, x), NEW h, Watched(h), OpenOn(node, k.fd, h),
         k.op = "read" => k.fd = StatOn(h[1], k.path) /\ WholeFile(h, k.fd, bytes),
         k.op = "readAll" => handle[c].ino = k.fd,
         NEW b \in Nat, k.pos = b + Len(bytes), FromOn(h, k.fd, b, bytes)
  PROVE  ReadOk(node, call'[c], handle'[c], h)
<1>1. \E q, ha :
         /\ Ends(c, k, q, ha) /\ q.buf = bytes /\ q.cap = k.cap
         /\ Becomes(c, q, ha, blocks[c] + x - ByRead(k), fds[c] - ByRead(k))
  BY ReadWorked
<1>2. PICK q, ha, u, f : Ends(c, k, q, ha) /\ q.buf = bytes /\ Becomes(c, q, ha, u, f)
  BY <1>1
<1>3. call'[c] = q /\ handle'[c] = ha BY <1>2, EndedAs
<1>4. CASE k.op = "read"
  <2>1. q.pc = "done" /\ q.op = "read" /\ q.path = k.path BY <1>2, <1>4 DEF Ends
  <2>2. WholeFile(h, StatOn(h[1], q.path), q.buf) BY <1>2, <1>4, <2>1
  <2> QED BY <1>3, <2>1, <2>2 DEF ReadOk
<1>5. CASE k.op = "readAll"
  <2>1. /\ q.pc = "size" /\ q.op = "readAll" /\ q.fd = k.fd /\ q.pos = k.pos
        /\ ha.ino = k.fd
    BY <1>2, <1>5 DEF Ends
  <2>2. PICK n \in Nat : n = Len(bytes) OBVIOUS
  <2>3. q.pos - Len(q.buf) + 1 = b + 1 BY <1>2, <2>1, <2>2
  <2>4. Quiet(h, k.fd) /\ Countable(h, k.fd) => Rest(q, h[1][k.fd].data)
    BY <1>2, <2>3 DEF Rest, FromOn
  <2>5. Sized(q, ha, h) BY <2>1, <2>4 DEF Sized
  <2> QED BY <1>3, <2>1, <2>5 DEF ReadOk
<1> QED BY <1>4, <1>5

-----------------------------------------------------------------------------
(* Opening, and fstat.                                                     *)

\* What can be opened to be read is a file or a directory.
LEMMA Openable ==
  ASSUME Core, Live(node), NEW path \in ArgPaths, OpenableForRead(path) # 0
  PROVE  /\ OpenableForRead(path) = Stat(path) /\ Stat(path) \in Inodes
         /\ node[Stat(path)].kind \in {"file", "dir"}
<1>1. OpenableForRead(path) = Stat(path) BY DEF OpenableForRead
<1>2. path # <<>> /\ path \in Seq(Names) BY <1>1, ArgTypes DEF Stat, StatOn
<1>3. PICK i \in Inodes : i = Stat(path) BY <1>1, <1>2, WalkType DEF Core, Stat, StatOn
<1>4. Front(path) \in Seq(Names) /\ Last(path) \in Names BY <1>2, PathParts
<1>5. PICK d \in Inodes \cup {0}, n \in Names : d = WalkOn(node, Front(path)) /\ n = Last(path)
  BY <1>4, WalkType DEF Core
<1>6. i = Onward(node, d, n) BY <1>2, <1>3, <1>5, WalkStep DEF Stat, StatOn
<1>7. PICK e \in Inodes \cup {0} : e = EntryOf(node, d, n) BY OnwardType DEF Core
<1>8. i = FollowOn(node, e) /\ i # 0 BY <1>1, <1>3, <1>6, <1>7 DEF Onward
<1>9. e # 0 BY <1>8 DEF FollowOn
<1>10. d \in Inodes BY <1>7, <1>9 DEF EntryOf
<1>11. node[e].kind # "unused" BY <1>7, <1>9, <1>10 DEF Live
<1>12. node[i].kind \notin {"unused", "link"}
  <2>1. CASE node[e].kind = "link"
    <3>1. PICK m \in Names : m = node[e].to BY <1>9, <2>1, NodeShape DEF Core
    <3>2. i = EntryOf(node, Root, m) /\ node[i].kind # "link" BY <1>8, <1>9, <2>1, <3>1 DEF FollowOn
    <3>3. Root \in Inodes BY DiskAssumption
    <3> QED BY <1>8, <3>2, <3>3 DEF Live
  <2>2. CASE node[e].kind # "link"
    <3>1. i = e BY <1>8, <2>2 DEF FollowOn
    <3> QED BY <1>11, <2>2, <3>1
  <2> QED BY <2>1, <2>2
<1>13. node[i] \in Nodes BY DEF Core, Disks
<1>14. node[i].kind \in {"file", "dir", "link", "unused"} BY <1>13 DEF Nodes, Unused
<1> QED BY <1>1, <1>3, <1>12, <1>14

LEMMA OpenNow ==
  ASSUME NEW i, i # 0, node[i].kind \in {"file", "dir"}, NEW h, h = <<node>>
  PROVE  OpenOn(node, i, h) /\ h[1] = node
BY DEF OpenOn

\* An inode with no bytes is read as such.
LEMMA NothingThere ==
  ASSUME Core, NEW i \in Inodes, NEW h, Watched(h), OpenOn(node, i, h), SizeOf(i) = 0,
         NEW bytes, bytes = <<>>
  PROVE  WholeFile(h, i, bytes) /\ \A b \in Nat : FromOn(h, i, b, bytes)
<1>1. PICK m \in Nat : m = Len(h) /\ m > 0 /\ h[m] = node BY DEF Watched
<1>2. m \in 1 .. Len(h) BY <1>1
<1>3. ASSUME Still(h, i) PROVE node[i] = h[1][i] BY <1>1, <1>2, <1>3 DEF Still
<1>4. i # 0 BY DEF OpenOn
<1>5. CASE node[i].kind = "file"
  <2>1. PICK data \in Seq(Byte) : data = node[i].data BY <1>5, NodeShape DEF Core
  <2>2. Len(data) = 0 BY <1>4, <1>5, <2>1 DEF SizeOf, KindIs
  <2>3. data = <<>> BY <2>1, <2>2
  <2>4. KindIs(h[1], i, "file") BY <1>4, <1>5 DEF OpenOn, KindIs
  <2>5. Came(h, i, 0, bytes) BY DEF Came
  <2>6. WholeFile(h, i, bytes) BY <1>3, <2>1, <2>3, <2>4, <2>5 DEF WholeFile
  <2>7. ASSUME NEW b \in Nat, Still(h, i)
        PROVE  bytes = SubSeq(h[1][i].data, b + 1, Len(h[1][i].data))
    <3>1. h[1][i].data = <<>> BY <1>3, <2>1, <2>3, <2>7
    <3>2. PICK f \in Nat, z \in Nat : f = b + 1 /\ z = 0 /\ z < f OBVIOUS
    <3>3. SubSeq(data, f, z) = <<>> BY <3>2
    <3> QED BY <2>2, <2>3, <3>1, <3>2, <3>3
  <2> QED BY <2>6, <2>7 DEF FromOn, Quiet
<1>6. CASE node[i].kind = "dir"
  <2>1. DirSize = 0 BY <1>4, <1>6 DEF SizeOf, KindIs
  <2>2. KindIs(h[1], i, "dir") /\ ~KindIs(h[1], i, "file") BY <1>4, <1>6 DEF OpenOn, KindIs
  <2> QED BY <2>1, <2>2 DEF WholeFile, FromOn, Quiet
<1> QED BY <1>5, <1>6 DEF OpenOn

LEMMA FileSize ==
  ASSUME NEW i, KindIs(node, i, "file")
  PROVE  SizeOf(i) = Len(node[i].data)
BY DEF SizeOf, KindIs

\* From fstat to the loop.
LEMMA ReadAllFromOk ==
  ASSUME Core, NEW c \in Callers, NEW k \in Calls, k.op \in {"read", "readAll"}, k.buf = <<>>,
         ReadAllFrom(c, k), NEW h, Watched(h), OpenOn(node, k.fd, h),
         k.op = "read" => k.fd = StatOn(h[1], k.path) /\ k.pos = 0,
         k.op = "readAll" => handle[c].ino = k.fd
  PROVE  ReadOk(node, call'[c], handle'[c], h)
<1>1. CASE EndRead(c, Faulted(k), FALSE, <<>>, 0)
  <2>1. PICK g : g = Faulted(k) OBVIOUS
  <2>2. g \in Calls /\ g.op = k.op /\ g.fd = k.fd /\ g.faulted BY <2>1, AfterFault DEF SameBut
  <2>3. PICK x \in Int : x = 0 OBVIOUS
  <2>4. EndRead(c, g, FALSE, <<>>, x) BY <1>1, <2>1, <2>3
  <2> QED BY <2>2, <2>4, ReadFails
<1>2. CASE SizeOf(k.fd) = 0 /\ EndRead(c, [k EXCEPT !.cap = 1], TRUE, <<>>, 1)
  <2>1. PICK g : g = [k EXCEPT !.cap = 1] OBVIOUS
  <2>2. g \in Calls /\ g.op = k.op /\ g.fd = k.fd /\ g.path = k.path /\ g.pos = k.pos
    BY <2>1 DEF Calls
  <2>3. PICK x \in Int : x = 1 OBVIOUS
  <2>4. PICK bytes \in Seq(Byte) : bytes = <<>>
    <3>1. <<>> \in Seq(Byte) OBVIOUS
    <3> QED BY <3>1
  <2>5. EndRead(c, g, TRUE, bytes, x) BY <1>2, <2>1, <2>3, <2>4
  <2>6. k.fd \in Inodes BY DEF Calls, OpenOn
  <2>7. WholeFile(h, k.fd, bytes) /\ \A b \in Nat : FromOn(h, k.fd, b, bytes)
    BY <1>2, <2>4, <2>6, NothingThere
  <2>8. PICK b \in Nat : b = k.pos BY DEF Calls
  <2>9. g.pos = b + Len(bytes) BY <2>2, <2>4, <2>8
  <2> QED BY <2>2, <2>5, <2>7, <2>9, ReadWorks
<1>3. CASE /\ UNCHANGED handle
           /\ Goto(c, [k EXCEPT !.cap = SizeOf(k.fd) + 1, !.pc = "read"])
  <2>1. k.fd \in Inodes BY DEF Calls, OpenOn
  <2>2. PICK n \in Nat : n = SizeOf(k.fd) BY <2>1, SizeType
  <2>3. PICK room \in Nat : room = n + 1 OBVIOUS
  <2>4. PICK q : q = [k EXCEPT !.cap = room, !.pc = "read"] OBVIOUS
  <2>5. /\ q \in Calls /\ q.op = k.op /\ q.pc = "read" /\ q.cap = room /\ q.fd = k.fd
        /\ q.path = k.path /\ q.pos = k.pos /\ q.buf = <<>>
    BY <2>4 DEF Calls
  <2>6. call'[c] = q /\ handle'[c] = handle[c] BY <1>3, <2>2, <2>4, <2>3 DEF Goto, Core, AllTidy
  <2>7. ASSUME Quiet(h, k.fd) PROVE n = Len(h[1][k.fd].data)
    <3>1. PICK m \in Nat : m = Len(h) /\ m > 0 /\ h[m] = node BY DEF Watched
    <3>2. m \in 1 .. Len(h) BY <3>1
    <3>3. node[k.fd] = h[1][k.fd] BY <2>7, <3>1, <3>2 DEF Quiet, Still
    <3>4. KindIs(node, k.fd, "file") BY <2>7, <3>3 DEF Quiet, KindIs
    <3>5. SizeOf(k.fd) = Len(node[k.fd].data) BY <3>4, FileSize
    <3> QED BY <2>2, <3>3, <3>5
  <2>8. Came(h, q.fd, q.pos, q.buf) /\ q.pos \in Nat /\ q.pos = q.pos + Len(q.buf)
    BY <2>5 DEF Came, Calls
  <2>9. Looping(q, handle[c], h) BY <2>5, <2>7, <2>8, <2>3 DEF Looping
  <2> QED BY <2>5, <2>6, <2>9 DEF ReadOk
<1> QED BY <1>1, <1>2, <1>3 DEF ReadAllFrom

LEMMA ReadFileOk ==
  ASSUME Core, Live(node), NEW c \in Callers, NEW path \in ArgPaths, ReadFile(c, path),
         NEW h, h = <<node>>
  PROVE  ReadOk(node, call'[c], handle'[c], h)
<1> DEFINE k == Begin("read", path, <<>>)  i == OpenableForRead(path)
<1>1. Started(k, "read", path, <<>>) BY ArgTypes, BegunPlain
<1>2. \/ i # 0 /\ Goto(c, [k EXCEPT !.fd = i, !.pc = "fstat"])
      \/ Goto(c, Return(k, FALSE)) \/ Goto(c, Return(Faulted(k), FALSE))
  BY DEF ReadFile, Refused
<1> HIDE DEF k, i
<1>3. CASE i # 0 /\ Goto(c, [k EXCEPT !.fd = i, !.pc = "fstat"])
  <2>1. i = Stat(path) /\ i \in Inodes /\ node[i].kind \in {"file", "dir"}
    BY <1>3, Openable DEF i
  <2>2. PICK q : q = [k EXCEPT !.fd = i, !.pc = "fstat"] OBVIOUS
  <2>3. q.pc = "fstat" /\ q.fd = i /\ q.path = path /\ q.pos = 0
    BY <1>1, <2>2 DEF Started, Calls
  <2>4. call'[c] = q BY <1>3, <2>2 DEF Goto, Core, AllTidy
  <2>5. OpenOn(node, q.fd, h) /\ h[1] = node BY <1>3, <2>1, <2>3, OpenNow
  <2>6. q.fd = StatOn(h[1], q.path) BY <2>1, <2>3, <2>5 DEF Stat
  <2> QED BY <2>3, <2>4, <2>5, <2>6 DEF ReadOk
<1>4. CASE Goto(c, Return(k, FALSE)) \/ Goto(c, Return(Faulted(k), FALSE))
  <2>1. PICK r : Goto(c, r) /\ (r = Return(k, FALSE) \/ r = Return(Faulted(k), FALSE)) BY <1>4
  <2>2. ~r.ok /\ r.pc = "done" /\ r.op = "read"
    BY <1>1, <2>1, RefusedResult, RefusedOk DEF SameBut, Started
  <2>3. call'[c] = r BY <2>1 DEF Goto, Core, AllTidy
  <2> QED BY <2>2, <2>3 DEF ReadOk
<1> QED BY <1>2, <1>3, <1>4

LEMMA StatOpenedOk ==
  ASSUME Core, NEW c \in Callers, StatOpened(c), NEW h, Watched(h),
         ReadOk(node, call[c], handle[c], h)
  PROVE  ReadOk(node, call'[c], handle'[c], h)
<1>1. call[c].pc = "fstat" /\ ReadAllFrom(c, call[c]) BY DEF StatOpened
<1>2. call[c] \in Calls /\ call[c].op = "read" /\ call[c].buf = <<>>
  BY <1>1 DEF Core, AllTidy, Tidy, Shape
<1>3. /\ OpenOn(node, call[c].fd, h)
      /\ call[c].fd = StatOn(h[1], call[c].path) /\ call[c].pos = 0
  BY <1>1 DEF ReadOk
<1> QED BY <1>1, <1>2, <1>3, ReadAllFromOk

LEMMA ReadAllOk ==
  ASSUME Core, NEW c \in Callers, ReadAll(c), NEW h, h = <<node>>, Watched(h),
         handle[c].ino # 0 => node[handle[c].ino].kind \in {"file", "dir"}
  PROVE  ReadOk(node, call'[c], handle'[c], h)
<1> DEFINE z == Begin("readAll", <<>>, <<>>)
           k == [z EXCEPT !.fd = handle[c].ino, !.pos = handle[c].pos]
<1>1. IF handle[c].ino = 0
        THEN Goto(c, Return(k, FALSE)) /\ UNCHANGED handle
        ELSE ReadAllFrom(c, k)
  BY DEF ReadAll
<1>2. Started(z, "readAll", <<>>, <<>>) BY ArgTypes, BegunPlain
<1> HIDE DEF z
<1>3. handle[c] \in Files BY DEF Core, AllTidy
<1>4. k \in Calls /\ k.op = "readAll" /\ k.buf = <<>> /\ k.fd = handle[c].ino
  BY <1>2, <1>3 DEF Started, Calls, Files
<1> HIDE DEF k
<1>5. CASE handle[c].ino = 0
  <2>1. PICK r : r = Return(k, FALSE) OBVIOUS
  <2>2. r.pc = "done" /\ r.op = "readAll" BY <1>4, <2>1, RefusedResult DEF SameBut
  <2>3. call'[c] = r /\ handle'[c].ino = 0 BY <1>1, <1>5, <2>1 DEF Goto, Core, AllTidy
  <2>4. RestOfFile(r, handle'[c], h) BY <2>3 DEF RestOfFile, Quiet, KindIs
  <2> QED BY <2>2, <2>3, <2>4 DEF ReadOk
<1>6. CASE handle[c].ino # 0
  <2>1. OpenOn(node, k.fd, h) BY <1>4, <1>6, OpenNow
  <2> QED BY <1>1, <1>4, <1>6, <2>1, ReadAllFromOk
<1> QED BY <1>5, <1>6

-----------------------------------------------------------------------------
(* The read loop.                                                          *)

\* One turn of the read loop over a file.
LEMMA TurnOk ==
  ASSUME Core, NEW c \in Callers, NEW k \in Calls, k.op \in {"read", "readAll"}, k.pc = "read",
         KindIs(node, k.fd, "file"), NEW room \in Nat, room > 0, room = k.cap - 1 - Len(k.buf),
         NEW chunk \in Chunks(k.fd, k.pos, Request(room)), NEW q, Advanced(k, chunk, q),
         IF ReadEnds(chunk, room) THEN EndRead(c, q, TRUE, q.buf, 0)
         ELSE Goto(c, q) /\ UNCHANGED handle,
         NEW h, Watched(h), OpenOn(node, k.fd, h), Looping(k, handle[c], h)
  PROVE  ReadOk(node, call'[c], handle'[c], h)
<1>1. PICK i \in Inodes : i = k.fd /\ node[i].kind = "file" BY DEF KindIs, Calls
<1>2. /\ k.op = "read" => k.fd = StatOn(h[1], k.path) /\ k.pos = Len(k.buf)
      /\ k.op = "readAll" => handle[c].ino = k.fd
      /\ Quiet(h, i) => k.cap = Len(h[1][i].data) + 1
  BY <1>1 DEF Looping
<1>3. PICK b \in Nat : SoFar(h, k, i, b) BY <1>1 DEF Looping, SoFar
<1>4. /\ h \in Seq(Disks) /\ Len(h) > 0 /\ h[Len(h)] = node BY DEF Watched
<1>5. PICK want \in Int : want = Request(room) BY RequestBound
<1>6. chunk \in Chunks(i, k.pos, want) BY <1>1, <1>5
<1>7. SoFar(h, q, i, b) /\ q.buf \in Seq(Byte) BY <1>1, <1>3, <1>6, LoopOn
<1>8. Came(h, i, b, q.buf) /\ q.pos = b + Len(q.buf) /\ q.buf \in Seq(Byte)
  BY <1>7 DEF SoFar
<1>9. /\ q \in Calls /\ q.op = k.op /\ q.pc = "read" /\ q.cap = k.cap /\ q.path = k.path
      /\ q.fd = i
  BY <1>1 DEF Advanced
<1>10. k.op = "read" => b = 0
  <2>1. k.buf \in Seq(Byte) BY DEF Calls
  <2>2. PICK n \in Nat : n = Len(k.buf) BY <2>1
  <2> QED BY <1>2, <1>3, <2>2 DEF SoFar
<1>11. CASE ReadEnds(chunk, room)
  <2>1. FromOn(h, i, b, q.buf)
    <3>1. ASSUME Quiet(h, i), Countable(h, i) PROVE FromOn(h, i, b, q.buf)
      <4>1. k.buf \in Seq(Byte) /\ h[1][i].data \in Seq(Byte)
        <5>1. h[1] \in Disks /\ h[1][i].kind = "file" BY <1>4, <3>1 DEF Quiet, KindIs
        <5> QED BY <5>1, NodeShape DEF Calls
      <4>2. PICK n \in Nat, l \in Nat : n = Len(k.buf) /\ l = Len(h[1][i].data) BY <4>1
      <4>3. n + room = l BY <1>2, <3>1, <4>2
      <4>4. chunk \in Chunks(i, k.pos, Request(room)) BY <1>1
      <4>5. Len(k.buf) + room = Len(h[1][i].data) BY <4>2, <4>3
      <4>6. node[i].kind = "file" BY <1>1
      <4>7. LastTurn(h, i, k, b, room, chunk, q)
        BY <1>3, <1>11, <3>1, <4>4, <4>5, <4>6 DEF LastTurn
      <4> QED BY <4>7, ReadToEnd
    <3> QED BY <3>1 DEF FromOn
  <2>2. k.op = "read" => WholeFile(h, i, q.buf)
    <3>1. ASSUME k.op = "read", Still(h, i), Countable(h, i) PROVE q.buf = h[1][i].data
      <4>1. KindIs(h[1], i, "file") BY <1>1 DEF OpenOn, KindIs
      <4>2. Quiet(h, i) BY <3>1, <4>1 DEF Quiet
      <4>3. PICK data \in Seq(Byte) : data = h[1][i].data
        <5>1. h[1] \in Disks /\ h[1][i].kind = "file" BY <1>4, <4>1 DEF KindIs
        <5> QED BY <5>1, NodeShape
      <4>4. q.buf = SubSeq(data, 1, Len(data)) BY <1>10, <2>1, <3>1, <4>2, <4>3 DEF FromOn
      <4>5. SubSeq(data, 1, Len(data)) = data BY <4>3
      <4> QED BY <4>3, <4>4, <4>5
    <3>2. KindIs(h[1], i, "file") BY <1>1 DEF OpenOn, KindIs
    <3> QED BY <1>8, <1>10, <3>1, <3>2 DEF WholeFile
  <2>3. PICK x \in Int : x = 0 OBVIOUS
  <2>4. PICK bytes \in Seq(Byte) : bytes = q.buf BY <1>8
  <2>5. EndRead(c, q, TRUE, bytes, x) BY <1>11, <2>3, <2>4
  <2>6. q.op \in {"read", "readAll"} /\ OpenOn(node, q.fd, h) BY <1>1, <1>9
  <2>7. /\ q.op = "read" => q.fd = StatOn(h[1], q.path) /\ WholeFile(h, q.fd, bytes)
        /\ q.op = "readAll" => handle[c].ino = q.fd
        /\ FromOn(h, q.fd, b, bytes) /\ q.pos = b + Len(bytes) /\ q \in Calls
    BY <1>1, <1>2, <1>8, <1>9, <2>1, <2>2, <2>4
  <2> QED BY <2>5, <2>6, <2>7, ReadWorks
<1>12. CASE ~ReadEnds(chunk, room)
  <2>1. call'[c] = q /\ handle'[c] = handle[c] BY <1>12 DEF Goto, Core, AllTidy
  <2>2. q.op = "read" => q.pos = Len(q.buf) BY <1>8, <1>9, <1>10
  <2>3. Looping(q, handle[c], h) BY <1>1, <1>2, <1>8, <1>9, <2>2 DEF Looping
  <2> QED BY <1>1, <1>9, <2>1, <2>3 DEF ReadOk
<1> QED BY <1>11, <1>12

LEMMA ReadChunkOk ==
  ASSUME Core, NEW c \in Callers, ReadChunk(c), NEW h, Watched(h),
         ReadOk(node, call[c], handle[c], h)
  PROVE  ReadOk(node, call'[c], handle'[c], h)
<1>1. PICK k : k = call[c] OBVIOUS
<1>2. PICK room : room = Room(k) OBVIOUS
<1>3. /\ k.pc = "read"
      /\ \/ EndRead(c, Faulted(k), FALSE, <<>>, -1)
         \/ KindIs(node, k.fd, "dir") /\ EndRead(c, k, FALSE, <<>>, -1)
         \/ /\ KindIs(node, k.fd, "file")
            /\ \E chunk \in Chunks(k.fd, k.pos, Request(room)) :
                 LET next == [k EXCEPT !.buf = @ \o chunk, !.pos = @ + Len(chunk)]
                 IN  IF ReadEnds(chunk, room)
                       THEN EndRead(c, next, TRUE, next.buf, 0)
                       ELSE Goto(c, next) /\ UNCHANGED <<handle, blocks, fds>>
  BY <1>1, <1>2 DEF ReadChunk
<1>4. /\ k \in Calls /\ k.op \in {"read", "readAll"} /\ Len(k.buf) < k.cap - 1
      /\ k.buf \in Seq(Byte) /\ k.cap \in Nat /\ k.pos \in Nat
  BY <1>1, <1>3, InReadLoop
<1>5. room \in Nat /\ room > 0 /\ room = k.cap - 1 - Len(k.buf)
  <2>1. Len(k.buf) \in Nat BY <1>4
  <2>2. PICK n \in Nat, m \in Nat : n = Len(k.buf) /\ m = k.cap /\ n < m - 1 BY <1>4, <2>1
  <2> QED BY <1>2, <2>2 DEF Room
<1>6. OpenOn(node, k.fd, h) /\ Looping(k, handle[c], h) BY <1>1, <1>3 DEF ReadOk
<1>7. k.op = "readAll" => handle[c].ino = k.fd BY <1>6 DEF Looping
<1>8. PICK x \in Int : x = -1 OBVIOUS
<1>9. CASE EndRead(c, Faulted(k), FALSE, <<>>, -1)
  <2>1. PICK g : g = Faulted(k) OBVIOUS
  <2>2. g \in Calls /\ g.op = k.op /\ g.fd = k.fd /\ g.faulted
    BY <1>4, <2>1, AfterFault DEF SameBut
  <2>3. EndRead(c, g, FALSE, <<>>, x) BY <1>8, <1>9, <2>1
  <2> QED BY <1>4, <1>6, <1>7, <2>2, <2>3, ReadFails
<1>10. CASE KindIs(node, k.fd, "dir") /\ EndRead(c, k, FALSE, <<>>, -1)
  <2>1. EndRead(c, k, FALSE, <<>>, x) /\ node[k.fd].kind = "dir" BY <1>8, <1>10 DEF KindIs
  <2> QED BY <1>4, <1>6, <1>7, <2>1, ReadFails
<1>11. ASSUME KindIs(node, k.fd, "file"), NEW chunk \in Chunks(k.fd, k.pos, Request(room)),
              NEW q, q = [k EXCEPT !.buf = @ \o chunk, !.pos = @ + Len(chunk)],
              IF ReadEnds(chunk, room) THEN EndRead(c, q, TRUE, q.buf, 0)
              ELSE Goto(c, q) /\ UNCHANGED <<handle, blocks, fds>>
       PROVE  ReadOk(node, call'[c], handle'[c], h)
  <2>1. k.fd \in Inodes /\ node[k.fd].kind = "file" BY <1>4, <1>11 DEF KindIs, Calls
  <2>2. PICK want \in Int : want = Request(room) BY <1>5, RequestBound
  <2>3. chunk \in Seq(Byte) BY <1>4, <1>11, <2>1, <2>2, ChunkBound
  <2>4. Advanced(k, chunk, q) BY <1>4, <1>11, <2>3, Advances
  <2>5. IF ReadEnds(chunk, room) THEN EndRead(c, q, TRUE, q.buf, 0)
        ELSE Goto(c, q) /\ UNCHANGED handle
    BY <1>11
  <2> QED BY <1>3, <1>4, <1>5, <1>6, <1>11, <2>4, <2>5, TurnOk
<1> QED BY <1>3, <1>9, <1>10, <1>11

-----------------------------------------------------------------------------
(* The size of a handle, and ranges.                                       *)

LEMMA HandleSizeOk ==
  ASSUME Core, NEW c \in Callers, HandleSize(c), NEW h, Watched(h),
         ReadOk(node, call[c], handle[c], h)
  PROVE  ReadOk(node, call'[c], handle'[c], h)
<1> DEFINE i == call[c].fd  k == [call[c] EXCEPT !.fd = 0]
           z == [k EXCEPT !.size = fs_file_handle_size(i)]
           ha == [handle[c] EXCEPT !.reads = @ + 1]
<1>1. /\ call[c].pc = "size" /\ handle' = [handle EXCEPT ![c] = ha]
      /\ Goto(c, Return(z, TRUE)) \/ Goto(c, Return(Faulted(k), TRUE))
  BY DEF HandleSize
<1>2. call[c] \in Calls /\ call[c].op = "readAll" BY <1>1 DEF Core, AllTidy, Tidy, Shape
<1>3. ha.ino = handle[c].ino /\ handle'[c] = ha BY <1>1 DEF Core, AllTidy, Files
<1>4. /\ k \in Calls /\ k.op = "readAll" /\ k.pos = call[c].pos /\ k.buf = call[c].buf
      /\ k.faulted = call[c].faulted
  BY <1>2, DiskAssumption DEF Calls
<1>5. i \in Inodes /\ Sized(call[c], handle[c], h) BY <1>1, <1>2 DEF ReadOk, OpenOn, Calls
<1>6. fs_file_handle_size(i) \in Nat BY <1>5, SizeType DEF fs_file_handle_size
<1> HIDE DEF k
<1>7. /\ z \in Calls /\ z.op = "readAll" /\ z.pos = call[c].pos /\ z.buf = call[c].buf
      /\ z.faulted = call[c].faulted /\ z.size = SizeOf(i)
  BY <1>4, <1>6 DEF Calls, fs_file_handle_size
<1> HIDE DEF z, ha
<1>8. PICK r : call'[c] = r /\ (r = Return(z, TRUE) \/ r = Return(Faulted(k), TRUE))
  BY <1>1 DEF Goto, Core, AllTidy
<1>9. r.pc = "done" /\ r.op = "readAll" BY <1>4, <1>7, <1>8, RefusedResult DEF SameBut
<1>10. CASE r = Return(z, TRUE)
  <2>1. /\ r.pos = call[c].pos /\ r.buf = call[c].buf /\ r.size = SizeOf(i)
        /\ r.faulted = call[c].faulted
    BY <1>7, <1>10, Returned DEF SameBut
  <2>2. ASSUME ~r.faulted, Quiet(h, i), Countable(h, i)
        PROVE  r.size = Len(h[1][i].data) /\ Rest(r, h[1][i].data)
    <3>1. Rest(call[c], h[1][i].data) BY <1>5, <2>1, <2>2 DEF Sized
    <3>2. Rest(r, h[1][i].data) BY <2>1, <3>1 DEF Rest
    <3>3. PICK m \in Nat : m = Len(h) /\ m > 0 /\ h[m] = node BY DEF Watched
    <3>4. m \in 1 .. Len(h) BY <3>3
    <3>5. node[i] = h[1][i] BY <2>2, <3>3, <3>4 DEF Quiet, Still
    <3>6. KindIs(node, i, "file") BY <2>2, <3>5 DEF Quiet, KindIs
    <3>7. SizeOf(i) = Len(node[i].data) BY <3>6, FileSize
    <3> QED BY <2>1, <3>2, <3>5, <3>7
  <2>3. handle'[c].ino = i BY <1>3, <1>5 DEF Sized
  <2>4. ~r.faulted => RestOfFile(r, handle'[c], h) BY <2>2, <2>3 DEF RestOfFile
  <2> QED BY <1>8, <1>9, <2>4 DEF ReadOk
<1>11. CASE r = Return(Faulted(k), TRUE)
  <2>1. PICK g : g = Faulted(k) OBVIOUS
  <2>2. g \in Calls /\ g.faulted BY <1>4, <2>1, AfterFault
  <2>3. r.faulted BY <1>11, <2>1, <2>2, Returned
  <2> QED BY <1>8, <1>9, <2>3 DEF ReadOk
<1> QED BY <1>8, <1>10, <1>11

LEMMA EmptyPart ==
  ASSUME NEW data, NEW b \in Nat, NEW l \in Nat, NEW bytes, bytes = <<>>
  PROVE  bytes = SubSeq(data, b + 1, Minimum(l, b + 0))
<1>1. PICK e \in Int, f \in Nat : e = Minimum(l, b + 0) /\ f = b + 1 /\ e < f
  <2>1. Minimum(l, b + 0) \in Nat /\ Minimum(l, b + 0) < b + 1 BY DEF Minimum
  <2> QED BY <2>1
<1>2. SubSeq(data, f, e) = <<>> BY <1>1
<1> QED BY <1>1, <1>2

LEMMA ReadRangeOk ==
  ASSUME Core, Live(node), NEW c \in Callers, NEW path \in ArgPaths, NEW range \in Ranges,
         ReadRange(c, path, range), NEW h, h = <<node>>
  PROVE  ReadOk(node, call'[c], handle'[c], h)
<1> DEFINE k == Begin("range", path, range)  i == OpenableForRead(path)
<1>1. Started(k, "range", path, range)
  <2>1. range \in Seq(Names) \cup Seq(Byte) \cup Ranges OBVIOUS
  <2> QED BY <2>1, ArgTypes, Begun
<1>2. range.offset \in Nat /\ range.size \in Nat BY DiskAssumption
<1>3. \/ i # 0 /\ Goto(c, [k EXCEPT !.fd = i, !.pos = range.offset, !.pc = "pread"])
      \/ (i = 0 \/ range.size = 0) /\ Goto(c, Return(k, TRUE))
      \/ Goto(c, Return(Faulted(k), TRUE))
  BY DEF ReadRange, Refused
<1>4. h[1] = node OBVIOUS
<1> HIDE DEF k, i
<1>5. CASE i # 0 /\ Goto(c, [k EXCEPT !.fd = i, !.pos = range.offset, !.pc = "pread"])
  <2>1. i = Stat(path) /\ i \in Inodes /\ node[i].kind \in {"file", "dir"}
    BY <1>5, Openable DEF i
  <2>2. PICK q : q = [k EXCEPT !.fd = i, !.pos = range.offset, !.pc = "pread"] OBVIOUS
  <2>3. /\ q.pc = "pread" /\ q.fd = i /\ q.path = path /\ q.pos = range.offset
        /\ q.buf = <<>> /\ q.arg = range
    BY <1>1, <1>2, <2>2 DEF Started, Calls
  <2>4. call'[c] = q BY <1>5, <2>2 DEF Goto, Core, AllTidy
  <2>5. OpenOn(node, q.fd, h) BY <1>5, <2>1, <2>3, OpenNow
  <2>6. q.fd = StatOn(h[1], q.path) BY <1>4, <2>1, <2>3 DEF Stat
  <2>7. Came(h, q.fd, q.arg.offset, q.buf) BY <2>3 DEF Came
  <2>8. q.pos = q.arg.offset + Len(q.buf) /\ Len(q.buf) <= q.arg.size BY <1>2, <2>3
  <2>9. Ranging(q, h) BY <2>6, <2>7, <2>8 DEF Ranging
  <2> QED BY <2>3, <2>4, <2>5, <2>9 DEF ReadOk
<1>6. CASE (i = 0 \/ range.size = 0) /\ Goto(c, Return(k, TRUE))
  <2>1. PICK r : r = Return(k, TRUE) OBVIOUS
  <2>2. r.pc = "done" /\ r.op = "range" /\ r.path = path /\ r.arg = range /\ r.buf = <<>>
    BY <1>1, <2>1, Returned DEF SameBut, Started
  <2>3. call'[c] = r BY <1>6, <2>1 DEF Goto, Core, AllTidy
  <2>4. ASSUME ~windows, Quiet(h, Stat(path))
        PROVE  r.buf = SubSeq(h[1][Stat(path)].data, range.offset + 1,
                              Minimum(Len(h[1][Stat(path)].data), range.offset + range.size))
    <3>1. Stat(path) # 0 /\ node[Stat(path)].kind = "file" BY <1>4, <2>4 DEF Quiet, KindIs
    <3>2. i # 0 BY <2>4, <3>1 DEF i, OpenableForRead
    <3>3. Stat(path) \in Inodes BY <3>2, Openable DEF i
    <3>4. PICK data \in Seq(Byte) : data = h[1][Stat(path)].data
      BY <1>4, <3>1, <3>3, NodeShape DEF Core
    <3>5. PICK l \in Nat, b \in Nat : l = Len(data) /\ b = range.offset BY <1>2, <3>4
    <3>6. range.size = 0 BY <1>6, <3>2
    <3>7. r.buf = SubSeq(data, b + 1, Minimum(l, b + 0)) BY <2>2, EmptyPart
    <3> QED BY <3>4, <3>5, <3>6, <3>7
  <2>5. ~windows => RangeOfFile(r, h, StatOn(h[1], r.path))
    BY <1>4, <2>2, <2>4 DEF RangeOfFile, Stat
  <2> QED BY <2>2, <2>3, <2>5 DEF ReadOk
<1>7. CASE Goto(c, Return(Faulted(k), TRUE))
  <2>1. PICK r : r = Return(Faulted(k), TRUE) OBVIOUS
  <2>2. r.pc = "done" /\ r.op = "range" BY <1>1, <2>1, RefusedResult DEF SameBut, Started
  <2>3. PICK g : g = Faulted(k) OBVIOUS
  <2>4. g \in Calls /\ g.faulted BY <1>1, <2>3, AfterFault DEF Started
  <2>5. r.faulted BY <2>1, <2>3, <2>4, Returned
  <2>6. call'[c] = r BY <1>7, <2>1 DEF Goto, Core, AllTidy
  <2> QED BY <2>2, <2>5, <2>6 DEF ReadOk
<1> QED BY <1>3, <1>5, <1>6, <1>7

\* What the record says of a range that is read.
LEMMA ClosedIs ==
  ASSUME NEW k \in Calls, NEW bytes \in Seq(Byte), NEW r, r = ClosedCall(k, bytes)
  PROVE  /\ r.pc = "done" /\ r.op = k.op /\ r.path = k.path /\ r.arg = k.arg
         /\ r.faulted = k.faulted /\ r.buf = bytes
<1>1. PICK z : z = ClosedWith(k, bytes) OBVIOUS
<1>2. /\ z \in Calls /\ z.op = k.op /\ z.path = k.path /\ z.arg = k.arg
      /\ z.faulted = k.faulted /\ z.buf = bytes
  BY <1>1, DiskAssumption DEF Calls, ClosedWith
<1>3. r = Return(z, TRUE) BY <1>1 DEF ClosedCall
<1>4. SameBut(z, r) /\ r.pc = "done" /\ r.faulted = z.faulted BY <1>2, <1>3, Returned
<1> QED BY <1>2, <1>4 DEF SameBut

LEMMA PreadChunkOk ==
  ASSUME Core, NEW c \in Callers, PreadChunk(c), NEW h, Watched(h),
         ReadOk(node, call[c], handle[c], h)
  PROVE  ReadOk(node, call'[c], handle'[c], h)
<1>1. PICK k : k = call[c] OBVIOUS
<1>2. PICK room : room = k.arg.size - Len(k.buf) OBVIOUS
<1>3. /\ k.pc = "pread" /\ UNCHANGED handle
      /\ \/ Goto(c, ClosedCall(Faulted(k), <<>>))
         \/ KindIs(node, k.fd, "dir") /\ Goto(c, ClosedCall(k, <<>>))
         \/ /\ KindIs(node, k.fd, "file")
            /\ \E chunk \in Chunks(k.fd, k.pos, Request(room)) :
                 LET next == [k EXCEPT !.buf = @ \o chunk, !.pos = @ + Len(chunk)]
                 IN  IF PreadEnds(chunk, room) THEN Goto(c, ClosedCall(next, next.buf))
                     ELSE Goto(c, next)
  BY <1>1, <1>2 DEF PreadChunk, ClosedCall, ClosedWith
<1>4. k \in Calls /\ k.op = "range" /\ k.arg \in Ranges BY <1>1, <1>3, HoldsOneFd DEF Shape
<1>5. k.buf \in Seq(Byte) /\ k.pos \in Nat BY <1>4 DEF Calls
<1>6. PICK n \in Nat, size \in Nat, b \in Nat :
        n = Len(k.buf) /\ size = k.arg.size /\ b = k.arg.offset
  BY <1>4, <1>5, DiskAssumption
<1>7. OpenOn(node, k.fd, h) /\ Ranging(k, h) BY <1>1, <1>3 DEF ReadOk
<1>8. k.fd = StatOn(h[1], k.path) /\ n <= size /\ k.pos = b + n /\ Came(h, k.fd, b, k.buf)
  BY <1>6, <1>7 DEF Ranging
<1>9. SoFar(h, k, k.fd, b) BY <1>4, <1>6, <1>8 DEF SoFar
<1>10. \A r : Goto(c, r) => call'[c] = r BY DEF Goto, Core, AllTidy
<1>11. <<>> \in Seq(Byte) OBVIOUS
<1>12. CASE Goto(c, ClosedCall(Faulted(k), <<>>))
  <2>1. PICK g : g = Faulted(k) OBVIOUS
  <2>2. g \in Calls /\ g.op = "range" /\ g.faulted BY <1>4, <2>1, AfterFault DEF SameBut
  <2>3. PICK bytes \in Seq(Byte) : bytes = <<>> BY <1>11
  <2>4. PICK r : r = ClosedCall(g, bytes) OBVIOUS
  <2>5. r.pc = "done" /\ r.op = "range" /\ r.faulted BY <2>2, <2>4, ClosedIs
  <2>6. call'[c] = r BY <1>10, <1>12, <2>3, <2>1, <2>4
  <2> QED BY <2>5, <2>6 DEF ReadOk
<1>13. CASE KindIs(node, k.fd, "dir") /\ Goto(c, ClosedCall(k, <<>>))
  <2>1. PICK bytes \in Seq(Byte) : bytes = <<>> BY <1>11
  <2>2. PICK r : r = ClosedCall(k, bytes) OBVIOUS
  <2>3. r.pc = "done" /\ r.op = "range" /\ r.path = k.path BY <1>4, <2>2, ClosedIs
  <2>4. ~Quiet(h, k.fd) BY <1>7, <1>13 DEF OpenOn, Quiet, KindIs
  <2>5. RangeOfFile(r, h, StatOn(h[1], r.path)) BY <1>8, <2>3, <2>4 DEF RangeOfFile
  <2>6. call'[c] = r BY <1>10, <1>13, <2>1, <2>2
  <2> QED BY <2>3, <2>5, <2>6 DEF ReadOk
<1>14. ASSUME KindIs(node, k.fd, "file"), NEW chunk \in Chunks(k.fd, k.pos, Request(room)),
              NEW q, q = [k EXCEPT !.buf = @ \o chunk, !.pos = @ + Len(chunk)],
              IF PreadEnds(chunk, room) THEN Goto(c, ClosedCall(q, q.buf)) ELSE Goto(c, q)
       PROVE  ReadOk(node, call'[c], handle'[c], h)
  <2>1. PICK i \in Inodes : i = k.fd /\ node[i].kind = "file" BY <1>4, <1>14 DEF KindIs, Calls
  <2>2. room \in Nat BY <1>2, <1>6, <1>8
  <2>3. PICK want \in Int : want = Request(room) /\ want <= room BY <2>2, RequestBound
  <2>4. chunk \in Chunks(i, k.pos, want) BY <1>14, <2>1, <2>3
  <2>5. chunk \in Seq(Byte) /\ (chunk = <<>> \/ Len(chunk) <= want)
    BY <1>5, <2>1, <2>4, ChunkBound
  <2>6. Advanced(k, chunk, q) BY <1>4, <1>14, <2>5, Advances
  <2>7. SoFar(h, k, i, b) BY <1>9, <2>1
  <2>8. SoFar(h, q, i, b) /\ q.buf \in Seq(Byte) /\ Len(q.buf) = Len(k.buf) + Len(chunk)
    BY <2>1, <2>4, <2>6, <2>7, LoopOn
  <2>9. SoFar(h, q, i, b) /\ q.buf \in Seq(Byte) /\ Len(q.buf) = n + Len(chunk)
    BY <1>6, <2>8
  <2>10. /\ q \in Calls /\ q.op = "range" /\ q.pc = "pread" /\ q.path = k.path /\ q.fd = i
         /\ q.arg = k.arg
    BY <1>3, <1>4, <2>1, <2>6 DEF Advanced
  <2>11. CASE PreadEnds(chunk, room)
    <3>1. PICK r : r = ClosedCall(q, q.buf) OBVIOUS
    <3>2. r.pc = "done" /\ r.op = "range" /\ r.path = k.path /\ r.arg = k.arg /\ r.buf = q.buf
      BY <2>9, <2>10, <3>1, ClosedIs
    <3>3. ASSUME ~windows, Quiet(h, i)
          PROVE  RangeRead(h, i, b, size, q.buf)
      <4>1. chunk \in Chunks(i, k.pos, Request(room)) BY <1>14, <2>1
      <4>2. Leaves(k, size, room) BY <1>2, <1>6, <1>8 DEF Leaves
      <4> QED BY <2>1, <2>2, <2>6, <2>11, <2>7, <3>3, <4>1, <4>2, ReadToRange
    <3>4. ~windows => RangeOfFile(r, h, StatOn(h[1], r.path))
      BY <1>6, <1>8, <2>1, <3>2, <3>3 DEF RangeOfFile, RangeRead
    <3>5. call'[c] = r BY <1>10, <1>14, <2>11, <3>1
    <3> QED BY <3>2, <3>4, <3>5 DEF ReadOk
  <2>12. CASE ~PreadEnds(chunk, room)
    <3>1. call'[c] = q BY <1>10, <1>14, <2>12
    <3>2. Len(q.buf) <= size
      <4>1. PICK l \in Nat : l = Len(chunk) BY <2>5
      <4>2. l <= room BY <2>2, <2>3, <2>5, <4>1
      <4> QED BY <1>2, <1>6, <2>9, <4>1, <4>2
    <3>3. Ranging(q, h) BY <1>6, <1>8, <2>1, <2>9, <2>10, <3>2 DEF Ranging, SoFar
    <3>4. OpenOn(node, q.fd, h) BY <1>7, <2>1, <2>10
    <3> QED BY <2>10, <3>1, <3>3, <3>4 DEF ReadOk
  <2> QED BY <2>11, <2>12
<1> QED BY <1>3, <1>12, <1>13, <1>14

-----------------------------------------------------------------------------
(* The other callers, and the open Files.                                  *)

\* A call in progress, while another caller moves.
LEMMA KeptOk ==
  ASSUME NEW k, NEW ha, NEW h \in Seq(Disks), Len(h) > 0, NEW g, Grown(h, g),
         k.pc \notin {"idle", "done"}, k.fd # 0 => node'[k.fd].kind = node[k.fd].kind,
         ReadOk(node, k, ha, h)
  PROVE  ReadOk(node', k, ha, g)
<1>1. /\ g[1] = h[1]
      /\ \A i : Still(g, i) => Still(h, i)
      /\ \A i : Quiet(g, i) => Quiet(h, i)
      /\ \A i, b, bytes : Came(h, i, b, bytes) => Came(g, i, b, bytes)
  BY LongerHistory
<1>2. OpenOn(node, k.fd, h) => OpenOn(node', k.fd, g) BY <1>1 DEF OpenOn
<1>3. \A i : Countable(g, i) <=> Countable(h, i) BY <1>1 DEF Countable
<1>4. Looping(k, ha, h) => Looping(k, ha, g) BY <1>1 DEF Looping
<1>5. Sized(k, ha, h) => Sized(k, ha, g) BY <1>1, <1>3 DEF Sized
<1>6. Ranging(k, h) => Ranging(k, g) BY <1>1 DEF Ranging
<1> QED BY <1>1, <1>2, <1>4, <1>5, <1>6 DEF ReadOk

\* What the reading steps do to a File.
LEMMA EndReadFile ==
  ASSUME Core, NEW c \in Callers, NEW k, NEW success, NEW bytes, NEW freed,
         EndRead(c, k, success, bytes, freed)
  PROVE  handle'[c].ino = handle[c].ino
<1>1. handle' = handle \/ handle' = [handle EXCEPT ![c].pos = k.pos] BY DEF EndRead
<1> QED BY <1>1 DEF Core, AllTidy, Files

LEMMA ReadAllFromFile ==
  ASSUME Core, NEW c \in Callers, NEW k, ReadAllFrom(c, k)
  PROVE  handle'[c].ino = handle[c].ino
<1>1. CASE \E r, success, bytes, freed : EndRead(c, r, success, bytes, freed)
  BY <1>1, EndReadFile
<1>2. CASE UNCHANGED handle BY <1>2
<1> QED BY <1>1, <1>2 DEF ReadAllFrom

\* The File of a caller after its step: the same inode, none, or what it opened.
LEMMA FileAfter ==
  ASSUME Core, NEW c \in Callers, Start(c) \/ Continue(c) \/ Release(c)
  PROVE  \/ handle'[c].ino \in {handle[c].ino, 0}
         \/ /\ node' = node
            /\ \E p \in ArgPaths : OpenableForRead(p) # 0 /\ handle'[c].ino = OpenableForRead(p)
<1>1. CASE \E p \in ArgPaths : OpenFile(c, p)
  <2>1. PICK p \in ArgPaths : OpenFile(c, p) BY <1>1
  <2>2. PICK i : i = OpenableForRead(p) OBVIOUS
  <2>3. PICK x, y : x = [NoFile EXCEPT !.ino = i, !.open = TRUE]
                    /\ y = [NoFile EXCEPT !.open = TRUE] OBVIOUS
  <2>4. x.ino = i /\ y.ino = 0 BY <2>3 DEF NoFile
  <2>5. \/ i # 0 /\ node' = node /\ handle' = [handle EXCEPT ![c] = x]
        \/ handle' = [handle EXCEPT ![c] = y]
    BY <2>1, <2>2, <2>3 DEF OpenFile
  <2>6. \/ i # 0 /\ node' = node /\ handle'[c] = x
        \/ handle'[c] = y
    BY <2>5 DEF Core, AllTidy
  <2> QED BY <2>2, <2>4, <2>6
<1>2. CASE CloseFile(c)
  <2>1. handle'[c] = NoFile BY <1>2 DEF CloseFile, Core, AllTidy
  <2> QED BY <2>1 DEF NoFile
<1>3. CASE StatOpened(c) BY <1>3, ReadAllFromFile DEF StatOpened
<1>4. CASE ReadAll(c)
  <2>1. UNCHANGED handle \/ \E k : ReadAllFrom(c, k) BY <1>4 DEF ReadAll
  <2> QED BY <2>1, ReadAllFromFile
<1>5. CASE ReadChunk(c)
  <2>1. UNCHANGED handle \/ \E k, success, bytes, freed : EndRead(c, k, success, bytes, freed)
    BY <1>5, Zenon DEF ReadChunk
  <2> QED BY <2>1, EndReadFile
<1>6. CASE HandleSize(c) BY <1>6 DEF HandleSize, Core, AllTidy, Files
<1>7. CASE UNCHANGED handle BY <1>7
<1>8. CASE \/ \E p \in ArgPaths : ReadFile(c, p)
           \/ \E p \in ArgPaths, r \in Ranges : ReadRange(c, p, r)
           \/ \E p \in ArgPaths, b \in Contents : WriteFile(c, p, b)
           \/ \E p \in ArgPaths : MakeDirectory(c, p)
           \/ \E p, q \in ArgPaths : RenamePath(c, p, q)
           \/ \E p \in ArgPaths : ListDirectory(c, p)
           \/ \E p \in ArgPaths : RemovePath(c, p)
           \/ Release(c)
  BY <1>7, <1>8 DEF ReadFile, ReadRange, WriteFile, MakeDirectory, RenamePath, ListDirectory,
                    RemovePath, Release
<1>9. CASE \/ PreadChunk(c) \/ WriteChunk(c) \/ RecheckDirectory(c) \/ ListNext(c)
           \/ RemoveOpen(c) \/ RemoveNext(c) \/ RemoveLeaf(c) \/ RemoveDir(c)
  BY <1>7, <1>9 DEF PreadChunk, WriteChunk, RecheckDirectory, ListNext, RemoveOpen, RemoveNext,
                    RemoveLeaf, RemoveDir, RemoveEntry
<1> QED BY <1>1, <1>2, <1>3, <1>4, <1>5, <1>6, <1>8, <1>9 DEF Start, Continue

\* A File's inode, if it has one, is a file or a directory.
Opens(disk, i) == i # 0 => disk[i].kind \in {"file", "dir"}

LEMMA FilesOpen ==
  ASSUME Core, Live(node), \A d \in Callers : Opens(node, handle[d].ino), NEW c \in Callers,
         Start(c) \/ Continue(c) \/ Release(c), OthersSame(c), NEW d \in Callers
  PROVE  Opens(node', handle'[d].ino)
<1>1. Reshaped(node') BY StepShape
<1>2. ASSUME handle'[d].ino = handle[d].ino PROVE Opens(node', handle'[d].ino)
  <2>1. PICK i \in Inodes \cup {0} : i = handle[d].ino BY DEF Core, AllTidy, Files
  <2>2. InUse(i) BY <2>1 DEF InUse, IsOpenFile
  <2>3. i # 0 => node'[i].kind = node[i].kind BY <1>1, <2>1, <2>2 DEF Reshaped
  <2> QED BY <1>2, <2>1, <2>3 DEF Opens
<1>3. CASE d # c BY <1>2, <1>3 DEF OthersSame
<1>4. CASE d = c
  <2>1. CASE handle'[c].ino = 0 BY <1>4, <2>1 DEF Opens
  <2>2. ASSUME node' = node, NEW p \in ArgPaths, OpenableForRead(p) # 0,
               handle'[c].ino = OpenableForRead(p)
        PROVE  Opens(node', handle'[d].ino)
    BY <1>4, <2>2, Openable DEF Opens
  <2> QED BY <1>2, <1>4, <2>1, <2>2, FileAfter
<1> QED BY <1>3, <1>4

-----------------------------------------------------------------------------
(* Every step.                                                             *)

\* A call that has read nothing.
LEMMA NothingRead ==
  ASSUME NEW disk, NEW k, NEW ha, NEW h, k.pc \notin {"fstat", "read", "size", "pread"},
         k.pc = "done" => k.op \notin {"read", "readAll", "range"}
  PROVE  ReadOk(disk, k, ha, h)
BY DEF ReadOk

\* The step of the caller itself.
LEMMA OwnRead ==
  ASSUME Core, Histories, Live(node), NEW c \in Callers, Moves(c), Opens(node, handle[c].ino),
         ReadOk(node, call[c], handle[c], hist[c])
  PROVE  ReadOk(node', call'[c], handle'[c], hist'[c])
<1>1. Shape(call'[c]) BY DEF Moves, Orderly, AllTidy, Tidy
<1>2. CASE call'[c].pc = "idle" BY <1>2, NothingRead
<1>3. CASE call'[c].pc # "idle" /\ call'[c].op \notin {"read", "readAll", "range"}
  <2>1. call'[c].pc \notin {"fstat", "read", "size", "pread"} BY <1>1, <1>3 DEF Shape
  <2> QED BY <1>3, <2>1, NothingRead
<1>4. CASE call'[c].pc # "idle" /\ call'[c].op \in {"read", "readAll", "range"}
  <2>1. PICK h : h = hist'[c] OBVIOUS
  <2>2. ASSUME UNCHANGED node, call[c].pc = "idle" PROVE h = <<node>> /\ Watched(h)
    BY <1>4, <2>1, <2>2, ReadWatched
  <2>3. ASSUME UNCHANGED node, call[c].pc \notin {"idle", "done"}
        PROVE  Watched(h) /\ ReadOk(node, call[c], handle[c], h)
    BY <1>4, <2>1, <2>3, ReadWatched
  <2>4. ASSUME node' = node /\ ReadOk(node, call'[c], handle'[c], h)
        PROVE  ReadOk(node', call'[c], handle'[c], hist'[c])
    BY <2>1, <2>4
  <2>5. CASE \E p \in ArgPaths : ReadFile(c, p)
    <3>1. PICK p \in ArgPaths : ReadFile(c, p) BY <2>5
    <3>2. UNCHANGED node /\ call[c].pc = "idle" BY <3>1 DEF ReadFile, CanCall, Refused
    <3> QED BY <2>2, <2>4, <3>1, <3>2, ReadFileOk
  <2>6. CASE \E p \in ArgPaths, r \in Ranges : ReadRange(c, p, r)
    <3>1. PICK p \in ArgPaths, r \in Ranges : ReadRange(c, p, r) BY <2>6
    <3>2. UNCHANGED node /\ call[c].pc = "idle" BY <3>1 DEF ReadRange, CanCall, Refused
    <3> QED BY <2>2, <2>4, <3>1, <3>2, ReadRangeOk
  <2>7. CASE ReadAll(c)
    <3>1. UNCHANGED node /\ call[c].pc = "idle" BY <2>7 DEF ReadAll
    <3>2. handle[c].ino # 0 => node[handle[c].ino].kind \in {"file", "dir"} BY DEF Opens
    <3> QED BY <2>2, <2>4, <2>7, <3>1, <3>2, ReadAllOk
  <2>8. CASE StatOpened(c)
    <3>1. UNCHANGED node /\ call[c].pc = "fstat" BY <2>8 DEF StatOpened
    <3> QED BY <2>3, <2>4, <2>8, <3>1, StatOpenedOk
  <2>9. CASE ReadChunk(c)
    <3>1. UNCHANGED node /\ call[c].pc = "read" BY <2>9 DEF ReadChunk
    <3> QED BY <2>3, <2>4, <2>9, <3>1, ReadChunkOk
  <2>10. CASE HandleSize(c)
    <3>1. UNCHANGED node /\ call[c].pc = "size" BY <2>10 DEF HandleSize
    <3> QED BY <2>3, <2>4, <2>10, <3>1, HandleSizeOk
  <2>11. CASE PreadChunk(c)
    <3>1. UNCHANGED node /\ call[c].pc = "pread" BY <2>11 DEF PreadChunk
    <3> QED BY <2>3, <2>4, <2>11, <3>1, PreadChunkOk
  <2> QED BY <1>4, <2>5, <2>6, <2>7, <2>8, <2>9, <2>10, <2>11 DEF Moves, Steps
<1> QED BY <1>2, <1>3, <1>4

\* The step of another.
LEMMA OtherRead ==
  ASSUME Core, Histories, Reshaped(node'), NEW c \in Callers, Moves(c),
         NEW d \in Callers \ {c}, ReadOk(node, call[d], handle[d], hist[d])
  PROVE  ReadOk(node', call'[d], handle'[d], hist'[d])
<1>1. call'[d] = call[d] /\ handle'[d] = handle[d] BY DEF Moves, Orderly, OthersSame
<1>2. CASE call[d].pc = "idle" BY <1>1, <1>2, NothingRead
<1>3. CASE call[d].pc = "done"
  <2>1. hist'[d] = hist[d] BY <1>1, <1>3, Observed
  <2> QED BY <1>1, <1>3, <2>1 DEF ReadOk
<1>4. CASE call[d].pc \notin {"idle", "done"}
  <2>1. Grown(hist[d], hist'[d]) BY <1>1, <1>4, Observed
  <2>2. hist[d] \in Seq(Disks) /\ Len(hist[d]) > 0 BY <1>4 DEF Histories
  <2>3. PICK i \in Inodes \cup {0} : i = call[d].fd BY DEF Core, AllTidy, Calls
  <2>4. i # 0 => node'[i].kind = node[i].kind BY <2>3 DEF Reshaped, InUse, IsOpenFile
  <2> QED BY <1>1, <1>4, <2>1, <2>2, <2>3, <2>4, KeptOk
<1> QED BY <1>2, <1>3, <1>4

\* ReadsOk, with the build as it was before the step.
LEMMA ReadsMove ==
  ASSUME Core, Histories, ReadsOk, NEW c \in Callers, Start(c) \/ Continue(c) \/ Release(c),
         Moves(c)
  PROVE  /\ Live(node')
         /\ \A d \in Callers :
              /\ Opens(node', handle'[d].ino)
              /\ ReadOk(node', call'[d], handle'[d], hist'[d])
<1>1. Live(node) BY DEF ReadsOk
<1>2. \A d \in Callers : Opens(node, handle[d].ino) BY DEF ReadsOk, Opens
<1>3. \A d \in Callers : ReadOk(node, call[d], handle[d], hist[d]) BY DEF ReadsOk
<1>4. Reshaped(node') BY StepShape
<1>5. node' \in Disks /\ OthersSame(c) BY DEF Moves, Orderly, DiskKept
<1>6. Live(node') BY <1>1, <1>4, <1>5, StaysLive
<1>7. \A d \in Callers : Opens(node', handle'[d].ino) BY <1>1, <1>2, <1>5, FilesOpen
<1>8. ASSUME NEW d \in Callers PROVE ReadOk(node', call'[d], handle'[d], hist'[d])
  <2>1. CASE d = c BY <1>1, <1>2, <1>3, <2>1, OwnRead
  <2>2. CASE d # c BY <1>3, <1>4, <2>2, OtherRead
  <2> QED BY <2>1, <2>2
<1> QED BY <1>6, <1>7, <1>8

LEMMA ReadsStep ==
  ASSUME Core, Histories, ReadsOk, NEW c \in Callers, Start(c) \/ Continue(c) \/ Release(c),
         Moves(c)
  PROVE  ReadsOk'
<1>1. windows' = windows BY SameBuild
<1>2. Live(node') /\ \A d \in Callers : Opens(node', handle'[d].ino) BY ReadsMove
<1>3. \A d \in Callers : ReadOk(node', call'[d], handle'[d], hist'[d]) BY ReadsMove
<1>4. ASSUME NEW d \in Callers PROVE (ReadOk(node, call[d], handle[d], hist[d]))'
  <2>1. \A i : (Countable(hist[d], i))' <=> Countable(hist'[d], i) BY <1>1 DEF Countable
  <2> QED BY <1>1, <1>3, <1>4 DEF ReadOk, Looping, Sized, Ranging, WholeFile, RestOfFile,
                                  RangeOfFile, OpenOn, Countable
<1> QED BY <1>2, <1>4 DEF ReadsOk, Opens

-----------------------------------------------------------------------------
(* What holds of the reads.                                                *)

\* With what is known of the other calls.
SeenRead == Seen /\ ReadsOk

LEMMA InitSeenRead == Init => SeenRead
<1> SUFFICES ASSUME Init PROVE SeenRead OBVIOUS
<1>1. Seen BY InitSeen
<1>2. Live(node) BY DiskAssumption DEF Init, Live
<1>3. ASSUME NEW c \in Callers
      PROVE  handle[c].ino = 0 /\ ReadOk(node, call[c], handle[c], hist[c])
  <2>1. call[c].pc = "idle" BY IdleType DEF Init
  <2>2. handle[c].ino = 0 BY DEF Init, NoFile
  <2> QED BY <2>1, <2>2, NothingRead
<1> QED BY <1>1, <1>2, <1>3 DEF SeenRead, ReadsOk

LEMMA NextSeenRead == SeenRead /\ [Next]_vars => SeenRead'
<1> SUFFICES ASSUME SeenRead, [Next]_vars PROVE SeenRead' OBVIOUS
<1>1. Seen' BY NextSeen DEF SeenRead
<1>2. Core /\ Histories BY DEF SeenRead, Seen
<1>3. ASSUME NEW c \in Callers, Start(c) \/ Continue(c) \/ Release(c) PROVE ReadsOk'
  <2>1. Moves(c) BY <1>2, <1>3, StartMoves, ContinueMoves, ReleaseMoves
  <2> QED BY <1>2, <1>3, <2>1, ReadsStep DEF SeenRead
<1>4. CASE UNCHANGED vars
  <2>1. call' = call /\ hist' = hist /\ node' = node /\ handle' = handle /\ windows' = windows
    BY <1>4 DEF vars
  <2>2. /\ Live(node)
        /\ \A c \in Callers : Opens(node, handle[c].ino)
        /\ \A c \in Callers : ReadOk(node, call[c], handle[c], hist[c])
    BY DEF SeenRead, ReadsOk, Opens
  <2>3. Live(node') /\ \A c \in Callers : Opens(node', handle'[c].ino) BY <2>1, <2>2
  <2>4. ASSUME NEW c \in Callers PROVE (ReadOk(node, call[c], handle[c], hist[c]))'
    <3>1. ReadOk(node', call'[c], handle'[c], hist'[c]) BY <2>1, <2>2
    <3> QED BY <2>1, <3>1 DEF ReadOk, Looping, Sized, Ranging, WholeFile, RestOfFile,
                              RangeOfFile, OpenOn, Countable
  <2>5. ReadsOk' BY <2>3, <2>4 DEF ReadsOk, Opens
  <2> QED BY <1>1, <2>5 DEF SeenRead
<1> QED BY <1>1, <1>3, <1>4 DEF Next, SeenRead

LEMMA FirstSeenDisk ==
  ASSUME Seen, NEW c \in Callers, call[c].pc # "idle", NEW h, h = hist[c]
  PROVE  /\ h \in Seq(Disks) /\ Head(h) = h[1] /\ h[1] \in Disks /\ DOMAIN h = 1 .. Len(h)
         /\ \A i \in Inodes : KindIs(h[1], i, "file") => h[1][i].data \in Seq(Byte)
<1>1. h \in Seq(Disks) /\ Len(h) > 0 BY DEF Seen, Histories
<1>2. h[1] \in Disks BY <1>1
<1>3. ASSUME NEW i \in Inodes, KindIs(h[1], i, "file") PROVE h[1][i].data \in Seq(Byte)
  BY <1>2, <1>3, NodeShape DEF KindIs
<1> QED BY <1>1, <1>2, <1>3

\* A size that does not fit.
LEMMA NotCountable ==
  ASSUME NEW h, NEW i, h[1][i].data \in Seq(Byte), ~Countable(h, i)
  PROVE  windows /\ Len(h[1][i].data) >= Dword
<1>1. PICK l \in Nat, w \in Nat : l = Len(h[1][i].data) /\ w = Dword BY DiskAssumption
<1> QED BY <1>1 DEF Countable

\* What ReadsAreWhole says of the bytes read.
WholeShown(h, i, bytes) ==
  \/ KindIs(h[1], i, "dir") /\ DirSize = 0 /\ bytes = <<>>
  \/ /\ KindIs(h[1], i, "file")
     /\ \A j \in DOMAIN bytes : \E m \in DOMAIN h :
          j <= Len(h[m][i].data) /\ h[m][i].data[j] = bytes[j]
     /\ (\A m \in DOMAIN h : h[m][i] = h[1][i]) =>
          bytes = h[1][i].data \/ (windows /\ Len(h[1][i].data) >= Dword)

LEMMA AtPlace ==
  ASSUME NEW h \in Seq(Disks), NEW i, NEW bytes \in Seq(Byte), Came(h, i, 0, bytes)
  PROVE  \A j \in DOMAIN bytes : \E m \in DOMAIN h :
           j <= Len(h[m][i].data) /\ h[m][i].data[j] = bytes[j]
<1>1. DOMAIN bytes = 1 .. Len(bytes) /\ DOMAIN h = 1 .. Len(h) OBVIOUS
<1>2. ASSUME NEW j \in DOMAIN bytes
      PROVE  \E m \in DOMAIN h : j <= Len(h[m][i].data) /\ h[m][i].data[j] = bytes[j]
  <2>1. PICK l \in Nat, b \in Nat : l = Len(bytes) /\ b = 0 OBVIOUS
  <2>2. j \in 1 .. l BY <1>1, <1>2, <2>1
  <2>3. PICK e \in Nat : e = b + j /\ e = j BY <2>1, <2>2
  <2>4. Came(h, i, b, bytes) BY <2>1
  <2>5. \E m \in 1 .. Len(h) : e <= Len(h[m][i].data) /\ h[m][i].data[e] = bytes[j]
    BY <2>1, <2>2, <2>3, <2>4 DEF Came
  <2> QED BY <1>1, <2>3, <2>5
<1> QED BY <1>2

LEMMA WholeIsShown ==
  ASSUME NEW h \in Seq(Disks), Len(h) > 0, NEW i \in Inodes \cup {0}, NEW bytes \in Seq(Byte),
         WholeFile(h, i, bytes)
  PROVE  WholeShown(h, i, bytes)
<1>1. CASE KindIs(h[1], i, "dir") /\ DirSize = 0 /\ bytes = <<>> BY <1>1 DEF WholeShown
<1>2. CASE /\ KindIs(h[1], i, "file") /\ Came(h, i, 0, bytes)
           /\ Still(h, i) => bytes = h[1][i].data \/ ~Countable(h, i)
  <2>1. i \in Inodes /\ h[1] \in Disks BY <1>2 DEF KindIs
  <2>2. h[1][i].data \in Seq(Byte) BY <1>2, <2>1, NodeShape DEF KindIs
  <2>3. ~Countable(h, i) => windows /\ Len(h[1][i].data) >= Dword BY <2>2, NotCountable
  <2>4. (\A m \in DOMAIN h : h[m][i] = h[1][i]) => Still(h, i) BY DEF Still
  <2>5. \A j \in DOMAIN bytes : \E m \in DOMAIN h :
          j <= Len(h[m][i].data) /\ h[m][i].data[j] = bytes[j]
    BY <1>2, AtPlace
  <2> QED BY <1>2, <2>3, <2>4, <2>5 DEF WholeShown
<1> QED BY <1>1, <1>2 DEF WholeFile

LEMMA WholeReads ==
  ASSUME SeenRead
  PROVE  ReadsAreWhole
<1>1. ASSUME NEW c \in Callers, Finished(c, "read"), call[c].ok
      PROVE  /\ WholeShown(hist[c], StatOn(Before(c), call[c].path), call[c].buf)
             /\ Before(c) = hist[c][1]
  <2>1. PICK k, h, i : k = call[c] /\ h = hist[c] /\ i = StatOn(Before(c), k.path) OBVIOUS
  <2>2. k.pc = "done" /\ k.op = "read" /\ k.ok BY <1>1, <2>1 DEF Finished
  <2>3. h \in Seq(Disks) /\ Before(c) = h[1] /\ h[1] \in Disks
    BY <2>1, <2>2, FirstSeenDisk DEF SeenRead, Before
  <2>4. Len(h) > 0 BY <2>1, <2>2 DEF SeenRead, Seen, Histories
  <2>5. WholeFile(h, i, k.buf) BY <2>1, <2>2, <2>3 DEF SeenRead, ReadsOk, ReadOk
  <2>6. k.buf \in Seq(Byte) /\ k.path \in Seq(Names)
    BY <2>1 DEF SeenRead, Seen, Core, AllTidy, Calls
  <2>7. i \in Inodes \cup {0} BY <2>1, <2>3, <2>6, StatType
  <2> QED BY <2>1, <2>3, <2>4, <2>5, <2>6, <2>7, WholeIsShown
<1> QED BY <1>1 DEF ReadsAreWhole, WholeShown, Once, Always

LEMMA RestsRead ==
  ASSUME SeenRead
  PROVE  ReadAllReturnsTheRest
<1>1. ASSUME NEW c \in Callers, Finished(c, "readAll"), handle[c].ino # 0, ~call[c].faulted,
             \A m \in DOMAIN hist[c] : hist[c][m][handle[c].ino] = Before(c)[handle[c].ino],
             KindIs(Before(c), handle[c].ino, "file"),
             windows => Len(Before(c)[handle[c].ino].data) < Dword
      PROVE  /\ call[c].size = Len(Before(c)[handle[c].ino].data)
             /\ call[c].buf = SubSeq(Before(c)[handle[c].ino].data,
                                    call[c].pos - Len(call[c].buf) + 1,
                                    Len(Before(c)[handle[c].ino].data))
  <2>1. PICK k, h, i : k = call[c] /\ h = hist[c] /\ i = handle[c].ino OBVIOUS
  <2>2. k.pc = "done" /\ k.op = "readAll" /\ ~k.faulted BY <1>1, <2>1 DEF Finished
  <2>3. Before(c) = h[1] /\ DOMAIN h = 1 .. Len(h)
    BY <2>1, <2>2, FirstSeenDisk DEF SeenRead, Before
  <2>4. RestOfFile(k, handle[c], h) BY <2>1, <2>2 DEF SeenRead, ReadsOk, ReadOk
  <2>5. Quiet(h, i) /\ Countable(h, i) BY <1>1, <2>1, <2>3 DEF Quiet, Still, Countable
  <2> QED BY <2>1, <2>3, <2>4, <2>5 DEF RestOfFile, Rest
<1> QED BY <1>1 DEF ReadAllReturnsTheRest, Always

LEMMA RangesRead ==
  ASSUME SeenRead
  PROVE  RangesAreExact
<1> DEFINE I(c) == StatOn(Before(c), call[c].path)
<1>1. ASSUME NEW c \in Callers, Finished(c, "range"), ~call[c].faulted, ~windows,
             KindIs(Before(c), I(c), "file"),
             \A m \in DOMAIN hist[c] : hist[c][m][I(c)] = Before(c)[I(c)]
      PROVE  call[c].buf = SubSeq(Before(c)[I(c)].data, call[c].arg.offset + 1,
                                  Minimum(Len(Before(c)[I(c)].data),
                                          call[c].arg.offset + call[c].arg.size))
  <2>1. PICK k, h, i : k = call[c] /\ h = hist[c] /\ i = I(c) OBVIOUS
  <2>2. k.pc = "done" /\ k.op = "range" /\ ~k.faulted BY <1>1, <2>1 DEF Finished
  <2>3. Before(c) = h[1] /\ DOMAIN h = 1 .. Len(h)
    BY <2>1, <2>2, FirstSeenDisk DEF SeenRead, Before
  <2>4. i = StatOn(h[1], k.path) BY <2>1, <2>3
  <2>5. RangeOfFile(k, h, i) BY <1>1, <2>1, <2>2, <2>4 DEF SeenRead, ReadsOk, ReadOk
  <2> HIDE DEF I
  <2>6. Quiet(h, i) BY <1>1, <2>1, <2>3 DEF Quiet, Still
  <2> QED BY <2>1, <2>3, <2>5, <2>6 DEF RangeOfFile
<1> QED BY <1>1 DEF RangesAreExact, Always

\* What a read in progress has in its buffer came from the file it opened, byte
\* by byte, each from its place on one of the disks of the call; a File and a
\* descriptor being read stay those of a file or a directory, whatever is
\* renamed, removed or made meanwhile (fs.c:66-208, 243-285).
THEOREM InductiveReads == Spec => []SeenRead
BY InitSeenRead, NextSeenRead, PTL DEF Spec

\* fs_read_file, File.readAll and fs_read_range return what the file had: each
\* byte of a whole file was at its place at some moment of the call, and a file
\* that nobody wrote is read whole, to its end, or in the range asked for, however
\* short the single reads and whatever became of its name.  The exceptions are
\* those the property names: a count that a DWORD does not hold, and a directory
\* said to have no bytes (fs.c:66-208, 243-285).
THEOREM ExactReads == Spec => []ReadsAreExact
<1>1. SeenRead => ReadsAreExact BY WholeReads, RestsRead, RangesRead DEF ReadsAreExact
<1> QED BY <1>1, InductiveReads, PTL

===============================================================================
