--------------------------- MODULE FileRemoveProofs ---------------------------
(***************************************************************************)
(* FileSystem removes what it was given and nothing else.                  *)
(*                                                                         *)
(* RemovesOk says, of a removal that nobody disturbs, that the disk is the *)
(* one it started on with entries of the tree cleared (Shrunk, Within),    *)
(* that every frame of its walk stands in that tree (Sound), and, on POSIX *)
(* and as long as nothing failed and the path still leads to its place,    *)
(* that what a frame has not yet seen is all that is left below it         *)
(* (Thorough).  On Windows the tree has what its links lead to.            *)
(***************************************************************************)
EXTENDS FileSystemProofs

-----------------------------------------------------------------------------
(* A disk with entries cleared.                                            *)

Shrunk(a, b) ==
  /\ \A j \in Inodes : b[j].kind = a[j].kind /\ (a[j].kind = "link" => b[j].to = a[j].to)
  /\ \A d \in Inodes, n \in Names : EntryOf(b, d, n) \in {EntryOf(a, d, n), 0}

\* Only entries of the tree at i, and the entries that name i.
Within(a, b, i) ==
  \A d \in Inodes, n \in Names : EntryOf(b, d, n) # EntryOf(a, d, n) =>
    d \in RemovedOn(a, i) \/ EntryOf(a, d, n) = i

LEMMA ShrunkSame ==
  ASSUME NEW a, NEW i
  PROVE  Shrunk(a, a) /\ Within(a, a, i)
BY DEF Shrunk, Within

LEMMA ShrunkOnward ==
  ASSUME NEW a \in Disks, NEW b \in Disks, Shrunk(a, b), NEW i \in Inodes, NEW n \in Names,
         Onward(b, i, n) # 0
  PROVE  Onward(b, i, n) \in Inodes /\ Onward(a, i, n) = Onward(b, i, n)
<1> USE DiskAssumption
<1>1. Onward(b, i, n) \in Inodes BY OnwardType
<1>2. PICK e : e = EntryOf(b, i, n) OBVIOUS
<1>3. e # 0 /\ Onward(b, i, n) = FollowOn(b, e) BY <1>2 DEF Onward, FollowOn
<1>4. e \in Inodes BY <1>2, <1>3, OnwardType
<1>5. EntryOf(a, i, n) = e BY <1>2, <1>3 DEF Shrunk
<1>6. Onward(a, i, n) = FollowOn(a, e) BY <1>5 DEF Onward
<1>7. b[e].kind = a[e].kind BY <1>4 DEF Shrunk
<1>8. CASE a[e].kind = "link"
  <2>1. PICK o \in Names : o = a[e].to /\ o = b[e].to BY <1>4, <1>8, NodeShape DEF Shrunk
  <2>2. PICK t : t = EntryOf(b, Root, o) OBVIOUS
  <2>3. t # 0 /\ b[t].kind # "link" /\ FollowOn(b, e) = t
    BY <1>3, <1>7, <1>8, <2>1, <2>2 DEF FollowOn
  <2>4. t \in Inodes BY <2>2, <2>3, OnwardType
  <2>5. EntryOf(a, Root, o) = t BY <2>2, <2>3 DEF Shrunk
  <2>6. a[t].kind # "link" BY <2>3, <2>4 DEF Shrunk
  <2>7. FollowOn(a, e) = t BY <1>3, <1>8, <2>1, <2>3, <2>5, <2>6 DEF FollowOn
  <2> QED BY <1>1, <1>3, <1>6, <2>3, <2>7
<1>9. CASE a[e].kind # "link"
  <2>1. FollowOn(a, e) = e /\ FollowOn(b, e) = e BY <1>7, <1>9 DEF FollowOn
  <2> QED BY <1>1, <1>3, <1>6, <2>1
<1> QED BY <1>8, <1>9

\* What is still found is what was found.
LEMMA ShrunkWalk ==
  ASSUME NEW a \in Disks, NEW b \in Disks, Shrunk(a, b), NEW p \in Seq(Names)
  PROVE  /\ WalkOn(b, p) # 0 => WalkOn(a, p) = WalkOn(b, p)
         /\ LStatOn(b, p) # 0 => /\ LStatOn(a, p) = LStatOn(b, p)
                                 /\ WalkOn(a, Front(p)) = WalkOn(b, Front(p))
<1>1. ASSUME NEW q \in Seq(Names), WalkOn(b, q) # 0 PROVE WalkOn(a, q) = WalkOn(b, q)
  <2>1. \A i \in Inodes, n \in Names : Onward(b, i, n) # 0 =>
          Onward(b, i, n) \in Inodes /\ Onward(a, i, n) = Onward(b, i, n)
    BY ShrunkOnward
  <2>2. Root \in Inodes BY DiskAssumption
  <2> QED BY <1>1, <2>1, <2>2, WalkSame
<1>2. ASSUME LStatOn(b, p) # 0
      PROVE  LStatOn(a, p) = LStatOn(b, p) /\ WalkOn(a, Front(p)) = WalkOn(b, Front(p))
  <2>1. p # <<>> /\ LStatOn(b, p) = EntryOf(b, WalkOn(b, Front(p)), Last(p))
    BY <1>2 DEF LStatOn
  <2>2. PICK f \in Seq(Names), n \in Names : f = Front(p) /\ n = Last(p) BY <2>1, PathParts
  <2>3. PICK d \in Inodes \cup {0} : d = WalkOn(b, f) BY WalkType
  <2>4. d # 0 BY <1>2, <2>1, <2>2, <2>3 DEF EntryOf
  <2>5. WalkOn(a, f) = d BY <1>1, <2>3, <2>4
  <2>6. EntryOf(b, d, n) \in {EntryOf(a, d, n), 0} BY <2>3, <2>4 DEF Shrunk
  <2>7. LStatOn(a, p) = EntryOf(a, d, n) BY <2>1, <2>2, <2>5 DEF LStatOn
  <2> QED BY <1>2, <2>1, <2>2, <2>3, <2>5, <2>6, <2>7
<1> QED BY <1>1, <1>2

\* Clearing one entry.
LEMMA Cleared ==
  ASSUME NEW a \in Disks, NEW d \in Inodes, a[d].kind = "dir", NEW n \in Names,
         NEW b, b = SetEntry(a, d, n, 0)
  PROVE  /\ b \in Disks /\ Shrunk(a, b) /\ EntryOf(b, d, n) = 0
         /\ \A e \in Inodes, m \in Names :
              e # d \/ m # n => EntryOf(b, e, m) = EntryOf(a, e, m)
<1>0. 0 \in Inodes \cup {0} OBVIOUS
<1>1. b \in Disks BY <1>0, EntryType
<1>2. a[d] \in [kind : {"dir"}, entries : [Names -> Inodes \cup {0}]] BY NodeShape
<1>3. PICK y : y = [a[d] EXCEPT !.entries = [@ EXCEPT ![n] = 0]] OBVIOUS
<1>4. /\ y.kind = "dir" /\ y.entries[n] = 0
      /\ \A m \in Names \ {n} : y.entries[m] = a[d].entries[m]
  BY <1>2, <1>3
<1>5. b = [a EXCEPT ![d] = y] BY <1>3 DEF SetEntry
<1>6. b[d] = y /\ \A e \in Inodes \ {d} : b[e] = a[e] BY <1>5 DEF Disks
<1>7. EntryOf(b, d, n) = 0 BY <1>4, <1>6 DEF EntryOf
<1>8. ASSUME NEW e \in Inodes, NEW m \in Names, e # d \/ m # n
      PROVE  EntryOf(b, e, m) = EntryOf(a, e, m)
  <2>1. CASE e = d
    <3>1. m \in Names \ {n} BY <1>8, <2>1
    <3>2. y.entries[m] = a[d].entries[m] BY <1>4, <3>1
    <3> QED BY <1>4, <1>6, <2>1, <3>2 DEF EntryOf
  <2>2. CASE e # d BY <1>6, <2>2 DEF EntryOf
  <2> QED BY <2>1, <2>2
<1>9. \A e \in Inodes, m \in Names : EntryOf(b, e, m) \in {EntryOf(a, e, m), 0}
  BY <1>7, <1>8
<1>10. \A j \in Inodes : b[j].kind = a[j].kind /\ (a[j].kind = "link" => b[j].to = a[j].to)
  BY <1>4, <1>6
<1> QED BY <1>1, <1>7, <1>8, <1>9, <1>10 DEF Shrunk

LEMMA ShrunkMore ==
  ASSUME NEW a, NEW b, NEW x, Shrunk(a, b), Shrunk(b, x)
  PROVE  Shrunk(a, x)
<1>1. ASSUME NEW j \in Inodes
      PROVE  x[j].kind = a[j].kind /\ (a[j].kind = "link" => x[j].to = a[j].to)
  BY DEF Shrunk
<1>2. ASSUME NEW d \in Inodes, NEW n \in Names PROVE EntryOf(x, d, n) \in {EntryOf(a, d, n), 0}
  <2>1. EntryOf(b, d, n) \in {EntryOf(a, d, n), 0} /\ EntryOf(x, d, n) \in {EntryOf(b, d, n), 0}
    BY DEF Shrunk
  <2> QED BY <2>1
<1> QED BY <1>1, <1>2 DEF Shrunk

\* A span has the directory of i, and is closed.
LEMMA SpanIs ==
  ASSUME NEW a, NEW i, NEW to
  PROVE  /\ to[i] \in Inodes /\ a[to[i]].kind = "dir" => to[i] \in SpanOn(a, i, to)
         /\ SpanOn(a, i, to) \subseteq {d \in Inodes : a[d].kind = "dir"}
         /\ \A d \in SpanOn(a, i, to), n \in Names :
              LET e == to[EntryOf(a, d, n)]
              IN  e \in Inodes /\ a[e].kind = "dir" => e \in SpanOn(a, i, to)
<1>1. PICK dirs : dirs = {d \in Inodes : a[d].kind = "dir"} OBVIOUS
<1> DEFINE Whole(S) == /\ to[i] \in dirs => to[i] \in S
                       /\ \A d \in S, n \in Names :
                            to[EntryOf(a, d, n)] \in S \cup (Inodes \ dirs) \cup {0}
           span == SpanOn(a, i, to)
<1>2. span = {d \in dirs : \A S \in {T \in SUBSET dirs : Whole(T)} : d \in S}
  BY <1>1 DEF SpanOn
<1>3. \A d : d \in span <=> d \in dirs /\ \A S \in SUBSET dirs : Whole(S) => d \in S
  BY <1>2
<1> HIDE DEF span
<1>4. to[i] \in dirs => to[i] \in span BY <1>3
<1>5. ASSUME NEW d \in span, NEW n \in Names, NEW e \in dirs, e = to[EntryOf(a, d, n)]
      PROVE  e \in span
  <2> SUFFICES ASSUME NEW S \in SUBSET dirs, Whole(S) PROVE e \in S BY <1>3
  <2>1. d \in S BY <1>3
  <2>2. e \in S \cup (Inodes \ dirs) \cup {0} BY <1>5, <2>1
  <2>3. e # 0 BY <1>1, DiskAssumption
  <2> QED BY <2>2, <2>3
<1>6. span \subseteq dirs BY <1>3
<1> QED BY <1>1, <1>4, <1>5, <1>6 DEF span

\* What a removal gets to: the directory at i, or behind the link there on
\* Windows, and every directory that an entry of one of them leads to.
LEMMA RemovedIs ==
  ASSUME NEW a, NEW i \in Inodes
  PROVE  /\ RemovedOn(a, i) \subseteq {d \in Inodes : a[d].kind = "dir"}
         /\ \A t \in Inodes : /\ t = FollowOn(a, i) /\ a[t].kind = "dir"
                              /\ windows \/ a[i].kind = "dir"
                              => t \in RemovedOn(a, i)
         /\ \A d \in RemovedOn(a, i), n \in Names, e \in Inodes, t \in Inodes :
              /\ e = EntryOf(a, d, n) /\ t = FollowOn(a, e) /\ a[t].kind = "dir"
              /\ windows \/ a[e].kind = "dir"
              => t \in RemovedOn(a, i)
<1>1. PICK to : to = [j \in Inodes \cup {0} |-> IF windows THEN FollowOn(a, j) ELSE j]
  OBVIOUS
<1>2. RemovedOn(a, i) = SpanOn(a, i, to)
  <2>1. CASE windows BY <1>1, <2>1 DEF RemovedOn, LinkedTreeOn
  <2>2. CASE ~windows
    <3>1. to = [j \in Inodes \cup {0} |-> j] BY <1>1, <2>2
    <3> QED BY <2>2, <3>1 DEF RemovedOn, TreeOn
  <2> QED BY <2>1, <2>2
<1>3. ASSUME NEW e \in Inodes, windows \/ a[e].kind = "dir" PROVE to[e] = FollowOn(a, e)
  <2>1. e \in Inodes \cup {0} OBVIOUS
  <2>2. CASE windows BY <1>1, <2>1, <2>2
  <2>3. CASE ~windows
    <3>1. FollowOn(a, e) = e BY <1>3, <2>3 DEF FollowOn
    <3> QED BY <1>1, <2>1, <2>3, <3>1
  <2> QED BY <2>2, <2>3
<1> HIDE DEF SpanOn
<1>4. ASSUME NEW t \in Inodes, t = FollowOn(a, i), a[t].kind = "dir", windows \/ a[i].kind = "dir"
      PROVE  t \in SpanOn(a, i, to)
  <2>1. to[i] = t BY <1>3, <1>4
  <2> QED BY <1>4, <2>1, SpanIs
<1>5. ASSUME NEW d \in SpanOn(a, i, to), NEW n \in Names, NEW e \in Inodes, NEW t \in Inodes,
             e = EntryOf(a, d, n), t = FollowOn(a, e), a[t].kind = "dir",
             windows \/ a[e].kind = "dir"
      PROVE  t \in SpanOn(a, i, to)
  <2>1. to[EntryOf(a, d, n)] = t BY <1>3, <1>5
  <2> QED BY <1>5, <2>1, SpanIs
<1>6. SpanOn(a, i, to) \subseteq {d \in Inodes : a[d].kind = "dir"} BY SpanIs
<1> QED BY <1>2, <1>4, <1>5, <1>6

-----------------------------------------------------------------------------
(* Where a removal stands.                                                 *)

\* A frame, on the disk a as it was: no directory, or one of those that the
\* removal gets to, if its path leads to any.
Placed(f, a, i) ==
  /\ LStatOn(a, f.path) # 0
  /\ f.at = "unlink" => a[LStatOn(a, f.path)].kind # "dir"
  /\ f.at # "unlink" =>
       /\ ~windows => a[LStatOn(a, f.path)].kind = "dir"
       /\ KindIs(a, WalkOn(a, f.path), "dir") => WalkOn(a, f.path) \in RemovedOn(a, i)

\* Each frame is for an entry of the directory of the one below it.
Sound(k, a) ==
  /\ k.stack[1].path = k.path
  /\ \A j \in 1 .. Len(k.stack) : Placed(k.stack[j], a, LStatOn(a, k.path))
  /\ \A j \in 2 .. Len(k.stack) :
       k.stack[j].path # <<>> /\ Front(k.stack[j].path) = k.stack[j - 1].path

\* Nothing failed, and the path still leads to its place.
Clear(k, a, x) ==
  ~k.faulted /\ ~windows /\ WalkOn(x, Front(k.path)) = WalkOn(a, Front(k.path))

\* What a frame has left on the disk x: entries it has not seen, and those in
\* `busy`.
Prompt(f, a, x, busy) ==
  /\ LStatOn(x, f.path) = LStatOn(a, f.path)
  /\ f.at = "opendir" => f.seen = {}
  /\ f.at = "readdir" =>
       /\ f.dir = LStatOn(a, f.path)
       /\ \A n \in Names : EntryOf(x, f.dir, n) # 0 => n \in f.first /\ (n \in f.seen => n \in busy)
  /\ f.at = "rmdir" => \A n \in Names : EntryOf(x, LStatOn(a, f.path), n) = 0

Busy(k, j) == IF j = Len(k.stack) THEN {} ELSE {Last(k.stack[j + 1].path)}
Thorough(k, a, x) == \A j \in 1 .. Len(k.stack) : Prompt(k.stack[j], a, x, Busy(k, j))

Removing(k, a, x) ==
  /\ a \in Disks /\ x \in Disks
  /\ Shrunk(a, x) /\ Within(a, x, LStatOn(a, k.path))
  /\ Sound(k, a)
  /\ Clear(k, a, x) => Thorough(k, a, x)

\* What the answer says of the disks before and after.
Answers(k, a, x) ==
  /\ Shrunk(a, x) /\ Within(a, x, LStatOn(a, k.path))
  /\ k.ok => LStatOn(x, k.path) = 0
  /\ ~k.ok /\ LStatOn(a, k.path) # 0 => ~Clear(k, a, x)

\* A path leads to its entry, or to where that leads.
LEMMA WalkOfEntry ==
  ASSUME NEW x, NEW p \in Seq(Names), p # <<>>
  PROVE  WalkOn(x, p) = FollowOn(x, LStatOn(x, p))
BY WalkStep DEF LStatOn, Onward

\* A directory is where its path leads.
LEMMA WalkOfDir ==
  ASSUME NEW x \in Disks, NEW p \in Seq(Names), LStatOn(x, p) # 0,
         x[LStatOn(x, p)].kind = "dir"
  PROVE  p # <<>> /\ LStatOn(x, p) \in Inodes /\ WalkOn(x, p) = LStatOn(x, p)
<1>1. p # <<>> BY DEF LStatOn
<1>2. LStatOn(x, p) \in Inodes BY StatType
<1>3. PICK t : t = LStatOn(x, p) OBVIOUS
<1>4. WalkOn(x, p) = FollowOn(x, t) BY <1>1, <1>3, WalkOfEntry
<1>5. FollowOn(x, t) = t BY <1>3 DEF FollowOn
<1> QED BY <1>1, <1>2, <1>3, <1>4, <1>5

\* The path of a child.
LEMMA ChildPath ==
  ASSUME NEW p \in Seq(Names), NEW n \in Names, NEW q, q = Append(p, n)
  PROVE  /\ q \in Seq(Names) /\ q # <<>> /\ Front(q) = p /\ Last(q) = n
         /\ \A x : LStatOn(x, q) = EntryOf(x, WalkOn(x, p), n)
<1>1. PICK m \in Nat : m = Len(p) OBVIOUS
<1>2. /\ q \in Seq(Names) /\ Len(q) = m + 1 /\ q[m + 1] = n
      /\ \A j \in 1 .. m : q[j] = p[j]
  BY <1>1, AppendProperties
<1>3. q # <<>> BY <1>1, <1>2
<1>0. /\ Front(q) \in Seq(Names) /\ Len(Front(q)) = Len(q) - 1
      /\ \A j \in 1 .. Len(q) - 1 : Front(q)[j] = q[j]
  BY <1>2, <1>3, FrontOf
<1>4. PICK f \in Seq(Names) : f = Front(q) /\ Len(f) = Len(q) - 1
                              /\ \A j \in 1 .. Len(q) - 1 : f[j] = q[j]
  BY <1>0
<1>5. Len(f) = m /\ \A j \in 1 .. m : f[j] = p[j] BY <1>1, <1>2, <1>4
<1>6. f = p BY <1>1, <1>5
<1>7. Last(q) = n BY <1>1, <1>2 DEF Last
<1>8. ASSUME NEW x PROVE LStatOn(x, q) = EntryOf(x, WalkOn(x, p), n)
  BY <1>3, <1>4, <1>6, <1>7 DEF LStatOn
<1> QED BY <1>2, <1>3, <1>4, <1>6, <1>7, <1>8

\* A frame that walks a directory walks one that the removal may get to; on
\* POSIX its entry is that directory.
LEMMA FrameIs ==
  ASSUME NEW k, NEW m, Walks(k, m), NEW a, NEW x, Removing(k, a, x), NEW j \in 1 .. m
  PROVE  /\ k.stack[j] \in Frames /\ k.stack[j].path \in Seq(Names)
         /\ k.stack[j].path # <<>>
         /\ LStatOn(a, k.stack[j].path) \in Inodes
         /\ k.stack[j].at # "unlink" =>
              /\ KindIs(a, WalkOn(a, k.stack[j].path), "dir") =>
                   WalkOn(a, k.stack[j].path) \in RemovedOn(a, LStatOn(a, k.path))
              /\ ~windows => /\ a[LStatOn(a, k.stack[j].path)].kind = "dir"
                             /\ WalkOn(a, k.stack[j].path) = LStatOn(a, k.stack[j].path)
         /\ k.stack[j].at = "unlink" => a[LStatOn(a, k.stack[j].path)].kind # "dir"
<1>1. k.stack \in Seq(Frames) /\ Len(k.stack) = m /\ m \in Nat BY DEF Walks, Calls
<1>2. PICK f \in Frames : f = k.stack[j] BY <1>1
<1>3. f.path \in Seq(Names) BY <1>2 DEF Frames
<1>4. Placed(f, a, LStatOn(a, k.path)) BY <1>1, <1>2 DEF Removing, Sound
<1>5. PICK t : t = LStatOn(a, f.path) OBVIOUS
<1>6. t # 0 /\ t \in Inodes /\ f.path # <<>>
  BY <1>3, <1>4, <1>5, StatType DEF Placed, Removing, LStatOn
<1>7. ASSUME a[t].kind = "dir" PROVE WalkOn(a, f.path) = t
  BY <1>3, <1>5, <1>6, <1>7, WalkOfDir DEF Removing
<1> QED BY <1>2, <1>3, <1>4, <1>5, <1>6, <1>7 DEF Placed

-----------------------------------------------------------------------------
(* Steps of a removal that leave the disk alone.                           *)

\* The walk with another frame on top, perhaps after a failure.
Retops(k, q, m, g) ==
  /\ Walks(q, m) /\ q.path = k.path /\ (k.faulted => q.faulted)
  /\ q.stack[m] = g /\ \A j \in 1 .. m - 1 : q.stack[j] = k.stack[j]

LEMMA RetopKeeps ==
  ASSUME NEW k, NEW m, Walks(k, m), NEW q, NEW g, Retops(k, q, m, g), NEW f, f = k.stack[m],
         f.at # "unlink", g.at # "unlink", g.path = f.path,
         NEW a, NEW x, Removing(k, a, x),
         Clear(q, a, x) /\ Prompt(f, a, x, {}) => Prompt(g, a, x, {})
  PROVE  Removing(q, a, x)
<1>1. m \in Nat \ {0} /\ Len(k.stack) = m /\ Len(q.stack) = m BY DEF Walks, Retops
<1>2. q.path = k.path /\ (k.faulted => q.faulted) /\ q.stack[m] = g
      /\ \A j \in 1 .. m - 1 : q.stack[j] = k.stack[j]
  BY DEF Retops
<1>3. \A j \in 1 .. m : q.stack[j].path = k.stack[j].path
  <2> SUFFICES ASSUME NEW j \in 1 .. m PROVE q.stack[j].path = k.stack[j].path OBVIOUS
  <2>1. j = m \/ j \in 1 .. m - 1 BY <1>1
  <2> QED BY <1>2, <2>1
<1>4. PICK i : i = LStatOn(a, k.path) /\ i = LStatOn(a, q.path) BY <1>2
<1>5. Sound(q, a)
  <2>1. /\ k.stack[1].path = k.path /\ \A j \in 1 .. m : Placed(k.stack[j], a, i)
        /\ \A j \in 2 .. m :
             k.stack[j].path # <<>> /\ Front(k.stack[j].path) = k.stack[j - 1].path
    BY <1>1, <1>4 DEF Removing, Sound
  <2>2. 1 \in 1 .. m BY <1>1
  <2>3. q.stack[1].path = q.path BY <1>2, <1>3, <2>1, <2>2
  <2>4. ASSUME NEW j \in 1 .. m PROVE Placed(q.stack[j], a, i)
    <3>1. CASE j = m
      <4>1. Placed(f, a, i) BY <2>1, <3>1
      <4>2. Placed(g, a, i) BY <4>1 DEF Placed
      <4> QED BY <1>2, <3>1, <4>2
    <3>2. CASE j # m
      <4>1. j \in 1 .. m - 1 BY <1>1, <3>2
      <4> QED BY <1>2, <2>1, <4>1
    <3> QED BY <3>1, <3>2
  <2>5. ASSUME NEW j \in 2 .. m
        PROVE  q.stack[j].path # <<>> /\ Front(q.stack[j].path) = q.stack[j - 1].path
    <3>1. j \in 1 .. m /\ j - 1 \in 1 .. m BY <1>1
    <3> QED BY <1>3, <2>1, <3>1
  <2> QED BY <1>1, <1>4, <2>3, <2>4, <2>5 DEF Sound
<1>6. ASSUME Clear(q, a, x) PROVE Thorough(q, a, x)
  <2>1. Clear(k, a, x) BY <1>2, <1>6 DEF Clear
  <2>2. \A j \in 1 .. m : Prompt(k.stack[j], a, x, Busy(k, j))
    BY <1>1, <2>1 DEF Removing, Thorough
  <2>3. ASSUME NEW j \in 1 .. m PROVE Prompt(q.stack[j], a, x, Busy(q, j))
    <3>1. CASE j = m
      <4>1. Busy(k, j) = {} /\ Busy(q, j) = {} BY <1>1, <3>1 DEF Busy
      <4>2. Prompt(f, a, x, {}) BY <2>2, <3>1, <4>1
      <4>3. Prompt(g, a, x, {}) BY <1>6, <4>2
      <4> QED BY <1>2, <3>1, <4>1, <4>3
    <3>2. CASE j # m
      <4>1. j \in 1 .. m - 1 /\ j + 1 \in 1 .. m BY <1>1, <3>2
      <4>2. q.stack[j] = k.stack[j] /\ q.stack[j + 1].path = k.stack[j + 1].path
        BY <1>2, <1>3, <4>1
      <4>3. Busy(q, j) = Busy(k, j) BY <1>1, <3>2, <4>2 DEF Busy
      <4> QED BY <2>2, <4>2, <4>3
    <3> QED BY <3>1, <3>2
  <2> QED BY <1>1, <2>3 DEF Thorough
<1> QED BY <1>4, <1>5, <1>6 DEF Removing

\* The walk goes on to the child n of its top frame.
Descends(k, q, m, n) ==
  /\ Walks(q, m + 1) /\ q.path = k.path /\ (k.faulted => q.faulted)
  /\ q.stack[m] = Saw(k.stack[m], n)
  /\ q.stack[m + 1] = FrameFor(Append(k.stack[m].path, n))
  /\ \A j \in 1 .. m - 1 : q.stack[j] = k.stack[j]

LEMMA DescendKeeps ==
  ASSUME NEW k, NEW m, Walks(k, m), NEW q, NEW n \in Names, Descends(k, q, m, n),
         k.stack[m].at = "readdir", NEW a, Removing(k, a, node),
         LStatOn(node, Append(k.stack[m].path, n)) # 0
  PROVE  Removing(q, a, node)
<1>0. m \in Nat \ {0} /\ Len(k.stack) = m /\ m \in 1 .. m BY DEF Walks
<1>1. Len(q.stack) = m + 1 BY DEF Walks, Descends
<1>2. q.path = k.path /\ (k.faulted => q.faulted)
      /\ \A j \in 1 .. m - 1 : q.stack[j] = k.stack[j]
  BY DEF Descends
<1>3. PICK f \in Frames : f = k.stack[m] /\ f.at = "readdir" /\ f.path \in Seq(Names)
  BY <1>0, FrameIs
<1>4. PICK p : p = Append(f.path, n) OBVIOUS
<1>5. /\ p \in Seq(Names) /\ p # <<>> /\ Front(p) = f.path /\ Last(p) = n
      /\ \A x : LStatOn(x, p) = EntryOf(x, WalkOn(x, f.path), n)
  <2>1. PICK w \in Seq(Names) : w = f.path BY <1>3
  <2>2. p = Append(w, n) BY <1>4, <2>1
  <2>3. /\ p \in Seq(Names) /\ p # <<>> /\ Front(p) = w /\ Last(p) = n
        /\ \A x : LStatOn(x, p) = EntryOf(x, WalkOn(x, w), n)
    BY <2>2, ChildPath
  <2> QED BY <2>1, <2>3
<1>6. PICK g : g = Saw(f, n) /\ q.stack[m] = g BY <1>3 DEF Descends
<1>7. /\ g.at = "readdir" /\ g.path = f.path /\ g.dir = f.dir /\ g.first = f.first
      /\ g.seen = f.seen \cup {n}
  BY <1>3, <1>6, SawType
<1>8. PICK e : e = FrameFor(p) /\ q.stack[m + 1] = e BY <1>3, <1>4 DEF Descends
<1>9. /\ e.path = p /\ e.seen = {}
      /\ e.at = IF DirLike(node, LStatOn(node, p)) THEN "opendir" ELSE "unlink"
  <2>1. FrameFor(p) = Frame(p, IF IsTree(p) THEN "opendir" ELSE "unlink") BY DEF FrameFor
  <2>2. IsTree(p) <=> DirLike(node, LStatOn(node, p)) BY DEF IsTree, LStat
  <2> QED BY <1>5, <1>8, <2>1, <2>2, FrameType
<1>10. a \in Disks /\ node \in Disks /\ Shrunk(a, node) BY DEF Removing
<1>11. PICK t : t = LStatOn(node, p) /\ t # 0 BY <1>3, <1>4
<1>12. t \in Inodes /\ LStatOn(a, p) = t /\ node[t].kind = a[t].kind
  <2>1. t \in Inodes BY <1>5, <1>10, <1>11, StatType
  <2> QED BY <1>5, <1>10, <1>11, <2>1, ShrunkWalk DEF Shrunk
<1>13. PICK i : i = LStatOn(a, k.path) /\ i = LStatOn(a, q.path) BY <1>2
<1>14. /\ k.stack[1].path = k.path /\ \A j \in 1 .. m : Placed(k.stack[j], a, i)
       /\ \A j \in 2 .. m :
            k.stack[j].path # <<>> /\ Front(k.stack[j].path) = k.stack[j - 1].path
  BY <1>0, <1>13 DEF Removing, Sound
<1>15. i \in Inodes
  <2>1. PICK b \in 1 .. m : b = 1 BY <1>0
  <2>2. LStatOn(a, k.stack[b].path) \in Inodes BY FrameIs
  <2> QED BY <1>13, <1>14, <2>1, <2>2
<1>16. Placed(e, a, i)
  <2>1. CASE DirLike(node, t)
    <3>1. e.at = "opendir" BY <1>9, <1>11, <2>1
    <3>2. ~windows => a[t].kind = "dir" BY <1>12, <2>1 DEF DirLike, KindIs
    <3>3. ASSUME KindIs(a, WalkOn(a, p), "dir") PROVE WalkOn(a, p) \in RemovedOn(a, i)
      <4>1. PICK u : u = WalkOn(a, f.path) OBVIOUS
      <4>2. t = EntryOf(a, u, n) BY <1>5, <1>12, <4>1
      <4>3. KindIs(a, u, "dir") BY <1>11, <4>2 DEF EntryOf, KindIs
      <4>4. u \in RemovedOn(a, i) BY <1>0, <1>3, <1>13, <4>1, <4>3, FrameIs
      <4>5. PICK w : w = WalkOn(a, p) OBVIOUS
      <4>6. w = FollowOn(a, t) BY <1>5, <1>12, <4>5, WalkOfEntry
      <4>7. w \in Inodes /\ a[w].kind = "dir"
        BY <1>5, <1>10, <3>3, <4>5, WalkType DEF KindIs
      <4>8. windows \/ a[t].kind = "dir" BY <3>2
      <4>9. w \in RemovedOn(a, i) BY <1>12, <1>15, <4>2, <4>4, <4>6, <4>7, <4>8, RemovedIs
      <4> QED BY <4>5, <4>9
    <3> QED BY <1>9, <1>11, <1>12, <3>1, <3>2, <3>3 DEF Placed
  <2>2. CASE ~DirLike(node, t)
    <3>1. e.at = "unlink" BY <1>9, <1>11, <2>2
    <3>2. a[t].kind # "dir" BY <1>11, <1>12, <2>2 DEF DirLike, KindIs
    <3> QED BY <1>9, <1>11, <1>12, <3>1, <3>2 DEF Placed
  <2> QED BY <2>1, <2>2
<1>17. \A j \in 1 .. m : q.stack[j].path = k.stack[j].path
  <2> SUFFICES ASSUME NEW j \in 1 .. m PROVE q.stack[j].path = k.stack[j].path OBVIOUS
  <2>1. j = m \/ j \in 1 .. m - 1 BY <1>0
  <2> QED BY <1>2, <1>3, <1>6, <1>7, <2>1
<1>18. Sound(q, a)
  <2>1. 1 \in 1 .. m BY <1>0
  <2>2. q.stack[1].path = q.path BY <1>2, <1>14, <1>17, <2>1
  <2>3. ASSUME NEW j \in 1 .. m + 1 PROVE Placed(q.stack[j], a, i)
    <3>1. CASE j = m + 1 BY <1>8, <1>16, <3>1
    <3>2. CASE j = m
      <4>1. Placed(f, a, i) BY <1>3, <1>14, <3>2
      <4>2. Placed(g, a, i) BY <1>3, <1>7, <4>1 DEF Placed
      <4> QED BY <1>6, <3>2, <4>2
    <3>3. CASE j # m /\ j # m + 1
      <4>1. j \in 1 .. m - 1 /\ j \in 1 .. m BY <1>0, <3>3
      <4> QED BY <1>2, <1>14, <4>1
    <3> QED BY <3>1, <3>2, <3>3
  <2>4. ASSUME NEW j \in 2 .. m + 1
        PROVE  q.stack[j].path # <<>> /\ Front(q.stack[j].path) = q.stack[j - 1].path
    <3>1. CASE j = m + 1
      <4>1. j - 1 = m /\ j - 1 \in 1 .. m BY <1>0, <3>1
      <4>2. q.stack[j - 1].path = f.path BY <1>3, <1>17, <4>1
      <4> QED BY <1>5, <1>8, <1>9, <3>1, <4>2
    <3>2. CASE j # m + 1
      <4>1. j \in 2 .. m /\ j \in 1 .. m /\ j - 1 \in 1 .. m BY <1>0, <3>2
      <4> QED BY <1>14, <1>17, <4>1
    <3> QED BY <3>1, <3>2
  <2> QED BY <1>1, <1>13, <2>2, <2>3, <2>4 DEF Sound
<1>19. ASSUME Clear(q, a, node) PROVE Thorough(q, a, node)
  <2>1. Clear(k, a, node) BY <1>2, <1>19 DEF Clear
  <2>2. \A j \in 1 .. m : Prompt(k.stack[j], a, node, Busy(k, j))
    BY <1>0, <2>1 DEF Removing, Thorough
  <2>3. ASSUME NEW j \in 1 .. m + 1 PROVE Prompt(q.stack[j], a, node, Busy(q, j))
    <3>1. CASE j = m + 1
      <4>1. e.at # "readdir" /\ e.at # "rmdir" BY <1>9
      <4>2. Prompt(e, a, node, Busy(q, j)) BY <1>9, <1>11, <1>12, <4>1 DEF Prompt
      <4> QED BY <1>8, <3>1, <4>2
    <3>2. CASE j = m
      <4>1. Busy(k, j) = {} BY <1>0, <3>2 DEF Busy
      <4>2. Busy(q, j) = {n}
        <5>1. j # m + 1 BY <1>0, <3>2
        <5>2. q.stack[j + 1].path = p BY <1>8, <1>9, <3>2
        <5> QED BY <1>1, <1>5, <5>1, <5>2 DEF Busy
      <4>3. Prompt(f, a, node, {}) BY <1>0, <1>3, <2>2, <3>2, <4>1
      <4>4. Prompt(g, a, node, {n}) BY <1>3, <1>7, <4>3 DEF Prompt
      <4> QED BY <1>6, <3>2, <4>2, <4>4
    <3>3. CASE j # m /\ j # m + 1
      <4>1. j \in 1 .. m - 1 /\ j \in 1 .. m /\ j + 1 \in 1 .. m /\ j # m + 1 BY <1>0, <3>3
      <4>2. q.stack[j] = k.stack[j] /\ q.stack[j + 1].path = k.stack[j + 1].path
        BY <1>2, <1>17, <4>1
      <4>3. Busy(q, j) = Busy(k, j) BY <1>0, <1>1, <3>3, <4>2 DEF Busy
      <4> QED BY <2>2, <4>1, <4>2, <4>3
    <3> QED BY <3>1, <3>2, <3>3
  <2> QED BY <1>1, <2>3 DEF Thorough
<1> QED BY <1>13, <1>18, <1>19 DEF Removing

-----------------------------------------------------------------------------
(* Frames that return.                                                     *)

Leaves(k, q, m, ok) ==
  /\ q.path = k.path /\ q.faulted = k.faulted
  /\ m = 1 => q.pc = "done" /\ q.ok = ok
  /\ m # 1 => Walks(q, m - 1) /\ \A j \in 1 .. m - 1 : q.stack[j] = k.stack[j]

Settled(q, a, x) ==
  /\ q.pc = "done" => Answers(q, a, x)
  /\ q.pc # "done" => Removing(q, a, x)

\* The path itself.
LEMMA FirstFrame ==
  ASSUME NEW k, NEW m, Walks(k, m), NEW a, NEW x, Removing(k, a, x)
  PROVE  /\ m \in Nat \ {0} /\ Len(k.stack) = m /\ k.stack[1].path = k.path
         /\ k.path \in Seq(Names) /\ k.path # <<>>
         /\ LStatOn(a, k.path) \in Inodes /\ LStatOn(a, k.path) # 0
<1>1. m \in Nat \ {0} /\ Len(k.stack) = m BY DEF Walks
<1>2. k.stack[1].path = k.path BY DEF Removing, Sound
<1>3. PICK b \in 1 .. m : b = 1 BY <1>1
<1>4. /\ k.stack[b].path \in Seq(Names) /\ k.stack[b].path # <<>>
      /\ LStatOn(a, k.stack[b].path) \in Inodes
  BY FrameIs
<1>5. LStatOn(a, k.path) # 0 BY <1>2, <1>3, <1>4, DiskAssumption
<1> QED BY <1>1, <1>2, <1>3, <1>4, <1>5

LEMMA LeaveSound ==
  ASSUME NEW k, NEW m, Walks(k, m), NEW a, NEW x, Removing(k, a, x), m # 1,
         NEW q, NEW ok, Leaves(k, q, m, ok)
  PROVE  Sound(q, a)
<1>1. /\ m \in Nat \ {0} /\ Len(k.stack) = m /\ Len(q.stack) = m - 1 /\ q.path = k.path
      /\ \A j \in 1 .. m - 1 : q.stack[j] = k.stack[j]
  BY DEF Walks, Leaves
<1>2. PICK i : i = LStatOn(a, k.path) /\ i = LStatOn(a, q.path) BY <1>1
<1>3. /\ k.stack[1].path = k.path /\ \A j \in 1 .. m : Placed(k.stack[j], a, i)
      /\ \A j \in 2 .. m :
           k.stack[j].path # <<>> /\ Front(k.stack[j].path) = k.stack[j - 1].path
  BY <1>1, <1>2 DEF Removing, Sound
<1>4. 1 \in 1 .. m - 1 BY <1>1
<1>5. q.stack[1].path = q.path BY <1>1, <1>3, <1>4
<1>6. ASSUME NEW j \in 1 .. m - 1 PROVE Placed(q.stack[j], a, i)
  <2>1. j \in 1 .. m BY <1>1
  <2> QED BY <1>1, <1>3, <2>1
<1>7. ASSUME NEW j \in 2 .. m - 1
      PROVE  q.stack[j].path # <<>> /\ Front(q.stack[j].path) = q.stack[j - 1].path
  <2>1. j \in 2 .. m /\ j \in 1 .. m - 1 /\ j - 1 \in 1 .. m - 1 BY <1>1
  <2> QED BY <1>1, <1>3, <2>1
<1> QED BY <1>1, <1>2, <1>5, <1>6, <1>7 DEF Sound

\* A frame that returns without success.
LEMMA LeftUndone ==
  ASSUME NEW k, NEW m, Walks(k, m), NEW a, NEW x, Removing(k, a, x),
         NEW q, Leaves(k, q, m, FALSE), ~Clear(k, a, x)
  PROVE  Settled(q, a, x)
<1>1. q.path = k.path /\ ~Clear(q, a, x) BY DEF Leaves, Clear
<1>2. CASE m = 1
  <2>1. q.pc = "done" /\ ~q.ok BY <1>2 DEF Leaves
  <2> QED BY <1>1, <2>1 DEF Settled, Answers, Removing
<1>3. CASE m # 1
  <2>1. q.pc # "done" BY <1>3 DEF Leaves, Walks
  <2>2. Sound(q, a) BY <1>3, LeaveSound
  <2> QED BY <1>1, <2>1, <2>2 DEF Settled, Removing
<1> QED BY <1>2, <1>3

\* The frame's entry, and the directory that holds it.
LEMMA EntryIs ==
  ASSUME NEW k, NEW m, Walks(k, m), NEW a, NEW x, Removing(k, a, x),
         NEW p, p = k.stack[m].path, LStatOn(x, p) # 0, NEW d, d = WalkOn(x, Front(p))
  PROVE  /\ p \in Seq(Names) /\ p # <<>> /\ Last(p) \in Names
         /\ d \in Inodes /\ x[d].kind = "dir" /\ LStatOn(x, p) = EntryOf(x, d, Last(p))
         /\ LStatOn(a, p) = LStatOn(x, p) /\ EntryOf(a, d, Last(p)) = LStatOn(x, p)
         /\ d \in RemovedOn(a, LStatOn(a, k.path)) \/ LStatOn(a, p) = LStatOn(a, k.path)
<1>1. m \in 1 .. m /\ m \in Nat \ {0} /\ Len(k.stack) = m BY DEF Walks
<1>2. p \in Seq(Names) /\ p # <<>> BY <1>1, FrameIs
<1>3. PICK f \in Seq(Names), n \in Names : f = Front(p) /\ n = Last(p) BY <1>2, PathParts
<1>4. a \in Disks /\ x \in Disks /\ Shrunk(a, x) BY DEF Removing
<1>5. d \in Inodes \cup {0} BY <1>3, <1>4, WalkType
<1>6. LStatOn(x, p) = EntryOf(x, d, n) BY <1>2, <1>3 DEF LStatOn
<1>7. d # 0 /\ x[d].kind = "dir" BY <1>6 DEF EntryOf
<1>8. LStatOn(a, p) = LStatOn(x, p) /\ WalkOn(a, f) = d BY <1>2, <1>3, <1>4, ShrunkWalk
<1>9. EntryOf(a, d, n) = LStatOn(a, p) BY <1>2, <1>3, <1>8 DEF LStatOn
<1>10. d \in RemovedOn(a, LStatOn(a, k.path)) \/ LStatOn(a, p) = LStatOn(a, k.path)
  <2>1. CASE m = 1 BY <2>1, FirstFrame
  <2>2. CASE m # 1
    <3>1. PICK l \in 1 .. m : l = m - 1 /\ l \in 1 .. m - 1 /\ m \in 2 .. m BY <1>1, <2>2
    <3>2. k.stack[l].at = "readdir" BY <3>1 DEF Walks
    <3>3. f = k.stack[l].path BY <1>1, <1>3, <3>1 DEF Removing, Sound
    <3>4. d \in Inodes /\ a[d].kind = "dir" BY <1>4, <1>5, <1>7 DEF Shrunk
    <3>5. KindIs(a, d, "dir") BY <1>7, <3>4 DEF KindIs
    <3> QED BY <1>8, <3>2, <3>3, <3>5, FrameIs
  <2> QED BY <2>1, <2>2
<1> QED BY <1>2, <1>3, <1>5, <1>6, <1>7, <1>8, <1>9, <1>10

\* The entry of the top frame is none of those the walk came by: these are
\* directories that are not empty.
LEMMA StandsFast ==
  ASSUME NEW k, NEW m, Walks(k, m), NEW a, NEW x, Removing(k, a, x), Thorough(k, a, x),
         k.stack[m].at \in {"unlink", "rmdir"},
         NEW p, p = k.stack[m].path, LStatOn(x, p) # 0, NEW d, d = WalkOn(x, Front(p)),
         NEW b, b = SetEntry(x, d, Last(p), 0),
         WalkOn(b, Front(k.path)) = WalkOn(x, Front(k.path)), ~windows,
         NEW j \in 1 .. m - 1
  PROVE  LStatOn(b, k.stack[j].path) = LStatOn(x, k.stack[j].path)
<1> DEFINE Bad == {l \in 1 .. m - 1 : LStatOn(b, k.stack[l].path) # LStatOn(x, k.stack[l].path)}
<1>1. SUFFICES ASSUME Bad # {} PROVE FALSE OBVIOUS
<1>2. m \in Nat \ {0} /\ Len(k.stack) = m /\ m \in 1 .. m BY DEF Walks
<1>3. Bad \in SUBSET Nat BY <1>2
<1>4. PICK l \in Bad : \A y \in Bad : l <= y BY <1>1, <1>3, LeastOf
<1>5. l \in 1 .. m - 1 /\ l \in 1 .. m /\ l + 1 \in 2 .. m /\ l + 1 \in 1 .. m BY <1>2, <1>4
<1>6. PICK n \in Names : /\ n = Last(p) /\ d \in Inodes /\ x[d].kind = "dir"
                         /\ LStatOn(x, p) = EntryOf(x, d, n) /\ LStatOn(a, p) = LStatOn(x, p)
  BY EntryIs
<1>7. a \in Disks /\ x \in Disks /\ Shrunk(a, x) BY DEF Removing
<1>8. /\ b \in Disks /\ Shrunk(x, b)
      /\ \A e \in Inodes, o \in Names : e # d \/ o # n => EntryOf(b, e, o) = EntryOf(x, e, o)
  BY <1>6, <1>7, Cleared
<1> HIDE DEF Bad
<1>9. ASSUME NEW c \in 1 .. m - 1, c \in 1 .. m
      PROVE  /\ k.stack[c].path \in Seq(Names) /\ k.stack[c].path # <<>>
             /\ LStatOn(x, k.stack[c].path) \in Inodes /\ LStatOn(x, k.stack[c].path) # 0
             /\ LStatOn(x, k.stack[c].path) = LStatOn(a, k.stack[c].path)
             /\ x[LStatOn(x, k.stack[c].path)].kind = "dir"
             /\ WalkOn(x, k.stack[c].path) = LStatOn(x, k.stack[c].path)
  <2>1. k.stack[c].at = "readdir" BY DEF Walks
  <2>2. /\ k.stack[c].path \in Seq(Names) /\ k.stack[c].path # <<>>
        /\ LStatOn(a, k.stack[c].path) \in Inodes
        /\ a[LStatOn(a, k.stack[c].path)].kind = "dir"
    BY <1>9, <2>1, FrameIs
  <2>3. LStatOn(x, k.stack[c].path) = LStatOn(a, k.stack[c].path)
    BY <1>2, <1>9 DEF Thorough, Prompt
  <2>4. PICK t \in Inodes : t = LStatOn(x, k.stack[c].path) BY <2>2, <2>3
  <2>5. t # 0 /\ x[t].kind = "dir" BY <1>7, <2>2, <2>3, <2>4, DiskAssumption DEF Shrunk
  <2>6. WalkOn(x, k.stack[c].path) = t BY <1>7, <2>2, <2>4, <2>5, WalkOfDir
  <2> QED BY <2>2, <2>3, <2>4, <2>5, <2>6
<1>10. PICK w \in Seq(Names), t \in Inodes :
         /\ w = k.stack[l].path /\ t = LStatOn(x, w) /\ w # <<>> /\ t # 0
         /\ t = LStatOn(a, w) /\ x[t].kind = "dir" /\ WalkOn(x, w) = t
  BY <1>5, <1>9
<1>11. t # LStatOn(x, p)
  <2>1. CASE k.stack[m].at = "rmdir"
    <3>1. PICK v : v = k.stack[l + 1].path OBVIOUS
    <3>2. v # <<>> /\ Front(v) = w BY <1>2, <1>5, <1>10, <3>1 DEF Removing, Sound
    <3>3. v \in Seq(Names) /\ LStatOn(a, v) \in Inodes BY <1>5, <3>1, FrameIs
    <3>4. LStatOn(x, v) = LStatOn(a, v) BY <1>2, <1>5, <3>1 DEF Thorough, Prompt
    <3>5. LStatOn(x, v) # 0 BY <3>3, <3>4, DiskAssumption
    <3>6. PICK o \in Names : o = Last(v) BY <3>2, <3>3, PathParts
    <3>7. EntryOf(x, t, o) # 0 BY <1>10, <3>2, <3>5, <3>6 DEF LStatOn
    <3>8. Prompt(k.stack[m], a, x, Busy(k, m)) BY <1>2 DEF Thorough
    <3>9. EntryOf(x, LStatOn(a, p), o) = 0 BY <2>1, <3>8 DEF Prompt
    <3> QED BY <1>6, <3>7, <3>9
  <2>2. CASE k.stack[m].at = "unlink"
    <3>1. a[LStatOn(a, p)].kind # "dir" BY <1>2, <2>2, FrameIs
    <3>2. a[t].kind = "dir" BY <1>7, <1>10 DEF Shrunk
    <3> QED BY <1>6, <3>1, <3>2
  <2> QED BY <2>1, <2>2
<1>12. PICK f \in Seq(Names), o \in Names : f = Front(w) /\ o = Last(w) BY <1>10, PathParts
<1>13. WalkOn(b, f) = WalkOn(x, f)
  <2>1. CASE l = 1 BY <1>10, <1>12, <2>1, FirstFrame
  <2>2. CASE l # 1
    <3>1. PICK c \in 1 .. m - 1 : c = l - 1 /\ c \in 1 .. m /\ l \in 2 .. m BY <1>2, <1>5, <2>2
    <3>2. PICK u \in Seq(Names) : u = k.stack[c].path BY <3>1, <1>9
    <3>3. f = u BY <1>2, <1>10, <1>12, <3>1, <3>2 DEF Removing, Sound
    <3>4. PICK s \in Inodes : /\ s = LStatOn(x, u) /\ s # 0 /\ x[s].kind = "dir"
                              /\ WalkOn(x, u) = s
      BY <1>9, <3>1, <3>2
    <3>5. c \notin Bad
      <4>1. ~(l <= c) BY <1>5, <3>1
      <4> QED BY <1>4, <4>1
    <3>6. LStatOn(b, u) = s BY <3>1, <3>2, <3>4, <3>5 DEF Bad
    <3>7. b[s].kind = "dir" BY <1>8, <3>4 DEF Shrunk
    <3>8. WalkOn(b, u) = s BY <1>8, <3>4, <3>6, <3>7, WalkOfDir
    <3> QED BY <3>3, <3>4, <3>8
  <2> QED BY <2>1, <2>2
<1>14. PICK e : e = WalkOn(x, f) OBVIOUS
<1>15. t = EntryOf(x, e, o) /\ LStatOn(b, w) = EntryOf(b, e, o)
  BY <1>10, <1>12, <1>13, <1>14 DEF LStatOn
<1>16. e \in Inodes
  <2>1. e \in Inodes \cup {0} BY <1>7, <1>14, WalkType
  <2>2. e # 0 BY <1>10, <1>15 DEF EntryOf
  <2> QED BY <2>1, <2>2
<1>17. e # d \/ o # n BY <1>6, <1>11, <1>15
<1>18. LStatOn(b, w) = t BY <1>8, <1>15, <1>16, <1>17
<1>19. LStatOn(b, w) # t BY <1>4, <1>10 DEF Bad
<1> QED BY <1>18, <1>19

\* A frame that returns with its entry cleared.
LEMMA LeftCleared ==
  ASSUME NEW k, NEW m, Walks(k, m), NEW a, NEW x, Removing(k, a, x),
         k.stack[m].at \in {"unlink", "rmdir"},
         NEW p, p = k.stack[m].path, LStatOn(x, p) # 0, NEW d, d = WalkOn(x, Front(p)),
         NEW b, b = SetEntry(x, d, Last(p), 0), NEW q, Leaves(k, q, m, TRUE)
  PROVE  Settled(q, a, b)
<1>1. PICK n \in Names : /\ n = Last(p) /\ d \in Inodes /\ x[d].kind = "dir"
                         /\ LStatOn(x, p) = EntryOf(x, d, n) /\ LStatOn(a, p) = LStatOn(x, p)
                         /\ EntryOf(a, d, n) = LStatOn(x, p) /\ p \in Seq(Names) /\ p # <<>>
                         /\ \/ d \in RemovedOn(a, LStatOn(a, k.path))
                            \/ LStatOn(a, p) = LStatOn(a, k.path)
  BY EntryIs
<1>2. a \in Disks /\ x \in Disks /\ Shrunk(a, x) /\ Within(a, x, LStatOn(a, k.path))
  BY DEF Removing
<1>3. /\ b \in Disks /\ Shrunk(x, b) /\ EntryOf(b, d, n) = 0
      /\ \A e \in Inodes, o \in Names : e # d \/ o # n => EntryOf(b, e, o) = EntryOf(x, e, o)
  BY <1>1, <1>2, Cleared
<1>4. q.path = k.path /\ q.faulted = k.faulted /\ k.path \in Seq(Names) /\ k.path # <<>>
      /\ LStatOn(a, k.path) # 0 /\ m \in Nat \ {0} /\ Len(k.stack) = m /\ k.stack[1].path = k.path
  BY FirstFrame DEF Leaves
<1>5. Shrunk(a, b) BY <1>2, <1>3, ShrunkMore
<1>6. Within(a, b, LStatOn(a, k.path))
  <2>1. PICK i : i = LStatOn(a, k.path) OBVIOUS
  <2>2. ASSUME NEW e \in Inodes, NEW o \in Names, EntryOf(b, e, o) # EntryOf(a, e, o)
        PROVE  e \in RemovedOn(a, i) \/ EntryOf(a, e, o) = i
    <3>1. CASE e = d /\ o = n BY <1>1, <2>1, <3>1
    <3>2. CASE e # d \/ o # n
      <4>1. EntryOf(b, e, o) = EntryOf(x, e, o) BY <1>3, <3>2
      <4> QED BY <1>2, <2>1, <2>2, <4>1 DEF Within
    <3> QED BY <3>1, <3>2
  <2> QED BY <2>1, <2>2 DEF Within
<1>7. CASE m = 1
  <2>1. q.pc = "done" /\ q.ok = TRUE BY <1>7 DEF Leaves
  <2>2. p = k.path BY <1>4, <1>7
  <2>3. ASSUME LStatOn(b, p) # 0 PROVE FALSE
    <3>1. WalkOn(x, Front(p)) = WalkOn(b, Front(p)) BY <1>1, <1>2, <1>3, <2>3, ShrunkWalk
    <3>2. LStatOn(b, p) = EntryOf(b, d, n) BY <1>1, <3>1 DEF LStatOn
    <3> QED BY <1>3, <2>3, <3>2
  <2> QED BY <1>4, <1>5, <1>6, <2>1, <2>2, <2>3 DEF Settled, Answers
<1>8. CASE m # 1
  <2>1. q.pc # "done" /\ Len(q.stack) = m - 1 /\ \A j \in 1 .. m - 1 : q.stack[j] = k.stack[j]
    BY <1>8 DEF Leaves, Walks
  <2>2. Sound(q, a) BY <1>8, LeaveSound
  <2>3. ASSUME Clear(q, a, b) PROVE Thorough(q, a, b)
    <3>1. PICK f \in Seq(Names) : f = Front(k.path) BY <1>4, PathParts
    <3>2. WalkOn(b, f) = WalkOn(a, f) /\ ~k.faulted /\ ~windows BY <1>4, <2>3, <3>1 DEF Clear
    <3>3. WalkOn(a, f) # 0 BY <1>4, <3>1 DEF LStatOn, EntryOf
    <3>4. WalkOn(x, f) = WalkOn(b, f) BY <1>2, <1>3, <3>2, <3>3, ShrunkWalk
    <3>5. Clear(k, a, x) BY <3>1, <3>2, <3>4 DEF Clear
    <3>6. Thorough(k, a, x) BY <3>5 DEF Removing
    <3>7. \A j \in 1 .. m - 1 : LStatOn(b, k.stack[j].path) = LStatOn(x, k.stack[j].path)
      BY <3>1, <3>2, <3>4, <3>6, StandsFast
    <3>8. ASSUME NEW j \in 1 .. m - 1 PROVE Prompt(q.stack[j], a, b, Busy(q, j))
      <4>1. j \in 1 .. m /\ j # m /\ j + 1 \in 1 .. m BY <1>4
      <4>2. PICK g : g = k.stack[j] /\ g = q.stack[j] /\ g.at = "readdir"
        BY <2>1 DEF Walks
      <4>3. Prompt(g, a, x, Busy(k, j)) BY <1>4, <3>6, <4>1, <4>2 DEF Thorough
      <4>4. /\ LStatOn(b, g.path) = LStatOn(a, g.path) /\ g.dir = LStatOn(a, g.path)
            /\ \A o \in Names : EntryOf(x, g.dir, o) # 0 =>
                 o \in g.first /\ (o \in g.seen => o \in Busy(k, j))
        BY <3>7, <4>2, <4>3 DEF Prompt
      <4>7. PICK l \in 1 .. m : l = j BY <4>1
      <4>8. /\ LStatOn(a, k.stack[l].path) \in Inodes
            /\ k.stack[l].at # "unlink" =>
                 WalkOn(a, k.stack[l].path) = LStatOn(a, k.stack[l].path)
        BY <3>2, FrameIs
      <4>5. g.dir \in Inodes BY <4>2, <4>4, <4>7, <4>8
      <4>6. ASSUME NEW o \in Names, EntryOf(b, g.dir, o) # 0
            PROVE  o \in g.first /\ (o \in g.seen => o \in Busy(q, j))
        <5>1. EntryOf(x, g.dir, o) # 0 BY <1>3, <4>5, <4>6 DEF Shrunk
        <5>2. o \in g.first /\ (o \in g.seen => o \in Busy(k, j)) BY <4>4, <5>1
        <5>3. CASE j = m - 1
          <6>1. Busy(k, j) = {n} BY <1>1, <1>4, <4>1, <5>3 DEF Busy
          <6>2. j = (j + 1) - 1 /\ j + 1 = m /\ m \in 2 .. m BY <1>4, <1>8, <5>3
          <6>3. Front(p) = g.path BY <1>4, <4>2, <6>2 DEF Removing, Sound
          <6>4. WalkOn(a, g.path) = g.dir BY <4>2, <4>4, <4>7, <4>8
          <6>5. WalkOn(a, Front(p)) = d BY <1>1, <1>2, ShrunkWalk
          <6>6. g.dir = d BY <6>3, <6>4, <6>5
          <6>7. o # n BY <1>3, <4>6, <6>6
          <6> QED BY <5>2, <6>1, <6>7
        <5>4. CASE j # m - 1
          <6>1. j + 1 \in 1 .. m - 1 BY <1>4, <5>4
          <6>2. q.stack[j + 1] = k.stack[j + 1] BY <2>1, <6>1
          <6>3. Busy(q, j) = Busy(k, j) BY <1>4, <2>1, <4>1, <5>4, <6>2 DEF Busy
          <6> QED BY <5>2, <6>3
        <5> QED BY <5>3, <5>4
      <4> QED BY <4>2, <4>4, <4>6 DEF Prompt
    <3> QED BY <2>1, <3>8 DEF Thorough
  <2> QED BY <1>2, <1>3, <1>4, <1>5, <1>6, <2>1, <2>2, <2>3 DEF Settled, Removing
<1> QED BY <1>7, <1>8

-----------------------------------------------------------------------------
(* What each step of fs_remove_path does to the walk.                      *)

LEMMA TopRetops ==
  ASSUME NEW k, NEW m, Walks(k, m), NEW f \in Frames, NEW q, q = Top(k, f)
  PROVE  Retops(k, q, m, f) /\ q.faulted = k.faulted
<1>1. k.stack \in Seq(Frames) /\ m \in Nat /\ m > 0 /\ k \in Calls /\ Len(k.stack) = m
  BY DEF Calls, Walks
<1>2. PICK st \in Seq(Frames) :
        /\ st = Append(Front(k.stack), f) /\ Len(st) = m /\ st[m] = f
        /\ \A j \in 1 .. m - 1 : st[j] = k.stack[j]
  BY <1>1, NewTop
<1>3. q = [k EXCEPT !.stack = st] BY <1>2 DEF Top
<1>4. q.stack = st /\ q.path = k.path /\ q.faulted = k.faulted BY <1>1, <1>3, Restacked
<1>5. Walks(q, m) BY TopIs
<1> QED BY <1>2, <1>4, <1>5 DEF Retops

LEMMA TopFaulted ==
  ASSUME NEW k, NEW m, Walks(k, m), NEW f \in Frames, NEW q, q = Top(Faulted(k), f)
  PROVE  Retops(k, q, m, f) /\ q.faulted = TRUE
<1>1. PICK w : w = Faulted(k) OBVIOUS
<1>2. Walks(w, m) /\ w.stack = k.stack BY <1>1, FaultedWalks
<1>3. w.faulted = TRUE /\ w.path = k.path BY <1>1, AfterFault DEF Walks, SameBut
<1>4. Retops(w, q, m, f) /\ q.faulted = w.faulted BY <1>1, <1>2, TopRetops
<1> QED BY <1>2, <1>3, <1>4 DEF Retops

LEMMA FaultedKeeps ==
  ASSUME NEW k, NEW m, Walks(k, m), NEW a, NEW x, Removing(k, a, x), NEW w, w = Faulted(k)
  PROVE  Walks(w, m) /\ w.stack = k.stack /\ Removing(w, a, x) /\ ~Clear(w, a, x)
<1>1. Walks(w, m) /\ w.stack = k.stack BY FaultedWalks
<1>2. w.faulted = TRUE /\ w.path = k.path BY AfterFault DEF Walks, SameBut
<1>3. Sound(w, a) BY <1>1, <1>2 DEF Removing, Sound
<1>4. ~Clear(w, a, x) BY <1>2 DEF Clear
<1> QED BY <1>1, <1>2, <1>3, <1>4 DEF Removing

LEMMA LeaveIs ==
  ASSUME Core, NEW c \in Callers, NEW k, NEW m, Walks(k, m), NEW ok \in BOOLEAN, Leave(c, k, ok)
  PROVE  Leaves(k, call'[c], m, ok)
<1>1. k \in Calls /\ m \in Nat \ {0} /\ Len(k.stack) = m /\ k.stack \in Seq(Frames)
  BY DEF Walks, Calls
<1>2. \A q : Goto(c, q) => call'[c] = q BY DEF Goto, Core, AllTidy
<1>3. CASE m = 1
  <2>1. <<>> \in Seq(Frames) OBVIOUS
  <2>2. PICK st \in Seq(Frames) : st = <<>> BY <2>1
  <2>3. PICK z : z = [k EXCEPT !.stack = st] OBVIOUS
  <2>4. z \in Calls /\ z.path = k.path /\ z.faulted = k.faulted BY <1>1, <2>3, Restacked
  <2>5. PICK r : r = Return(z, ok) OBVIOUS
  <2>6. Goto(c, r) BY <1>1, <1>3, <2>2, <2>3, <2>5 DEF Leave
  <2>7. r.pc = "done" /\ r.ok = ok /\ r.path = z.path /\ r.faulted = z.faulted
    BY <2>4, <2>5, Returned DEF SameBut
  <2> QED BY <1>2, <1>3, <2>4, <2>6, <2>7 DEF Leaves
<1>4. CASE m # 1
  <2>1. PICK st \in Seq(Frames) : /\ st = Front(k.stack) /\ Len(st) = m - 1
                                  /\ \A j \in 1 .. m - 1 : st[j] = k.stack[j]
    BY <1>1, StackTop
  <2>2. PICK q : q = [k EXCEPT !.stack = st] OBVIOUS
  <2>3. /\ q \in Calls /\ q.stack = st /\ q.pc = k.pc /\ q.op = k.op /\ q.path = k.path
        /\ q.faulted = k.faulted
    BY <1>1, <2>2, Restacked
  <2>4. Goto(c, q) BY <1>1, <1>4, <2>1, <2>2 DEF Leave
  <2>5. m - 1 \in Nat \ {0} BY <1>1, <1>4
  <2>6. Walks(q, m - 1)
    <3>1. \A j \in 1 .. (m - 1) - 1 : j \in 1 .. m - 1 BY <1>1
    <3> QED BY <2>1, <2>3, <2>5, <3>1 DEF Walks
  <2> QED BY <1>2, <1>4, <2>1, <2>3, <2>4, <2>6 DEF Leaves
<1> QED BY <1>3, <1>4

\* The top of the stack.
LEMMA TopFrame ==
  ASSUME Core, NEW c \in Callers, NEW k, k = call[c], k.pc = "remove"
  PROVE  \E m \in Nat \ {0} : Walks(k, m) /\ Last(k.stack) = k.stack[m] /\ k.stack[m] \in Frames
BY InRemoval

\* On POSIX, a frame for a directory finds it where it was.
LEMMA FrameThere ==
  ASSUME NEW k, NEW m, Walks(k, m), NEW a, NEW x, Removing(k, a, x), NEW f, f = k.stack[m],
         f.at # "unlink", LStatOn(x, f.path) = LStatOn(a, f.path), ~windows
  PROVE  /\ WalkOn(x, f.path) = LStatOn(a, f.path) /\ KindIs(x, LStatOn(a, f.path), "dir")
         /\ StatOn(x, f.path) = LStatOn(a, f.path)
<1>1. m \in 1 .. m BY DEF Walks
<1>2. /\ f.path \in Seq(Names) /\ f.path # <<>> /\ LStatOn(a, f.path) \in Inodes
      /\ a[LStatOn(a, f.path)].kind = "dir"
  BY <1>1, FrameIs
<1>3. PICK t \in Inodes : t = LStatOn(a, f.path) /\ t # 0 BY <1>2, DiskAssumption
<1>4. x \in Disks /\ x[t].kind = "dir" BY <1>2, <1>3 DEF Removing, Shrunk
<1>5. WalkOn(x, f.path) = t BY <1>2, <1>3, <1>4, WalkOfDir
<1> QED BY <1>2, <1>3, <1>4, <1>5 DEF StatOn, KindIs

LEMMA RemoveOpenOk ==
  ASSUME Core, NEW c \in Callers, RemoveOpen(c), NEW a, Removing(call[c], a, node)
  PROVE  Settled(call'[c], a, node)
<1>1. PICK k : k = call[c] OBVIOUS
<1>2. k.pc = "remove" /\ Last(k.stack).at = "opendir" BY <1>1 DEF RemoveOpen, Walking
<1>3. PICK m \in Nat \ {0} : Walks(k, m) /\ Last(k.stack) = k.stack[m] /\ k.stack[m] \in Frames
  BY <1>1, <1>2, TopFrame
<1>4. PICK f \in Frames : f = k.stack[m] /\ f.at = "opendir" BY <1>2, <1>3
<1>5. PICK g : g = [f EXCEPT !.at = "rmdir"] OBVIOUS
<1>6. PICK o : o = Opened(f, Stat(f.path)) OBVIOUS
<1>7. \/ Listable(f.path) /\ Goto(c, Top(k, o))
      \/ ~Listable(f.path) /\ Goto(c, Top(k, g))
      \/ Goto(c, Top(Faulted(k), g))
      \/ Leave(c, Faulted(k), FALSE)
  BY <1>1, <1>3, <1>4, <1>5, <1>6 DEF RemoveOpen
<1>8. \A q : Goto(c, q) => call'[c] = q BY DEF Goto, Core, AllTidy
<1>9. Removing(k, a, node) BY <1>1
<1>10. g \in Frames /\ g.at = "rmdir" /\ g.path = f.path BY <1>5, AtType
<1>11. /\ o \in Frames /\ o.at = "readdir" /\ o.path = f.path /\ o.dir = Stat(f.path)
       /\ o.seen = f.seen /\ o.first = {n \in Names : EntryOf(node, Stat(f.path), n) # 0}
  <2>1. f.path \in Seq(Names) BY DEF Frames
  <2>2. Stat(f.path) \in Inodes \cup {0} BY <2>1, StatType DEF Core, Stat
  <2> QED BY <1>6, <2>2, OpenedType
<1>12. ASSUME ~windows, Prompt(f, a, node, {}) PROVE Listable(f.path) /\ Prompt(o, a, node, {})
  <2>1. LStatOn(node, f.path) = LStatOn(a, f.path) /\ f.seen = {} BY <1>4, <1>12 DEF Prompt
  <2>2. /\ Stat(f.path) = LStatOn(a, f.path) /\ KindIs(node, Stat(f.path), "dir")
    BY <1>3, <1>4, <1>9, <1>12, <2>1, FrameThere DEF Stat
  <2>3. Listable(f.path) BY <2>2 DEF Listable
  <2>4. Prompt(o, a, node, {}) BY <1>11, <2>1, <2>2 DEF Prompt
  <2> QED BY <2>3, <2>4
<1>13. CASE Listable(f.path) /\ Goto(c, Top(k, o))
  <2>1. PICK q : q = Top(k, o) /\ call'[c] = q BY <1>8, <1>13
  <2>2. Retops(k, q, m, o) BY <1>3, <1>11, <2>1, TopRetops
  <2>3. Clear(q, a, node) /\ Prompt(f, a, node, {}) => Prompt(o, a, node, {})
    BY <1>12 DEF Clear
  <2>4. Removing(q, a, node) BY <1>3, <1>4, <1>9, <1>11, <2>2, <2>3, RetopKeeps
  <2>5. q.pc # "done" BY <2>2 DEF Retops, Walks
  <2> QED BY <2>1, <2>4, <2>5 DEF Settled
<1>14. CASE ~Listable(f.path) /\ Goto(c, Top(k, g))
  <2>1. PICK q : q = Top(k, g) /\ call'[c] = q BY <1>8, <1>14
  <2>2. Retops(k, q, m, g) BY <1>3, <1>10, <2>1, TopRetops
  <2>3. ~(Clear(q, a, node) /\ Prompt(f, a, node, {})) BY <1>12, <1>14 DEF Clear
  <2>4. Removing(q, a, node) BY <1>3, <1>4, <1>9, <1>10, <2>2, <2>3, RetopKeeps
  <2>5. q.pc # "done" BY <2>2 DEF Retops, Walks
  <2> QED BY <2>1, <2>4, <2>5 DEF Settled
<1>15. CASE Goto(c, Top(Faulted(k), g))
  <2>1. PICK q : q = Top(Faulted(k), g) /\ call'[c] = q BY <1>8, <1>15
  <2>2. Retops(k, q, m, g) /\ q.faulted = TRUE BY <1>3, <1>10, <2>1, TopFaulted
  <2>3. ~Clear(q, a, node) BY <2>2 DEF Clear
  <2>4. Removing(q, a, node) BY <1>3, <1>4, <1>9, <1>10, <2>2, <2>3, RetopKeeps
  <2>5. q.pc # "done" BY <2>2 DEF Retops, Walks
  <2> QED BY <2>1, <2>4, <2>5 DEF Settled
<1>16. CASE Leave(c, Faulted(k), FALSE)
  <2>1. PICK w : w = Faulted(k) OBVIOUS
  <2>2. Walks(w, m) /\ Removing(w, a, node) /\ ~Clear(w, a, node)
    BY <1>3, <1>9, <2>1, FaultedKeeps
  <2>3. FALSE \in BOOLEAN OBVIOUS
  <2>4. Leaves(w, call'[c], m, FALSE) BY <1>16, <2>1, <2>2, <2>3, LeaveIs
  <2> QED BY <2>2, <2>4, LeftUndone
<1> QED BY <1>7, <1>13, <1>14, <1>15, <1>16

LEMMA RemoveNextOk ==
  ASSUME Core, NEW c \in Callers, RemoveNext(c), NEW a, Removing(call[c], a, node)
  PROVE  Settled(call'[c], a, node)
<1>1. PICK k : k = call[c] OBVIOUS
<1>2. k.pc = "remove" /\ Last(k.stack).at = "readdir" BY <1>1 DEF RemoveNext, Walking
<1>3. PICK m \in Nat \ {0} : Walks(k, m) /\ Last(k.stack) = k.stack[m] /\ k.stack[m] \in Frames
  BY <1>1, <1>2, TopFrame
<1>4. PICK f \in Frames : f = k.stack[m] /\ f.at = "readdir" BY <1>2, <1>3
<1>5. PICK g : g = [f EXCEPT !.at = "rmdir"] OBVIOUS
<1>6. \/ AtEnd(f) /\ Goto(c, Top(k, g))
      \/ Goto(c, Top(Faulted(k), g))
      \/ \E n \in NamesLeft(f) :
           \/ /\ Found(Append(f.path, n))
              /\ Goto(c, Push(Top(k, Saw(f, n)), FrameFor(Append(f.path, n))))
           \/ ~Found(Append(f.path, n)) /\ Goto(c, Top(k, Saw(f, n)))
           \/ Goto(c, Faulted(Top(k, Saw(f, n))))
  BY <1>1, <1>3, <1>4, <1>5 DEF RemoveNext, Push
<1>7. \A q : Goto(c, q) => call'[c] = q BY DEF Goto, Core, AllTidy
<1>8. Removing(k, a, node) BY <1>1
<1>9. g \in Frames /\ g.at = "rmdir" /\ g.path = f.path BY <1>5, AtType
<1>10. f.path \in Seq(Names) BY DEF Frames
<1>11. ASSUME ~windows, Prompt(f, a, node, {})
       PROVE  /\ WalkOn(node, f.path) = f.dir /\ f.dir = LStatOn(a, f.path)
              /\ LStatOn(node, f.path) = LStatOn(a, f.path)
              /\ \A n \in Names : EntryOf(node, f.dir, n) # 0 => n \in f.first /\ n \notin f.seen
  <2>1. /\ LStatOn(node, f.path) = LStatOn(a, f.path) /\ f.dir = LStatOn(a, f.path)
        /\ \A n \in Names : EntryOf(node, f.dir, n) # 0 => n \in f.first /\ n \notin f.seen
    BY <1>4, <1>11 DEF Prompt
  <2>2. WalkOn(node, f.path) = LStatOn(a, f.path) BY <1>3, <1>4, <1>8, <1>11, <2>1, FrameThere
  <2> QED BY <2>1, <2>2
<1>12. CASE AtEnd(f) /\ Goto(c, Top(k, g))
  <2>1. PICK q : q = Top(k, g) /\ call'[c] = q BY <1>7, <1>12
  <2>2. Retops(k, q, m, g) BY <1>3, <1>9, <2>1, TopRetops
  <2>3. Clear(q, a, node) /\ Prompt(f, a, node, {}) => Prompt(g, a, node, {})
    <3> SUFFICES ASSUME ~windows, Prompt(f, a, node, {}) PROVE Prompt(g, a, node, {})
      BY DEF Clear
    <3>1. \A n \in Names : EntryOf(node, f.dir, n) = 0 BY <1>11, <1>12 DEF AtEnd
    <3> QED BY <1>9, <1>11, <3>1 DEF Prompt
  <2>4. Removing(q, a, node) BY <1>3, <1>4, <1>8, <1>9, <2>2, <2>3, RetopKeeps
  <2>5. q.pc # "done" BY <2>2 DEF Retops, Walks
  <2> QED BY <2>1, <2>4, <2>5 DEF Settled
<1>13. CASE Goto(c, Top(Faulted(k), g))
  <2>1. PICK q : q = Top(Faulted(k), g) /\ call'[c] = q BY <1>7, <1>13
  <2>2. Retops(k, q, m, g) /\ q.faulted = TRUE BY <1>3, <1>9, <2>1, TopFaulted
  <2>3. ~Clear(q, a, node) BY <2>2 DEF Clear
  <2>4. Removing(q, a, node) BY <1>3, <1>4, <1>8, <1>9, <2>2, <2>3, RetopKeeps
  <2>5. q.pc # "done" BY <2>2 DEF Retops, Walks
  <2> QED BY <2>1, <2>4, <2>5 DEF Settled
<1>14. ASSUME NEW n \in NamesLeft(f),
              \/ /\ Found(Append(f.path, n))
                 /\ Goto(c, Push(Top(k, Saw(f, n)), FrameFor(Append(f.path, n))))
              \/ ~Found(Append(f.path, n)) /\ Goto(c, Top(k, Saw(f, n)))
              \/ Goto(c, Faulted(Top(k, Saw(f, n))))
       PROVE  Settled(call'[c], a, node)
  <2>1. n \in Names BY DEF NamesLeft, Frames
  <2>2. PICK p : p = Append(f.path, n) OBVIOUS
  <2>3. p \in Seq(Names) /\ LStat(p) = EntryOf(node, WalkOn(node, f.path), n)
    BY <1>10, <2>1, <2>2, ChildPath DEF LStat
  <2>4. PICK s \in Frames : /\ s = Saw(f, n) /\ s.at = "readdir" /\ s.path = f.path
                            /\ s.dir = f.dir /\ s.first = f.first /\ s.seen = f.seen \cup {n}
    BY <1>4, <2>1, SawType
  <2>5. PICK w : w = Top(k, s) OBVIOUS
  <2>6. Retops(k, w, m, s) /\ w.faulted = k.faulted BY <1>3, <2>5, TopRetops
  <2>7. CASE Found(p) /\ Goto(c, Push(w, FrameFor(p)))
    <3>1. PICK e \in Frames : e = FrameFor(p) BY <2>3, FrameForType
    <3>2. PICK q : q = Push(w, e) /\ call'[c] = q BY <1>7, <2>7, <3>1
    <3>3. Walks(w, m) /\ w.stack[m].at = "readdir" BY <2>4, <2>6 DEF Retops
    <3>4. Walks(q, m + 1) /\ q.stack[m + 1] = e BY <3>2, <3>3, Pushed
    <3>5. q.path = w.path /\ q.faulted = w.faulted /\ \A j \in 1 .. m : q.stack[j] = w.stack[j]
      <4>1. w \in Calls /\ w.stack \in Seq(Frames) /\ Len(w.stack) = m BY <3>3 DEF Walks, Calls
      <4>2. PICK st : st = Append(w.stack, e) OBVIOUS
      <4>3. st \in Seq(Frames) /\ \A j \in 1 .. m : st[j] = w.stack[j]
        BY <4>1, <4>2, AppendProperties
      <4>4. q = [w EXCEPT !.stack = st] BY <3>2, <4>2 DEF Push
      <4> QED BY <4>1, <4>3, <4>4, Restacked
    <3>6. m \in 1 .. m /\ \A j \in 1 .. m - 1 : j \in 1 .. m BY <1>3
    <3>7. Descends(k, q, m, n)
      BY <1>4, <2>2, <2>4, <2>6, <3>1, <3>4, <3>5, <3>6 DEF Descends, Retops
    <3>8. LStatOn(node, Append(k.stack[m].path, n)) # 0 BY <1>4, <2>2, <2>7 DEF Found, LStat
    <3>9. Removing(q, a, node) BY <1>3, <1>4, <1>8, <2>1, <3>7, <3>8, DescendKeeps
    <3>10. q.pc # "done" BY <3>4 DEF Walks
    <3> QED BY <3>2, <3>9, <3>10 DEF Settled
  <2>8. CASE ~Found(p) /\ Goto(c, w)
    <3>1. call'[c] = w BY <1>7, <2>8
    <3>2. Clear(w, a, node) /\ Prompt(f, a, node, {}) => Prompt(s, a, node, {})
      <4> SUFFICES ASSUME ~windows, Prompt(f, a, node, {}) PROVE Prompt(s, a, node, {})
        BY DEF Clear
      <4>1. EntryOf(node, f.dir, n) = 0 BY <1>11, <2>3, <2>8 DEF Found
      <4> QED BY <1>11, <2>4, <4>1 DEF Prompt
    <3>3. Removing(w, a, node) BY <1>3, <1>4, <1>8, <2>4, <2>6, <3>2, RetopKeeps
    <3>4. w.pc # "done" BY <2>6 DEF Retops, Walks
    <3> QED BY <3>1, <3>3, <3>4 DEF Settled
  <2>9. CASE Goto(c, Faulted(w))
    <3>1. PICK q : q = Faulted(w) /\ call'[c] = q BY <1>7, <2>9
    <3>2. Walks(w, m) BY <2>6 DEF Retops
    <3>3. Walks(q, m) /\ q.stack = w.stack BY <3>1, <3>2, FaultedWalks
    <3>4. q.faulted = TRUE /\ q.path = w.path BY <3>1, <3>2, AfterFault DEF Walks, SameBut
    <3>5. Retops(k, q, m, s) BY <2>6, <3>3, <3>4 DEF Retops
    <3>6. ~Clear(q, a, node) BY <3>4 DEF Clear
    <3>7. Removing(q, a, node) BY <1>3, <1>4, <1>8, <2>4, <3>5, <3>6, RetopKeeps
    <3>8. q.pc # "done" BY <3>3 DEF Walks
    <3> QED BY <3>1, <3>7, <3>8 DEF Settled
  <2> QED BY <1>14, <2>2, <2>4, <2>5, <2>7, <2>8, <2>9
<1> QED BY <1>6, <1>12, <1>13, <1>14

\* unlink and rmdir: a removal that is not prevented clears the entry.
LEMMA RemoveEntryOk ==
  ASSUME Core, NEW c \in Callers, NEW k, NEW p, k = call[c], p = Last(k.stack).path,
         k.pc = "remove", Last(k.stack).at \in {"unlink", "rmdir"},
         NEW a, Removing(k, a, node),
         \/ /\ Leave(c, k, TRUE) /\ LStat(p) # 0
            /\ node' = SetEntry(node, ParentOf(p), Last(p), 0)
         \/ Leave(c, k, FALSE) /\ UNCHANGED node /\ ~Clear(k, a, node)
         \/ Leave(c, Faulted(k), FALSE) /\ UNCHANGED node
  PROVE  Settled(call'[c], a, node')
<1>1. PICK m \in Nat \ {0} : Walks(k, m) /\ Last(k.stack) = k.stack[m] /\ k.stack[m] \in Frames
  BY TopFrame
<1>2. TRUE \in BOOLEAN /\ FALSE \in BOOLEAN OBVIOUS
<1>3. CASE /\ Leave(c, k, TRUE) /\ LStat(p) # 0
           /\ node' = SetEntry(node, ParentOf(p), Last(p), 0)
  <2>1. PICK q : q = call'[c] OBVIOUS
  <2>2. Leaves(k, q, m, TRUE) BY <1>1, <1>2, <1>3, <2>1, LeaveIs
  <2>3. PICK d : d = WalkOn(node, Front(p)) OBVIOUS
  <2>4. PICK b : b = SetEntry(node, d, Last(p), 0) OBVIOUS
  <2>5. node' = b BY <1>3, <2>3, <2>4 DEF ParentOf
  <2>6. LStatOn(node, p) # 0 /\ p = k.stack[m].path /\ k.stack[m].at \in {"unlink", "rmdir"}
    BY <1>1, <1>3 DEF LStat
  <2>7. Settled(q, a, b) BY <1>1, <2>2, <2>3, <2>4, <2>6, LeftCleared
  <2> QED BY <2>1, <2>5, <2>7
<1>4. CASE Leave(c, k, FALSE) /\ UNCHANGED node /\ ~Clear(k, a, node)
  <2>1. PICK q : q = call'[c] OBVIOUS
  <2>2. Leaves(k, q, m, FALSE) BY <1>1, <1>2, <1>4, <2>1, LeaveIs
  <2>3. Settled(q, a, node) BY <1>1, <1>4, <2>2, LeftUndone
  <2> QED BY <1>4, <2>1, <2>3
<1>5. CASE Leave(c, Faulted(k), FALSE) /\ UNCHANGED node
  <2>1. PICK w : w = Faulted(k) OBVIOUS
  <2>2. Walks(w, m) /\ Removing(w, a, node) /\ ~Clear(w, a, node) BY <1>1, <2>1, FaultedKeeps
  <2>3. PICK q : q = call'[c] OBVIOUS
  <2>4. Leaves(w, q, m, FALSE) BY <1>2, <1>5, <2>1, <2>2, <2>3, LeaveIs
  <2>5. Settled(q, a, node) BY <2>2, <2>4, LeftUndone
  <2> QED BY <1>5, <2>3, <2>5
<1> QED BY <1>3, <1>4, <1>5

\* Undisturbed, the entry of the top frame is there and can be removed.
LEMMA CanRemove ==
  ASSUME Core, NEW c \in Callers, NEW k, NEW p, k = call[c], p = Last(k.stack).path,
         k.pc = "remove", NEW a, Removing(k, a, node), Clear(k, a, node)
  PROVE  /\ LStat(p) # 0
         /\ Last(k.stack).at = "unlink" => ~DirLike(node, LStat(p)) /\ ~IsPinned(LStat(p))
         /\ Last(k.stack).at = "rmdir" => IsEmptyDir(LStat(p))
<1>1. PICK m \in Nat \ {0} : Walks(k, m) /\ Last(k.stack) = k.stack[m] /\ k.stack[m] \in Frames
  BY TopFrame
<1>2. PICK f \in Frames : f = k.stack[m] /\ p = f.path BY <1>1
<1>3. m \in 1 .. m /\ Len(k.stack) = m BY <1>1 DEF Walks
<1>4. Prompt(f, a, node, {}) BY <1>2, <1>3 DEF Removing, Thorough, Busy
<1>5. LStat(p) = LStatOn(a, p) /\ LStatOn(a, p) \in Inodes
  <2>1. LStatOn(a, k.stack[m].path) \in Inodes BY <1>1, <1>3, FrameIs
  <2> QED BY <1>2, <1>4, <2>1 DEF Prompt, LStat
<1>6. PICK t \in Inodes : t = LStat(p) /\ t = LStatOn(a, p) /\ t # 0 BY <1>5, DiskAssumption
<1>7. node[t].kind = a[t].kind BY DEF Removing, Shrunk
<1>8. ASSUME f.at = "unlink" PROVE ~DirLike(node, t) /\ ~IsPinned(t)
  <2>1. a[LStatOn(a, k.stack[m].path)].kind # "dir" BY <1>1, <1>2, <1>3, <1>8, FrameIs
  <2>2. ~IsPinned(t) BY DEF Clear, IsPinned
  <2>3. ~DirLike(node, t) BY <1>2, <1>6, <1>7, <2>1 DEF DirLike, KindIs, Clear
  <2> QED BY <2>2, <2>3
<1>9. ASSUME f.at = "rmdir" PROVE IsEmptyDir(t)
  <2>1. KindIs(node, t, "dir")
    <3>1. f.at # "unlink" /\ LStatOn(node, f.path) = LStatOn(a, f.path)
      BY <1>4, <1>9 DEF Prompt
    <3>2. KindIs(node, LStatOn(a, f.path), "dir") BY <1>1, <1>2, <3>1, FrameThere DEF Clear
    <3> QED BY <1>2, <1>6, <3>2
  <2>2. \A n \in Names : EntryOf(node, t, n) = 0 BY <1>2, <1>4, <1>6, <1>9 DEF Prompt
  <2>3. \A n \in Names : node[t].entries[n] = 0 BY <2>1, <2>2 DEF EntryOf, KindIs
  <2> QED BY <2>1, <2>3 DEF IsEmptyDir
<1> QED BY <1>1, <1>2, <1>6, <1>8, <1>9

LEMMA RemoveLeafOk ==
  ASSUME Core, NEW c \in Callers, RemoveLeaf(c), NEW a, Removing(call[c], a, node)
  PROVE  Settled(call'[c], a, node')
<1>1. PICK k, p : k = call[c] /\ p = Last(k.stack).path OBVIOUS
<1>2. k.pc = "remove" /\ Last(k.stack).at = "unlink"
  BY <1>1 DEF RemoveLeaf, RemoveEntry, Walking
<1>3. \/ /\ Leave(c, k, TRUE) /\ LStat(p) # 0
         /\ node' = SetEntry(node, ParentOf(p), Last(p), 0)
      \/ /\ ~(LStat(p) # 0 /\ ~DirLike(node, LStat(p)) /\ ~IsPinned(LStat(p)))
         /\ Leave(c, k, FALSE) /\ UNCHANGED node
      \/ Leave(c, Faulted(k), FALSE) /\ UNCHANGED node
  BY <1>1 DEF RemoveLeaf, RemoveEntry
<1>4. Removing(k, a, node) BY <1>1
<1>5. Clear(k, a, node) =>
        LStat(p) # 0 /\ ~DirLike(node, LStat(p)) /\ ~IsPinned(LStat(p))
  BY <1>1, <1>2, <1>4, CanRemove
<1> QED BY <1>1, <1>2, <1>3, <1>4, <1>5, RemoveEntryOk

LEMMA RemoveDirOk ==
  ASSUME Core, NEW c \in Callers, RemoveDir(c), NEW a, Removing(call[c], a, node)
  PROVE  Settled(call'[c], a, node')
<1>1. PICK k, p : k = call[c] /\ p = Last(k.stack).path OBVIOUS
<1>2. k.pc = "remove" /\ Last(k.stack).at = "rmdir"
  BY <1>1 DEF RemoveDir, RemoveEntry, Walking
<1>3. \/ /\ Leave(c, k, TRUE) /\ LStat(p) # 0
         /\ node' = SetEntry(node, ParentOf(p), Last(p), 0)
      \/ ~IsRemovable(LStat(p)) /\ Leave(c, k, FALSE) /\ UNCHANGED node
      \/ Leave(c, Faulted(k), FALSE) /\ UNCHANGED node
  BY <1>1 DEF RemoveDir, RemoveEntry, IsRemovable, IsEmptyDir, KindIs
<1>4. Removing(k, a, node) BY <1>1
<1>5. Clear(k, a, node) => IsRemovable(LStat(p))
  BY <1>1, <1>2, <1>4, CanRemove DEF IsRemovable
<1> QED BY <1>1, <1>2, <1>3, <1>4, <1>5, RemoveEntryOk

\* A removal as it starts.
LEMMA RemovePathOk ==
  ASSUME Core, NEW c \in Callers, NEW path \in ArgPaths, RemovePath(c, path)
  PROVE  UNCHANGED node /\ Settled(call'[c], node, node)
<1>1. PICK k : k = Begin("remove", path, <<>>) OBVIOUS
<1>2. Started(k, "remove", path, <<>>) /\ path \in Seq(Names)
  <2>1. path \in Seq(Names) BY ArgTypes
  <2> QED BY <1>1, <2>1, BegunPlain
<1>3. k \in Calls /\ k.path = path /\ k.faulted = FALSE /\ k.op = "remove"
  BY <1>2 DEF Started
<1>4. PICK f \in Frames : f = FrameFor(path) BY <1>2, FrameForType
<1>5. /\ UNCHANGED node
      /\ \/ LStat(path) # 0 /\ Goto(c, [k EXCEPT !.pc = "remove", !.stack = <<f>>])
         \/ LStat(path) = 0 /\ Goto(c, Return(k, FALSE))
         \/ Goto(c, Return(Faulted(k), FALSE))
  BY <1>1, <1>4 DEF RemovePath, Refused
<1>6. \A q : Goto(c, q) => call'[c] = q BY DEF Goto, Core, AllTidy
<1>7. node \in Disks BY DEF Core
<1>8. \A i : Shrunk(node, node) /\ Within(node, node, i) BY ShrunkSame
<1>9. CASE LStat(path) # 0 /\ Goto(c, [k EXCEPT !.pc = "remove", !.stack = <<f>>])
  <2>1. PICK st \in Seq(Frames) : st = <<f>> /\ Len(st) = 1 /\ st[1] = f BY OneFrame
  <2>2. PICK q : q = [k EXCEPT !.pc = "remove", !.stack = st] OBVIOUS
  <2>3. q.pc = "remove" /\ q.stack = st /\ q.path = path BY <1>3, <2>2 DEF Calls
  <2>4. call'[c] = q BY <1>6, <1>9, <2>1, <2>2
  <2>5. PICK t \in Inodes : t = LStatOn(node, path) /\ t # 0
    BY <1>2, <1>7, <1>9, StatType DEF LStat
  <2>6. /\ f.path = path /\ f.seen = {}
        /\ f.at = IF DirLike(node, t) THEN "opendir" ELSE "unlink"
    <3>1. IsTree(path) <=> DirLike(node, t) BY <2>5 DEF IsTree, LStat
    <3>2. f = Frame(path, IF IsTree(path) THEN "opendir" ELSE "unlink") BY <1>4 DEF FrameFor
    <3> QED BY <1>2, <3>1, <3>2, FrameType
  <2>7. Placed(f, node, t)
    <3>1. path # <<>> BY <2>5 DEF LStatOn
    <3>2. PICK w : w = WalkOn(node, path) OBVIOUS
    <3>3. w = FollowOn(node, t) BY <1>2, <2>5, <3>1, <3>2, WalkOfEntry
    <3>4. KindIs(node, w, "dir") => w \in Inodes BY <1>2, <1>7, <3>2, WalkType DEF KindIs
    <3>5. DirLike(node, t) => windows \/ node[t].kind = "dir" BY DEF DirLike, KindIs
    <3>6. DirLike(node, t) /\ KindIs(node, w, "dir") => w \in RemovedOn(node, t)
      BY <3>3, <3>4, <3>5, RemovedIs DEF KindIs
    <3> QED BY <2>5, <2>6, <3>2, <3>5, <3>6 DEF Placed, DirLike, KindIs
  <2>8. Sound(q, node) BY <2>1, <2>3, <2>5, <2>6, <2>7 DEF Sound
  <2>9. Prompt(f, node, node, {}) BY <2>6 DEF Prompt
  <2>10. Thorough(q, node, node) BY <2>1, <2>3, <2>9 DEF Thorough, Busy
  <2>11. Removing(q, node, node) BY <1>7, <1>8, <2>8, <2>10 DEF Removing
  <2> QED BY <1>5, <2>3, <2>4, <2>11 DEF Settled
<1>10. CASE LStat(path) = 0 /\ Goto(c, Return(k, FALSE))
  <2>1. PICK r : r = Return(k, FALSE) OBVIOUS
  <2>2. r.ok = FALSE /\ r.pc = "done" /\ r.path = path BY <1>3, <2>1, Returned DEF SameBut
  <2>3. call'[c] = r BY <1>6, <1>10, <2>1
  <2>4. LStatOn(node, path) = 0 BY <1>10 DEF LStat
  <2>5. Answers(r, node, node) BY <1>8, <2>2, <2>4 DEF Answers
  <2> QED BY <1>5, <2>2, <2>3, <2>5 DEF Settled
<1>11. CASE Goto(c, Return(Faulted(k), FALSE))
  <2>1. PICK g : g = Faulted(k) OBVIOUS
  <2>2. g \in Calls /\ g.faulted = TRUE BY <1>3, <2>1, AfterFault
  <2>3. PICK r : r = Return(g, FALSE) OBVIOUS
  <2>4. r.ok = FALSE /\ r.faulted = TRUE /\ r.pc = "done" BY <2>2, <2>3, Returned
  <2>5. call'[c] = r BY <1>6, <1>11, <2>1, <2>3
  <2>6. Answers(r, node, node) BY <1>8, <2>4 DEF Answers, Clear
  <2> QED BY <1>5, <2>4, <2>5, <2>6 DEF Settled
<1> QED BY <1>5, <1>9, <1>10, <1>11

-----------------------------------------------------------------------------
(* The invariant.                                                          *)

\* A removal nobody disturbs, between the disk it started on and the present
\* one, or the one it left.
RemoveOk(k, h) == Settled(k, h[1], h[Len(h)])

RemovesOk ==
  \A c \in Callers : call[c].op = "remove" /\ call[c].pc # "idle" /\ alone[c] =>
    RemoveOk(call[c], hist[c])

LEMMA OwnRemove ==
  ASSUME Core, Histories, RemovesOk, NEW c \in Callers, Moves(c),
         call'[c].op = "remove", call'[c].pc # "idle", alone'[c]
  PROVE  RemoveOk(call'[c], hist'[c])
<1>1. \/ \E p \in ArgPaths : RemovePath(c, p)
      \/ RemoveOpen(c) \/ RemoveNext(c) \/ RemoveLeaf(c) \/ RemoveDir(c)
  BY DEF Moves, Steps
<1>2. CASE \E p \in ArgPaths : RemovePath(c, p)
  <2>1. PICK p \in ArgPaths : RemovePath(c, p) BY <1>2
  <2>2. call[c].pc = "idle" BY <2>1 DEF RemovePath, CanCall
  <2>3. node' = node /\ Settled(call'[c], node, node) BY <2>1, RemovePathOk
  <2>4. hist'[c][1] = node BY <2>2, FirstSeen
  <2>5. PICK h : h = <<node>> OBVIOUS
  <2>6. Grown(h, hist'[c]) BY <2>2, <2>5, Observed
  <2>7. hist'[c][Len(hist'[c])] = node' BY <2>6 DEF Grown
  <2> QED BY <2>3, <2>4, <2>7 DEF RemoveOk
<1>3. CASE RemoveOpen(c) \/ RemoveNext(c) \/ RemoveLeaf(c) \/ RemoveDir(c)
  <2>1. call[c].pc = "remove"
    BY <1>3 DEF RemoveOpen, RemoveNext, RemoveLeaf, RemoveDir, RemoveEntry, Walking
  <2>2. call[c].op = "remove" BY <2>1 DEF Core, AllTidy, Tidy, Shape
  <2>3. alone[c] BY DEF Moves, Observe
  <2>4. PICK h : h = hist[c] /\ Len(h) > 0 /\ h \in Seq(Disks) /\ h[Len(h)] = node
    BY <2>1 DEF Histories
  <2>5. PICK a : a = h[1] OBVIOUS
  <2>6. Removing(call[c], a, node)
    BY <2>1, <2>2, <2>3, <2>4, <2>5 DEF RemovesOk, RemoveOk, Settled
  <2>7. Settled(call'[c], a, node')
    <3>1. CASE RemoveOpen(c)
      <4>1. node' = node BY <3>1 DEF RemoveOpen
      <4>2. Settled(call'[c], a, node) BY <2>6, <3>1, RemoveOpenOk
      <4> QED BY <4>1, <4>2
    <3>2. CASE RemoveNext(c)
      <4>1. node' = node BY <3>2 DEF RemoveNext
      <4>2. Settled(call'[c], a, node) BY <2>6, <3>2, RemoveNextOk
      <4> QED BY <4>1, <4>2
    <3>3. CASE RemoveLeaf(c) BY <2>6, <3>3, RemoveLeafOk
    <3>4. CASE RemoveDir(c) BY <2>6, <3>4, RemoveDirOk
    <3> QED BY <1>3, <3>1, <3>2, <3>3, <3>4
  <2>8. Grown(h, hist'[c]) BY <2>1, <2>4, Observed
  <2>9. hist'[c][1] = a /\ hist'[c][Len(hist'[c])] = node'
    <3>1. 1 \in 1 .. Len(h) BY <2>4
    <3> QED BY <2>5, <2>8, <3>1 DEF Grown
  <2> QED BY <2>7, <2>9 DEF RemoveOk
<1> QED BY <1>1, <1>2, <1>3

LEMMA RemovesStep ==
  ASSUME Core, Histories, RemovesOk, NEW c \in Callers, Moves(c), UNCHANGED windows
  PROVE  RemovesOk'
<1>1. ASSUME NEW d \in Callers, call'[d].op = "remove", call'[d].pc # "idle", alone'[d]
      PROVE  RemoveOk(call'[d], hist'[d])
  <2>1. CASE d = c BY <1>1, <2>1, OwnRemove
  <2>2. CASE d # c
    <3>1. call'[d] = call[d] BY <2>2 DEF Moves, Orderly, OthersSame
    <3>2. alone[d] /\ (node' = node \/ call[d].pc = "done")
      BY <1>1, <2>2, <3>1 DEF Moves, Observe
    <3>3. RemoveOk(call[d], hist[d]) BY <1>1, <3>1, <3>2 DEF RemovesOk
    <3>4. CASE call[d].pc = "done"
      <4>1. hist'[d] = hist[d] BY <1>1, <3>1, <3>4, Observed
      <4> QED BY <3>1, <3>3, <4>1
    <3>5. CASE call[d].pc # "done"
      <4>1. PICK h : h = hist[d] /\ Len(h) > 0 /\ h \in Seq(Disks) /\ h[Len(h)] = node
        BY <1>1, <3>1, <3>5 DEF Histories
      <4>2. Grown(h, hist'[d]) BY <1>1, <3>1, <3>5, <4>1, Observed
      <4>3. 1 \in 1 .. Len(h) BY <4>1
      <4>4. hist'[d][1] = h[1] /\ hist'[d][Len(hist'[d])] = node' BY <4>2, <4>3 DEF Grown
      <4> QED BY <3>1, <3>2, <3>3, <3>5, <4>1, <4>4 DEF RemoveOk
    <3> QED BY <3>4, <3>5
  <2> QED BY <2>1, <2>2
<1>2. \A k, h : RemoveOk(k, h)' <=> RemoveOk(k', h')
  BY DEF RemoveOk, Settled, Answers, Removing, Clear, Within, Sound, Placed, RemovedOn
<1> QED BY <1>1, <1>2 DEF RemovesOk

SeenRemove == Seen /\ RemovesOk

LEMMA InitSeenRemove == Init => SeenRemove
<1> SUFFICES ASSUME Init PROVE SeenRemove OBVIOUS
<1>1. Seen BY InitSeen
<1>2. \A c \in Callers : call[c].pc = "idle" BY IdleType DEF Init
<1> QED BY <1>1, <1>2 DEF SeenRemove, RemovesOk

LEMMA NextSeenRemove == SeenRemove /\ [Next]_vars => SeenRemove'
<1> SUFFICES ASSUME SeenRemove, [Next]_vars PROVE SeenRemove' OBVIOUS
<1>1. Seen' /\ Core /\ Histories /\ RemovesOk BY NextSeen DEF SeenRemove, Seen
<1>2. ASSUME NEW c \in Callers, Start(c) \/ Continue(c) \/ Release(c) PROVE RemovesOk'
  <2>1. Moves(c) BY <1>1, <1>2, StartMoves, ContinueMoves, ReleaseMoves
  <2>2. UNCHANGED windows BY <1>2, SameBuild
  <2> QED BY <1>1, <2>1, <2>2, RemovesStep
<1>3. ASSUME UNCHANGED vars PROVE RemovesOk'
  <2>1. call' = call /\ hist' = hist /\ node' = node /\ alone' = alone /\ windows' = windows
    BY <1>3 DEF vars
  <2>2. \A k, h : RemoveOk(k, h)' <=> RemoveOk(k', h')
    BY <2>1 DEF RemoveOk, Settled, Answers, Removing, Clear, Within, Sound, Placed, RemovedOn
  <2>3. ASSUME NEW c \in Callers, call'[c].op = "remove", call'[c].pc # "idle", alone'[c]
        PROVE  RemoveOk(call'[c], hist'[c])
    BY <1>1, <2>1, <2>3 DEF RemovesOk
  <2> QED BY <2>2, <2>3 DEF RemovesOk
<1> QED BY <1>1, <1>2, <1>3 DEF Next, SeenRemove

\* With Seen, the disk a removal works on is the one it started on with entries
\* of its tree cleared, every frame of its recursion stands in that tree, and,
\* on POSIX, what its frames have not yet seen is all that is left of it
\* (fs.c:430-496).  On Windows the tree includes what its links lead to.
THEOREM InductiveRemovals == Spec => []SeenRemove
BY InitSeenRemove, NextSeenRemove, PTL DEF Spec

\* fs_remove_path, undisturbed, clears entries of the tree it was given and
\* nothing else, however deep the tree and whatever fails on the way: on POSIX
\* nothing behind a link, on Windows what the directory links of the tree lead to
\* as well, but nothing that no chain of its entries and links reaches.  It
\* answers TRUE only if the path is gone, and FALSE on POSIX only if there was
\* none, a call failed, or the path led through a link in the tree (fs.c:430-496).
THEOREM RemovalsStay == Spec => []RemoveStaysInTree
<1>1. ASSUME SeenRemove PROVE RemoveStaysInTree
  <2>1. ASSUME NEW c \in Callers, Finished(c, "remove"), alone[c], NEW k, k = call[c],
               NEW a, a = Before(c), NEW x, x = After(c), NEW i, i = LStatOn(a, k.path)
        PROVE  /\ \A d \in Inodes, n \in Names : EntryOf(x, d, n) # EntryOf(a, d, n) =>
                    /\ EntryOf(x, d, n) = 0
                    /\ d \in RemovedOn(a, i) \/ EntryOf(a, d, n) = i
               /\ k.ok => LStatOn(x, k.path) = 0
               /\ ~k.ok /\ i # 0 =>
                    \/ k.faulted \/ windows
                    \/ WalkOn(x, Front(k.path)) # WalkOn(a, Front(k.path))
    <3>1. k.pc = "done" /\ k.op = "remove" BY <2>1 DEF Finished
    <3>2. PICK h : h = hist[c] /\ Len(h) > 0 /\ h \in Seq(Disks)
      BY <1>1, <2>1, <3>1 DEF SeenRemove, Seen, Histories
    <3>3. a = h[1] /\ x = h[Len(h)] BY <2>1, <3>2 DEF Before, After, Last
    <3>4. RemoveOk(k, h) BY <1>1, <2>1, <3>1, <3>2 DEF SeenRemove, RemovesOk
    <3>5. Answers(k, a, x) BY <3>1, <3>3, <3>4 DEF RemoveOk, Settled
    <3>6. ASSUME NEW d \in Inodes, NEW n \in Names, EntryOf(x, d, n) # EntryOf(a, d, n)
          PROVE  /\ EntryOf(x, d, n) = 0
                 /\ d \in RemovedOn(a, i) \/ EntryOf(a, d, n) = i
      <4>1. EntryOf(x, d, n) \in {EntryOf(a, d, n), 0} BY <3>5 DEF Answers, Shrunk
      <4>2. Within(a, x, i) BY <2>1, <3>5 DEF Answers
      <4> QED BY <3>6, <4>1, <4>2 DEF Within
    <3> QED BY <2>1, <3>5, <3>6 DEF Answers, Clear
  <2> QED BY <2>1 DEF RemoveStaysInTree
<1> QED BY <1>1, InductiveRemovals, PTL

=============================================================================
