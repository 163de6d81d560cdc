--------------------------------- MODULE Disk ---------------------------------
(***************************************************************************)
(* The file system below foundation/NativeLibs/FS/fs.c, as far as that     *)
(* code can tell: a disk is a function from inodes to files, directories   *)
(* and links; paths are sequences of names.  External: modelled from the   *)
(* system calls fs.c makes.                                                *)
(***************************************************************************)
EXTENDS Integers, Sequences, SequencesExt

CONSTANTS
  Names,          \* directory entry names
  Inodes, Root,   \* files and directories there can be; the root directory
  DirSize         \* what stat reports as the size of a directory

File(bytes)   == [kind |-> "file", data |-> bytes]
Dir(entries)  == [kind |-> "dir", entries |-> entries]
Link(name)    == [kind |-> "link", to |-> name]    \* to an entry of the root
Unused        == [kind |-> "unused"]
Byte          == 0 .. 255
Nodes         == [kind : {"file"}, data : Seq(Byte)]
                   \cup [kind : {"dir"}, entries : [Names -> Inodes \cup {0}]]
                   \cup [kind : {"link"}, to : Names] \cup {Unused}
EmptyDir      == Dir([n \in Names |-> 0])

EntryOf(disk, d, n) ==
  IF d # 0 /\ disk[d].kind = "dir" THEN disk[d].entries[n] ELSE 0

\* One link per disk, to an entry of the root: a link found behind it is the
\* link itself, and the lookup fails with ELOOP.
FollowOn(disk, i) ==
  IF i # 0 /\ disk[i].kind = "link"
    THEN LET t == EntryOf(disk, Root, disk[i].to)
         IN  IF t # 0 /\ disk[t].kind # "link" THEN t ELSE 0
    ELSE i

WalkOn(disk, path) ==
  LET at[k \in 0 .. Len(path)] ==
        IF k = 0 THEN Root ELSE FollowOn(disk, EntryOf(disk, at[k - 1], path[k]))
  IN  at[Len(path)]

\* stat follows a final link, lstat does not.
StatOn(disk, path)  == IF path = <<>> THEN 0 ELSE WalkOn(disk, path)
LStatOn(disk, path) ==
  IF path = <<>> THEN 0 ELSE EntryOf(disk, WalkOn(disk, Front(path)), Last(path))

KindIs(disk, i, k) == i # 0 /\ disk[i].kind = k
SetEntry(disk, d, n, i) == [disk EXCEPT ![d].entries[n] = i]

\* Bytes at a position; a gap left by another truncation reads as zeros.
WriteAt(data, pos, bytes) ==
  [k \in 1 .. (IF Len(data) > pos + Len(bytes) THEN Len(data) ELSE pos + Len(bytes)) |->
     IF k \in pos + 1 .. pos + Len(bytes) THEN bytes[k - pos]
     ELSE IF k <= Len(data) THEN data[k] ELSE 0]

\* The directories from i on, every inode j taken for to[j]: the least set that
\* has that of i and those of the members of its directories.
SpanOn(disk, i, to) ==
  LET dirs == {d \in Inodes : disk[d].kind = "dir"}
      Whole(S) == /\ to[i] \in dirs => to[i] \in S
                  /\ \A d \in S, n \in Names :
                       to[EntryOf(disk, d, n)] \in S \cup (Inodes \ dirs) \cup {0}
      spans == {S \in SUBSET dirs : Whole(S)}
  IN  {d \in dirs : \A S \in spans : d \in S}

\* The tree at i, and the same with links followed.
TreeOn(disk, i)       == SpanOn(disk, i, [j \in Inodes \cup {0} |-> j])
LinkedTreeOn(disk, i) == SpanOn(disk, i, [j \in Inodes \cup {0} |-> FollowOn(disk, j)])
===============================================================================
