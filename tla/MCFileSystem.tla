----------------------------- MODULE MCFileSystem -----------------------------
(***************************************************************************)
(* The instance.  On POSIX, directories a and b: a holds a file of two     *)
(* bytes and a link to b, b an empty directory.  On Windows, a link a to   *)
(* the directory b, which holds that file and an empty directory.          *)
(***************************************************************************)
EXTENDS FileSystem

Entries(x, y) == [n \in {"a", "b"} |-> IF n = "a" THEN x ELSE y]

MCDisk == <<Dir(Entries(2, 3)), Dir(Entries(4, 5)), Dir(Entries(6, 0)),
            File(<<7, 8>>), Link("b"), EmptyDir, Unused, Unused>>
MCLinkedDisk == <<Dir(Entries(2, 3)), Link("b"), Dir(Entries(4, 5)),
                  File(<<7, 8>>), EmptyDir, Unused, Unused, Unused>>

MCWorlds == {[windows |-> FALSE, disk |-> MCDisk],
             [windows |-> TRUE, disk |-> MCLinkedDisk]}
MCPaths == {<<>>, <<"a">>, <<"b">>, <<"a", "a">>, <<"a", "b">>, <<"b", "b">>}
MCRanges == {[offset |-> 1, size |-> 2]}
MCContents == {<<>>, <<1>>, <<1, 2, 3>>}
===============================================================================
