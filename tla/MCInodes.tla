------------------------------- MODULE MCInodes -------------------------------
EXTENDS Inodes
\* A root directory with the file "a" and the empty directory "d".
MCDisk ==
  [i \in Inums |->
     CASE i = 1 -> [type |-> "dir", nlink |-> 2, ents |-> [NoEntries EXCEPT
                     !["."] = 1, ![".."] = 1, !["a"] = 2, !["d"] = 3]]
       [] i = 2 -> [type |-> "file", nlink |-> 1, ents |-> NoEntries]
       [] i = 3 -> [type |-> "dir", nlink |-> 1, ents |-> [NoEntries EXCEPT
                     !["."] = 3, ![".."] = 1]]
       [] OTHER -> FreeInode]
MCPaths == {<<"a">>, <<"/", "b">>, <<"/", "d">>, <<"/", "d", "a">>}

\* For FreedWhenUnused and NoDeadlock: the file "a" alone.
FilePath == {<<"a">>}

\* For PanicsOnlyWhenFull: a directory in another, and the ways in and out.
NestedDisk ==
  [i \in Inums |->
     CASE i = 1 -> [type |-> "dir", nlink |-> 2, ents |-> [NoEntries EXCEPT
                     !["."] = 1, ![".."] = 1, !["a"] = 2, !["d"] = 3]]
       [] i = 2 -> [type |-> "file", nlink |-> 1, ents |-> NoEntries]
       [] i = 3 -> [type |-> "dir", nlink |-> 2, ents |-> [NoEntries EXCEPT
                     !["."] = 3, ![".."] = 1, !["d"] = 4]]
       [] i = 4 -> [type |-> "dir", nlink |-> 1, ents |-> [NoEntries EXCEPT
                     !["."] = 4, ![".."] = 3]]
       [] OTHER -> FreeInode]
NestedPaths == {<<"/", "d", "d">>, <<"/", "d">>, <<"..">>}
=============================================================================
