------------------------------- MODULE WfsTree --------------------------------
(***************************************************************************)
(* wfs implements FileTree.  The variable tree is what a caller saw who    *)
(* lists every directory and reads every file after each operation; it and *)
(* remounted are auxiliary, and the operations do not depend on them.      *)
(***************************************************************************)
EXTENDS Wfs

VARIABLES
  tree,
  remounted     \* since the caller looked, in another order

TreeInit == Init /\ tree = View /\ remounted = FALSE

Look == tree' = View /\ remounted' = FALSE /\ UNCHANGED vars

TreeNext ==
  \/ tree # View /\ Look
  \/ tree = View /\ Next /\ remounted' = (order' # order) /\ UNCHANGED tree

TreeSpec == TreeInit /\ [][TreeNext]_<<vars, tree, remounted>>

\* As long as the images are mounted in the order they were made in, whatever
\* the RAID mode, and with a disk lost in mode 1v, callers see a tree of files:
\* no operation touches a path it was not given, a block of one file never shows
\* in another, new files are empty, holes read as zeros, and a remount changes
\* nothing.  Between two looks the tree makes at most one step.  (In another
\* order this is not so: see OrderIrrelevant.)
FT == INSTANCE FileTree
TreeOfFiles == FT!Spec

\* README.md of p6: "The order of drives during mount in wfs command does not
\* matter."  What wfs shows is the same in any; but it is not.
OrderIrrelevant == remounted => View = tree
=============================================================================
