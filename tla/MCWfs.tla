--------------------------------- MODULE MCWfs --------------------------------
\* Instances of Wfs for TLC.
EXTENDS Wfs

\* Names no longer than MAX_NAME - 1 are kept.  For CreatedIsFound: of one that is
\* MAX_NAME long, b, the last character is cut off, which leaves a.
Kept == [x \in Names |-> x]
LastCut == [x \in Names |-> "a"]

\* Mounted in the order of mkfs, the one order that is right for RAID 0; and in
\* any.
AsCreated == {[i \in 0..NDISKS - 1 |-> i]}
AnyOrder ==
  {o \in [Disks -> Disks] : \A i, j \in Disks : o[i] = o[j] => i = j}

\* num_data_blocks: with striping a block of every disk is never handed out.
Four == [m \in RaidModes |-> 4]
SixOrFour == [m \in RaidModes |-> IF m = 0 THEN 6 ELSE 4]

\* Offset and size: the last unit of the largest file, behind the indirect
\* block; one unit before it and that one; that one and one too many.
LastUnit == {<<2, 1>>}
Across == {<<1, 2>>, <<2, 2>>}
=============================================================================
