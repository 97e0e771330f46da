--------------------------------- MODULE Wfs ---------------------------------
(***************************************************************************)
(* The FUSE file system of p6: bitmaps, inodes and data blocks on the      *)
(* images of NDISKS disks, and the operations of wfs.c on them.  FUSE runs *)
(* with -s, so a handler is one step.  A block is UNITS units; a unit is a *)
(* directory entry, a pointer of an indirect block, or a piece of a file.  *)
(***************************************************************************)
EXTENDS Integers, Sequences, FiniteSets, FiniteSetsExt, Folds, SequencesExt

CONSTANTS RaidModes,    \* tried: 0 striping, 1 mirroring, 2 verified mirroring
          NDISKS, NINODES,
          NumBlocks,    \* num_data_blocks that mkfs is given in each mode
          D_BLOCK,      \* direct pointers of an inode
          UNITS,        \* units of a block
          Names, Cut,   \* names tried, and what MAX_NAME leaves of each
          MaxDepth,     \* bound: names in a path
          MaxSize,      \* bound: size of a directory, which only grows
          Values, WriteArgs,    \* data, and <<offset, size>>, tried in write
          Orders,       \* orders of the images tried at mount
          BadDisks      \* disks whose blocks may be lost while unmounted

Disks == 0..NDISKS - 1
Inodes == 0..NINODES - 1

ASSUME WfsAssumption ==
  /\ RaidModes \subseteq 0..2
  /\ NDISKS \in Nat \ {0} /\ NINODES \in Nat \ {0}
  /\ NumBlocks \in [RaidModes -> Nat \ {0}]
  /\ D_BLOCK \in Nat \ {0} /\ UNITS \in Nat \ {0}
  /\ "" \notin Names /\ Cut \in [Names -> Names]
  /\ MaxDepth \in Nat /\ MaxSize \in Nat
  /\ Values \subseteq Nat \ {0}
  /\ WriteArgs \subseteq Nat \X (Nat \ {0})
  /\ Orders \subseteq [Disks -> Disks] /\ [i \in Disks |-> i] \in Orders
  /\ BadDisks \subseteq Disks

VARIABLES
  raid_mode,            \* of the superblock, chosen by mkfs
  ibitmap, dbitmap,     \* of each disk: the inodes, the blocks marked in use
  inode,                \* of each disk: its inode table
  block,                \* of each disk: its data blocks
  order,                \* disk_images[i] is the image of disk order[i]
  next_disk             \* allocate_data_block()'s static variable

vars == <<raid_mode, ibitmap, dbitmap, inode, block, order, next_disk>>

None == -1
Root == 0
Paths == UNION {[1..k -> Names] : k \in 1..MaxDepth}

\* Blocks on one disk.  In RAID 0 block b is block b / NDISKS of disk
\* b % NDISKS; otherwise every disk holds it.
NBLOCKS == NumBlocks[raid_mode]
PerDisk == IF raid_mode = 0 THEN NBLOCKS \div NDISKS ELSE NBLOCKS
Index == 0..PerDisk - 1

Unit == [name : Names \cup {""}, num : Nat]
Block == [0..UNITS - 1 -> Unit]
NoUnit == [name |-> "", num |-> 0]
ZeroBlock == [u \in 0..UNITS - 1 |-> NoUnit]

Inode == [kind : {"none", "file", "dir"}, size : Nat, nlinks : Nat,
          blocks : [0..D_BLOCK -> Nat]]
NewInode(kind, nlinks) ==
  [kind |-> kind, size |-> 0, nlinks |-> nlinks,
   blocks |-> [i \in 0..D_BLOCK |-> 0]]

TypeOK ==
  /\ raid_mode \in RaidModes
  /\ ibitmap \in [Disks -> SUBSET Inodes]
  /\ dbitmap \in [Disks -> SUBSET Index]
  /\ inode \in [Disks -> [Inodes -> Inode]]
  /\ block \in [Disks -> [Index -> Block]]
  /\ order \in Orders
  /\ next_disk \in Disks

\* mkfs: an empty root directory with two links.
Init ==
  /\ raid_mode \in RaidModes
  /\ ibitmap = [d \in Disks |-> {Root}]
  /\ dbitmap = [d \in Disks |-> {}]
  /\ inode = [d \in Disks |-> [n \in Inodes |->
       IF n = Root THEN NewInode("dir", 2) ELSE NewInode("none", 0)]]
  /\ block = [d \in Disks |-> [i \in Index |-> ZeroBlock]]
  /\ order = [i \in Disks |-> i]
  /\ next_disk = 0
-----------------------------------------------------------------------------
Main == order[0]
Node(n) == inode[Main][n]               \* get_inode()

Holders(b) == IF raid_mode = 0 THEN {order[b % NDISKS]} ELSE Disks
Place(b) == IF raid_mode = 0 THEN b \div NDISKS ELSE b

\* RAID 1v: a copy is as good as the copies from it on that agree with it, and
\* the first of the best wins; copies that all agree need no count.
\* (Mutant: no vote, as in RAID 1.)
FirstCopy(blocks, b) == blocks[Main][b]
Voted(blocks, b) ==
  LET copy(i) == blocks[order[i]][b]
      agree(i) == {j \in i..NDISKS - 1 : copy(j) = copy(i)}
      first == agree(0)
      votes(i) == Cardinality(agree(i))
  IN  IF first = Disks THEN copy(0)
      ELSE copy(CHOOSE i \in Disks : \A j \in Disks \ {i} :
             IF j < i THEN votes(j) < votes(i) ELSE votes(j) <= votes(i))

read_data_block(blocks, b) ==
  IF raid_mode = 0 THEN blocks[order[b % NDISKS]][Place(b)]
  ELSE IF raid_mode = 1 THEN blocks[Main][b]
  ELSE Voted(blocks, b)

write_data_block(blocks, b, c) ==
  [d \in Disks |-> IF d \in Holders(b)
                   THEN [blocks[d] EXCEPT ![Place(b)] = c] ELSE blocks[d]]

Mark(bm, b) ==
  [d \in Disks |-> IF d \in Holders(b) THEN bm[d] \cup {Place(b)} ELSE bm[d]]
free_data_block(bm, b) ==
  [d \in Disks |-> IF d \in Holders(b) THEN bm[d] \ {Place(b)} ELSE bm[d]]

FreeOn(bm, d) == {i \in 1..PerDisk - 1 : i \notin bm[d]}

\* allocate_data_block() on st, the record of what the handlers thread through
\* their steps.  Block 0 means a hole and is never handed out; nor are its
\* stripe companions.  The result has b = 0 when there is no space.
allocate_data_block(st) ==
  LET disk(t) == (st.next + t) % NDISKS
      room == {t \in Disks : FreeOn(st.bm, order[disk(t)]) # {}}
      t0 == disk(Min(room))
      b == IF raid_mode = 0 THEN Min(FreeOn(st.bm, order[t0])) * NDISKS + t0
           ELSE Min(FreeOn(st.bm, Main))
  IN  IF IF raid_mode = 0 THEN room = {} ELSE FreeOn(st.bm, Main) = {}
        THEN [st |-> st, b |-> 0]
        ELSE [st |-> [st EXCEPT !.bm = Mark(@, b),
                                !.next = IF raid_mode = 0
                                         THEN (t0 + 1) % NDISKS ELSE @],
              b |-> b]

St == [bm |-> dbitmap, bl |-> block, next |-> next_disk]
Store(st) == dbitmap' = st.bm /\ block' = st.bl /\ next_disk' = st.next

\* update_inode_on_all_disks(), and an assignment through get_inode()'s pointer.
update_inode(table, n, v) == [d \in Disks |-> [table[d] EXCEPT ![n] = v]]
-----------------------------------------------------------------------------
\* The entries of directory n, numbered through its blocks.
EntrySlots(n) ==
  {s \in 0..D_BLOCK * UNITS - 1 : Node(n).blocks[s \div UNITS] # 0}
Entry(n, s) ==
  read_data_block(block, Node(n).blocks[s \div UNITS])[s % UNITS]

find_dir_entry(n, x) ==
  LET hits == {s \in EntrySlots(n) :
                 LET e == Entry(n, s) IN e.num # 0 /\ e.name = x}
  IN  IF hits = {} THEN None ELSE Entry(n, Min(hits)).num

resolve_path(p) ==
  FoldLeft(LAMBDA n, x : IF n = None \/ Node(n).kind # "dir" THEN None
                         ELSE find_dir_entry(n, x),
           Root, p)

\* split_path(): the directory of p, and the name that is left of its last.
Dir(p) == resolve_path(Front(p))
Name(p) == Cut[Last(p)]
IsDir(n) == n # None /\ Node(n).kind = "dir"

EntryTo(x, m) == [name |-> x, num |-> m]

SetEntry(n, s, e) ==
  LET b == Node(n).blocks[s \div UNITS]
  IN  write_data_block(block, b,
        [read_data_block(block, b) EXCEPT ![s % UNITS] = e])

\* add_directory_entry(): the first free entry of n, or a new block for n.  The
\* result is the store, n's inode, and whether there was room.
add_directory_entry(n, x, m) ==
  LET free == {s \in EntrySlots(n) : Entry(n, s).num = 0}
      holes == {i \in 0..D_BLOCK - 1 : Node(n).blocks[i] = 0}
      new == allocate_data_block(St)
      first == [ZeroBlock EXCEPT ![0] = EntryTo(x, m)]
  IN  IF free # {} THEN
        [ok |-> TRUE, grown |-> FALSE, dir |-> Node(n),
         st |-> [St EXCEPT !.bl = SetEntry(n, Min(free), EntryTo(x, m))]]
      ELSE IF holes = {} \/ new.b = 0 THEN
        [ok |-> FALSE, grown |-> FALSE, dir |-> Node(n), st |-> St]
      ELSE
        [ok |-> TRUE, grown |-> TRUE,
         dir |-> [Node(n) EXCEPT !.blocks[Min(holes)] = new.b,
                                 !.size = @ + UNITS],
         st |-> [new.st EXCEPT !.bl = write_data_block(@, new.b, first)]]

\* The store once the entry x of n is cleared.
remove_directory_entry(n, x) ==
  SetEntry(n, Min({s \in EntrySlots(n) : Entry(n, s).num # 0
                                         /\ Entry(n, s).name = x}), NoUnit)

FreeInodes == {n \in Inodes : n \notin ibitmap[Main]}
allocate_inode(m) == ibitmap' = [d \in Disks |-> ibitmap[d] \cup {m}]
free_inode(m) == ibitmap' = [d \in Disks |-> ibitmap[d] \ {m}]
-----------------------------------------------------------------------------
\* wfs_mknod() and wfs_mkdir() check the path, take an inode and write it to
\* all disks, and link it.
Creates(p) ==
  LET d == Dir(p)
  IN  /\ IsDir(d)
      /\ find_dir_entry(d, Name(p)) = None
      /\ FreeInodes # {}

\* Without room for the entry the inode is given back.
\* (Mutant: it is not.)
CreateFailsKeeping(p, kind) ==
  /\ Creates(p)
  /\ ~add_directory_entry(Dir(p), Name(p), Min(FreeInodes)).ok
  /\ allocate_inode(Min(FreeInodes))
  /\ inode' = update_inode(inode, Min(FreeInodes), NewInode(kind, 1))
  /\ UNCHANGED <<raid_mode, dbitmap, block, order, next_disk>>
CreateFails(p, kind) ==
  /\ Creates(p)
  /\ ~add_directory_entry(Dir(p), Name(p), Min(FreeInodes)).ok
  /\ inode' = update_inode(inode, Min(FreeInodes), NewInode(kind, 1))
  /\ UNCHANGED <<raid_mode, ibitmap, dbitmap, block, order, next_disk>>

wfs_mknod(p) ==
  /\ Creates(p)
  /\ LET m == Min(FreeInodes)
         r == add_directory_entry(Dir(p), Name(p), m)
         fresh == update_inode(inode, m, NewInode("file", 1))
     IN  /\ r.ok /\ r.dir.size <= MaxSize
         /\ allocate_inode(m)
         /\ Store(r.st)
         /\ inode' = IF r.grown THEN update_inode(fresh, Dir(p), r.dir) ELSE fresh
         /\ UNCHANGED <<raid_mode, order>>

\* mkdir counts the new directory among its parent's links.
wfs_mkdir(p) ==
  /\ Creates(p)
  /\ LET m == Min(FreeInodes)
         r == add_directory_entry(Dir(p), Name(p), m)
         fresh == update_inode(inode, m, NewInode("dir", 1))
     IN  /\ r.ok /\ r.dir.size <= MaxSize
         /\ allocate_inode(m)
         /\ Store(r.st)
         /\ inode' = update_inode(fresh, Dir(p), [r.dir EXCEPT !.nlinks = @ + 1])
         /\ UNCHANGED <<raid_mode, order>>

\* The blocks of a file: direct, indirect and those the indirect block lists.
BlocksOf(n) ==
  LET ind == Node(n).blocks[D_BLOCK]
      listed == {read_data_block(block, ind)[u].num : u \in 0..UNITS - 1}
  IN  ({Node(n).blocks[i] : i \in 0..D_BLOCK}
         \cup (IF ind = 0 THEN {} ELSE listed)) \ {0}

FreeAll(bm, S) == FoldSet(LAMBDA b, m : free_data_block(m, b), bm, S)

wfs_unlink(p) ==
  LET d == Dir(p)
      n == find_dir_entry(d, Name(p))
      gone == [Node(n) EXCEPT !.size = 0, !.blocks = [i \in 0..D_BLOCK |-> 0]]
  IN  /\ IsDir(d)
      /\ n # None /\ Node(n).kind # "dir"
      /\ block' = remove_directory_entry(d, Name(p))
      /\ dbitmap' = FreeAll(dbitmap, BlocksOf(n))
      /\ inode' = update_inode(update_inode(inode, n, gone), d, Node(d))
      /\ free_inode(n)
      /\ UNCHANGED <<raid_mode, order, next_disk>>

\* wfs_rmdir() frees the blocks of the directory while it checks that they hold
\* no entry; these are the ones that do.
UsedBlocks(n) ==
  {i \in 0..D_BLOCK - 1 : \E u \in 0..UNITS - 1 :
     /\ i * UNITS + u \in EntrySlots(n)
     /\ Entry(n, i * UNITS + u).num # 0}

\* The node without the blocks S, on the first image alone.
\* (Mutant: it keeps them.)
KeepBlocks(n, S) == inode
DropBlocks(n, S) ==
  [inode EXCEPT ![Main][n].blocks =
     [i \in 0..D_BLOCK |-> IF i \in S THEN 0 ELSE @[i]]]

\* It finds an entry: -ENOTEMPTY, but the blocks before it are gone.
RmdirFails(p) ==
  LET n == find_dir_entry(Dir(p), Name(p))
      before == 0..Min(UsedBlocks(n)) - 1
  IN  /\ IsDir(Dir(p))
      /\ n # None /\ Node(n).kind = "dir"
      /\ UsedBlocks(n) # {}
      /\ dbitmap' = FreeAll(dbitmap, {Node(n).blocks[i] : i \in before} \ {0})
      /\ inode' = DropBlocks(n, before)
      /\ UNCHANGED <<raid_mode, ibitmap, block, order, next_disk>>

\* (Mutant: the parent's links are not counted down.)
KeepLink(d) == Node(d)
DropLink(d) == [Node(d) EXCEPT !.nlinks = @ - 1]

wfs_rmdir(p) ==
  LET d == Dir(p)
      n == find_dir_entry(d, Name(p))
      all == 0..D_BLOCK - 1
  IN  /\ IsDir(d)
      /\ n # None /\ Node(n).kind = "dir"
      /\ UsedBlocks(n) = {}
      /\ dbitmap' = FreeAll(dbitmap, {Node(n).blocks[i] : i \in all} \ {0})
      /\ block' = remove_directory_entry(d, Name(p))
      /\ inode' = update_inode(DropBlocks(n, all), d, DropLink(d))
      /\ free_inode(n)
      /\ UNCHANGED <<raid_mode, order, next_disk>>
-----------------------------------------------------------------------------
\* wfs_write(), block by block.  w carries the store, the inode as the first
\* image has it, and whether a block could not be had.

\* A block for a pointer that has none, filled with zeros.
\* (Mutant: it is not cleared.)
FreshDirty(st) == allocate_data_block(st)
Fresh(st) ==
  LET new == allocate_data_block(st)
  IN  IF new.b = 0 THEN new
      ELSE [new EXCEPT !.st.bl = write_data_block(@, new.b, ZeroBlock)]

Have(st, b) == IF b # 0 THEN [st |-> st, b |-> b] ELSE Fresh(st)

\* Units off..off+n-1 of the file, as far as they lie in its block k, become v.
Filled(c, k, off, n, v) ==
  [u \in 0..UNITS - 1 |-> IF k * UNITS + u \in off..off + n - 1
                          THEN [name |-> "", num |-> v] ELSE c[u]]
Fill(st, b, k, off, n, v) ==
  [st EXCEPT !.bl =
     write_data_block(@, b, Filled(read_data_block(@, b), k, off, n, v))]

WriteDirect(w, k, off, n, v) ==
  LET h == Have(w.st, w.node.blocks[k])
  IN  IF h.b = 0 THEN [w EXCEPT !.failed = TRUE]
      ELSE [w EXCEPT !.node.blocks[k] = h.b,
                     !.st = Fill(h.st, h.b, k, off, n, v)]

\* Through the indirect block: it may have to be allocated too, and stays if
\* there is then no block for the data.
WriteIndirect(w, k, off, n, v) ==
  LET h == Have(w.st, w.node.blocks[D_BLOCK])
      list == read_data_block(h.st.bl, h.b)
      at == list[k - D_BLOCK].num
      new == allocate_data_block(h.st)
      listed == write_data_block(new.st.bl, h.b,
                  [list EXCEPT ![k - D_BLOCK].num = new.b])
      zeroed == write_data_block(listed, new.b, ZeroBlock)
      st == IF at # 0 THEN h.st ELSE [new.st EXCEPT !.bl = zeroed]
      b == IF at # 0 THEN at ELSE new.b
  IN  IF h.b = 0 THEN [w EXCEPT !.failed = TRUE]
      ELSE IF b = 0 THEN [w EXCEPT !.failed = TRUE, !.st = h.st,
                                   !.node.blocks[D_BLOCK] = h.b]
      ELSE [w EXCEPT !.node.blocks[D_BLOCK] = h.b,
                     !.st = Fill(st, b, k, off, n, v)]

WriteBlock(w, k, off, n, v) ==
  IF w.failed THEN w
  ELSE IF k < D_BLOCK THEN WriteDirect(w, k, off, n, v)
  ELSE IF k < D_BLOCK + UNITS THEN WriteIndirect(w, k, off, n, v)
  ELSE [w EXCEPT !.failed = TRUE]                       \* -EFBIG

\* A write that succeeds updates the size and the inode of all disks; one that
\* fails returns at once, with what it did in place.
wfs_write(p, off, n, v) ==
  LET m == resolve_path(p)
      w == FoldLeft(LAMBDA x, k : WriteBlock(x, k, off, n, v),
                    [st |-> St, node |-> Node(m), failed |-> FALSE],
                    [i \in 1..(off + n - 1) \div UNITS - off \div UNITS + 1 |->
                       off \div UNITS + i - 1])
      grown == [w.node EXCEPT !.size = IF off + n > @ THEN off + n ELSE @]
  IN  /\ m # None /\ Node(m).kind # "dir"
      /\ Store(w.st)
      /\ inode' = IF w.failed
                  THEN [inode EXCEPT ![Main][m].blocks = w.node.blocks]
                  ELSE update_inode(inode, m, grown)
      /\ UNCHANGED <<raid_mode, ibitmap, order>>

\* fusermount -u, and wfs again on the same images, in some order.
Remount(o) ==
  /\ order' = o
  /\ next_disk' = 0
  /\ UNCHANGED <<raid_mode, ibitmap, dbitmap, inode, block>>

\* A disk loses its data blocks while the file system is not mounted.
Corrupt(d) ==
  /\ raid_mode = 2
  /\ block' = [block EXCEPT ![d] = [i \in Index |-> ZeroBlock]]
  /\ next_disk' = 0
  /\ UNCHANGED <<raid_mode, ibitmap, dbitmap, inode, order>>

Next ==
  \/ \E p \in Paths :
       \/ wfs_mknod(p) \/ wfs_mkdir(p)
       \/ CreateFails(p, "file") \/ CreateFails(p, "dir")
       \/ wfs_unlink(p)
       \/ wfs_rmdir(p) \/ RmdirFails(p)
       \/ \E a \in WriteArgs, v \in Values : wfs_write(p, a[1], a[2], v)
  \/ \E o \in Orders : Remount(o)
  \/ \E d \in BadDisks : Corrupt(d)

Spec == Init /\ [][Next]_vars
-----------------------------------------------------------------------------
\* wfs_read(): unit u of file n, through the direct or the indirect pointers.
ReadUnit(n, u) ==
  LET k == u \div UNITS
      ind == Node(n).blocks[D_BLOCK]
      b == IF k < D_BLOCK THEN Node(n).blocks[k]
           ELSE IF ind = 0 THEN 0
           ELSE read_data_block(block, ind)[k - D_BLOCK].num
  IN  IF b = 0 THEN 0 ELSE read_data_block(block, b)[u % UNITS].num

MaxUnits == (D_BLOCK + UNITS) * UNITS

\* What wfs_getattr(), wfs_readdir() and wfs_read() show, the tree by paths; of
\* a file also the data past its end, shown once it grows.
View ==
  [p \in {q \in Paths : resolve_path(q) # None} |->
     LET n == resolve_path(p)
         file == Node(n).kind = "file"
     IN  [kind |-> Node(n).kind,
          size |-> IF file THEN Node(n).size ELSE 0,
          data |-> [u \in 0..MaxUnits - 1 |->
                      IF file THEN ReadUnit(n, u) ELSE 0]]]

InUse == ibitmap[Main]
MarkedBlocks ==
  IF raid_mode # 0 THEN dbitmap[Main]
  ELSE {b \in 0..NBLOCKS - 1 : Place(b) \in dbitmap[order[b % NDISKS]]}

\* The pointers of n to blocks: <<FALSE, i>> in the inode, <<TRUE, u>> in the
\* indirect block.
PointersOf(n) ==
  LET ind == Node(n).blocks[D_BLOCK]
  IN  {<<FALSE, i>> : i \in {j \in 0..D_BLOCK : Node(n).blocks[j] # 0}}
        \cup (IF ind = 0 THEN {}
              ELSE {<<TRUE, u>> : u \in {j \in 0..UNITS - 1 :
                                  read_data_block(block, ind)[j].num # 0}})

\* Every block marked in the bitmap belongs to one pointer of one inode in use,
\* and no other block does: none leaks, none is handed out twice, however
\* writes, mkdir or rmdir fail half way.
BlocksOwned ==
  /\ TypeOK
  /\ UNION {BlocksOf(n) : n \in InUse} = MarkedBlocks
  /\ \A n \in InUse : Cardinality(BlocksOf(n)) = Cardinality(PointersOf(n))
  /\ \A n, m \in InUse : n # m => BlocksOf(n) \cap BlocksOf(m) = {}

Dirs == {n \in InUse : Node(n).kind = "dir"}
EntriesTo(m) ==
  {e \in Dirs \X (0..D_BLOCK * UNITS - 1) :
     e[2] \in EntrySlots(e[1]) /\ Entry(e[1], e[2]).num = m}

\* Every inode in use but the root has one name, and every name leads to an
\* inode in use: no failed or repeated call leaves an unreachable inode or a
\* dangling entry.
OneName ==
  /\ \A n \in InUse \ {Root} : Cardinality(EntriesTo(n)) = 1
  /\ \A n \in Inodes \ InUse : n # 0 => EntriesTo(n) = {}

\* A directory's link count is its own link (the root has two) and one for each
\* directory in it.
LinkCount ==
  \A n \in Dirs :
    Node(n).nlinks = (IF n = Root THEN 2 ELSE 1)
      + Cardinality({m \in Dirs \ {Root} : \E e \in EntriesTo(m) : e[1] = n})
-----------------------------------------------------------------------------
\* What README.md of p6 says, and wfs does not do: both are violated.
\*
\* "All data and metadata are mirrored across all disks, hence all images will
\* look identically."
ImagesIdentical ==
  raid_mode # 0 => \A d, e \in Disks :
    /\ ibitmap[d] = ibitmap[e] /\ dbitmap[d] = dbitmap[e]
    /\ inode[d] = inode[e] /\ block[d] = block[e]

\* "The maximum file name length is 28": a file that was created is found by the
\* name it was given.
CreatedIsFound ==
  [][\A p \in Paths : wfs_mknod(p) => (resolve_path(p))' # None]_vars
=============================================================================
