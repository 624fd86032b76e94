----------------------------- MODULE FileSystem -----------------------------
(***************************************************************************)
(* The file system simulator of p4: fs.c (mount, unmount), fs_util.c (bit  *)
(* maps), file.c, directory.c, disk.c.  The program is sequential; a step  *)
(* is one command of the loop in fs_sim.c.  A command that is refused and  *)
(* changes nothing is no step; a mkdir that is refused is one, because it  *)
(* does change something.                                                  *)
(*                                                                         *)
(* A process that runs has a session; what outlives it is the image, the   *)
(* file on the host that disk_umount() writes.  The process may be killed  *)
(* at any moment, also while it writes the image.                          *)
(*                                                                         *)
(* Sizes are in blocks, and a block of data is one value, so that cat      *)
(* shows the sequence of a file's blocks.  A C int that should name a      *)
(* block may be -1.                                                        *)
(***************************************************************************)
EXTENDS Integers, Sequences, FiniteSets, SequencesExt

CONSTANTS
  MAX_BLOCK,        \* blocks of the disk
  MAX_INODE,        \* inodes of the disk
  INODES_PER_BLOCK, \* BLOCK_SIZE / sizeof(Inode)
  MAX_DIR_ENTRY,    \* entries of a directory
  DIRECT,           \* blocks an inode names itself: 15
  Names,            \* names the user gives, "." and ".." apart
  Sizes,            \* sizes of the files the user creates, in blocks
  Data,             \* what rand_string may fill a file with
  Kills,            \* TRUE when the process may be killed
  Torn,             \* blocks of the image written when it is killed meanwhile
  MaxCommands       \* bound: commands given, the ends of sessions among them

numInodeBlock == MAX_INODE \div INODES_PER_BLOCK
MetaBlocks    == 3 + numInodeBlock   \* superblock, two maps, inodes
Block         == 0 .. MAX_BLOCK - 1
InodeNum      == 0 .. MAX_INODE - 1
Name          == Names \cup {".", ".."}
RootInode     == 0
RootBlock     == MetaBlocks          \* the first block that is given out

(* The program keeps the number of the root's block in curDirInode and     *)
(* uses it as an inode number: it is one, 131 of 512.                      *)
ASSUME FileSystemAssumption ==
  /\ MAX_BLOCK \in Nat /\ MAX_INODE \in Nat
  /\ INODES_PER_BLOCK \in Nat \ {0}
  /\ MAX_INODE = numInodeBlock * INODES_PER_BLOCK
  /\ RootBlock \in Block /\ RootBlock \in InodeNum
  /\ MAX_DIR_ENTRY \in Nat \ {0, 1, 2}
  /\ DIRECT \in Nat \ {0}
  /\ {".", ".."} \cap Names = {}
  /\ Sizes \subseteq Nat \ {0}
  /\ Kills \in BOOLEAN
  /\ Torn \subseteq 0 .. MAX_BLOCK - 1
  /\ MaxCommands \in Nat

VARIABLES
  superBlock,    \* freeBlockCount and freeInodeCount
  inodeMap,      \* the inodes whose bit is set
  blockMap,      \* the blocks whose bit is set
  inode,         \* the inode table in memory
  curDir,        \* the current directory in memory, a sequence of entries
  curDirInode,   \* where curDir is written: a block or an inode, see cd
  disk,          \* disk[][]: what each block holds, in memory too
  image,         \* the file on the host, with curDirInode and the histories
                 \* of the session that wrote it
  session,       \* "none", "mounted", "invalid" (the mount refused the
                 \* image), or "wild" (a block was taken for what it is not)
  astray,        \* history: the user has changed directory, or made a
                 \* directory that has no block, or the image was cut short
  leaked,        \* history: blocks that a refused mkdir took and kept
  commands       \* number of commands given

maps   == <<superBlock, inodeMap, blockMap>>
memory == <<maps, inode, curDir, curDirInode, disk>>
vars   == <<memory, image, session, astray, leaked, commands>>

DirectoryEntry == [name : Name, inode : InodeNum]
Inode == [type : {"file", "directory"}, blockCount : Nat, directBlock : Seq(Int),
          indirectBlock : Int, linkCount : Int]

(* Globals start as zeros; file is the zero of its enumeration. *)
ZeroInode == [type |-> "file", blockCount |-> 0, directBlock |-> <<0>>,
              indirectBlock |-> 0, linkCount |-> 0]

Zero          == [kind |-> "zero"]
DirBlock(d)   == [kind |-> "directory", dentry |-> d]
DataBlock(data, k) == [kind |-> "data", data |-> data, part |-> k]
MapBlock(blocks)   == [kind |-> "map", blocks |-> blocks]
InodeBlock(j) ==
  [kind |-> "inodes",
   inodes |-> [k \in 0 .. INODES_PER_BLOCK - 1 |-> inode[j * INODES_PER_BLOCK + k]]]

Entry(name, inodeNum) == [name |-> name, inode |-> inodeNum]

NoImage == [blocks |-> << >>, exists |-> FALSE, at |-> 0, astray |-> FALSE, leaked |-> {}]

(* The globals of a process that has just been started. *)
Zeroed ==
  /\ superBlock = [freeBlockCount |-> 0, freeInodeCount |-> 0]
  /\ inodeMap = {}
  /\ blockMap = {}
  /\ inode = [n \in InodeNum |-> ZeroInode]
  /\ curDir = << >>
  /\ curDirInode = 0
  /\ disk = [b \in Block |-> Zero]

Init ==
  /\ Zeroed
  /\ image = NoImage
  /\ session = "none"
  /\ astray = FALSE
  /\ leaked = {}
  /\ commands = 0

-----------------------------------------------------------------------------
(* fs_util.c: the bit maps. *)

(* The k-th smallest element of a set of numbers. *)
Nth(S, k) == CHOOSE x \in S : Cardinality({y \in S : y < x}) = k - 1

FreeBlocks == Block \ blockMap
FreeInodes == InodeNum \ inodeMap

get_inode == Nth(FreeInodes, 1)

(* What n calls of get_block() give, up to the first that gives -1. *)
get_blocks(n) ==
  [k \in 1 .. (IF n <= Cardinality(FreeBlocks) THEN n ELSE Cardinality(FreeBlocks))
     |-> Nth(FreeBlocks, k)]

get_block == IF FreeBlocks = {} THEN -1 ELSE Nth(FreeBlocks, 1)

Take(blocks, inodes) ==
  /\ blockMap' = blockMap \cup blocks
  /\ inodeMap' = inodeMap \cup inodes
  /\ superBlock' = [freeBlockCount |-> superBlock.freeBlockCount - Cardinality(blocks),
                    freeInodeCount |-> superBlock.freeInodeCount - Cardinality(inodes)]

(* free_block() of every block in the set and free_inode() of every inode. *)
(* A bit that is clear is left alone.  Block -1 is shifted by -1: the bit  *)
(* may look set, and then the count goes up and no bit goes down.          *)
Free(blocks, inodes) ==
  /\ blockMap' = blockMap \ blocks
  /\ inodeMap' = inodeMap \ inodes
  /\ \E extra \in IF -1 \in blocks THEN {0, 1} ELSE {0} :
       superBlock' =
         [freeBlockCount |-> superBlock.freeBlockCount + Cardinality(blocks \cap blockMap) + extra,
          freeInodeCount |-> superBlock.freeInodeCount + Cardinality(inodes \cap inodeMap)]

-----------------------------------------------------------------------------
(* disk.c: blocks that do not exist are neither read nor written, and the  *)
(* reader's buffer keeps what it had.                                      *)
read_disk_block(d, b, buf) == IF b \in Block THEN d[b] ELSE buf
write_disk_block(d, b, buf) == IF b \in Block THEN [d EXCEPT ![b] = buf] ELSE d

Garbage == [kind |-> "garbage"]   \* a local array that nothing was put in

IsDirectory(buf) == buf.kind \in {"directory", "zero"}
AsDirectory(buf) == IF buf.kind = "directory" THEN buf.dentry ELSE << >>

(* fs.c: the first entry of that name, 0 if there is none. *)
PositionIn(dir, name) ==
  LET found == {k \in DOMAIN dir : dir[k].name = name}
  IN  IF found = {} THEN 0 ELSE Nth(found, 1)

Position(name) == PositionIn(curDir, name)
Exists(name) == Position(name) # 0
search_cur_dir(name) == curDir[Position(name)].inode
InodeOf(name) == inode[search_cur_dir(name)]
IsDir(name) == Exists(name) /\ InodeOf(name).type = "directory"

(* Entries that were never written are zeros. *)
EntryInode(k) == IF k \in DOMAIN curDir THEN curDir[k].inode ELSE 0

(* Mutant: one entry too many. *)
DirFullLate == Len(curDir) > MAX_DIR_ENTRY

DirFull == Len(curDir) + 1 > MAX_DIR_ENTRY
InodesFull == superBlock.freeInodeCount < 1

AddEntry(name, inodeNum)  == curDir' = Append(curDir, Entry(name, inodeNum))
RemoveEntry(name) == curDir' = RemoveAt(curDir, Position(name))

-----------------------------------------------------------------------------
(* file.c. *)

HasMap(n)     == n > DIRECT
BlocksFor(n)  == IF HasMap(n) THEN n + 1 ELSE n
BlocksFull(n) == BlocksFor(n) > superBlock.freeBlockCount

(* Which of the blocks that are taken holds the k-th of the file: the one  *)
(* after the direct ones is the indirect block.                            *)
Turn(k) == IF k <= DIRECT THEN k ELSE k + 1

NewInode(type, n, got) ==
  [type |-> type, blockCount |-> n, linkCount |-> 1,
   directBlock |-> IF n = 0 THEN <<-1>>   \* never set
                   ELSE SubSeq(got, 1, IF HasMap(n) THEN DIRECT ELSE n),
   indirectBlock |-> IF HasMap(n) THEN got[DIRECT + 1] ELSE 0]

(* The disk once the bytes are in the blocks that were taken; the indirect *)
(* block is written last, and only if all blocks were to be had.           *)
Filled(got, bytes) ==
  LET n == Len(bytes)
  IN  [b \in Block |->
        IF b \notin Range(got) THEN disk[b]
        ELSE LET t == CHOOSE t \in DOMAIN got : got[t] = b
             IN  IF t <= DIRECT THEN bytes[t]
                 ELSE IF t > DIRECT + 1 THEN bytes[t - 1]
                 ELSE IF Len(got) = BlocksFor(n)
                 THEN MapBlock([k \in 1 .. n - DIRECT |-> got[Turn(DIRECT + k)]])
                 ELSE disk[b]]

(* The indirect block holds the numbers of the blocks after the direct     *)
(* ones.  A session that has gone astray may write over it; what becomes   *)
(* of the file then is left out.                                           *)
Readable(ino) == HasMap(ino.blockCount) =>
  /\ disk[ino.indirectBlock].kind = "map"
  /\ Len(disk[ino.indirectBlock].blocks) = ino.blockCount - DIRECT

(* The blocks of a file of the disk d in their order, and what they hold:  *)
(* what cat prints.                                                        *)
BlocksIn(d, ino) ==
  IF HasMap(ino.blockCount)
  THEN ino.directBlock \o d[ino.indirectBlock].blocks
  ELSE SubSeq(ino.directBlock, 1, ino.blockCount)

BytesIn(d, ino) ==
  [k \in 1 .. ino.blockCount |-> read_disk_block(d, BlocksIn(d, ino)[k], Garbage)]

FileBlocks(ino) == BlocksIn(disk, ino)
file_cat(ino) == BytesIn(disk, ino)

(* The entry is made before the blocks are had: when they run out, it      *)
(* stays, and names an inode that was not written.                         *)
file_create(name, n, data) ==
  /\ ~Exists(name) /\ ~DirFull /\ ~InodesFull /\ ~BlocksFull(n)
  /\ LET got == get_blocks(BlocksFor(n))
     IN  /\ Take(Range(got), {get_inode})
         /\ disk' = Filled(got, [k \in 1 .. n |-> DataBlock(data, k)])
         /\ inode' = IF Len(got) = BlocksFor(n)
                     THEN [inode EXCEPT ![get_inode] = NewInode("file", n, got)]
                     ELSE inode
  /\ AddEntry(name, get_inode)
  /\ UNCHANGED <<curDirInode, session, astray, leaked>>

(* A directory may be copied too: its one block is. *)
file_copy(src, dest) ==
  /\ Exists(src) /\ ~Exists(dest) /\ ~DirFull /\ ~InodesFull
  /\ ~BlocksFull(InodeOf(src).blockCount) /\ Readable(InodeOf(src))
  /\ LET ino == InodeOf(src)
         got == get_blocks(BlocksFor(ino.blockCount))
     IN  /\ Take(Range(got), {get_inode})
         /\ disk' = Filled(got, file_cat(ino))
         /\ IF Len(got) = BlocksFor(ino.blockCount)
            THEN /\ inode' = [inode EXCEPT ![get_inode] = NewInode(ino.type, ino.blockCount, got)]
                 /\ AddEntry(dest, get_inode)
            ELSE UNCHANGED <<inode, curDir>>
  /\ UNCHANGED <<curDirInode, session, astray, leaked>>

(* A link needs no block and no inode, and is refused without them. *)
hard_link(src, dest) ==
  /\ Exists(src) /\ ~Exists(dest) /\ ~IsDir(src) /\ ~DirFull
  /\ InodeOf(src).blockCount <= superBlock.freeBlockCount
  /\ ~InodesFull
  /\ inode' = [inode EXCEPT ![search_cur_dir(src)].linkCount = @ + 1]
  /\ AddEntry(dest, search_cur_dir(src))
  /\ UNCHANGED <<maps, curDirInode, disk, session, astray, leaked>>

BlocksOf(ino) ==
  Range(FileBlocks(ino)) \cup IF HasMap(ino.blockCount) THEN {ino.indirectBlock} ELSE {}

(* Mutants: the indirect block is kept; links are not counted. *)
FreedButMap(ino) == Range(FileBlocks(ino))
AnyLink(ino) == TRUE

Freed(ino) == BlocksOf(ino)
LastLink(ino) == ino.linkCount = 1

file_remove(name) ==
  /\ Exists(name) /\ ~IsDir(name) /\ Readable(InodeOf(name))
  /\ RemoveEntry(name)
  /\ IF LastLink(InodeOf(name))
     THEN /\ Free(Freed(InodeOf(name)), {search_cur_dir(name)})
          /\ UNCHANGED inode
     ELSE /\ inode' = [inode EXCEPT ![search_cur_dir(name)].linkCount = @ - 1]
          /\ UNCHANGED maps
  /\ UNCHANGED <<curDirInode, disk, session, astray, leaked>>

-----------------------------------------------------------------------------
(* directory.c. *)

FirstBlock(ino) == ino.directBlock[1]

(* The block is taken before anything is checked. *)
MkdirRefused(name) == Exists(name) \/ DirFull \/ InodesFull

dir_make(name) ==
  LET block == get_block
      inodeNum == get_inode
  IN  /\ ~MkdirRefused(name)
      /\ Take({block} \cap Block, {inodeNum})
      /\ inode' = [inode EXCEPT ![inodeNum] =
                     [ZeroInode EXCEPT !.type = "directory", !.blockCount = 1,
                                       !.directBlock = <<block>>]]
      /\ AddEntry(name, inodeNum)
      /\ LET new == DirBlock(<<Entry(".", inodeNum), Entry("..", curDir'[1].inode)>>)
         IN  disk' = write_disk_block(write_disk_block(disk, block, new),
                                      curDirInode, DirBlock(curDir'))
      /\ astray' = (astray \/ block = -1)
      /\ UNCHANGED <<curDirInode, session, leaked>>

dir_make_fails(name) ==
  /\ MkdirRefused(name)
  /\ get_block # -1
  /\ Take({get_block}, {})
  /\ leaked' = leaked \cup {get_block}
  /\ UNCHANGED <<inode, curDir, curDirInode, disk, session, astray>>

(* The directory is looked up on the disk; what is no directory there may  *)
(* seem empty or not.                                                      *)
dir_remove(name) ==
  /\ IsDir(name)
  /\ name \notin {".", ".."}
  /\ LET dentry == read_disk_block(disk, FirstBlock(InodeOf(name)), Garbage)
     IN  IsDirectory(dentry) => Len(AsDirectory(dentry)) <= 2
  /\ RemoveEntry(name)
  /\ Free(Range(InodeOf(name).directBlock), {search_cur_dir(name)})
  /\ UNCHANGED <<inode, curDirInode, disk, session, astray, leaked>>

(* curDirInode is taken for an inode number, which it is only after the    *)
(* first time.                                                             *)
ChangeTo(inodeNum) ==
  LET written == write_disk_block(disk, FirstBlock(inode[curDirInode]), DirBlock(curDir))
      loaded  == read_disk_block(written, FirstBlock(inode[inodeNum]), DirBlock(curDir))
  IN  /\ disk' = written
      /\ IF IsDirectory(loaded)
         THEN /\ curDir' = AsDirectory(loaded)
              /\ UNCHANGED session
         ELSE /\ session' = "wild"
              /\ UNCHANGED curDir
      /\ curDirInode' = inodeNum
      /\ astray' = TRUE
      /\ UNCHANGED <<maps, inode, leaked>>

dir_change(name) ==
  \/ name = ".." /\ ChangeTo(EntryInode(2))
  \/ name \notin {".", ".."} /\ Exists(name) /\ ChangeTo(search_cur_dir(name))

-----------------------------------------------------------------------------
(* fs.c: mount and unmount. *)

(* What fs_umount() puts in the blocks that are not data. *)
MetaBlock(b) ==
  CASE b = 0 -> [kind |-> "super", super |-> superBlock]
    [] b = 1 -> [kind |-> "inodeMap", map |-> inodeMap]
    [] b = 2 -> [kind |-> "blockMap", map |-> blockMap]
    [] OTHER -> InodeBlock(b - 3)

DiskWithMeta == [b \in Block |-> IF b < MetaBlocks THEN MetaBlock(b) ELSE disk[b]]

(* Mutants: the current directory is not written; curDirInode is taken for *)
(* an inode number, as in cd.                                              *)
DiskWithoutDir == DiskWithMeta
DiskAsInCd == write_disk_block(DiskWithMeta, FirstBlock(inode[curDirInode]), DirBlock(curDir))

(* fs_umount(): the current directory is written last, to the block whose  *)
(* number is curDirInode.                                                  *)
DiskToSave == write_disk_block(DiskWithMeta, curDirInode, DirBlock(curDir))

(* The process has ended, and what it had in memory is gone. *)
Ended ==
  /\ session' = "none"
  /\ superBlock' = [freeBlockCount |-> 0, freeInodeCount |-> 0]
  /\ inodeMap' = {}
  /\ blockMap' = {}
  /\ inode' = [n \in InodeNum |-> ZeroInode]
  /\ curDir' = << >>
  /\ curDirInode' = 0
  /\ disk' = [b \in Block |-> Zero]

(* disk_umount(): the file is emptied and the blocks are written in order; *)
(* a kill, or a full host, leaves those written so far.                    *)
disk_umount(n) ==
  /\ image' = [blocks |-> [k \in 1 .. n |-> DiskToSave[k - 1]], exists |-> TRUE,
               at |-> curDirInode, astray |-> astray \/ n < MAX_BLOCK, leaked |-> leaked]
  /\ astray' = image'.astray
  /\ UNCHANGED leaked

fs_umount ==
  /\ \E n \in {MAX_BLOCK} \cup IF Kills THEN Torn ELSE {} : disk_umount(n)
  /\ Ended

(* The process is killed before it unmounts, or cannot open the file: the  *)
(* image stays as the last session left it.                                *)
Killed ==
  /\ Kills
  /\ astray' = image.astray
  /\ leaked' = image.leaked
  /\ UNCHANGED image
  /\ Ended

(* What disk_mount() reads: blocks past the end of the file stay zeros. *)
ImageDisk ==
  [b \in Block |-> IF b < Len(image.blocks) THEN image.blocks[b + 1] ELSE Zero]

AsMap(buf) == IF buf.kind = "zero" THEN {} ELSE buf.map

ImageInode ==
  [n \in InodeNum |->
     LET buf == ImageDisk[3 + n \div INODES_PER_BLOCK]
     IN  IF buf.kind = "zero" THEN ZeroInode ELSE buf.inodes[n % INODES_PER_BLOCK]]

ImageIntact ==
  /\ ImageDisk[1].kind \in {"inodeMap", "zero"}
  /\ ImageDisk[2].kind \in {"blockMap", "zero"}
  /\ \A b \in 3 .. MetaBlocks - 1 : ImageDisk[b].kind \in {"inodes", "zero"}
  /\ IsDirectory(ImageDisk[FirstBlock(ImageInode[RootInode])])

ImageRoot == AsDirectory(ImageDisk[FirstBlock(ImageInode[RootInode])])

Mountable == ImageDisk[0].kind = "super" /\ ImageIntact

fs_mount ==
  /\ image.exists /\ Mountable
  /\ superBlock' = ImageDisk[0].super
  /\ inodeMap' = AsMap(ImageDisk[1])
  /\ blockMap' = AsMap(ImageDisk[2])
  /\ inode' = ImageInode
  /\ curDirInode' = FirstBlock(ImageInode[RootInode])
  /\ curDir' = ImageRoot
  /\ disk' = ImageDisk
  /\ session' = "mounted"

(* The magic number is not there, or the rest is not what it is read as. *)
fs_mount_fails ==
  /\ image.exists /\ ~Mountable
  /\ session' = IF ImageDisk[0].kind = "super" THEN "wild" ELSE "invalid"
  /\ UNCHANGED memory

(* fs_mount() when there is no image: the counts start full and            *)
(* get_inode() and get_block() take the root's; its linkCount stays 0.     *)
fs_format ==
  /\ ~image.exists
  /\ superBlock' = [freeBlockCount |-> MAX_BLOCK - MetaBlocks - 1,
                    freeInodeCount |-> MAX_INODE - 1]
  /\ inodeMap' = {RootInode}
  /\ blockMap' = 0 .. RootBlock
  /\ inode' = [inode EXCEPT ![RootInode].type = "directory",
                            ![RootInode].blockCount = 1,
                            ![RootInode].directBlock = <<RootBlock>>]
  /\ curDir' = <<Entry(".", RootInode)>>
  /\ curDirInode' = RootBlock
  /\ disk' = [disk EXCEPT ![RootBlock] = DirBlock(curDir')]
  /\ session' = "mounted"

Mount ==
  /\ session = "none"
  /\ fs_mount \/ fs_mount_fails \/ fs_format
  /\ UNCHANGED <<image, astray, leaked, commands>>

-----------------------------------------------------------------------------
execute_command ==
  \E name \in Name :
    \/ \E n \in Sizes, data \in Data : file_create(name, n, data)
    \/ \E src \in Name : file_copy(src, name) \/ hard_link(src, name)
    \/ file_remove(name)
    \/ dir_make(name) \/ dir_make_fails(name)
    \/ dir_remove(name)
    \/ dir_change(name)

(* fs_sim.c: commands until the user quits or the input ends. *)
Command ==
  /\ session = "mounted"
  /\ commands < MaxCommands
  /\ commands' = commands + 1
  /\ \/ execute_command /\ UNCHANGED image
     \/ fs_umount
     \/ Killed

Next == Mount \/ Command

Spec == Init /\ [][Next]_vars

-----------------------------------------------------------------------------
(* Properties. *)

(* Types, and a directory never has more entries than its block holds.     *)
(* freeBlockCount has no bound: see Free().                                *)
TypeOK ==
  /\ superBlock \in [freeBlockCount : Nat, freeInodeCount : 0 .. MAX_INODE]
  /\ inodeMap \subseteq InodeNum
  /\ blockMap \subseteq Block
  /\ \A n \in InodeNum :
       /\ inode[n].type \in {"file", "directory"}
       /\ inode[n].blockCount \in Nat
       /\ \A k \in DOMAIN inode[n].directBlock : inode[n].directBlock[k] \in Block \cup {-1}
       /\ inode[n].indirectBlock \in Block
       /\ inode[n].linkCount \in Int
  /\ \A k \in DOMAIN curDir : curDir[k] \in DirectoryEntry
  /\ Len(curDir) <= MAX_DIR_ENTRY
  /\ curDirInode \in InodeNum
  /\ DOMAIN disk = Block
  /\ image.blocks \in Seq(Range(image.blocks)) /\ Len(image.blocks) <= MAX_BLOCK
  /\ session \in {"none", "mounted", "invalid", "wild"}
  /\ astray \in BOOLEAN
  /\ leaked \subseteq Block

Owned(n) == BlocksOf(inode[n])
Named(n) == {k \in DOMAIN curDir : curDir[k].inode = n}

(* Every block is free, or belongs to one inode, or is one of those that a *)
(* refused mkdir took (directory.c:9), and the superblock counts the free  *)
(* ones: over any sequence of commands and sessions in the root directory, *)
(* no block is owned twice, freed while owned, or kept after its file.     *)
BlocksAccounted ==
  session = "mounted" /\ ~astray =>
    /\ superBlock.freeBlockCount = Cardinality(FreeBlocks)
    /\ blockMap = (0 .. MetaBlocks - 1) \cup leaked \cup UNION {Owned(n) : n \in inodeMap}
    /\ \A n \in inodeMap :
         /\ Cardinality(Owned(n)) = BlocksFor(inode[n].blockCount)
         /\ Owned(n) \cap (leaked \cup 0 .. MetaBlocks - 1) = {}
         /\ \A m \in inodeMap \ {n} : Owned(n) \cap Owned(m) = {}

(* An inode is allocated while an entry names it and no longer, and a      *)
(* file's linkCount is the number of those entries (file.c:100, 156).      *)
InodesAccounted ==
  /\ session = "mounted" => superBlock.freeInodeCount = Cardinality(FreeInodes)
  /\ session = "mounted" /\ ~astray =>
       /\ \A n \in InodeNum : n \in inodeMap <=> Named(n) # {}
       /\ \A n \in inodeMap \ {RootInode} :
            Cardinality(Named(n)) = IF inode[n].type = "file" THEN inode[n].linkCount ELSE 1

(* A disk that was written whole mounts again, whatever was done in any    *)
(* directory and over any sessions, unless the last one ended with a       *)
(* curDirInode that names the superblock, a map or the inodes (fs.c:97):   *)
(* nothing else puts into a block that fs_mount() reads what it does not   *)
(* expect there.  An image that was cut short is out of it.                *)
MountsAgain ==
  image.exists /\ Len(image.blocks) = MAX_BLOCK /\ image.at >= MetaBlocks =>
    Mountable

(* What the names stand for in the directory dir, with the inodes of table *)
(* on the disk d.                                                          *)
Nothing == [type |-> "nothing"]

StandsFor(d, ino) ==
  IF ino.type = "directory" THEN [type |-> "directory"]
  ELSE [type |-> "file", bytes |-> BytesIn(d, ino)]

Standing(dir, table, d) ==
  [name \in Name \ {"."} |->
     LET position == PositionIn(dir, name)
     IN  IF position = 0 THEN Nothing ELSE StandsFor(d, table[dir[position].inode])]

StandingNowhere == [name \in Name \ {"."} |-> Nothing]

OnImage == IF image.exists /\ ~image.astray
           THEN Standing(ImageRoot, ImageInode, ImageDisk) ELSE StandingNowhere

StandingNow == IF astray THEN StandingNowhere
               ELSE IF session = "mounted" THEN Standing(curDir, inode, disk) ELSE OnImage

(* What file_create() may fill a file with. *)
Bytes == {[k \in 1 .. n |-> DataBlock(data, k)] : n \in Sizes, data \in Data}

(* What FlatDirectory promises: each name keeps standing for the bytes it  *)
(* was created with, whatever is done to the others and across unmounting; *)
(* a kill takes the user back to what the last session unmounted, and not  *)
(* to anything between; until the session goes astray.                     *)
Flat == INSTANCE FlatDirectory WITH
  Names <- Name \ {"."},
  Contents <- Bytes,
  content <- StandingNow,
  saved <- OnImage,
  astray <- astray,
  savedAstray <- image.astray
FlatSpec == Flat!Spec

(* No command makes a file unreachable: every allocated inode is named in  *)
(* the current directory or in the block of some directory (directory.c:   *)
(* 115 writes the current one elsewhere after a mount).                    *)
NothingLost ==
  session = "mounted" =>
    \A n \in inodeMap :
      \/ Named(n) # {}
      \/ \E m \in inodeMap : \E b \in Owned(m) :
           /\ disk[b].kind = "directory"
           /\ \E k \in DOMAIN disk[b].dentry : disk[b].dentry[k].inode = n

(* A disk that exists is mounted: no session leaves one that the next      *)
(* takes for no disk at all (fs.c:97).                                     *)
ExistingDiskMounts == session # "invalid"

(* Every directory has a block of its own (directory.c:19 goes on without  *)
(* one).                                                                   *)
DirectoriesHaveBlocks ==
  \A n \in inodeMap : inode[n].type = "directory" => FirstBlock(inode[n]) \in blockMap
=============================================================================
