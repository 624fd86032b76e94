-------------------------- MODULE FileSystemProofs --------------------------
(***************************************************************************)
(* The theorems about p4, for a disk of any size, directories and inodes   *)
(* of any number of entries and blocks, any sequence of commands, and      *)
(* kills at any moment.                                                    *)
(*                                                                         *)
(* First what holds in every session (TypeInv), then what holds until the  *)
(* user leaves the root or makes a directory that has no block (SoundInv), *)
(* and that the root's block is safe in every session (SafeInv).           *)
(* They say of the image on the host what they say of memory, since that   *)
(* is what the next process starts with.  Last, that Spec implements       *)
(* FlatDirectory.                                                          *)
(***************************************************************************)
EXTENDS FileSystem, SequenceTheorems, FiniteSetTheorems, TLAPS

GoodInode ==
  [type : {"file", "directory"}, blockCount : Nat,
   directBlock : Seq(Block \cup {-1}) \ {<< >>}, indirectBlock : Block, linkCount : Int]

(* No entry but "." and ".." names the root. *)
GoodDir(dir) ==
  /\ dir \in Seq(DirectoryEntry) /\ Len(dir) <= MAX_DIR_ENTRY
  /\ \A k \in DOMAIN dir : dir[k].name \in Names => dir[k].inode # RootInode

GoodBlock(buf) == buf.kind = "directory" => GoodDir(buf.dentry)
GoodDisk(d)    == DOMAIN d = Block /\ \A b \in Block : GoodBlock(d[b])

(* The count of inodes is exact; that of blocks may be too large, once a   *)
(* directory without a block was removed.                                  *)
GoodMaps(super, inodes, blocks) ==
  /\ inodes \subseteq InodeNum /\ blocks \subseteq Block
  /\ super \in [freeBlockCount : Nat, freeInodeCount : Nat]
  /\ super.freeInodeCount = Cardinality(InodeNum \ inodes)
  /\ super.freeBlockCount >= Cardinality(Block \ blocks)

GoodRoot(inodes, table) ==
  /\ table \in [InodeNum -> GoodInode]
  /\ RootInode \in inodes /\ table[RootInode].type = "directory" /\ table[RootInode].directBlock = <<RootBlock>>

ImageSuper == ImageDisk[0].super
ImageInodeMap == AsMap(ImageDisk[1])
ImageBlockMap == AsMap(ImageDisk[2])

GoodImage ==
  /\ image.exists \in BOOLEAN /\ image.astray \in BOOLEAN /\ image.leaked \subseteq Block
  /\ \E n \in 0 .. MAX_BLOCK : image.blocks \in [1 .. n -> Range(image.blocks)]
  /\ ~image.exists => image = NoImage
  /\ \A b \in Block : GoodBlock(ImageDisk[b])
  /\ image.exists /\ Mountable =>
       GoodMaps(ImageSuper, ImageInodeMap, ImageBlockMap) /\ GoodRoot(ImageInodeMap, ImageInode)

GoodMemory ==
  /\ GoodMaps(superBlock, inodeMap, blockMap) /\ GoodRoot(inodeMap, inode)
  /\ GoodDir(curDir) /\ curDirInode \in InodeNum /\ GoodDisk(disk)

GoodFlags ==
  session \in {"none", "mounted", "invalid", "wild"} /\ astray \in BOOLEAN /\ leaked \subseteq Block

TypeInv ==
  /\ GoodFlags /\ GoodImage
  /\ Zeroed \/ GoodMemory
  /\ session = "none" => Zeroed
  /\ session = "mounted" => GoodMemory

OwnedIn(d, ino) ==
  Range(BlocksIn(d, ino)) \cup IF HasMap(ino.blockCount) THEN {ino.indirectBlock} ELSE {}
NamedIn(dir, n) == {k \in DOMAIN dir : dir[k].inode = n}

(* An inode whose blocks, as many as it says, are to be found on the disk. *)
SoundInode(d, ino) ==
  /\ ino.blockCount # 0 /\ (ino.type = "directory" => ino.blockCount = 1)
  /\ ino.directBlock \in Seq(Block)
  /\ Len(ino.directBlock) = IF HasMap(ino.blockCount) THEN DIRECT ELSE ino.blockCount
  /\ HasMap(ino.blockCount) =>
       /\ d[ino.indirectBlock].kind = "map"
       /\ d[ino.indirectBlock].blocks \in Seq(Block)
       /\ Len(d[ino.indirectBlock].blocks) = ino.blockCount - DIRECT
  /\ Cardinality(OwnedIn(d, ino)) = BlocksFor(ino.blockCount)

(* No block is free and used, used twice, or lost except to a mkdir. *)
SoundBlocks(super, inodes, blocks, table, d, lost) ==
  /\ super.freeBlockCount = Cardinality(Block \ blocks)
  /\ blocks = (0 .. MetaBlocks - 1) \cup lost \cup UNION {OwnedIn(d, table[n]) : n \in inodes}
  /\ \A n \in inodes :
       /\ SoundInode(d, table[n])
       /\ OwnedIn(d, table[n]) \cap (lost \cup 0 .. MetaBlocks - 1) = {}
       /\ \A m \in inodes \ {n} : OwnedIn(d, table[n]) \cap OwnedIn(d, table[m]) = {}

(* An inode is used while there is an entry for it. *)
SoundEntries(inodes, table, dir) ==
  /\ \A n \in InodeNum : n \in inodes <=> NamedIn(dir, n) # {}
  /\ \A n \in inodes \ {RootInode} :
       Cardinality(NamedIn(dir, n)) = IF table[n].type = "file" THEN table[n].linkCount ELSE 1

SoundNow    == SoundBlocks(superBlock, inodeMap, blockMap, inode, disk, leaked)
EntriesNow  == SoundEntries(inodeMap, inode, curDir)
SoundMemory == curDirInode = RootBlock /\ SoundNow /\ EntriesNow

SoundImage ==
  /\ Mountable
  /\ SoundBlocks(ImageSuper, ImageInodeMap, ImageBlockMap, ImageInode, ImageDisk, image.leaked)
  /\ SoundEntries(ImageInodeMap, ImageInode, ImageRoot)

SoundInv ==
  /\ TypeInv
  /\ session = "none" => astray = image.astray /\ leaked = image.leaked
  /\ session \in {"invalid", "wild"} => astray
  /\ session = "mounted" /\ ~astray => SoundMemory
  /\ image.exists /\ ~image.astray => SoundImage

-----------------------------------------------------------------------------
(* Numbers and sets. *)

(* The numbers of a finite set have each a rank of its own. *)
LEMMA NthOf ==
  ASSUME NEW S \in SUBSET Int, IsFiniteSet(S), NEW k \in 1 .. Cardinality(S)
  PROVE  Nth(S, k) \in S /\ Cardinality({y \in S : y < Nth(S, k)}) = k - 1
<1> DEFINE Below(x) == {y \in S : y < x}
           n == Cardinality(S)
           rank == [x \in S |-> Cardinality(Below(x))]
<1>1. n \in Nat /\ n # 0
  BY FS_CardinalityType
<1>2. \A x \in S : IsFiniteSet(Below(x)) /\ Cardinality(Below(x)) \in 0 .. n - 1
  <2> SUFFICES ASSUME NEW x \in S
               PROVE  IsFiniteSet(Below(x)) /\ Cardinality(Below(x)) \in 0 .. n - 1
    OBVIOUS
  <2>1. Below(x) \in SUBSET (S \ {x})
    OBVIOUS
  <2>2. IsFiniteSet(S \ {x}) /\ Cardinality(S \ {x}) = n - 1
    BY FS_RemoveElement
  <2> HIDE DEF Below
  <2>3. IsFiniteSet(Below(x)) /\ Cardinality(Below(x)) <= n - 1
    BY <2>1, <2>2, FS_Subset
  <2>4. Cardinality(Below(x)) \in Nat
    BY <2>3, FS_CardinalityType
  <2> QED BY <1>1, <2>3, <2>4
<1>3. \A x, y \in S : x < y => Cardinality(Below(x)) < Cardinality(Below(y))
  <2> SUFFICES ASSUME NEW x \in S, NEW y \in S, x < y
               PROVE  Cardinality(Below(x)) < Cardinality(Below(y))
    OBVIOUS
  <2>1. Below(x) \cup {x} \in SUBSET Below(y) /\ x \notin Below(x)
    <3>1. (\A z \in S : z < x => z < y) /\ ~(x < x)
      OBVIOUS
    <3>2. \A z \in Below(x) \cup {x} : z \in S /\ z < y
      BY <3>1
    <3> QED BY <3>1, <3>2
  <2>2. IsFiniteSet(Below(x)) /\ IsFiniteSet(Below(y)) /\ Cardinality(Below(x)) \in Nat /\ Cardinality(Below(y)) \in Nat
    BY <1>2, <1>1
  <2> HIDE DEF Below
  <2>3. Cardinality(Below(x) \cup {x}) = Cardinality(Below(x)) + 1
    BY <2>1, <2>2, FS_AddElement
  <2>4. Cardinality(Below(x) \cup {x}) <= Cardinality(Below(y))
    BY <2>1, <2>2, FS_Subset
  <2> QED BY <2>2, <2>3, <2>4
<1> HIDE DEF Below
<1>4. rank \in [S -> 0 .. n - 1]
  BY <1>2
<1>5. rank \in Injection(S, 0 .. n - 1)
  <2>1. \A x, y \in S : rank[x] = rank[y] => x = y
    <3> SUFFICES ASSUME NEW x \in S, NEW y \in S, x # y
                 PROVE  rank[x] # rank[y]
      OBVIOUS
    <3>1. Cardinality(Below(x)) \in Int /\ Cardinality(Below(y)) \in Int
      BY <1>2
    <3>2. x < y \/ y < x
      OBVIOUS
    <3> QED BY <1>3, <3>1, <3>2
  <2> QED BY <1>4, <2>1 DEF Injection, IsInjective
<1>6. IsFiniteSet(0 .. n - 1) /\ Cardinality(0 .. n - 1) = n
  <2>1. 0 \in Int /\ n - 1 \in Int /\ ~(0 > n - 1) /\ (n - 1) - 0 + 1 = n
    BY <1>1
  <2> QED BY ONLY <2>1, FS_Interval
<1>7. rank \in Surjection(S, 0 .. n - 1)
  BY <1>5, <1>6, FS_Injection
<1>8. \E x \in S : Cardinality(Below(x)) = k - 1
  <2>1. k - 1 \in 0 .. n - 1
    BY <1>1
  <2> QED BY <1>7, <2>1 DEF Surjection
<1> QED BY <1>8 DEF Nth, Below

(* Taking from a finite set and giving back, counted. *)
LEMMA CountTaken ==
  ASSUME NEW U, IsFiniteSet(U), NEW M \in SUBSET U, NEW B \in SUBSET (U \ M)
  PROVE  /\ IsFiniteSet(B) /\ Cardinality(B) \in Nat /\ Cardinality(U \ M) \in Nat
         /\ Cardinality(B) <= Cardinality(U \ M)
         /\ Cardinality(U \ (M \cup B)) = Cardinality(U \ M) - Cardinality(B)
<1>1. IsFiniteSet(U \ M) /\ (U \ M) \cap B = B /\ (U \ M) \ B = U \ (M \cup B)
  BY FS_Difference
<1>2. Cardinality(B) <= Cardinality(U \ M) /\ IsFiniteSet(B)
  BY <1>1, FS_Subset
<1>3. Cardinality((U \ M) \ B) = Cardinality(U \ M) - Cardinality((U \ M) \cap B)
  BY <1>1, FS_Difference
<1> QED BY <1>1, <1>2, <1>3, FS_CardinalityType

LEMMA CountGiven ==
  ASSUME NEW U, IsFiniteSet(U), NEW M \in SUBSET U, NEW B
  PROVE  /\ Cardinality(B \cap M) \in Nat /\ Cardinality(U \ M) \in Nat
         /\ Cardinality(U \ (M \ B)) = Cardinality(U \ M) + Cardinality(B \cap M)
<1>1. IsFiniteSet(U \ M) /\ IsFiniteSet(M)
  BY FS_Difference, FS_Subset
<1>2. IsFiniteSet(B \cap M)
  BY <1>1, FS_Intersection
<1>3. (U \ M) \cup (B \cap M) = U \ (M \ B) /\ (U \ M) \cap (B \cap M) = {}
  OBVIOUS
<1>4. Cardinality((U \ M) \cup (B \cap M)) = Cardinality(U \ M) + Cardinality(B \cap M) - Cardinality((U \ M) \cap (B \cap M))
  BY <1>1, <1>2, FS_Union
<1>5. Cardinality(U \ M) \in Nat /\ Cardinality(B \cap M) \in Nat /\ Cardinality({}) = 0
  BY <1>1, <1>2, FS_CardinalityType, FS_EmptySet
<1>6. Cardinality(U \ (M \ B)) = Cardinality(U \ M) + Cardinality(B \cap M) - Cardinality({})
  BY <1>3, <1>4, Zenon
<1> QED BY ONLY <1>5, <1>6

LEMMA Finite ==
  ASSUME FileSystemAssumption
  PROVE  /\ IsFiniteSet(Block) /\ IsFiniteSet(InodeNum) /\ Block \subseteq Int /\ InodeNum \subseteq Int
         /\ Cardinality(Block) = MAX_BLOCK /\ Cardinality(InodeNum) = MAX_INODE
<1>1. MAX_BLOCK \in Nat /\ MAX_INODE \in Nat
  BY FileSystemAssumption DEF FileSystemAssumption
<1>2. /\ IsFiniteSet(0 .. MAX_BLOCK - 1) /\ Cardinality(0 .. MAX_BLOCK - 1) = MAX_BLOCK
      /\ IsFiniteSet(0 .. MAX_INODE - 1) /\ Cardinality(0 .. MAX_INODE - 1) = MAX_INODE
  <2>1. /\ MAX_BLOCK - 1 \in Int /\ MAX_INODE - 1 \in Int /\ 0 \in Int
    BY <1>1
  <2>2. /\ IsFiniteSet(0 .. MAX_BLOCK - 1)
        /\ Cardinality(0 .. MAX_BLOCK - 1) = IF 0 > MAX_BLOCK - 1 THEN 0 ELSE (MAX_BLOCK - 1) - 0 + 1
    BY ONLY <2>1, FS_Interval
  <2>3. /\ IsFiniteSet(0 .. MAX_INODE - 1)
        /\ Cardinality(0 .. MAX_INODE - 1) = IF 0 > MAX_INODE - 1 THEN 0 ELSE (MAX_INODE - 1) - 0 + 1
    BY ONLY <2>1, FS_Interval
  <2> QED BY <1>1, <2>2, <2>3
<1> QED BY <1>1, <1>2 DEF Block, InodeNum

(* get_block() and get_inode() give what is free, and -1 if no block is.   *)
LEMMA GetOne ==
  ASSUME FileSystemAssumption
  PROVE  /\ get_block \in FreeBlocks \cup {-1}
         /\ FreeBlocks # {} => get_block \in FreeBlocks
         /\ FreeBlocks = {} => get_block = -1
         /\ FreeInodes # {} => get_inode \in FreeInodes
<1>1. IsFiniteSet(FreeBlocks) /\ FreeBlocks \in SUBSET Int /\ IsFiniteSet(FreeInodes) /\ FreeInodes \in SUBSET Int
  BY FileSystemAssumption, Finite, FS_Difference DEF FreeBlocks, FreeInodes
<1>2. \A S \in SUBSET Int : IsFiniteSet(S) /\ S # {} => Nth(S, 1) \in S
  <2> SUFFICES ASSUME NEW S \in SUBSET Int, IsFiniteSet(S), S # {}
               PROVE  Nth(S, 1) \in S
    OBVIOUS
  <2>1. Cardinality(S) \in Nat /\ Cardinality(S) # 0
    BY FS_CardinalityType, FS_EmptySet
  <2>2. 1 \in 1 .. Cardinality(S)
    BY <2>1
  <2> QED BY <2>2, NthOf
<1>3. FreeBlocks # {} => Nth(FreeBlocks, 1) \in FreeBlocks
  BY <1>1, <1>2
<1>4. FreeInodes # {} => Nth(FreeInodes, 1) \in FreeInodes
  BY <1>1, <1>2
<1> QED BY <1>3, <1>4 DEF get_block, get_inode

(* n calls of get_block() give different blocks, n if so many are free.    *)
LEMMA GetBlocks ==
  ASSUME FileSystemAssumption, NEW n \in Nat
  PROVE  LET got == get_blocks(n)
         IN  /\ got \in Seq(FreeBlocks) /\ Len(got) <= n
             /\ n <= Cardinality(FreeBlocks) => Len(got) = n
             /\ \A i, j \in DOMAIN got : got[i] = got[j] => i = j
             /\ Range(got) \in SUBSET FreeBlocks /\ IsFiniteSet(Range(got))
             /\ Cardinality(Range(got)) = Len(got)
<1> DEFINE c == Cardinality(FreeBlocks)
           got == get_blocks(n)
           m == IF n <= c THEN n ELSE c
<1>1. IsFiniteSet(FreeBlocks) /\ FreeBlocks \in SUBSET Int /\ c \in Nat
  BY FileSystemAssumption, Finite, FS_Difference, FS_CardinalityType DEF FreeBlocks
<1>2. m \in Nat /\ m <= n /\ m <= c /\ (n <= c => m = n)
  BY <1>1
<1>3. got = [k \in 1 .. m |-> Nth(FreeBlocks, k)]
  BY DEF get_blocks
<1> HIDE DEF c, got, m
<1>4. \A k \in 1 .. m : /\ Nth(FreeBlocks, k) \in FreeBlocks
                        /\ Cardinality({y \in FreeBlocks : y < Nth(FreeBlocks, k)}) = k - 1
  <2> SUFFICES ASSUME NEW k \in 1 .. m
               PROVE  /\ Nth(FreeBlocks, k) \in FreeBlocks
                      /\ Cardinality({y \in FreeBlocks : y < Nth(FreeBlocks, k)}) = k - 1
    OBVIOUS
  <2>1. k \in 1 .. Cardinality(FreeBlocks)
    BY <1>2, <1>1 DEF c
  <2> QED BY <1>1, <2>1, NthOf
<1>5. got \in [1 .. m -> FreeBlocks]
  BY <1>3, <1>4
<1>6. got \in Seq(FreeBlocks) /\ Len(got) = m /\ DOMAIN got = 1 .. m
  BY <1>2, <1>5
<1>7. \A i, j \in 1 .. m : got[i] = got[j] => i = j
  <2> SUFFICES ASSUME NEW i \in 1 .. m, NEW j \in 1 .. m, got[i] = got[j]
               PROVE  i = j
    OBVIOUS
  <2>1. Nth(FreeBlocks, i) = Nth(FreeBlocks, j)
    BY <1>3
  <2>2. i - 1 = j - 1
    BY <2>1, <1>4
  <2> QED BY <2>2
<1>8. Range(got) \in SUBSET FreeBlocks
  BY <1>5 DEF Range
<1>9. IsFiniteSet(1 .. m) /\ Cardinality(1 .. m) = m
  <2>1. IsFiniteSet(1 .. m) /\ Cardinality(1 .. m) = IF 1 > m THEN 0 ELSE m - 1 + 1
    <3>1. 1 \in Int /\ m \in Int
      BY <1>2
    <3> QED BY ONLY <3>1, FS_Interval
  <2> QED BY <2>1, <1>2
<1>10. got \in Bijection(1 .. m, Range(got))
  BY <1>5, <1>7 DEF Bijection, Injection, Surjection, IsInjective, Range
<1>11. IsFiniteSet(Range(got)) /\ Cardinality(Range(got)) = m
  BY <1>9, <1>10, FS_Bijection DEF ExistsBijection
<1> QED BY <1>2, <1>6, <1>7, <1>8, <1>11 DEF got, c

-----------------------------------------------------------------------------
(* The bit maps. *)

LEMMA TakeKeeps ==
  ASSUME FileSystemAssumption, GoodMaps(superBlock, inodeMap, blockMap),
         NEW B \in SUBSET FreeBlocks, NEW I \in SUBSET FreeInodes,
         Cardinality(B) <= superBlock.freeBlockCount, Take(B, I)
  PROVE  /\ GoodMaps(superBlock', inodeMap', blockMap')
         /\ superBlock.freeBlockCount = Cardinality(Block \ blockMap) =>
              superBlock'.freeBlockCount = Cardinality(Block \ blockMap')
<1>1. /\ superBlock \in [freeBlockCount : Nat, freeInodeCount : Nat]
      /\ superBlock.freeInodeCount = Cardinality(InodeNum \ inodeMap)
      /\ superBlock.freeBlockCount >= Cardinality(Block \ blockMap)
      /\ inodeMap \in SUBSET InodeNum /\ blockMap \in SUBSET Block
  BY DEF GoodMaps
<1>2. B \in SUBSET (Block \ blockMap) /\ I \in SUBSET (InodeNum \ inodeMap)
  BY DEF FreeBlocks, FreeInodes
<1>3. IsFiniteSet(Block) /\ IsFiniteSet(InodeNum)
  BY FileSystemAssumption, Finite
<1>4. /\ Cardinality(B) \in Nat /\ Cardinality(Block \ blockMap) \in Nat
      /\ Cardinality(Block \ (blockMap \cup B)) = Cardinality(Block \ blockMap) - Cardinality(B)
  <2>1. IsFiniteSet(Block) /\ blockMap \in SUBSET Block /\ B \in SUBSET (Block \ blockMap)
    BY <1>1, <1>2, <1>3
  <2> QED BY ONLY <2>1, CountTaken, ZenonT(60)
<1>5. /\ Cardinality(I) \in Nat /\ Cardinality(InodeNum \ inodeMap) \in Nat /\ Cardinality(I) <= Cardinality(InodeNum \ inodeMap)
      /\ Cardinality(InodeNum \ (inodeMap \cup I)) = Cardinality(InodeNum \ inodeMap) - Cardinality(I)
  <2>1. IsFiniteSet(InodeNum) /\ inodeMap \in SUBSET InodeNum /\ I \in SUBSET (InodeNum \ inodeMap)
    BY <1>1, <1>2, <1>3
  <2> QED BY ONLY <2>1, CountTaken, ZenonT(60)
<1>6. /\ blockMap' = blockMap \cup B /\ inodeMap' = inodeMap \cup I
      /\ superBlock' = [freeBlockCount |-> superBlock.freeBlockCount - Cardinality(B),
                        freeInodeCount |-> superBlock.freeInodeCount - Cardinality(I)]
  BY DEF Take
<1>7. /\ Cardinality(Block \ blockMap') = Cardinality(Block \ blockMap) - Cardinality(B)
      /\ Cardinality(InodeNum \ inodeMap') = Cardinality(InodeNum \ inodeMap) - Cardinality(I)
      /\ blockMap' \subseteq Block /\ inodeMap' \subseteq InodeNum
  <2>1. blockMap' \subseteq Block /\ inodeMap' \subseteq InodeNum
    BY <1>1, <1>2, <1>6
  <2>2. /\ Block \ blockMap' = Block \ (blockMap \cup B)
        /\ InodeNum \ inodeMap' = InodeNum \ (inodeMap \cup I)
    BY <1>6
  <2> QED BY <2>1, <2>2, <1>4, <1>5
<1>8. /\ superBlock'.freeBlockCount = superBlock.freeBlockCount - Cardinality(B)
      /\ superBlock'.freeInodeCount = superBlock.freeInodeCount - Cardinality(I)
      /\ superBlock.freeBlockCount \in Nat /\ superBlock.freeInodeCount \in Nat
  BY <1>1, <1>6
<1>9. superBlock.freeBlockCount - Cardinality(B) \in Nat /\ superBlock.freeInodeCount - Cardinality(I) \in Nat
  BY ONLY <1>1, <1>4, <1>5, <1>8, Cardinality(B) <= superBlock.freeBlockCount
<1>10. superBlock' \in [freeBlockCount : Nat, freeInodeCount : Nat]
  BY <1>6, <1>9
<1>11. /\ superBlock'.freeInodeCount = Cardinality(InodeNum \ inodeMap')
       /\ superBlock'.freeBlockCount >= Cardinality(Block \ blockMap')
       /\ superBlock.freeBlockCount = Cardinality(Block \ blockMap) =>
            superBlock'.freeBlockCount = Cardinality(Block \ blockMap')
  BY ONLY <1>1, <1>4, <1>5, <1>7, <1>8
<1> QED BY <1>7, <1>10, <1>11 DEF GoodMaps

(* The count of blocks is one too large when block -1 was freed. *)
LEMMA FreeKeeps ==
  ASSUME FileSystemAssumption, GoodMaps(superBlock, inodeMap, blockMap),
         NEW B, NEW I, Free(B, I)
  PROVE  /\ GoodMaps(superBlock', inodeMap', blockMap')
         /\ superBlock.freeBlockCount = Cardinality(Block \ blockMap) /\ -1 \notin B =>
              superBlock'.freeBlockCount = Cardinality(Block \ blockMap')
<1>1. /\ superBlock \in [freeBlockCount : Nat, freeInodeCount : Nat]
      /\ superBlock.freeInodeCount = Cardinality(InodeNum \ inodeMap)
      /\ superBlock.freeBlockCount >= Cardinality(Block \ blockMap)
      /\ inodeMap \in SUBSET InodeNum /\ blockMap \in SUBSET Block
  BY DEF GoodMaps
<1>2. IsFiniteSet(Block) /\ IsFiniteSet(InodeNum)
  BY FileSystemAssumption, Finite
<1>3. /\ Cardinality(B \cap blockMap) \in Nat /\ Cardinality(Block \ blockMap) \in Nat
      /\ Cardinality(Block \ (blockMap \ B)) = Cardinality(Block \ blockMap) + Cardinality(B \cap blockMap)
  BY <1>1, <1>2, CountGiven
<1>4. /\ Cardinality(I \cap inodeMap) \in Nat /\ Cardinality(InodeNum \ inodeMap) \in Nat
      /\ Cardinality(InodeNum \ (inodeMap \ I)) = Cardinality(InodeNum \ inodeMap) + Cardinality(I \cap inodeMap)
  BY <1>1, <1>2, CountGiven
<1>5. PICK extra \in IF -1 \in B THEN {0, 1} ELSE {0} :
        superBlock' =
          [freeBlockCount |-> superBlock.freeBlockCount + Cardinality(B \cap blockMap) + extra,
           freeInodeCount |-> superBlock.freeInodeCount + Cardinality(I \cap inodeMap)]
  BY DEF Free
<1>6. extra \in {0, 1} /\ (-1 \notin B => extra = 0)
  OBVIOUS
<1>7. blockMap' = blockMap \ B /\ inodeMap' = inodeMap \ I
  BY DEF Free
<1>8. /\ Cardinality(Block \ blockMap') = Cardinality(Block \ blockMap) + Cardinality(B \cap blockMap)
      /\ Cardinality(InodeNum \ inodeMap') = Cardinality(InodeNum \ inodeMap) + Cardinality(I \cap inodeMap)
      /\ blockMap' \subseteq Block /\ inodeMap' \subseteq InodeNum
  <2>1. blockMap' \subseteq Block /\ inodeMap' \subseteq InodeNum
    BY <1>1, <1>7
  <2>2. /\ Block \ blockMap' = Block \ (blockMap \ B)
        /\ InodeNum \ inodeMap' = InodeNum \ (inodeMap \ I)
    BY <1>7
  <2> QED BY <2>1, <2>2, <1>3, <1>4
<1>9. /\ superBlock'.freeBlockCount = superBlock.freeBlockCount + Cardinality(B \cap blockMap) + extra
      /\ superBlock'.freeInodeCount = superBlock.freeInodeCount + Cardinality(I \cap inodeMap)
      /\ superBlock.freeBlockCount \in Nat /\ superBlock.freeInodeCount \in Nat
  BY <1>1, <1>5
<1>10. superBlock' \in [freeBlockCount : Nat, freeInodeCount : Nat]
  <2>1. /\ superBlock.freeBlockCount + Cardinality(B \cap blockMap) + extra \in Nat
        /\ superBlock.freeInodeCount + Cardinality(I \cap inodeMap) \in Nat
    BY ONLY <1>3, <1>4, <1>6, <1>9
  <2> QED BY <1>5, <2>1
<1>11. /\ superBlock'.freeInodeCount = Cardinality(InodeNum \ inodeMap')
       /\ superBlock'.freeBlockCount >= Cardinality(Block \ blockMap')
       /\ superBlock.freeBlockCount = Cardinality(Block \ blockMap) /\ extra = 0 =>
            superBlock'.freeBlockCount = Cardinality(Block \ blockMap')
  BY ONLY <1>1, <1>3, <1>4, <1>6, <1>8, <1>9
<1> QED BY <1>6, <1>8, <1>10, <1>11 DEF GoodMaps

(* The search finds an entry of the name exactly when there is one. *)
LEMMA PositionFound ==
  ASSUME NEW dir \in Seq(DirectoryEntry), NEW name
  PROVE  /\ PositionIn(dir, name) # 0 =>
              PositionIn(dir, name) \in DOMAIN dir /\ dir[PositionIn(dir, name)].name = name
         /\ (\E k \in DOMAIN dir : dir[k].name = name) => PositionIn(dir, name) # 0
<1> DEFINE found == {k \in DOMAIN dir : dir[k].name = name}
<1>1. DOMAIN dir = 1 .. Len(dir) /\ Len(dir) \in Nat
  BY LenProperties
<1>2. found \in SUBSET (1 .. Len(dir)) /\ found \in SUBSET Int /\ 0 \notin found
  BY <1>1
<1>3. IsFiniteSet(found)
  <2>1. 1 \in Int /\ Len(dir) \in Int
    BY <1>1
  <2>2. IsFiniteSet(1 .. Len(dir))
    BY ONLY <2>1, FS_Interval
  <2> QED BY <2>2, <1>2, FS_Subset
<1>4. PositionIn(dir, name) = IF found = {} THEN 0 ELSE Nth(found, 1)
  BY DEF PositionIn
<1>5. (\E k \in DOMAIN dir : dir[k].name = name) => found # {}
  OBVIOUS
<1>6. \A k \in found : k \in DOMAIN dir /\ dir[k].name = name
  OBVIOUS
<1> HIDE DEF found
<1>7. found # {} => Nth(found, 1) \in found
  <2> SUFFICES ASSUME found # {} PROVE Nth(found, 1) \in found
    OBVIOUS
  <2>1. Cardinality(found) \in Nat /\ Cardinality(found) # 0
    BY <1>3, FS_CardinalityType, FS_EmptySet
  <2>2. 1 \in 1 .. Cardinality(found)
    BY <2>1
  <2> QED BY <1>2, <1>3, <2>2, NthOf
<1> QED BY <1>2, <1>4, <1>5, <1>6, <1>7

(* What search_cur_dir() finds is an entry of that name. *)
LEMMA SearchGood ==
  ASSUME GoodDir(curDir), NEW name, Exists(name)
  PROVE  /\ Position(name) \in DOMAIN curDir /\ curDir[Position(name)].name = name
         /\ curDir[Position(name)] \in DirectoryEntry
         /\ search_cur_dir(name) \in InodeNum
         /\ name \in Names => search_cur_dir(name) # RootInode
<1>1. curDir \in Seq(DirectoryEntry) /\ DOMAIN curDir = 1 .. Len(curDir)
  BY LenProperties DEF GoodDir
<1>2. Position(name) \in DOMAIN curDir /\ curDir[Position(name)].name = name
  BY <1>1, PositionFound DEF Exists, Position
<1>3. curDir[Position(name)] \in DirectoryEntry
  BY <1>1, <1>2, ElementOfSeq
<1> QED BY <1>2, <1>3 DEF GoodDir, search_cur_dir, DirectoryEntry

-----------------------------------------------------------------------------
(* Directories, blocks and inodes. *)

LEMMA Sizing ==
  ASSUME FileSystemAssumption
  PROVE  /\ MAX_BLOCK \in Nat /\ MAX_INODE \in Nat /\ INODES_PER_BLOCK \in Nat \ {0}
         /\ numInodeBlock \in Nat \ {0} /\ MetaBlocks = 3 + numInodeBlock /\ MAX_INODE = numInodeBlock * INODES_PER_BLOCK
         /\ MetaBlocks < MAX_BLOCK /\ MetaBlocks < MAX_INODE
         /\ 0 \in Block /\ RootInode \in InodeNum /\ RootBlock \in Block /\ RootBlock \in InodeNum
         /\ MAX_DIR_ENTRY \in Nat \ {0, 1, 2} /\ DIRECT \in Nat \ {0}
         /\ "." \notin Names /\ ".." \notin Names
<1>1. /\ MAX_BLOCK \in Nat /\ MAX_INODE \in Nat /\ INODES_PER_BLOCK \in Nat \ {0}
      /\ MAX_INODE = numInodeBlock * INODES_PER_BLOCK
      /\ RootBlock \in Block /\ RootBlock \in InodeNum
      /\ MAX_DIR_ENTRY \in Nat \ {0, 1, 2} /\ DIRECT \in Nat \ {0}
      /\ "." \notin Names /\ ".." \notin Names
  BY FileSystemAssumption DEF FileSystemAssumption
<1>2. numInodeBlock \in Nat
  BY <1>1 DEF numInodeBlock
<1>3. MetaBlocks \in 0 .. MAX_BLOCK - 1 /\ MetaBlocks \in 0 .. MAX_INODE - 1
  BY <1>1 DEF RootBlock, Block, InodeNum
<1>4. MAX_INODE # 0 /\ 0 \in 0 .. MAX_BLOCK - 1 /\ 0 \in 0 .. MAX_INODE - 1
  BY <1>1, <1>3
<1>5. numInodeBlock # 0
  BY ONLY <1>1, <1>4
<1> QED BY <1>1, <1>2, <1>3, <1>4, <1>5 DEF MetaBlocks, Block, InodeNum, RootInode

LEMMA AppendGood ==
  ASSUME NEW dir, GoodDir(dir), NEW e \in DirectoryEntry, Len(dir) + 1 <= MAX_DIR_ENTRY,
         e.name \in Names => e.inode # RootInode
  PROVE  GoodDir(Append(dir, e))
<1>1. /\ dir \in Seq(DirectoryEntry) /\ Len(dir) \in Nat /\ DOMAIN dir = 1 .. Len(dir)
      /\ \A k \in DOMAIN dir : dir[k].name \in Names => dir[k].inode # RootInode
  BY LenProperties DEF GoodDir
<1>2. /\ Append(dir, e) \in Seq(DirectoryEntry) /\ Len(Append(dir, e)) = Len(dir) + 1
      /\ \A i \in 1 .. Len(dir) : Append(dir, e)[i] = dir[i]
      /\ Append(dir, e)[Len(dir) + 1] = e
  BY <1>1, AppendProperties
<1>3. DOMAIN Append(dir, e) = 1 .. Len(dir) + 1
  BY <1>2, LenProperties
<1>4. \A k \in 1 .. Len(dir) + 1 : k \in 1 .. Len(dir) \/ k = Len(dir) + 1
  BY ONLY <1>1
<1> QED BY <1>1, <1>2, <1>3, <1>4 DEF GoodDir

(* The entries after the one that is removed move up. *)
LEMMA RemoveGood ==
  ASSUME FileSystemAssumption, NEW dir, GoodDir(dir), NEW p \in DOMAIN dir
  PROVE  /\ GoodDir(RemoveAt(dir, p))
         /\ Len(dir) \in Nat /\ DOMAIN dir = 1 .. Len(dir) /\ DOMAIN RemoveAt(dir, p) = 1 .. Len(dir) - 1
         /\ \A i \in 1 .. Len(dir) - 1 : RemoveAt(dir, p)[i] = IF i < p THEN dir[i] ELSE dir[i + 1]
<1> DEFINE front == SubSeq(dir, 1, p - 1)
           back  == SubSeq(dir, p + 1, Len(dir))
<1>1. /\ dir \in Seq(DirectoryEntry) /\ Len(dir) \in Nat /\ DOMAIN dir = 1 .. Len(dir) /\ Len(dir) <= MAX_DIR_ENTRY
      /\ \A k \in DOMAIN dir : dir[k].name \in Names => dir[k].inode # RootInode
      /\ \A k \in 1 .. Len(dir) : dir[k] \in DirectoryEntry
  BY LenProperties DEF GoodDir
<1>2. p \in 1 .. Len(dir) /\ p \in Int
  BY <1>1
<1>3. /\ front \in Seq(DirectoryEntry) /\ Len(front) = p - 1
      /\ \A i \in 1 .. p - 1 : front[i] = dir[i]
  <2>1. 1 \in Int /\ p - 1 \in Int /\ \A i \in 1 .. p - 1 : dir[i] \in DirectoryEntry
    BY <1>1, <1>2
  <2>2. /\ front \in Seq(DirectoryEntry) /\ Len(front) = IF 1 <= p - 1 THEN p - 1 - 1 + 1 ELSE 0
        /\ \A i \in 1 .. p - 1 - 1 + 1 : front[i] = dir[1 + i - 1]
    BY ONLY <2>1, SubSeqProperties
  <2> HIDE DEF front
  <2> QED BY <1>2, <2>2
<1>4. /\ back \in Seq(DirectoryEntry) /\ Len(back) = Len(dir) - p
      /\ \A i \in 1 .. Len(dir) - p : back[i] = dir[p + i]
  <2>1. p + 1 \in Int /\ Len(dir) \in Int /\ \A i \in p + 1 .. Len(dir) : dir[i] \in DirectoryEntry
    BY <1>1, <1>2
  <2>2. /\ back \in Seq(DirectoryEntry) /\ Len(back) = IF p + 1 <= Len(dir) THEN Len(dir) - (p + 1) + 1 ELSE 0
        /\ \A i \in 1 .. Len(dir) - (p + 1) + 1 : back[i] = dir[p + 1 + i - 1]
    BY ONLY <2>1, SubSeqProperties
  <2> HIDE DEF back
  <2>3. Len(back) = Len(dir) - p
    BY ONLY <1>1, <1>2, <2>2
  <2>4. \A i \in 1 .. Len(dir) - p : i \in 1 .. Len(dir) - (p + 1) + 1 /\ p + 1 + i - 1 = p + i
    BY ONLY <1>1, <1>2
  <2>5. ASSUME NEW i \in 1 .. Len(dir) - p PROVE back[i] = dir[p + i]
    <3>1. back[i] = dir[p + 1 + i - 1] /\ p + 1 + i - 1 = p + i
      BY <2>2, <2>4
    <3> QED BY ONLY <3>1, Zenon
  <2> QED BY <2>2, <2>3, <2>5
<1> HIDE DEF front, back
<1>5. /\ front \o back \in Seq(DirectoryEntry) /\ Len(front \o back) = Len(dir) - 1
      /\ \A i \in 1 .. Len(dir) - 1 : (front \o back)[i] = IF i < p THEN dir[i] ELSE dir[i + 1]
  <2>1. /\ front \o back \in Seq(DirectoryEntry) /\ Len(front \o back) = Len(front) + Len(back)
        /\ \A i \in 1 .. Len(front) + Len(back) :
             (front \o back)[i] = IF i <= Len(front) THEN front[i] ELSE back[i - Len(front)]
    BY ONLY <1>3, <1>4, ConcatProperties
  <2>2. ASSUME NEW i \in 1 .. Len(dir) - 1
        PROVE  (front \o back)[i] = IF i < p THEN dir[i] ELSE dir[i + 1]
    <3>1. (front \o back)[i] = IF i <= p - 1 THEN front[i] ELSE back[i - (p - 1)]
      BY ONLY <1>1, <1>2, <1>3, <1>4, <2>1, i \in 1 .. Len(dir) - 1
    <3>2. CASE i < p
      BY <1>2, <1>3, <3>1, <3>2
    <3>3. CASE ~(i < p)
      <4>1. i - (p - 1) \in 1 .. Len(dir) - p /\ p + (i - (p - 1)) = i + 1 /\ ~(i <= p - 1)
        BY <1>1, <1>2, <3>3
      <4> QED BY <1>4, <3>1, <3>3, <4>1
    <3> QED BY <3>2, <3>3
  <2> QED BY <1>1, <1>2, <1>3, <1>4, <2>1, <2>2, SMTT(30)
<1>6. RemoveAt(dir, p) = front \o back
  BY DEF RemoveAt, front, back
<1>7. DOMAIN RemoveAt(dir, p) = 1 .. Len(dir) - 1
  BY <1>5, <1>6, LenProperties
<1>8. \A i \in 1 .. Len(dir) - 1 : i \in 1 .. Len(dir) /\ i + 1 \in 1 .. Len(dir)
  BY <1>1
<1>9. \A i \in 1 .. Len(dir) - 1 : RemoveAt(dir, p)[i] = dir[i] \/ RemoveAt(dir, p)[i] = dir[i + 1]
  BY <1>5, <1>6
<1>10. \A i \in 1 .. Len(dir) - 1 : RemoveAt(dir, p)[i].name \in Names => RemoveAt(dir, p)[i].inode # RootInode
  BY <1>1, <1>8, <1>9
<1>11. Len(dir) - 1 <= MAX_DIR_ENTRY
  <2>1. MAX_DIR_ENTRY \in Nat
    BY FileSystemAssumption DEF FileSystemAssumption
  <2> QED BY <1>1, <2>1
<1> QED BY <1>1, <1>5, <1>6, <1>7, <1>10, <1>11, ZenonT(60) DEF GoodDir

LEMMA EmptyGood == FileSystemAssumption => GoodDir(<< >>)
<1> SUFFICES ASSUME FileSystemAssumption PROVE GoodDir(<< >>)
  OBVIOUS
<1>1. MAX_DIR_ENTRY \in Nat
  BY FileSystemAssumption DEF FileSystemAssumption
<1>2. << >> \in Seq(DirectoryEntry) /\ Len(<< >>) = 0 /\ DOMAIN << >> = {}
  OBVIOUS
<1> QED BY <1>1, <1>2 DEF GoodDir

LEMMA BlockGood ==
  ASSUME FileSystemAssumption
  PROVE  /\ \A dir : GoodDir(dir) => GoodBlock(DirBlock(dir))
         /\ \A buf : GoodBlock(buf) => GoodDir(AsDirectory(buf))
         /\ GoodBlock(Zero) /\ GoodBlock(Garbage)
         /\ \A data, k : GoodBlock(DataBlock(data, k))
         /\ \A blocks : GoodBlock(MapBlock(blocks))
         /\ \A d, b, buf : GoodDisk(d) /\ GoodBlock(buf) => GoodBlock(read_disk_block(d, b, buf))
         /\ \A d, b, buf : GoodDisk(d) /\ GoodBlock(buf) => GoodDisk(write_disk_block(d, b, buf))
<1>1. \A dir : GoodDir(dir) => GoodBlock(DirBlock(dir))
  BY DEF GoodBlock, DirBlock
<1>2. \A buf : GoodBlock(buf) => GoodDir(AsDirectory(buf))
  BY FileSystemAssumption, EmptyGood DEF GoodBlock, AsDirectory
<1>3. GoodBlock(Zero) /\ GoodBlock(Garbage)
  BY DEF GoodBlock, Zero, Garbage
<1>4. /\ \A data, k : GoodBlock(DataBlock(data, k))
      /\ \A blocks : GoodBlock(MapBlock(blocks))
  BY DEF GoodBlock, DataBlock, MapBlock
<1>5. \A d, b, buf : GoodDisk(d) /\ GoodBlock(buf) => GoodBlock(read_disk_block(d, b, buf))
  BY DEF GoodDisk, read_disk_block
<1>6. \A d, b, buf : GoodDisk(d) /\ GoodBlock(buf) => GoodDisk(write_disk_block(d, b, buf))
  <2> SUFFICES ASSUME NEW d, NEW b, NEW buf, GoodDisk(d), GoodBlock(buf)
               PROVE  GoodDisk(write_disk_block(d, b, buf))
    OBVIOUS
  <2>1. CASE b \in Block
    <3>1. write_disk_block(d, b, buf) = [d EXCEPT ![b] = buf]
      BY <2>1 DEF write_disk_block
    <3>2. DOMAIN [d EXCEPT ![b] = buf] = Block
      BY DEF GoodDisk
    <3>3. \A c \in Block : [d EXCEPT ![b] = buf][c] = IF c = b THEN buf ELSE d[c]
      BY DEF GoodDisk
    <3> QED BY <3>1, <3>2, <3>3 DEF GoodDisk
  <2>2. CASE b \notin Block
    BY <2>2 DEF write_disk_block
  <2> QED BY <2>1, <2>2
<1> QED BY <1>1, <1>2, <1>3, <1>4, <1>5, <1>6

LEMMA Turns ==
  ASSUME FileSystemAssumption, NEW n \in Nat
  PROVE  /\ BlocksFor(n) \in Nat /\ (HasMap(n) => BlocksFor(n) = n + 1 /\ n > DIRECT)
         /\ (~HasMap(n) => BlocksFor(n) = n /\ n <= DIRECT)
         /\ (n # 0 => BlocksFor(n) # 0)
         /\ \A t \in 1 .. BlocksFor(n) : (t <= DIRECT => t \in 1 .. n) /\ (t > DIRECT + 1 => t - 1 \in 1 .. n)
         /\ \A t \in 1 .. BlocksFor(n) : t = DIRECT + 1 => HasMap(n)
<1>1. DIRECT \in Nat \ {0}
  BY FileSystemAssumption, Sizing
<1> QED BY ONLY <1>1, n \in Nat DEF BlocksFor, HasMap

(* What Filled() puts in the t-th of the blocks that were taken, and what  *)
(* it does to the others.                                                  *)
FilledWith(got, bytes, t) ==
  IF t <= DIRECT THEN bytes[t]
  ELSE IF t > DIRECT + 1 THEN bytes[t - 1]
  ELSE IF Len(got) = BlocksFor(Len(bytes))
  THEN MapBlock([k \in 1 .. Len(bytes) - DIRECT |-> got[Turn(DIRECT + k)]])
  ELSE disk[got[t]]

LEMMA FilledIs ==
  ASSUME FileSystemAssumption, NEW got \in Seq(Block), \A i, j \in DOMAIN got : got[i] = got[j] => i = j,
         NEW bytes
  PROVE  /\ DOMAIN Filled(got, bytes) = Block
         /\ \A b \in Block \ Range(got) : Filled(got, bytes)[b] = disk[b]
         /\ \A t \in DOMAIN got : Filled(got, bytes)[got[t]] = FilledWith(got, bytes, t)
<1> DEFINE what(b, t) == IF t <= DIRECT THEN bytes[t]
                ELSE IF t > DIRECT + 1 THEN bytes[t - 1]
                ELSE IF Len(got) = BlocksFor(Len(bytes))
                THEN MapBlock([k \in 1 .. Len(bytes) - DIRECT |-> got[Turn(DIRECT + k)]])
                ELSE disk[b]
           turn(b) == CHOOSE t \in DOMAIN got : got[t] = b
<1>1. Filled(got, bytes) = [b \in Block |-> IF b \notin Range(got) THEN disk[b] ELSE what(b, turn(b))]
  BY DEF Filled
<1>2. \A t \in DOMAIN got : got[t] \in Range(got) /\ got[t] \in Block /\ turn(got[t]) = t
  BY DEF Range
<1>3. \A t : what(got[t], t) = FilledWith(got, bytes, t)
  BY DEF FilledWith
<1> HIDE DEF what, turn
<1>4. \A t \in DOMAIN got : Filled(got, bytes)[got[t]] = what(got[t], t)
  BY <1>1, <1>2
<1>5. DOMAIN Filled(got, bytes) = Block /\ \A b \in Block \ Range(got) : Filled(got, bytes)[b] = disk[b]
  BY <1>1
<1> QED BY <1>3, <1>4, <1>5

LEMMA FilledGood ==
  ASSUME FileSystemAssumption, GoodDisk(disk), NEW n \in Nat,
         NEW got \in Seq(Block), \A i, j \in DOMAIN got : got[i] = got[j] => i = j, Len(got) <= BlocksFor(n),
         NEW bytes, \A k \in 1 .. n : GoodBlock(bytes[k])
  PROVE  GoodDisk(Filled(got, bytes))
<1>1. \A b \in Block \ Range(got) : GoodBlock(Filled(got, bytes)[b])
  BY FileSystemAssumption, FilledIs DEF GoodDisk
<1>2. ASSUME NEW t \in DOMAIN got PROVE GoodBlock(Filled(got, bytes)[got[t]])
  <2>1. t \in 1 .. Len(got) /\ t \in 1 .. BlocksFor(n)
    <3>1. t \in 1 .. Len(got) /\ Len(got) \in Nat
      BY LenProperties
    <3>2. BlocksFor(n) \in Nat
      BY FileSystemAssumption, Turns
    <3> QED BY ONLY <3>1, <3>2, Len(got) <= BlocksFor(n)
  <2>2. (t <= DIRECT => t \in 1 .. n) /\ (t > DIRECT + 1 => t - 1 \in 1 .. n)
    BY FileSystemAssumption, <2>1, Turns
  <2>3. GoodBlock(disk[got[t]])
    BY <2>1, ElementOfSeq DEF GoodDisk
  <2>4. \/ t <= DIRECT /\ Filled(got, bytes)[got[t]] = bytes[t]
        \/ t > DIRECT + 1 /\ Filled(got, bytes)[got[t]] = bytes[t - 1]
        \/ Filled(got, bytes)[got[t]] = MapBlock([k \in 1 .. Len(bytes) - DIRECT |-> got[Turn(DIRECT + k)]])
        \/ Filled(got, bytes)[got[t]] = disk[got[t]]
    <3>1. Filled(got, bytes)[got[t]] =
            IF t <= DIRECT THEN bytes[t]
            ELSE IF t > DIRECT + 1 THEN bytes[t - 1]
            ELSE IF Len(got) = BlocksFor(Len(bytes))
            THEN MapBlock([k \in 1 .. Len(bytes) - DIRECT |-> got[Turn(DIRECT + k)]])
            ELSE disk[got[t]]
      <4>1. Filled(got, bytes)[got[t]] = FilledWith(got, bytes, t)
        BY FileSystemAssumption, FilledIs
      <4> QED BY ONLY <4>1 DEF FilledWith
    <3> QED BY ONLY <3>1
  <2>5. \A blocks : GoodBlock(MapBlock(blocks))
    BY FileSystemAssumption, BlockGood
  <2> QED BY <2>2, <2>3, <2>4, <2>5
<1>3. \A b \in Range(got) : \E t \in DOMAIN got : b = got[t]
  BY DEF Range
<1>4. \A b \in Block : GoodBlock(Filled(got, bytes)[b])
  BY <1>1, <1>2, <1>3
<1> QED BY FileSystemAssumption, <1>4, FilledIs DEF GoodDisk

LEMMA NewInodeGood ==
  ASSUME FileSystemAssumption, NEW type \in {"file", "directory"}, NEW n \in Nat,
         NEW got \in Seq(Block), Len(got) = BlocksFor(n)
  PROVE  NewInode(type, n, got) \in GoodInode
<1>1. 0 \in Block /\ DIRECT \in Nat \ {0}
  BY FileSystemAssumption, Sizing
<1>2. \A k \in 1 .. BlocksFor(n) : got[k] \in Block
  BY LenProperties, ElementOfSeq
<1>3. HasMap(n) => got[DIRECT + 1] \in Block
  BY <1>1, <1>2, Turns, FileSystemAssumption
<1> DEFINE m == IF HasMap(n) THEN DIRECT ELSE n
           blocks == IF n = 0 THEN <<-1>> ELSE SubSeq(got, 1, m)
<1>4. m \in Nat /\ m <= BlocksFor(n) /\ (n # 0 => m # 0)
  <2>1. BlocksFor(n) \in Nat /\ (HasMap(n) => BlocksFor(n) = n + 1 /\ n > DIRECT) /\ (~HasMap(n) => BlocksFor(n) = n)
    BY Turns, FileSystemAssumption
  <2> QED BY ONLY <1>1, <2>1, n \in Nat
<1>5. n # 0 => SubSeq(got, 1, m) \in Seq(Block) /\ Len(SubSeq(got, 1, m)) = m
  <2> SUFFICES ASSUME n # 0 PROVE SubSeq(got, 1, m) \in Seq(Block) /\ Len(SubSeq(got, 1, m)) = m
    OBVIOUS
  <2> HIDE DEF m
  <2>1. 1 \in Int /\ m \in Int /\ \A k \in 1 .. m : got[k] \in Block
    BY <1>2, <1>4, Turns, FileSystemAssumption
  <2>2. SubSeq(got, 1, m) \in Seq(Block) /\ Len(SubSeq(got, 1, m)) = IF 1 <= m THEN m - 1 + 1 ELSE 0
    BY ONLY <2>1, SubSeqProperties
  <2> QED BY <1>4, <2>2
<1>6. blocks \in Seq(Block \cup {-1}) \ {<< >>}
  <2>1. CASE n = 0
    <3>1. <<-1>> \in Seq(Block \cup {-1}) /\ <<-1>> # << >>
      OBVIOUS
    <3> QED BY <2>1, <3>1
  <2>2. CASE n # 0
    <3> HIDE DEF m
    <3>1. SubSeq(got, 1, m) \in Seq(Block \cup {-1})
      <4>1. Block \subseteq Block \cup {-1}
        OBVIOUS
      <4> QED BY ONLY <1>5, <2>2, <4>1, SeqMonotonic
    <3>2. SubSeq(got, 1, m) # << >>
      <4>1. Len(SubSeq(got, 1, m)) # 0
        BY <1>4, <1>5, <2>2
      <4> QED BY <4>1, EmptySeq
    <3> QED BY <2>2, <3>1, <3>2
  <2> QED BY <2>1, <2>2
<1>7. NewInode(type, n, got) = [type |-> type, blockCount |-> n, linkCount |-> 1, directBlock |-> blocks,
                               indirectBlock |-> IF HasMap(n) THEN got[DIRECT + 1] ELSE 0]
  BY DEF NewInode
<1> HIDE DEF blocks
<1> QED BY <1>1, <1>3, <1>6, <1>7 DEF GoodInode

-----------------------------------------------------------------------------
(* The commands, in every session. *)

(* get_inode() does not give the root, and there is an inode to give. *)
LEMMA InodeGood ==
  ASSUME FileSystemAssumption, GoodMemory, ~InodesFull
  PROVE  get_inode \in FreeInodes /\ get_inode \in InodeNum /\ get_inode \notin inodeMap /\ get_inode # RootInode
<1>1. /\ superBlock.freeInodeCount = Cardinality(FreeInodes) /\ superBlock.freeInodeCount \in Nat
      /\ RootInode \in inodeMap
  BY DEF GoodMemory, GoodMaps, GoodRoot, FreeInodes
<1>2. superBlock.freeInodeCount # 0
  BY <1>1 DEF InodesFull
<1>3. FreeInodes # {}
  BY <1>1, <1>2, FS_EmptySet
<1>4. get_inode \in FreeInodes
  BY FileSystemAssumption, <1>3, GetOne
<1> QED BY <1>1, <1>4 DEF FreeInodes

LEMMA BlocksGood ==
  ASSUME FileSystemAssumption, GoodMemory, NEW n \in Nat, ~BlocksFull(n)
  PROVE  LET got == get_blocks(BlocksFor(n))
         IN  /\ got \in Seq(Block) /\ Len(got) <= BlocksFor(n)
             /\ \A i, j \in DOMAIN got : got[i] = got[j] => i = j
             /\ Range(got) \in SUBSET FreeBlocks /\ Cardinality(Range(got)) <= superBlock.freeBlockCount
<1> DEFINE got == get_blocks(BlocksFor(n))
<1>1. BlocksFor(n) \in Nat
  BY FileSystemAssumption, Turns
<1>2. /\ got \in Seq(FreeBlocks) /\ Len(got) <= BlocksFor(n)
      /\ \A i, j \in DOMAIN got : got[i] = got[j] => i = j
      /\ Range(got) \in SUBSET FreeBlocks /\ Cardinality(Range(got)) = Len(got)
  BY FileSystemAssumption, <1>1, GetBlocks
<1>3. got \in Seq(Block)
  BY <1>2, SeqMonotonic DEF FreeBlocks
<1>4. superBlock.freeBlockCount \in Nat /\ ~(BlocksFor(n) > superBlock.freeBlockCount)
  BY DEF GoodMemory, GoodMaps, BlocksFull
<1>5. Len(got) \in Nat
  BY <1>2, LenProperties
<1> HIDE DEF got
<1>6. Cardinality(Range(got)) <= superBlock.freeBlockCount
  BY ONLY <1>1, <1>2, <1>4, <1>5
<1> QED BY <1>2, <1>3, <1>6 DEF got

(* An inode other than the root's is written. *)
LEMMA RootKept ==
  ASSUME NEW inodes, NEW table, GoodRoot(inodes, table), NEW i \in InodeNum, NEW ino \in GoodInode,
         i # RootInode, NEW others, RootInode \in others
  PROVE  GoodRoot(others, [table EXCEPT ![i] = ino]) /\ GoodRoot(others, table)
BY DEF GoodRoot

LEMMA LinkCountGood ==
  ASSUME NEW ino \in GoodInode, NEW links \in Int
  PROVE  [ino EXCEPT !.linkCount = links] \in GoodInode
BY DEF GoodInode

LEMMA ZeroInodeGood == FileSystemAssumption => ZeroInode \in GoodInode
<1> SUFFICES ASSUME FileSystemAssumption PROVE ZeroInode \in GoodInode
  OBVIOUS
<1>1. <<0>> \in Seq(Block \cup {-1}) \ {<< >>} /\ 0 \in Block
  BY FileSystemAssumption, Sizing
<1> QED BY <1>1 DEF GoodInode, ZeroInode

LEMMA DirInodeGood ==
  ASSUME NEW ino \in GoodInode, NEW d \in Seq(Block \cup {-1}) \ {<< >>}
  PROVE  LET new == [ino EXCEPT !.type = "directory", !.blockCount = 1, !.directBlock = d]
         IN  new \in GoodInode /\ new.type = "directory" /\ new.blockCount = 1 /\ new.directBlock = d
BY DEF GoodInode

LEMMA CreateGood ==
  ASSUME FileSystemAssumption, GoodMemory, NEW name \in Name, NEW n \in Nat, NEW data, file_create(name, n, data)
  PROVE  GoodMemory'
<1> DEFINE got == get_blocks(BlocksFor(n))
           bytes == [k \in 1 .. n |-> DataBlock(data, k)]
           i == get_inode
<1>1. /\ ~DirFull /\ ~InodesFull /\ ~BlocksFull(n) /\ Take(Range(got), {i})
      /\ disk' = Filled(got, bytes)
      /\ inode' = IF Len(got) = BlocksFor(n) THEN [inode EXCEPT ![i] = NewInode("file", n, got)] ELSE inode
      /\ curDir' = Append(curDir, Entry(name, i)) /\ curDirInode' = curDirInode
  BY DEF file_create, AddEntry
<1>2. i \in FreeInodes /\ i \in InodeNum /\ i # RootInode
  BY FileSystemAssumption, <1>1, InodeGood
<1>3. /\ got \in Seq(Block) /\ Len(got) <= BlocksFor(n)
      /\ \A j, k \in DOMAIN got : got[j] = got[k] => j = k
      /\ Range(got) \in SUBSET FreeBlocks /\ Cardinality(Range(got)) <= superBlock.freeBlockCount
  BY FileSystemAssumption, <1>1, BlocksGood
<1>4. \A k \in 1 .. n : GoodBlock(bytes[k])
  BY FileSystemAssumption, BlockGood
<1> HIDE DEF got, bytes, i
<1>5. GoodMaps(superBlock', inodeMap', blockMap')
  <2>1. GoodMaps(superBlock, inodeMap, blockMap) /\ {i} \in SUBSET FreeInodes
    BY <1>2 DEF GoodMemory
  <2> QED BY FileSystemAssumption, <1>1, <1>3, <2>1, TakeKeeps
<1>6. RootInode \in inodeMap'
  BY <1>1 DEF GoodMemory, GoodRoot, Take
<1>7. GoodRoot(inodeMap', inode')
  <2>1. CASE Len(got) = BlocksFor(n)
    <3>1. NewInode("file", n, got) \in GoodInode
      BY FileSystemAssumption, <1>3, <2>1, NewInodeGood
    <3> QED BY <1>1, <1>2, <1>6, <2>1, <3>1, RootKept DEF GoodMemory
  <2>2. CASE Len(got) # BlocksFor(n)
    BY <1>1, <1>6, <2>2 DEF GoodMemory, GoodRoot
  <2> QED BY <2>1, <2>2
<1>8. GoodDir(curDir')
  <2>1. Entry(name, i) \in DirectoryEntry /\ Entry(name, i).inode = i
    BY <1>2 DEF Entry, DirectoryEntry
  <2>2. Len(curDir) + 1 <= MAX_DIR_ENTRY
    <3>1. Len(curDir) \in Nat /\ MAX_DIR_ENTRY \in Nat
      BY FileSystemAssumption, Sizing, LenProperties DEF GoodMemory, GoodDir
    <3> QED BY <1>1, <3>1 DEF DirFull
  <2> QED BY <1>1, <1>2, <2>1, <2>2, AppendGood DEF GoodMemory
<1>9. GoodDisk(disk')
  BY FileSystemAssumption, <1>1, <1>3, <1>4, FilledGood DEF GoodMemory
<1> QED BY <1>1, <1>5, <1>7, <1>8, <1>9 DEF GoodMemory

LEMMA CopyGood ==
  ASSUME FileSystemAssumption, GoodMemory, NEW src \in Name, NEW dest \in Name, file_copy(src, dest)
  PROVE  GoodMemory'
<1> DEFINE ino == InodeOf(src)
           n == ino.blockCount
           got == get_blocks(BlocksFor(n))
           bytes == file_cat(ino)
           i == get_inode
<1>1. /\ ~DirFull /\ ~InodesFull /\ ~BlocksFull(n) /\ Take(Range(got), {i}) /\ Exists(src)
      /\ disk' = Filled(got, bytes) /\ curDirInode' = curDirInode
      /\ \/ /\ Len(got) = BlocksFor(n)
            /\ inode' = [inode EXCEPT ![i] = NewInode(ino.type, n, got)]
            /\ curDir' = Append(curDir, Entry(dest, i))
         \/ inode' = inode /\ curDir' = curDir
  BY DEF file_copy, AddEntry
<1>2. i \in FreeInodes /\ i \in InodeNum /\ i # RootInode
  BY FileSystemAssumption, <1>1, InodeGood
<1>a. ino \in GoodInode /\ n \in Nat /\ ino.type \in {"file", "directory"}
  <2>1. search_cur_dir(src) \in InodeNum
    BY <1>1, SearchGood DEF GoodMemory
  <2> QED BY <2>1 DEF GoodMemory, GoodRoot, InodeOf, GoodInode
<1>3. /\ got \in Seq(Block) /\ Len(got) <= BlocksFor(n)
      /\ \A j, k \in DOMAIN got : got[j] = got[k] => j = k
      /\ Range(got) \in SUBSET FreeBlocks /\ Cardinality(Range(got)) <= superBlock.freeBlockCount
  BY FileSystemAssumption, <1>1, <1>a, BlocksGood
<1>4. \A k \in 1 .. n : GoodBlock(bytes[k])
  BY FileSystemAssumption, BlockGood DEF file_cat, BytesIn, GoodMemory
<1> HIDE DEF got, bytes, i, n, ino
<1>5. GoodMaps(superBlock', inodeMap', blockMap')
  <2>1. GoodMaps(superBlock, inodeMap, blockMap) /\ {i} \in SUBSET FreeInodes
    BY <1>2 DEF GoodMemory
  <2> QED BY FileSystemAssumption, <1>1, <1>3, <2>1, TakeKeeps
<1>6. RootInode \in inodeMap'
  BY <1>1 DEF GoodMemory, GoodRoot, Take
<1>7. GoodRoot(inodeMap', inode')
  <2>1. CASE Len(got) = BlocksFor(n) /\ inode' = [inode EXCEPT ![i] = NewInode(ino.type, n, got)]
    <3>1. NewInode(ino.type, n, got) \in GoodInode
      BY FileSystemAssumption, <1>3, <1>a, <2>1, NewInodeGood
    <3> QED BY <1>2, <1>6, <2>1, <3>1, RootKept DEF GoodMemory
  <2>2. CASE inode' = inode
    BY <1>6, <2>2 DEF GoodMemory, GoodRoot
  <2> QED BY <1>1, <2>1, <2>2
<1>8. GoodDir(curDir')
  <2>1. Entry(dest, i) \in DirectoryEntry /\ Entry(dest, i).inode = i
    BY <1>2 DEF Entry, DirectoryEntry
  <2>2. Len(curDir) + 1 <= MAX_DIR_ENTRY
    <3>1. Len(curDir) \in Nat /\ MAX_DIR_ENTRY \in Nat
      BY FileSystemAssumption, Sizing, LenProperties DEF GoodMemory, GoodDir
    <3> QED BY <1>1, <3>1 DEF DirFull
  <2>3. GoodDir(curDir) /\ GoodDir(Append(curDir, Entry(dest, i)))
    BY <1>2, <2>1, <2>2, AppendGood DEF GoodMemory
  <2> QED BY <1>1, <2>3
<1>9. GoodDisk(disk')
  BY FileSystemAssumption, <1>1, <1>3, <1>4, <1>a, FilledGood DEF GoodMemory
<1> QED BY <1>1, <1>5, <1>7, <1>8, <1>9 DEF GoodMemory

LEMMA LinkGood ==
  ASSUME FileSystemAssumption, GoodMemory, NEW src \in Name, NEW dest \in Name, hard_link(src, dest)
  PROVE  GoodMemory'
<1> DEFINE i == search_cur_dir(src)
<1>1. /\ Exists(src) /\ ~IsDir(src) /\ ~DirFull
      /\ inode' = [inode EXCEPT ![i].linkCount = @ + 1]
      /\ curDir' = Append(curDir, Entry(dest, i))
      /\ UNCHANGED <<maps, curDirInode, disk>>
  BY DEF hard_link, AddEntry
<1>2. i \in InodeNum
  BY <1>1, SearchGood DEF GoodMemory
<1>3. i # RootInode
  BY <1>1 DEF IsDir, InodeOf, GoodMemory, GoodRoot
<1>4. GoodMaps(superBlock', inodeMap', blockMap') /\ RootInode \in inodeMap'
  BY <1>1 DEF GoodMemory, GoodRoot, maps
<1> HIDE DEF i
<1>5. inode[i] \in GoodInode /\ [inode[i] EXCEPT !.linkCount = @ + 1] \in GoodInode
  <2>1. inode[i] \in GoodInode
    BY <1>2 DEF GoodMemory, GoodRoot
  <2>2. inode[i].linkCount \in Int
    BY <2>1 DEF GoodInode
  <2>3. inode[i].linkCount + 1 \in Int
    BY ONLY <2>2
  <2> QED BY <2>1, <2>3, LinkCountGood
<1>6. GoodRoot(inodeMap', inode')
  <2>1. inode' = [inode EXCEPT ![i] = [inode[i] EXCEPT !.linkCount = @ + 1]]
    BY <1>1, <1>2 DEF GoodMemory, GoodRoot
  <2> QED BY <1>2, <1>3, <1>4, <1>5, <2>1, RootKept DEF GoodMemory
<1>7. GoodDir(curDir')
  <2>1. Entry(dest, i) \in DirectoryEntry /\ Entry(dest, i).inode = i
    BY <1>2 DEF Entry, DirectoryEntry
  <2>2. Len(curDir) + 1 <= MAX_DIR_ENTRY
    <3>1. Len(curDir) \in Nat /\ MAX_DIR_ENTRY \in Nat
      BY FileSystemAssumption, Sizing, LenProperties DEF GoodMemory, GoodDir
    <3> QED BY <1>1, <3>1 DEF DirFull
  <2> QED BY <1>1, <1>3, <2>1, <2>2, AppendGood DEF GoodMemory
<1> QED BY <1>1, <1>4, <1>6, <1>7 DEF GoodMemory

LEMMA RemoveFileGood ==
  ASSUME FileSystemAssumption, GoodMemory, NEW name \in Name, file_remove(name)
  PROVE  GoodMemory'
<1> DEFINE i == search_cur_dir(name)
           p == Position(name)
           blocks == Freed(InodeOf(name))
<1>1. /\ Exists(name) /\ ~IsDir(name) /\ curDir' = RemoveAt(curDir, p)
      /\ \/ Free(blocks, {i}) /\ inode' = inode
         \/ inode' = [inode EXCEPT ![i].linkCount = @ - 1] /\ UNCHANGED maps
      /\ UNCHANGED <<curDirInode, disk>>
  BY DEF file_remove, RemoveEntry
<1>2. i \in InodeNum /\ p \in DOMAIN curDir
  BY <1>1, SearchGood DEF GoodMemory
<1>3. i # RootInode
  BY <1>1 DEF IsDir, InodeOf, GoodMemory, GoodRoot
<1> HIDE DEF i, p, blocks
<1>4. GoodDir(curDir')
  BY FileSystemAssumption, <1>1, <1>2, RemoveGood DEF GoodMemory
<1>5. CASE Free(blocks, {i}) /\ inode' = inode
  <2>1. GoodMaps(superBlock', inodeMap', blockMap')
    BY FileSystemAssumption, <1>5, FreeKeeps DEF GoodMemory
  <2>2. RootInode \in inodeMap'
    BY <1>3, <1>5 DEF Free, GoodMemory, GoodRoot
  <2>3. GoodRoot(inodeMap', inode')
    BY <1>5, <2>2 DEF GoodMemory, GoodRoot
  <2> QED BY <1>1, <1>4, <2>1, <2>3 DEF GoodMemory
<1>6. CASE inode' = [inode EXCEPT ![i].linkCount = @ - 1] /\ UNCHANGED maps
  <2>1. GoodMaps(superBlock', inodeMap', blockMap') /\ RootInode \in inodeMap'
    BY <1>6 DEF GoodMemory, GoodRoot, maps
  <2>2. inode[i] \in GoodInode /\ [inode[i] EXCEPT !.linkCount = @ - 1] \in GoodInode
    <3>1. inode[i] \in GoodInode
      BY <1>2 DEF GoodMemory, GoodRoot
    <3>2. inode[i].linkCount \in Int
      BY <3>1 DEF GoodInode
    <3>3. inode[i].linkCount - 1 \in Int
      BY ONLY <3>2
    <3> QED BY <3>1, <3>3, LinkCountGood
  <2>3. inode' = [inode EXCEPT ![i] = [inode[i] EXCEPT !.linkCount = @ - 1]]
    BY <1>6, <1>2 DEF GoodMemory, GoodRoot
  <2>4. GoodRoot(inodeMap', inode')
    BY <1>2, <1>3, <2>1, <2>2, <2>3, RootKept DEF GoodMemory
  <2> QED BY <1>1, <1>4, <2>1, <2>4 DEF GoodMemory
<1> QED BY <1>1, <1>5, <1>6

LEMMA MakeDirGood ==
  ASSUME FileSystemAssumption, GoodMemory, NEW name \in Name, dir_make(name)
  PROVE  GoodMemory'
<1> DEFINE block == get_block
           i == get_inode
           ino == [ZeroInode EXCEPT !.type = "directory", !.blockCount = 1, !.directBlock = <<block>>]
           new == DirBlock(<<Entry(".", i), Entry("..", curDir'[1].inode)>>)
<1>1. /\ ~MkdirRefused(name) /\ Take({block} \cap Block, {i}) /\ inode' = [inode EXCEPT ![i] = ino]
      /\ curDir' = Append(curDir, Entry(name, i)) /\ curDirInode' = curDirInode
      /\ disk' = write_disk_block(write_disk_block(disk, block, new), curDirInode, DirBlock(curDir'))
  BY DEF dir_make, AddEntry
<1>2. i \in FreeInodes /\ i \in InodeNum /\ i # RootInode
  BY FileSystemAssumption, <1>1, InodeGood DEF MkdirRefused
<1>3. block \in FreeBlocks \cup {-1} /\ (FreeBlocks = {} => block = -1)
  BY FileSystemAssumption, GetOne
<1> HIDE DEF i
<1>4. GoodDir(curDir')
  <2>1. Entry(name, i) \in DirectoryEntry /\ Entry(name, i).inode = i
    BY <1>2 DEF Entry, DirectoryEntry
  <2>2. Len(curDir) + 1 <= MAX_DIR_ENTRY
    <3>1. Len(curDir) \in Nat /\ MAX_DIR_ENTRY \in Nat
      BY FileSystemAssumption, Sizing, LenProperties DEF GoodMemory, GoodDir
    <3> QED BY <1>1, <3>1 DEF DirFull, MkdirRefused
  <2> QED BY <1>1, <1>2, <2>1, <2>2, AppendGood DEF GoodMemory
<1>5. curDir'[1].inode \in InodeNum
  <2>1. curDir \in Seq(DirectoryEntry) /\ Len(curDir) \in Nat /\ Entry(name, i) \in DirectoryEntry
    BY <1>2, LenProperties DEF GoodMemory, GoodDir, Entry, DirectoryEntry
  <2>2. curDir' \in Seq(DirectoryEntry) /\ Len(curDir') = Len(curDir) + 1
    BY <1>1, <2>1, AppendProperties
  <2>3. 1 \in 1 .. Len(curDir')
    BY <2>1, <2>2
  <2>4. curDir'[1] \in DirectoryEntry
    BY <2>2, <2>3, ElementOfSeq
  <2> QED BY <2>4 DEF DirectoryEntry
<1>6. GoodBlock(new)
  <2> DEFINE dots == <<Entry(".", i), Entry("..", curDir'[1].inode)>>
  <2>1. Entry(".", i) \in DirectoryEntry /\ Entry("..", curDir'[1].inode) \in DirectoryEntry
    BY <1>2, <1>5 DEF Entry, DirectoryEntry, Name
  <2>2. dots \in Seq(DirectoryEntry) /\ Len(dots) = 2 /\ DOMAIN dots = {1, 2}
    BY <2>1
  <2>3. dots[1].name = "." /\ dots[2].name = ".."
    BY DEF Entry
  <2>4. "." \notin Names /\ ".." \notin Names /\ 2 <= MAX_DIR_ENTRY
    BY FileSystemAssumption, Sizing
  <2>5. GoodDir(dots)
    <3> HIDE DEF dots
    <3> QED BY <2>2, <2>3, <2>4 DEF GoodDir
  <2> QED BY FileSystemAssumption, <2>5, BlockGood
<1>7. ino \in GoodInode
  <2>1. block \in Block \cup {-1}
    BY <1>3 DEF FreeBlocks
  <2> HIDE DEF block
  <2>2. <<block>> \in Seq(Block \cup {-1}) \ {<< >>}
    BY <2>1
  <2> QED BY <2>2, FileSystemAssumption, ZeroInodeGood, DirInodeGood
<1> HIDE DEF block, i, ino, new
<1>8. GoodMaps(superBlock', inodeMap', blockMap')
  <2> DEFINE B == {block} \cap Block
  <2>1. /\ superBlock.freeBlockCount \in Nat /\ Cardinality(FreeBlocks) \in Nat
        /\ superBlock.freeBlockCount >= Cardinality(FreeBlocks) /\ IsFiniteSet(FreeBlocks)
    BY FileSystemAssumption, Finite, FS_CardinalityType, FS_Difference DEF GoodMemory, GoodMaps, FreeBlocks
  <2>2. B \in SUBSET FreeBlocks
    <3>1. -1 \notin Block
      BY DEF Block
    <3> QED BY <1>3, <3>1
  <2>3. Cardinality(B) <= Cardinality(FreeBlocks) /\ IsFiniteSet(B)
    <3> HIDE DEF B
    <3> QED BY <2>1, <2>2, FS_Subset
  <2>4. Cardinality(B) \in Nat
    BY <2>3, FS_CardinalityType
  <2> HIDE DEF B
  <2>5. Cardinality(B) <= superBlock.freeBlockCount
    BY ONLY <2>1, <2>3, <2>4
  <2>6. GoodMaps(superBlock, inodeMap, blockMap) /\ {i} \in SUBSET FreeInodes /\ Take(B, {i})
    BY <1>1, <1>2 DEF GoodMemory, B
  <2> QED BY FileSystemAssumption, <2>2, <2>5, <2>6, TakeKeeps
<1>9. RootInode \in inodeMap'
  BY <1>1 DEF GoodMemory, GoodRoot, Take
<1>10. GoodRoot(inodeMap', inode')
  BY <1>1, <1>2, <1>7, <1>9, RootKept DEF GoodMemory
<1>11. GoodDisk(disk')
  <2>1. GoodBlock(DirBlock(curDir'))
    BY FileSystemAssumption, <1>4, BlockGood
  <2>2. GoodDisk(write_disk_block(disk, block, new))
    BY FileSystemAssumption, <1>6, BlockGood DEF GoodMemory
  <2> QED BY FileSystemAssumption, <1>1, <2>1, <2>2, BlockGood
<1> QED BY <1>1, <1>8, <1>10, <1>4, <1>11 DEF GoodMemory

LEMMA MakeDirFailsGood ==
  ASSUME FileSystemAssumption, GoodMemory, NEW name \in Name, dir_make_fails(name)
  PROVE  GoodMemory' /\ leaked' \subseteq leaked \cup Block
<1> DEFINE block == get_block
<1>1. /\ block # -1 /\ Take({block}, {}) /\ leaked' = leaked \cup {block}
      /\ UNCHANGED <<inode, curDir, curDirInode, disk>>
  BY DEF dir_make_fails
<1>2. block \in FreeBlocks
  BY FileSystemAssumption, <1>1, GetOne
<1> HIDE DEF block
<1>3. GoodMaps(superBlock', inodeMap', blockMap')
  <2>1. /\ superBlock.freeBlockCount \in Nat /\ Cardinality(FreeBlocks) \in Nat
        /\ superBlock.freeBlockCount >= Cardinality(FreeBlocks) /\ IsFiniteSet(FreeBlocks)
    BY FileSystemAssumption, Finite, FS_CardinalityType, FS_Difference DEF GoodMemory, GoodMaps, FreeBlocks
  <2>2. Cardinality({block}) = 1 /\ {block} \in SUBSET FreeBlocks
    BY <1>2, FS_Singleton
  <2>3. Cardinality(FreeBlocks) # 0
    BY <1>2, <2>1, FS_EmptySet
  <2>4. Cardinality({block}) <= superBlock.freeBlockCount
    BY ONLY <2>1, <2>2, <2>3
  <2>5. GoodMaps(superBlock, inodeMap, blockMap) /\ {} \in SUBSET FreeInodes
    BY DEF GoodMemory
  <2> QED BY FileSystemAssumption, <1>1, <2>2, <2>4, <2>5, TakeKeeps
<1>4. RootInode \in inodeMap'
  BY <1>1 DEF GoodMemory, GoodRoot, Take
<1> QED BY <1>1, <1>2, <1>3, <1>4 DEF GoodMemory, GoodRoot, FreeBlocks

LEMMA RemoveDirGood ==
  ASSUME FileSystemAssumption, GoodMemory, NEW name \in Name, dir_remove(name)
  PROVE  GoodMemory'
<1> DEFINE i == search_cur_dir(name)
           p == Position(name)
           blocks == Range(InodeOf(name).directBlock)
<1>1. /\ Exists(name) /\ name \in Names /\ curDir' = RemoveAt(curDir, p) /\ Free(blocks, {i})
      /\ UNCHANGED <<inode, curDirInode, disk>>
  BY DEF dir_remove, RemoveEntry, IsDir, Name
<1>2. i # RootInode /\ p \in DOMAIN curDir
  BY <1>1, SearchGood DEF GoodMemory
<1> HIDE DEF i, p, blocks
<1>3. GoodDir(curDir')
  BY FileSystemAssumption, <1>1, <1>2, RemoveGood DEF GoodMemory
<1>4. GoodMaps(superBlock', inodeMap', blockMap')
  BY FileSystemAssumption, <1>1, FreeKeeps DEF GoodMemory
<1>5. RootInode \in inodeMap'
  BY <1>1, <1>2 DEF Free, GoodMemory, GoodRoot
<1> QED BY <1>1, <1>3, <1>4, <1>5 DEF GoodMemory, GoodRoot

LEMMA ChangeGood ==
  ASSUME FileSystemAssumption, GoodMemory, NEW inodeNum \in InodeNum, ChangeTo(inodeNum)
  PROVE  GoodMemory'
<1> DEFINE written == write_disk_block(disk, FirstBlock(inode[curDirInode]), DirBlock(curDir))
           loaded  == read_disk_block(written, FirstBlock(inode[inodeNum]), DirBlock(curDir))
<1>1. /\ disk' = written /\ (curDir' = AsDirectory(loaded) \/ curDir' = curDir)
      /\ curDirInode' = inodeNum /\ UNCHANGED <<maps, inode>>
  BY DEF ChangeTo
<1>2. GoodBlock(DirBlock(curDir))
  BY FileSystemAssumption, BlockGood DEF GoodMemory
<1>3. GoodDisk(written)
  BY FileSystemAssumption, <1>2, BlockGood DEF GoodMemory
<1>4. GoodBlock(loaded)
  <2> HIDE DEF written
  <2> QED BY FileSystemAssumption, <1>2, <1>3, BlockGood
<1> HIDE DEF written, loaded
<1>5. GoodDir(curDir')
  <2>1. GoodDir(AsDirectory(loaded)) /\ GoodDir(curDir)
    BY FileSystemAssumption, <1>4, BlockGood DEF GoodMemory
  <2> QED BY <1>1, <2>1
<1> QED BY <1>1, <1>3, <1>5 DEF GoodMemory, maps, GoodRoot

LEMMA ChangeDirGood ==
  ASSUME FileSystemAssumption, GoodMemory, NEW name \in Name, dir_change(name)
  PROVE  GoodMemory' /\ session' \in {session, "wild"} /\ leaked' = leaked /\ astray' = TRUE
<1>1. EntryInode(2) \in InodeNum
  <2>1. curDir \in Seq(DirectoryEntry)
    BY DEF GoodMemory, GoodDir
  <2>2. ASSUME 2 \in DOMAIN curDir PROVE curDir[2] \in DirectoryEntry
    BY <2>1, <2>2, LenProperties, ElementOfSeq
  <2> QED BY <2>2, FileSystemAssumption, Sizing DEF EntryInode, DirectoryEntry, RootInode
<1>2. PICK inodeNum \in InodeNum : ChangeTo(inodeNum)
  <2>1. CASE name = ".." /\ ChangeTo(EntryInode(2))
    BY <1>1, <2>1
  <2>2. CASE Exists(name) /\ ChangeTo(search_cur_dir(name))
    BY <2>2, SearchGood DEF GoodMemory
  <2> QED BY <2>1, <2>2 DEF dir_change
<1>3. GoodMemory'
  BY FileSystemAssumption, <1>2, ChangeGood
<1>4. session' \in {session, "wild"} /\ leaked' = leaked /\ astray' = TRUE
  BY <1>2 DEF ChangeTo
<1> QED BY <1>3, <1>4

-----------------------------------------------------------------------------
(* What is read from an image that was written. *)

LEMMA InodeAt ==
  ASSUME FileSystemAssumption, NEW k \in InodeNum
  PROVE  /\ k \div INODES_PER_BLOCK \in 0 .. numInodeBlock - 1
         /\ (k % INODES_PER_BLOCK) \in 0 .. INODES_PER_BLOCK - 1
         /\ (k \div INODES_PER_BLOCK) * INODES_PER_BLOCK + (k % INODES_PER_BLOCK) = k
         /\ 3 + (k \div INODES_PER_BLOCK) \in Block
<1>1. /\ INODES_PER_BLOCK \in Nat \ {0} /\ numInodeBlock \in Nat /\ MAX_INODE = numInodeBlock * INODES_PER_BLOCK
      /\ MetaBlocks = 3 + numInodeBlock /\ MetaBlocks < MAX_BLOCK /\ MAX_BLOCK \in Nat
  BY FileSystemAssumption, Sizing
<1>2. k \in Nat /\ k < MAX_INODE
  BY FileSystemAssumption, Sizing DEF InodeNum
<1>3. PICK q \in Nat, r \in 0 .. INODES_PER_BLOCK - 1 :
        q = k \div INODES_PER_BLOCK /\ r = k % INODES_PER_BLOCK /\ q * INODES_PER_BLOCK + r = k
  <2>1. /\ k \div INODES_PER_BLOCK \in Nat /\ (k % INODES_PER_BLOCK) \in 0 .. INODES_PER_BLOCK - 1
        /\ (k \div INODES_PER_BLOCK) * INODES_PER_BLOCK + (k % INODES_PER_BLOCK) = k
    BY ONLY <1>1, <1>2
  <2> QED BY <2>1
<1>4. q * INODES_PER_BLOCK + r < numInodeBlock * INODES_PER_BLOCK
  BY <1>1, <1>2, <1>3
<1>5. q < numInodeBlock
  BY ONLY <1>1, <1>4, q \in Nat, r \in 0 .. INODES_PER_BLOCK - 1
<1> QED BY <1>1, <1>3, <1>5 DEF Block

(* The kinds of block that the program reads. *)
LEMMA SavedDisk ==
  ASSUME FileSystemAssumption, GoodDisk(disk), curDirInode \in InodeNum
  PROVE  /\ \A b \in Block : b = curDirInode => DiskToSave[b] = DirBlock(curDir)
         /\ \A b \in Block : b # curDirInode /\ b < MetaBlocks => DiskToSave[b] = MetaBlock(b)
         /\ \A b \in Block : b # curDirInode /\ ~(b < MetaBlocks) => DiskToSave[b] = disk[b]
<1> DEFINE meta == [b \in Block |-> IF b < MetaBlocks THEN MetaBlock(b) ELSE disk[b]]
<1>1. DiskToSave = IF curDirInode \in Block THEN [meta EXCEPT ![curDirInode] = DirBlock(curDir)] ELSE meta
  BY DEF DiskToSave, DiskWithMeta, write_disk_block
<1>2. \A b \in Block : meta[b] = IF b < MetaBlocks THEN MetaBlock(b) ELSE disk[b]
  OBVIOUS
<1>3. DOMAIN meta = Block
  OBVIOUS
<1> HIDE DEF meta
<1>4. \A b \in Block : b = curDirInode => DiskToSave[b] = DirBlock(curDir)
  BY <1>1, <1>3
<1>5. \A b \in Block : b # curDirInode => DiskToSave[b] = meta[b]
  BY <1>1, <1>3
<1> QED BY <1>2, <1>4, <1>5

LEMMA MetaBlockIs ==
  ASSUME FileSystemAssumption
  PROVE  /\ MetaBlock(0) = [kind |-> "super", super |-> superBlock]
         /\ MetaBlock(1) = [kind |-> "inodeMap", map |-> inodeMap]
         /\ MetaBlock(2) = [kind |-> "blockMap", map |-> blockMap]
         /\ \A b \in 3 .. MetaBlocks - 1 : MetaBlock(b) = InodeBlock(b - 3)
         /\ \A b \in 0 .. MetaBlocks - 1 : GoodBlock(MetaBlock(b)) /\ MetaBlock(b).kind # "directory"
<1>1. /\ MetaBlock(0) = [kind |-> "super", super |-> superBlock]
      /\ MetaBlock(1) = [kind |-> "inodeMap", map |-> inodeMap]
      /\ MetaBlock(2) = [kind |-> "blockMap", map |-> blockMap]
  BY DEF MetaBlock
<1>2. \A b \in 3 .. MetaBlocks - 1 : MetaBlock(b) = InodeBlock(b - 3)
  <2> SUFFICES ASSUME NEW b \in 3 .. MetaBlocks - 1 PROVE MetaBlock(b) = InodeBlock(b - 3)
    OBVIOUS
  <2>1. MetaBlocks \in Nat
    BY FileSystemAssumption, Sizing
  <2>2. b # 0 /\ b # 1 /\ b # 2
    BY <2>1
  <2> QED BY <2>2 DEF MetaBlock
<1>3. \A b \in 0 .. MetaBlocks - 1 : MetaBlock(b).kind # "directory"
  <2> SUFFICES ASSUME NEW b \in 0 .. MetaBlocks - 1 PROVE MetaBlock(b).kind # "directory"
    OBVIOUS
  <2>1. b = 0 \/ b = 1 \/ b = 2 \/ b \in 3 .. MetaBlocks - 1
    BY FileSystemAssumption, Sizing
  <2>2. \A j : InodeBlock(j).kind = "inodes"
    BY DEF InodeBlock
  <2> QED BY <1>1, <1>2, <2>1, <2>2
<1> QED BY <1>1, <1>2, <1>3 DEF GoodBlock

(* The disk that the next process mounts, after the first n blocks of the  *)
(* image were written.                                                     *)
LEMMA WrittenDisk ==
  ASSUME FileSystemAssumption, NEW n \in 0 .. MAX_BLOCK, disk_umount(n)
  PROVE  /\ image'.blocks \in [1 .. n -> Range(image'.blocks)] /\ Len(image'.blocks) = n
         /\ DOMAIN ImageDisk' = Block
         /\ \A b \in Block : b < n => ImageDisk'[b] = DiskToSave[b]
         /\ \A b \in Block : ~(b < n) => ImageDisk'[b] = Zero
         /\ image'.exists = TRUE /\ image'.astray = (astray \/ n < MAX_BLOCK) /\ image'.leaked = leaked
         /\ image'.at = curDirInode
<1> DEFINE blocks == [k \in 1 .. n |-> DiskToSave[k - 1]]
<1>1. image' = [blocks |-> blocks, exists |-> TRUE, at |-> curDirInode, astray |-> (astray \/ n < MAX_BLOCK), leaked |-> leaked]
  BY DEF disk_umount
<1>2. /\ image'.blocks = blocks /\ image'.exists = TRUE /\ image'.astray = (astray \/ n < MAX_BLOCK)
      /\ image'.leaked = leaked /\ image'.at = curDirInode
  BY <1>1
<1>a. blocks \in [1 .. n -> Range(blocks)]
  BY DEF Range
<1>3. n \in Nat /\ MAX_BLOCK \in Nat
  BY FileSystemAssumption, Sizing
<1>4. DOMAIN blocks = 1 .. n /\ Len(blocks) = n
  BY <1>3
<1>5. ASSUME NEW b \in Block PROVE b < n => blocks[b + 1] = DiskToSave[b]
  <2> SUFFICES ASSUME b < n PROVE blocks[b + 1] = DiskToSave[b]
    OBVIOUS
  <2>1. b \in Nat
    BY <1>3 DEF Block
  <2>2. b + 1 \in 1 .. n /\ (b + 1) - 1 = b
    BY <1>3, <2>1
  <2>3. blocks[b + 1] = DiskToSave[(b + 1) - 1]
    BY <2>2
  <2> QED BY ONLY <2>2, <2>3, Zenon
<1> HIDE DEF blocks
<1>6. ImageDisk' = [b \in Block |-> IF b < Len(image'.blocks) THEN image'.blocks[b + 1] ELSE Zero]
  BY DEF ImageDisk
<1>7. ImageDisk' = [b \in Block |-> IF b < n THEN blocks[b + 1] ELSE Zero]
  BY <1>2, <1>4, <1>6
<1> QED BY <1>2, <1>4, <1>5, <1>7, <1>a

(* If the image can be mounted, the blocks that hold the maps and the root *)
(* were written and not overwritten by the current directory.              *)
LEMMA MountableSaved ==
  ASSUME FileSystemAssumption, GoodMemory, NEW n \in 0 .. MAX_BLOCK, disk_umount(n), Mountable'
  PROVE  /\ ImageSuper' = superBlock /\ ImageInodeMap' = inodeMap /\ ImageBlockMap' = blockMap
         /\ DOMAIN ImageInode' = InodeNum /\ \A k \in InodeNum : ImageInode'[k] \in {inode[k], ZeroInode}
         /\ ImageInode'[RootInode] = inode[RootInode]
<1>1. /\ \A b \in Block : b < n => ImageDisk'[b] = DiskToSave[b]
      /\ \A b \in Block : ~(b < n) => ImageDisk'[b] = Zero
  BY FileSystemAssumption, WrittenDisk
<1>2. /\ MAX_BLOCK \in Nat /\ numInodeBlock \in Nat \ {0} /\ MetaBlocks = 3 + numInodeBlock /\ MetaBlocks < MAX_BLOCK
      /\ RootInode \in InodeNum /\ INODES_PER_BLOCK \in Nat \ {0} /\ n \in Nat
  BY FileSystemAssumption, Sizing
<1>3. \A b \in 0 .. MetaBlocks - 1 : b \in Block /\ b \in Nat /\ b < MetaBlocks
  BY <1>2 DEF Block
<1>4. \A b \in 0 .. MetaBlocks - 1 :
        \/ b < n /\ b = curDirInode /\ ImageDisk'[b] = DirBlock(curDir)
        \/ b < n /\ b # curDirInode /\ ImageDisk'[b] = MetaBlock(b)
        \/ ~(b < n) /\ ImageDisk'[b] = Zero
  BY FileSystemAssumption, <1>1, <1>3, SavedDisk DEF GoodMemory
<1>5. /\ ImageDisk'[0].kind = "super"
      /\ ImageDisk'[1].kind \in {"inodeMap", "zero"}
      /\ ImageDisk'[2].kind \in {"blockMap", "zero"}
      /\ \A b \in 3 .. MetaBlocks - 1 : ImageDisk'[b].kind \in {"inodes", "zero"}
      /\ IsDirectory(ImageDisk'[FirstBlock(ImageInode'[RootInode])])
  BY DEF Mountable, ImageIntact
<1>6. DirBlock(curDir).kind = "directory" /\ Zero.kind = "zero"
  BY DEF DirBlock, Zero
<1>7. 0 \in 0 .. MetaBlocks - 1 /\ 1 \in 0 .. MetaBlocks - 1 /\ 2 \in 0 .. MetaBlocks - 1 /\ 3 \in 0 .. MetaBlocks - 1 /\ 3 \in 3 .. MetaBlocks - 1
  BY <1>2
<1>8. /\ DOMAIN ImageInode' = InodeNum
      /\ \A k \in InodeNum :
           ImageInode'[k] =
             IF ImageDisk'[3 + (k \div INODES_PER_BLOCK)].kind = "zero" THEN ZeroInode
             ELSE ImageDisk'[3 + (k \div INODES_PER_BLOCK)].inodes[k % INODES_PER_BLOCK]
  BY DEF ImageInode
<1>9. 3 < n /\ 3 # curDirInode
  <2>1. 3 + (RootInode \div INODES_PER_BLOCK) = 3
    BY <1>2 DEF RootInode
  <2>2. ImageDisk'[3] # Zero
    <3> SUFFICES ASSUME ImageDisk'[3] = Zero PROVE FALSE
      OBVIOUS
    <3>1. ImageInode'[RootInode] = ZeroInode
      BY <1>2, <1>6, <1>8, <2>1
    <3>2. FirstBlock(ZeroInode) = 0
      BY DEF FirstBlock, ZeroInode
    <3>3. ImageDisk'[0].kind \in {"directory", "zero"}
      BY <1>5, <3>1, <3>2 DEF IsDirectory
    <3> QED BY <1>5, <3>3
  <2> QED BY <1>4, <1>5, <1>6, <1>7, <2>2
<1>10. 0 < n /\ 1 < n /\ 2 < n
  BY <1>9, <1>2
<1>11. ImageDisk'[0] = MetaBlock(0) /\ ImageDisk'[1] = MetaBlock(1) /\ ImageDisk'[2] = MetaBlock(2)
  BY <1>4, <1>5, <1>6, <1>7, <1>10
<1>12. ImageSuper' = superBlock /\ ImageInodeMap' = inodeMap /\ ImageBlockMap' = blockMap
  BY FileSystemAssumption, <1>11, MetaBlockIs DEF ImageSuper, ImageInodeMap, ImageBlockMap, AsMap
<1>13. \A b \in 3 .. MetaBlocks - 1 : ImageDisk'[b] = Zero \/ ImageDisk'[b] = InodeBlock(b - 3)
  <2> SUFFICES ASSUME NEW b \in 3 .. MetaBlocks - 1 PROVE ImageDisk'[b] = Zero \/ ImageDisk'[b] = InodeBlock(b - 3)
    OBVIOUS
  <2>1. b \in 0 .. MetaBlocks - 1
    BY <1>2
  <2> QED BY FileSystemAssumption, <1>4, <1>5, <1>6, <2>1, MetaBlockIs
<1>14. ImageDisk'[3] = InodeBlock(0)
  <2>1. ImageDisk'[3] = MetaBlock(3)
    BY <1>4, <1>7, <1>9
  <2>2. MetaBlock(3) = InodeBlock(3 - 3) /\ 3 - 3 = 0
    BY FileSystemAssumption, <1>7, MetaBlockIs
  <2> QED BY <2>1, <2>2
<1>15. \A k \in InodeNum : InodeBlock(k \div INODES_PER_BLOCK).inodes[k % INODES_PER_BLOCK] = inode[k]
  <2> SUFFICES ASSUME NEW k \in InodeNum
               PROVE  InodeBlock(k \div INODES_PER_BLOCK).inodes[k % INODES_PER_BLOCK] = inode[k]
    OBVIOUS
  <2>1. /\ (k % INODES_PER_BLOCK) \in 0 .. INODES_PER_BLOCK - 1
        /\ (k \div INODES_PER_BLOCK) * INODES_PER_BLOCK + (k % INODES_PER_BLOCK) = k
    BY FileSystemAssumption, InodeAt
  <2>2. \A j, r : r \in 0 .. INODES_PER_BLOCK - 1 => InodeBlock(j).inodes[r] = inode[j * INODES_PER_BLOCK + r]
    BY DEF InodeBlock
  <2>3. InodeBlock(k \div INODES_PER_BLOCK).inodes[k % INODES_PER_BLOCK] =
          inode[(k \div INODES_PER_BLOCK) * INODES_PER_BLOCK + (k % INODES_PER_BLOCK)]
    BY ONLY <2>1, <2>2
  <2> QED BY ONLY <2>1, <2>3, Zenon
<1>16. \A k \in InodeNum : ImageInode'[k] \in {inode[k], ZeroInode}
  <2> SUFFICES ASSUME NEW k \in InodeNum PROVE ImageInode'[k] \in {inode[k], ZeroInode}
    OBVIOUS
  <2> DEFINE q == k \div INODES_PER_BLOCK
             r == k % INODES_PER_BLOCK
  <2>1. q \in 0 .. numInodeBlock - 1
    BY FileSystemAssumption, InodeAt
  <2>2. InodeBlock(q).inodes[r] = inode[k]
    BY <1>15
  <2>3. ImageInode'[k] = IF ImageDisk'[3 + q].kind = "zero" THEN ZeroInode ELSE ImageDisk'[3 + q].inodes[r]
    BY <1>8
  <2> HIDE DEF q, r
  <2>4. 3 + q \in 3 .. MetaBlocks - 1 /\ (3 + q) - 3 = q
    BY <1>2, <2>1
  <2>5. ImageDisk'[3 + q] = Zero \/ ImageDisk'[3 + q] = InodeBlock(q)
    BY <1>13, <2>4
  <2> QED BY <1>6, <2>2, <2>3, <2>5
<1>17. ImageInode'[RootInode] = inode[RootInode]
  <2>1. (RootInode \div INODES_PER_BLOCK) = 0 /\ 3 + (RootInode \div INODES_PER_BLOCK) = 3
    BY <1>2 DEF RootInode
  <2>2. InodeBlock(0).kind = "inodes" /\ InodeBlock(0).inodes[RootInode % INODES_PER_BLOCK] = inode[RootInode]
    BY <1>2, <1>15, <2>1 DEF InodeBlock
  <2>3. ImageInode'[RootInode] =
             IF ImageDisk'[3].kind = "zero" THEN ZeroInode
             ELSE ImageDisk'[3].inodes[RootInode % INODES_PER_BLOCK]
    BY <1>2, <1>8, <2>1
  <2> QED BY <1>14, <2>2, <2>3
<1> QED BY <1>8, <1>12, <1>16, <1>17

(* What holds of an image is about the image alone. *)
LEMMA ImageKept ==
  ASSUME GoodImage, image' = image
  PROVE  GoodImage'
<1>1. ImageDisk' = ImageDisk
  BY DEF ImageDisk
<1>2. ImageInode' = ImageInode
  BY <1>1 DEF ImageInode
<1>3. Mountable' = Mountable
  BY <1>1, <1>2 DEF Mountable, ImageIntact
<1>4. ImageSuper' = ImageSuper /\ ImageInodeMap' = ImageInodeMap /\ ImageBlockMap' = ImageBlockMap
  BY <1>1 DEF ImageSuper, ImageInodeMap, ImageBlockMap
<1> QED BY <1>1, <1>2, <1>3, <1>4 DEF GoodImage

LEMMA UnmountGood ==
  ASSUME FileSystemAssumption, GoodFlags, GoodMemory, fs_umount
  PROVE  GoodFlags' /\ GoodImage' /\ Zeroed' /\ session' = "none"
<1>1. Zeroed' /\ session' = "none"
  BY DEF fs_umount, Ended, Zeroed
<1>2. PICK n \in 0 .. MAX_BLOCK : disk_umount(n)
  <2>1. MAX_BLOCK \in Nat /\ Torn \subseteq 0 .. MAX_BLOCK - 1
    BY FileSystemAssumption DEF FileSystemAssumption
  <2>2. PICK n \in {MAX_BLOCK} \cup IF Kills THEN Torn ELSE {} : disk_umount(n)
    BY DEF fs_umount
  <2>3. n \in 0 .. MAX_BLOCK
    BY <2>1
  <2> QED BY <2>2, <2>3
<1>3. /\ image'.blocks \in [1 .. n -> Range(image'.blocks)]
      /\ \A b \in Block : b < n => ImageDisk'[b] = DiskToSave[b]
      /\ \A b \in Block : ~(b < n) => ImageDisk'[b] = Zero
      /\ image'.exists = TRUE /\ image'.astray \in BOOLEAN /\ image'.leaked = leaked
  BY FileSystemAssumption, <1>2, WrittenDisk
<1>4. astray' = image'.astray /\ leaked' = leaked
  BY <1>2 DEF disk_umount
<1>5. GoodFlags'
  BY <1>1, <1>3, <1>4 DEF GoodFlags
<1>6. \A b \in Block : GoodBlock(DiskToSave[b])
  <2> SUFFICES ASSUME NEW b \in Block PROVE GoodBlock(DiskToSave[b])
    OBVIOUS
  <2>1. \/ DiskToSave[b] = DirBlock(curDir)
        \/ b < MetaBlocks /\ DiskToSave[b] = MetaBlock(b)
        \/ DiskToSave[b] = disk[b]
    BY FileSystemAssumption, SavedDisk DEF GoodMemory
  <2>2. GoodBlock(DirBlock(curDir)) /\ GoodBlock(disk[b])
    BY FileSystemAssumption, BlockGood DEF GoodMemory, GoodDisk
  <2>3. b < MetaBlocks => b \in 0 .. MetaBlocks - 1
    BY FileSystemAssumption, Sizing DEF Block
  <2> QED BY FileSystemAssumption, <2>1, <2>2, <2>3, MetaBlockIs
<1>7. \A b \in Block : GoodBlock(ImageDisk'[b])
  BY FileSystemAssumption, <1>3, <1>6, BlockGood
<1>8. ASSUME Mountable' PROVE GoodMaps(ImageSuper', ImageInodeMap', ImageBlockMap') /\ GoodRoot(ImageInodeMap', ImageInode')
  <2>1. /\ ImageSuper' = superBlock /\ ImageInodeMap' = inodeMap /\ ImageBlockMap' = blockMap
        /\ DOMAIN ImageInode' = InodeNum /\ \A k \in InodeNum : ImageInode'[k] \in {inode[k], ZeroInode}
        /\ ImageInode'[RootInode] = inode[RootInode]
    BY FileSystemAssumption, <1>2, <1>8, MountableSaved
  <2>2. \A k \in InodeNum : ImageInode'[k] \in GoodInode
    BY FileSystemAssumption, <2>1, ZeroInodeGood DEF GoodMemory, GoodRoot
  <2>3. ImageInode' \in [InodeNum -> GoodInode]
    <3>1. ImageInode' = [k \in InodeNum |-> ImageInode'[k]]
      BY DEF ImageInode
    <3> QED BY <2>2, <3>1
  <2>4. GoodMaps(superBlock, inodeMap, blockMap) /\ GoodRoot(inodeMap, inode)
    BY DEF GoodMemory
  <2> QED BY <2>1, <2>3, <2>4 DEF GoodRoot
<1>9. GoodImage'
  <2>1. /\ image'.exists \in BOOLEAN /\ image'.astray \in BOOLEAN /\ image'.leaked \subseteq Block
        /\ ~image'.exists => image' = NoImage
    BY <1>3 DEF GoodFlags
  <2>2. \E m \in 0 .. MAX_BLOCK : image'.blocks \in [1 .. m -> Range(image'.blocks)]
    BY <1>3
  <2> QED BY <1>7, <1>8, <2>1, <2>2 DEF GoodImage
<1> QED BY <1>1, <1>5, <1>9

LEMMA KillGood ==
  ASSUME FileSystemAssumption, GoodImage, Killed
  PROVE  GoodFlags' /\ GoodImage' /\ Zeroed' /\ session' = "none"
<1>1. Zeroed' /\ session' = "none" /\ image' = image /\ astray' = image.astray /\ leaked' = image.leaked
  BY DEF Killed, Ended, Zeroed
<1>2. GoodImage'
  BY <1>1, ImageKept
<1> QED BY <1>1, <1>2 DEF GoodFlags, GoodImage

LEMMA MountGood ==
  ASSUME FileSystemAssumption, GoodImage, fs_mount
  PROVE  GoodMemory'
<1>1. GoodMaps(ImageSuper, ImageInodeMap, ImageBlockMap) /\ GoodRoot(ImageInodeMap, ImageInode)
  BY DEF fs_mount, Mountable, GoodImage
<1>2. FirstBlock(ImageInode[RootInode]) = RootBlock
  BY <1>1 DEF GoodRoot, FirstBlock
<1>3. /\ superBlock' = ImageSuper /\ inodeMap' = ImageInodeMap /\ blockMap' = ImageBlockMap
      /\ inode' = ImageInode /\ curDirInode' = RootBlock
      /\ curDir' = AsDirectory(ImageDisk[RootBlock]) /\ disk' = ImageDisk
  BY <1>2 DEF fs_mount, ImageSuper, ImageInodeMap, ImageBlockMap, ImageRoot
<1>4. RootBlock \in Block /\ RootBlock \in InodeNum
  BY FileSystemAssumption, Sizing
<1>5. GoodDisk(ImageDisk)
  BY DEF GoodDisk, GoodImage, ImageDisk
<1>6. GoodDir(AsDirectory(ImageDisk[RootBlock]))
  BY FileSystemAssumption, <1>4, <1>5, BlockGood DEF GoodDisk
<1> QED BY <1>1, <1>3, <1>4, <1>5, <1>6 DEF GoodMemory

LEMMA FormatGood ==
  ASSUME FileSystemAssumption, Zeroed, fs_format
  PROVE  GoodMemory'
<1>1. /\ superBlock' = [freeBlockCount |-> MAX_BLOCK - MetaBlocks - 1, freeInodeCount |-> MAX_INODE - 1]
      /\ inodeMap' = {RootInode} /\ blockMap' = 0 .. RootBlock
      /\ inode' = [inode EXCEPT ![RootInode].type = "directory",
                                ![RootInode].blockCount = 1,
                                ![RootInode].directBlock = <<RootBlock>>]
      /\ curDir' = <<Entry(".", RootInode)>> /\ curDirInode' = RootBlock
      /\ disk' = [disk EXCEPT ![RootBlock] = DirBlock(curDir')]
  BY DEF fs_format
<1>2. inode = [k \in InodeNum |-> ZeroInode] /\ disk = [b \in Block |-> Zero]
  BY DEF Zeroed
<1>3. /\ MAX_BLOCK \in Nat /\ MAX_INODE \in Nat /\ MetaBlocks \in Nat /\ MetaBlocks < MAX_BLOCK /\ MetaBlocks < MAX_INODE
      /\ RootInode \in InodeNum /\ RootBlock \in Block /\ RootBlock \in InodeNum /\ MAX_DIR_ENTRY \in Nat \ {0, 1, 2}
      /\ "." \notin Names
  BY FileSystemAssumption, Sizing
<1>4. GoodMaps(superBlock', inodeMap', blockMap')
  <2>1. Block \ (0 .. RootBlock) = MetaBlocks + 1 .. MAX_BLOCK - 1
    BY <1>3 DEF RootBlock, Block
  <2>2. Cardinality(MetaBlocks + 1 .. MAX_BLOCK - 1) = MAX_BLOCK - MetaBlocks - 1
    <3>1. MetaBlocks + 1 \in Int /\ MAX_BLOCK - 1 \in Int
      BY <1>3
    <3>2. Cardinality(MetaBlocks + 1 .. MAX_BLOCK - 1) =
            IF MetaBlocks + 1 > MAX_BLOCK - 1 THEN 0 ELSE (MAX_BLOCK - 1) - (MetaBlocks + 1) + 1
      BY ONLY <3>1, FS_Interval
    <3> QED BY ONLY <1>3, <3>2
  <2>3. Cardinality(InodeNum \ {RootInode}) = MAX_INODE - 1
    <3>1. Cardinality(InodeNum) = MAX_INODE /\ IsFiniteSet(InodeNum)
      BY FileSystemAssumption, Finite
    <3>2. Cardinality(InodeNum \ {RootInode}) = IF RootInode \in InodeNum THEN Cardinality(InodeNum) - 1 ELSE Cardinality(InodeNum)
      BY ONLY <3>1, FS_RemoveElement
    <3> QED BY ONLY <1>3, <3>1, <3>2
  <2>4. 0 .. RootBlock \subseteq Block /\ {RootInode} \subseteq InodeNum
    BY <1>3 DEF RootBlock, Block
  <2>5. MAX_BLOCK - MetaBlocks - 1 \in Nat /\ MAX_INODE - 1 \in Nat
    BY <1>3
  <2>6. /\ superBlock' \in [freeBlockCount : Nat, freeInodeCount : Nat]
        /\ superBlock'.freeBlockCount = MAX_BLOCK - MetaBlocks - 1
        /\ superBlock'.freeInodeCount = MAX_INODE - 1
    BY <1>1, <2>5
  <2>7. Cardinality(Block \ blockMap') = MAX_BLOCK - MetaBlocks - 1 /\ Cardinality(InodeNum \ inodeMap') = MAX_INODE - 1
    BY <1>1, <2>1, <2>2, <2>3
  <2> QED BY <1>1, <2>4, <2>5, <2>6, <2>7 DEF GoodMaps
<1>5. inode' = [inode EXCEPT ![RootInode] =
                  [ZeroInode EXCEPT !.type = "directory", !.blockCount = 1, !.directBlock = <<RootBlock>>]]
  BY <1>1, <1>2, <1>3
<1>6. GoodRoot(inodeMap', inode')
  <2> DEFINE new == [ZeroInode EXCEPT !.type = "directory", !.blockCount = 1, !.directBlock = <<RootBlock>>]
  <2>1. <<RootBlock>> \in Seq(Block \cup {-1}) \ {<< >>}
    BY <1>3
  <2>2. new \in GoodInode /\ new.type = "directory" /\ new.directBlock = <<RootBlock>>
    BY FileSystemAssumption, <2>1, ZeroInodeGood, DirInodeGood
  <2>3. inode' = [inode EXCEPT ![RootInode] = new]
    BY <1>5
  <2> HIDE DEF new
  <2>4. inode' \in [InodeNum -> GoodInode] /\ inode'[RootInode] = new
    BY FileSystemAssumption, <1>2, <1>3, <2>2, <2>3, ZeroInodeGood
  <2> QED BY <1>1, <2>2, <2>4 DEF GoodRoot
<1>7. GoodDir(curDir')
  <2>1. Entry(".", RootInode) \in DirectoryEntry /\ Entry(".", RootInode).name = "."
    BY <1>3 DEF Entry, DirectoryEntry, Name
  <2> DEFINE dot == <<Entry(".", RootInode)>>
  <2>2. dot \in Seq(DirectoryEntry) /\ Len(dot) = 1 /\ DOMAIN dot = {1} /\ dot[1] = Entry(".", RootInode)
    BY <2>1
  <2>3. curDir' = dot
    BY <1>1
  <2> HIDE DEF dot
  <2>4. GoodDir(dot)
    BY ONLY <1>3, <2>1, <2>2 DEF GoodDir
  <2> QED BY <2>3, <2>4
<1>8. GoodDisk(disk')
  <2>1. GoodBlock(DirBlock(curDir')) /\ GoodBlock(Zero)
    BY FileSystemAssumption, <1>7, BlockGood
  <2>2. disk' \in [Block -> {DirBlock(curDir'), Zero}]
    BY <1>1, <1>2
  <2> QED BY <2>1, <2>2 DEF GoodDisk
<1> QED BY <1>1, <1>3, <1>4, <1>6, <1>7, <1>8 DEF GoodMemory

-----------------------------------------------------------------------------
(* The invariant of every session. *)

LEMMA TypeInit == FileSystemAssumption /\ Init => TypeInv
<1> SUFFICES ASSUME FileSystemAssumption, Init PROVE TypeInv
  OBVIOUS
<1>1. image = NoImage /\ session = "none" /\ astray = FALSE /\ leaked = {} /\ Zeroed
  BY DEF Init
<1>2. GoodFlags
  BY <1>1 DEF GoodFlags
<1>3. /\ image.exists = FALSE /\ image.astray = FALSE /\ image.leaked = {} /\ image.blocks = << >>
  BY <1>1 DEF NoImage
<1>4. image.blocks \in [1 .. 0 -> Range(image.blocks)] /\ 0 \in 0 .. MAX_BLOCK
  <2>1. << >> \in [1 .. 0 -> Range(<< >>)]
    BY DEF Range
  <2> QED BY <1>3, <2>1, FileSystemAssumption, Sizing
<1>5. \A b \in Block : GoodBlock(ImageDisk[b])
  <2> SUFFICES ASSUME NEW b \in Block PROVE GoodBlock(ImageDisk[b])
    OBVIOUS
  <2>1. Len(image.blocks) = 0 /\ b \in Nat
    BY <1>3, FileSystemAssumption, Sizing DEF Block
  <2>2. ImageDisk[b] = Zero
    BY <2>1 DEF ImageDisk
  <2> QED BY FileSystemAssumption, <2>2, BlockGood
<1>6. GoodImage
  BY <1>1, <1>3, <1>4, <1>5 DEF GoodImage
<1> QED BY <1>1, <1>2, <1>6 DEF TypeInv

(* A command of the loop, while the file system is mounted. *)
LEMMA CommandGood ==
  ASSUME FileSystemAssumption, GoodFlags, GoodMemory, execute_command
  PROVE  GoodFlags' /\ GoodMemory' /\ session' \in {session, "wild"}
<1>1. PICK name \in Name :
        \/ \E n \in Sizes, data \in Data : file_create(name, n, data)
        \/ \E src \in Name : file_copy(src, name) \/ hard_link(src, name)
        \/ file_remove(name)
        \/ dir_make(name) \/ dir_make_fails(name)
        \/ dir_remove(name)
        \/ dir_change(name)
  BY DEF execute_command
<1>2. CASE \E n \in Sizes, data \in Data : file_create(name, n, data)
  <2>1. PICK n \in Sizes, data \in Data : file_create(name, n, data)
    BY <1>2
  <2>2. n \in Nat
    BY FileSystemAssumption DEF FileSystemAssumption
  <2>3. GoodMemory'
    BY FileSystemAssumption, <2>1, <2>2, CreateGood
  <2> QED BY <2>1, <2>3 DEF file_create, GoodFlags
<1>3. CASE \E src \in Name : file_copy(src, name) \/ hard_link(src, name)
  <2>1. PICK src \in Name : file_copy(src, name) \/ hard_link(src, name)
    BY <1>3
  <2>2. GoodMemory'
    BY FileSystemAssumption, <2>1, CopyGood, LinkGood
  <2>3. UNCHANGED <<session, astray, leaked>>
    BY <2>1 DEF file_copy, hard_link
  <2> QED BY <2>2, <2>3 DEF GoodFlags
<1>4. CASE file_remove(name)
  <2>1. GoodMemory'
    BY FileSystemAssumption, <1>4, RemoveFileGood
  <2> QED BY <1>4, <2>1 DEF file_remove, GoodFlags
<1>5. CASE dir_make(name)
  <2>1. GoodMemory'
    BY FileSystemAssumption, <1>5, MakeDirGood
  <2>2. session' = session /\ leaked' = leaked /\ astray' \in BOOLEAN
    BY <1>5 DEF dir_make
  <2> QED BY <2>1, <2>2 DEF GoodFlags
<1>6. CASE dir_make_fails(name)
  <2>1. GoodMemory' /\ leaked' \subseteq leaked \cup Block
    BY FileSystemAssumption, <1>6, MakeDirFailsGood
  <2>2. session' = session /\ astray' = astray
    BY <1>6 DEF dir_make_fails
  <2> QED BY <2>1, <2>2 DEF GoodFlags
<1>7. CASE dir_remove(name)
  <2>1. GoodMemory'
    BY FileSystemAssumption, <1>7, RemoveDirGood
  <2> QED BY <1>7, <2>1 DEF dir_remove, GoodFlags
<1>8. CASE dir_change(name)
  BY FileSystemAssumption, <1>8, ChangeDirGood DEF GoodFlags
<1> QED BY <1>1, <1>2, <1>3, <1>4, <1>5, <1>6, <1>7, <1>8

LEMMA TypeStep == FileSystemAssumption /\ TypeInv /\ [Next]_vars => TypeInv'
<1> SUFFICES ASSUME FileSystemAssumption, TypeInv, [Next]_vars PROVE TypeInv'
  OBVIOUS
<1>1. GoodFlags /\ GoodImage
  BY DEF TypeInv
<1>2. CASE Mount
  <2>1. session = "none" /\ UNCHANGED <<image, astray, leaked>> /\ Zeroed
    BY <1>2 DEF Mount, TypeInv
  <2>2. GoodImage'
    BY <1>1, <2>1, ImageKept
  <2>3. CASE fs_mount
    <3>1. GoodMemory' /\ session' = "mounted"
      BY FileSystemAssumption, <1>1, <2>3, MountGood DEF fs_mount
    <3> QED BY <1>1, <2>1, <2>2, <3>1 DEF TypeInv, GoodFlags
  <2>4. CASE fs_mount_fails
    <3>1. session' \in {"wild", "invalid"} /\ UNCHANGED memory
      BY <2>4 DEF fs_mount_fails
    <3>2. Zeroed'
      BY <2>1, <3>1 DEF Zeroed, memory, maps
    <3> QED BY <1>1, <2>1, <2>2, <3>1, <3>2 DEF TypeInv, GoodFlags
  <2>5. CASE fs_format
    <3>1. GoodMemory' /\ session' = "mounted"
      BY FileSystemAssumption, <2>1, <2>5, FormatGood DEF fs_format
    <3> QED BY <1>1, <2>1, <2>2, <3>1 DEF TypeInv, GoodFlags
  <2> QED BY <1>2, <2>3, <2>4, <2>5 DEF Mount
<1>3. CASE Command
  <2>1. session = "mounted" /\ GoodMemory
    BY <1>3 DEF Command, TypeInv
  <2>2. CASE execute_command /\ UNCHANGED image
    <3>1. GoodFlags' /\ GoodMemory' /\ session' \in {session, "wild"}
      BY FileSystemAssumption, <1>1, <2>1, <2>2, CommandGood
    <3>2. GoodImage'
      BY <1>1, <2>2, ImageKept
    <3> QED BY <2>1, <3>1, <3>2 DEF TypeInv
  <2>3. CASE fs_umount
    BY FileSystemAssumption, <1>1, <2>1, <2>3, UnmountGood DEF TypeInv
  <2>4. CASE Killed
    BY FileSystemAssumption, <1>1, <2>4, KillGood DEF TypeInv
  <2> QED BY <1>3, <2>2, <2>3, <2>4 DEF Command
<1>4. CASE UNCHANGED vars
  <2>1. /\ GoodFlags' /\ (Zeroed' <=> Zeroed) /\ (GoodMemory' <=> GoodMemory) /\ session' = session
    BY <1>1, <1>4 DEF vars, memory, maps, GoodFlags, Zeroed, GoodMemory, GoodRoot, GoodMaps, GoodDir, GoodDisk
  <2>2. GoodImage'
    BY <1>1, <1>4, ImageKept DEF vars
  <2> QED BY <2>1, <2>2 DEF TypeInv
<1> QED BY <1>2, <1>3, <1>4 DEF Next

LEMMA GoodInodeTypes ==
  ASSUME NEW ino \in GoodInode
  PROVE  /\ ino.type \in {"file", "directory"} /\ ino.blockCount \in Nat
         /\ \A k \in DOMAIN ino.directBlock : ino.directBlock[k] \in Block \cup {-1}
         /\ ino.indirectBlock \in Block /\ ino.linkCount \in Int
<1>1. ino.directBlock \in Seq(Block \cup {-1})
  BY DEF GoodInode
<1>2. \A k \in DOMAIN ino.directBlock : ino.directBlock[k] \in Block \cup {-1}
  BY <1>1, LenProperties, ElementOfSeq
<1> QED BY <1>2 DEF GoodInode

(* The root is never freed and never overwritten, in memory or on the      *)
(* image; the count of free inodes is exact, that of free blocks never too *)
(* small: file_create() and the others give what the map says is free.     *)
THEOREM TypeInvariance == Spec => []TypeInv
<1>1. Init => TypeInv
  BY FileSystemAssumption, TypeInit
<1>2. TypeInv /\ [Next]_vars => TypeInv'
  BY FileSystemAssumption, TypeStep
<1> QED BY <1>1, <1>2, PTL DEF Spec

(* The types of the globals of fs.c (lines 6 to 16) and of the image, in   *)
(* any session, also one that has gone astray: the directory in memory     *)
(* never has more entries than its block holds.                            *)
THEOREM TypeCorrect == Spec => []TypeOK
<1>1. TypeInv => TypeOK
  <2> SUFFICES ASSUME TypeInv PROVE TypeOK
    OBVIOUS
  <2>1. session \in {"none", "mounted", "invalid", "wild"} /\ astray \in BOOLEAN /\ leaked \subseteq Block
    BY DEF TypeInv, GoodFlags
  <2>2. image.blocks \in Seq(Range(image.blocks)) /\ Len(image.blocks) <= MAX_BLOCK
    <3>1. PICK n \in 0 .. MAX_BLOCK : image.blocks \in [1 .. n -> Range(image.blocks)]
      BY DEF TypeInv, GoodImage
    <3>2. MAX_BLOCK \in Nat
      BY FileSystemAssumption, Sizing
    <3> QED BY <3>1, <3>2
  <2>3. MAX_INODE \in Nat /\ MAX_DIR_ENTRY \in Nat /\ RootInode \in InodeNum /\ RootInode = 0
    BY FileSystemAssumption, Sizing DEF RootInode
  <2>4. CASE GoodMemory
    <3>1. /\ superBlock \in [freeBlockCount : Nat, freeInodeCount : Nat]
          /\ superBlock.freeInodeCount = Cardinality(InodeNum \ inodeMap)
          /\ inodeMap \subseteq InodeNum /\ blockMap \subseteq Block
      BY <2>4 DEF GoodMemory, GoodMaps
    <3>2. superBlock.freeInodeCount \in 0 .. MAX_INODE
      <4>1. IsFiniteSet(InodeNum) /\ Cardinality(InodeNum) = MAX_INODE /\ InodeNum \ inodeMap \in SUBSET InodeNum
        BY FileSystemAssumption, Finite
      <4>2. Cardinality(InodeNum \ inodeMap) <= MAX_INODE
        BY <4>1, FS_Subset
      <4> QED BY <2>3, <3>1, <4>2
    <3>3. superBlock \in [freeBlockCount : Nat, freeInodeCount : 0 .. MAX_INODE]
      BY <3>1, <3>2
    <3>4. \A n \in InodeNum : inode[n] \in GoodInode
      BY <2>4 DEF GoodMemory, GoodRoot
    <3>5. /\ \A k \in DOMAIN curDir : curDir[k] \in DirectoryEntry
          /\ Len(curDir) <= MAX_DIR_ENTRY /\ curDirInode \in InodeNum /\ DOMAIN disk = Block
      BY <2>4, LenProperties, ElementOfSeq DEF GoodMemory, GoodDir, GoodDisk
    <3> QED BY <2>1, <2>2, <3>1, <3>3, <3>4, <3>5, GoodInodeTypes DEF TypeOK
  <2>5. CASE Zeroed
    <3>1. /\ superBlock = [freeBlockCount |-> 0, freeInodeCount |-> 0] /\ inodeMap = {} /\ blockMap = {}
          /\ inode = [n \in InodeNum |-> ZeroInode] /\ curDir = << >> /\ curDirInode = 0 /\ disk = [b \in Block |-> Zero]
      BY <2>5 DEF Zeroed
    <3>2. superBlock \in [freeBlockCount : Nat, freeInodeCount : 0 .. MAX_INODE]
      BY <2>3, <3>1
    <3>3. \A n \in InodeNum : inode[n] \in GoodInode
      BY FileSystemAssumption, <3>1, ZeroInodeGood
    <3>4. /\ \A k \in DOMAIN curDir : curDir[k] \in DirectoryEntry
          /\ Len(curDir) <= MAX_DIR_ENTRY /\ curDirInode \in InodeNum /\ DOMAIN disk = Block
      BY <2>3, <3>1
    <3> QED BY <2>1, <2>2, <3>1, <3>2, <3>3, <3>4, GoodInodeTypes DEF TypeOK
  <2> QED BY <2>4, <2>5 DEF TypeInv
<1> QED BY <1>1, TypeInvariance, PTL

-----------------------------------------------------------------------------
(* Who owns which block, until the session goes astray. *)

(* Two inodes of the same blocks, on disks that agree on the map of them.  *)
SameBlocks(ino, new) ==
  /\ new.type = ino.type /\ new.blockCount = ino.blockCount
  /\ new.directBlock = ino.directBlock /\ new.indirectBlock = ino.indirectBlock

LEMMA OwnedSame ==
  ASSUME NEW d, NEW e, NEW ino, NEW new, SameBlocks(ino, new),
         HasMap(ino.blockCount) => e[ino.indirectBlock] = d[ino.indirectBlock]
  PROVE  /\ OwnedIn(e, new) = OwnedIn(d, ino)
         /\ SoundInode(d, ino) => SoundInode(e, new)
<1>1. BlocksIn(e, new) = BlocksIn(d, ino)
  BY DEF BlocksIn, SameBlocks
<1>2. OwnedIn(e, new) = OwnedIn(d, ino)
  BY <1>1 DEF OwnedIn, SameBlocks
<1>3. ASSUME SoundInode(d, ino) PROVE SoundInode(e, new)
  BY <1>2, <1>3 DEF SoundInode, SameBlocks
<1> QED BY <1>2, <1>3

(* An inode of one block or of a few has them all to itself. *)
LEMMA OwnedDirect ==
  ASSUME FileSystemAssumption, NEW d, NEW ino, NEW S, ino.directBlock \in Seq(S),
         Len(ino.directBlock) = ino.blockCount, ~HasMap(ino.blockCount)
  PROVE  OwnedIn(d, ino) = Range(ino.directBlock)
<1>1. SubSeq(ino.directBlock, 1, Len(ino.directBlock)) = ino.directBlock
  BY SubSeqFull
<1>2. BlocksIn(d, ino) = ino.directBlock
  BY <1>1 DEF BlocksIn
<1> QED BY <1>2 DEF OwnedIn

(* What file_create() and file_copy() write is an inode that owns exactly  *)
(* the blocks that were taken: its own and the one of the map.             *)
LEMMA NewInodeOwns ==
  ASSUME FileSystemAssumption, NEW type, NEW n \in Nat \ {0}, type = "directory" => n = 1,
         NEW got \in Seq(Block), \A i, j \in DOMAIN got : got[i] = got[j] => i = j,
         Len(got) = BlocksFor(n), Cardinality(Range(got)) = Len(got), NEW bytes, Len(bytes) = n
  PROVE  LET e == Filled(got, bytes)
             ino == NewInode(type, n, got)
         IN  SoundInode(e, ino) /\ OwnedIn(e, ino) = Range(got)
<1> DEFINE e == Filled(got, bytes)
           ino == NewInode(type, n, got)
<1>1. DIRECT \in Nat \ {0}
  BY FileSystemAssumption, Sizing
<1>2. DOMAIN got = 1 .. BlocksFor(n) /\ \A k \in 1 .. BlocksFor(n) : got[k] \in Block
  BY LenProperties, ElementOfSeq
<1>3. /\ HasMap(n) => BlocksFor(n) = n + 1 /\ n > DIRECT
      /\ ~HasMap(n) => BlocksFor(n) = n /\ n <= DIRECT
  BY FileSystemAssumption, Turns
<1>4. /\ ino.type = type /\ ino.blockCount = n
      /\ ino.directBlock = SubSeq(got, 1, IF HasMap(n) THEN DIRECT ELSE n)
      /\ HasMap(n) => ino.indirectBlock = got[DIRECT + 1]
  BY DEF NewInode
<1>5. CASE ~HasMap(n)
  <2>1. SubSeq(got, 1, Len(got)) = got
    BY SubSeqFull
  <2>2. ino.directBlock = got /\ Len(got) = n
    BY <1>3, <1>4, <1>5, <2>1
  <2> HIDE DEF e, ino
  <2>3. OwnedIn(e, ino) = Range(got)
    <3>1. ino.directBlock \in Seq(Block) /\ Len(ino.directBlock) = ino.blockCount /\ ~HasMap(ino.blockCount)
      BY <1>4, <1>5, <2>2
    <3> QED BY FileSystemAssumption, <2>2, <3>1, OwnedDirect
  <2>4. SoundInode(e, ino)
    BY <1>3, <1>4, <1>5, <2>2, <2>3 DEF SoundInode
  <2> QED BY <2>3, <2>4 DEF e, ino
<1>6. CASE HasMap(n)
  <2> DEFINE front == SubSeq(got, 1, DIRECT)
             back  == [k \in 1 .. n - DIRECT |-> got[Turn(DIRECT + k)]]
  <2>1. n - DIRECT \in Nat /\ \A k \in 1 .. n - DIRECT : Turn(DIRECT + k) = DIRECT + k + 1 /\ DIRECT + k + 1 \in 1 .. BlocksFor(n)
    <3>1. n - DIRECT \in Nat /\ BlocksFor(n) = n + 1
      BY <1>1, <1>3, <1>6
    <3>2. ASSUME NEW k \in 1 .. n - DIRECT
          PROVE  Turn(DIRECT + k) = DIRECT + k + 1 /\ DIRECT + k + 1 \in 1 .. n + 1
      BY <1>1, <1>3, <1>6 DEF Turn
    <3> QED BY <3>1, <3>2
  <2>2. back = [k \in 1 .. n - DIRECT |-> got[DIRECT + k + 1]]
    BY <2>1
  <2>3. e[got[DIRECT + 1]] = MapBlock(back)
    <3>1. DIRECT + 1 \in DOMAIN got /\ ~(DIRECT + 1 <= DIRECT) /\ ~(DIRECT + 1 > DIRECT + 1) /\ Len(got) = BlocksFor(Len(bytes))
      BY <1>1, <1>2, <1>3, <1>6
    <3>2. e[got[DIRECT + 1]] = MapBlock([k \in 1 .. Len(bytes) - DIRECT |-> got[Turn(DIRECT + k)]])
      BY FileSystemAssumption, <3>1, FilledIs DEF FilledWith
    <3> QED BY <3>2
  <2>4. /\ front \in Seq(Block) /\ Len(front) = DIRECT
        /\ \A k \in 1 .. DIRECT : front[k] = got[k]
    <3>1. 1 \in Int /\ DIRECT \in Int /\ \A k \in 1 .. DIRECT : got[k] \in Block
      BY <1>1, <1>2, <1>3, <1>6
    <3>2. /\ front \in Seq(Block) /\ Len(front) = IF 1 <= DIRECT THEN DIRECT - 1 + 1 ELSE 0
          /\ \A k \in 1 .. DIRECT - 1 + 1 : front[k] = got[1 + k - 1]
      BY ONLY <3>1, SubSeqProperties
    <3> HIDE DEF front
    <3>3. \A k \in 1 .. DIRECT : k \in 1 .. DIRECT - 1 + 1 /\ 1 + k - 1 = k
      BY <1>1
    <3>4. ASSUME NEW k \in 1 .. DIRECT PROVE front[k] = got[k]
      <4>1. front[k] = got[1 + k - 1] /\ 1 + k - 1 = k
        BY <3>2, <3>3
      <4> QED BY ONLY <4>1, Zenon
    <3>5. Len(front) = DIRECT
      BY <1>1, <3>2
    <3> QED BY <3>2, <3>4, <3>5
  <2>5. back \in Seq(Block) /\ Len(back) = n - DIRECT
    <3>1. back \in [1 .. n - DIRECT -> Block]
      BY <1>2, <2>1, <2>2
    <3> HIDE DEF back
    <3> QED BY <2>1, <3>1, SMTT(30)
  <2>6. Range(front) = {got[k] : k \in 1 .. DIRECT}
    <3> HIDE DEF front
    <3>1. Range(front) = {front[k] : k \in 1 .. DIRECT}
      BY <2>4, RangeEquality
    <3> QED BY <2>4, <3>1, SMTT(30)
  <2>7. /\ \A b \in Range(back) : \E k \in 1 .. n - DIRECT : b = got[DIRECT + k + 1]
        /\ \A k \in 1 .. n - DIRECT : got[DIRECT + k + 1] \in Range(back)
    <3>1. DOMAIN back = 1 .. n - DIRECT /\ \A k \in 1 .. n - DIRECT : back[k] = got[DIRECT + k + 1]
      <4> HIDE DEF back
      <4> QED BY ONLY <2>2
    <3> HIDE DEF back
    <3>2. Range(back) = {back[k] : k \in DOMAIN back}
      BY DEF Range
    <3>3. ASSUME NEW b \in Range(back) PROVE \E k \in 1 .. n - DIRECT : b = got[DIRECT + k + 1]
      <4>1. PICK k \in DOMAIN back : b = back[k]
        BY <3>2
      <4>2. k \in 1 .. n - DIRECT /\ b = got[DIRECT + k + 1]
        BY ONLY <3>1, <4>1
      <4> QED BY ONLY <4>2
    <3>4. ASSUME NEW k \in 1 .. n - DIRECT PROVE got[DIRECT + k + 1] \in Range(back)
      <4>1. k \in DOMAIN back /\ back[k] = got[DIRECT + k + 1]
        BY ONLY <3>1, k \in 1 .. n - DIRECT
      <4>2. back[k] \in Range(back)
        BY <3>2, <4>1
      <4> QED BY ONLY <4>1, <4>2
    <3> QED BY ONLY <3>3, <3>4
  <2>8. Range(got) = Range(front) \cup Range(back) \cup {got[DIRECT + 1]}
    <3>1. Range(got) = {got[k] : k \in 1 .. n + 1}
      BY <1>2, <1>3, <1>6 DEF Range
    <3>2. ASSUME NEW k \in 1 .. n + 1
          PROVE  k \in 1 .. DIRECT \/ k = DIRECT + 1 \/ (k - DIRECT - 1 \in 1 .. n - DIRECT /\ DIRECT + (k - DIRECT - 1) + 1 = k)
      BY <1>1, <1>3, <1>6
    <3>3. /\ \A k \in 1 .. DIRECT : k \in 1 .. n + 1
          /\ DIRECT + 1 \in 1 .. n + 1
          /\ \A k \in 1 .. n - DIRECT : DIRECT + k + 1 \in 1 .. n + 1
      BY <1>1, <1>3, <1>6
    <3>4. ASSUME NEW k \in 1 .. n + 1
          PROVE  \/ \E j \in 1 .. DIRECT : got[k] = got[j]
                 \/ \E j \in 1 .. n - DIRECT : got[k] = got[DIRECT + j + 1]
                 \/ got[k] = got[DIRECT + 1]
      BY <3>2
    <3> HIDE DEF front, back
    <3>5. ASSUME NEW b \in Range(got) PROVE b \in Range(front) \cup Range(back) \cup {got[DIRECT + 1]}
      <4>1. PICK k \in 1 .. n + 1 : b = got[k]
        BY <3>1
      <4> QED BY <2>6, <2>7, <3>4, <4>1
    <3>6. ASSUME NEW b \in Range(front) PROVE b \in Range(got)
      BY <2>6, <3>1, <3>3
    <3>7. ASSUME NEW b \in Range(back) PROVE b \in Range(got)
      <4>1. PICK k \in 1 .. n - DIRECT : b = got[DIRECT + k + 1]
        BY <2>7
      <4> QED BY <3>1, <3>3, <4>1
    <3>8. got[DIRECT + 1] \in Range(got)
      BY <3>1, <3>3
    <3> QED BY <3>5, <3>6, <3>7, <3>8
  <2> HIDE DEF front, back, e
  <2>9. ino.directBlock = front /\ ino.indirectBlock = got[DIRECT + 1]
    BY <1>4, <1>6 DEF front
  <2> HIDE DEF ino
  <2>10. BlocksIn(e, ino) = front \o back
    <3>1. HasMap(ino.blockCount) /\ e[ino.indirectBlock].blocks = back
      BY <1>4, <1>6, <2>3, <2>9 DEF MapBlock
    <3> QED BY <2>9, <3>1 DEF BlocksIn
  <2>11. OwnedIn(e, ino) = Range(got)
    <3>1. Range(front \o back) = Range(front) \cup Range(back)
      BY <2>4, <2>5, RangeConcatenation
    <3> QED BY <1>4, <1>6, <2>8, <2>9, <2>10, <3>1 DEF OwnedIn
  <2>12. e[ino.indirectBlock].kind = "map" /\ e[ino.indirectBlock].blocks = back
    BY <2>3, <2>9 DEF MapBlock
  <2>13. n # 1
    BY <1>1, <1>3, <1>6
  <2>14. SoundInode(e, ino)
    BY <1>4, <1>6, <2>4, <2>5, <2>9, <2>11, <2>12, <2>13 DEF SoundInode
  <2> QED BY <2>11, <2>14 DEF e, ino
<1> QED BY <1>5, <1>6

Own(n) == OwnedIn(disk, inode[n])

LEMMA OwnFacts ==
  ASSUME FileSystemAssumption, GoodMemory, SoundNow
  PROVE  /\ RootInode \in inodeMap /\ Own(RootInode) = {RootBlock} /\ ~HasMap(inode[RootInode].blockCount)
         /\ \A n \in inodeMap : Own(n) \subseteq blockMap
         /\ \A n \in inodeMap : inode[n] \in GoodInode
         /\ \A n \in inodeMap : SoundInode(disk, inode[n])
         /\ \A n \in inodeMap : HasMap(inode[n].blockCount) => inode[n].indirectBlock \in Own(n)
         /\ \A n \in inodeMap : Own(n) \cap (leaked \cup 0 .. MetaBlocks - 1) = {}
         /\ \A n \in inodeMap : \A m \in inodeMap \ {n} : Own(n) \cap Own(m) = {}
         /\ blockMap = (0 .. MetaBlocks - 1) \cup leaked \cup UNION {Own(n) : n \in inodeMap}
         /\ superBlock.freeBlockCount = Cardinality(FreeBlocks)
<1>1. /\ superBlock.freeBlockCount = Cardinality(Block \ blockMap)
      /\ blockMap = (0 .. MetaBlocks - 1) \cup leaked \cup UNION {Own(n) : n \in inodeMap}
      /\ \A n \in inodeMap :
           /\ SoundInode(disk, inode[n])
           /\ Own(n) \cap (leaked \cup 0 .. MetaBlocks - 1) = {}
           /\ \A m \in inodeMap \ {n} : Own(n) \cap Own(m) = {}
  BY DEF SoundNow, SoundBlocks, Own
<1>2. /\ RootInode \in inodeMap /\ inode[RootInode].type = "directory" /\ inode[RootInode].directBlock = <<RootBlock>>
      /\ inodeMap \subseteq InodeNum /\ \A n \in InodeNum : inode[n] \in GoodInode
  BY DEF GoodMemory, GoodRoot, GoodMaps
<1>3. inode[RootInode].blockCount = 1
  BY <1>1, <1>2 DEF SoundInode
<1>4. ~HasMap(inode[RootInode].blockCount)
  BY <1>3, FileSystemAssumption, Sizing DEF HasMap
<1>5. Own(RootInode) = {RootBlock}
  <2>1. RootBlock \in Block
    BY FileSystemAssumption, Sizing
  <2>2. <<RootBlock>> \in Seq(Block) /\ Len(<<RootBlock>>) = 1 /\ Range(<<RootBlock>>) = {RootBlock}
    BY <2>1 DEF Range
  <2>3. /\ inode[RootInode].directBlock \in Seq(Block) /\ Len(inode[RootInode].directBlock) = inode[RootInode].blockCount
    BY <1>2, <1>3, <2>2
  <2>4. Own(RootInode) = Range(inode[RootInode].directBlock)
    BY FileSystemAssumption, <1>4, <2>3, OwnedDirect DEF Own
  <2> QED BY <1>2, <2>2, <2>4
<1>6. \A n \in inodeMap : Own(n) \subseteq blockMap
  BY <1>1
<1>7. \A n \in inodeMap : HasMap(inode[n].blockCount) => inode[n].indirectBlock \in Own(n)
  BY DEF Own, OwnedIn
<1> QED BY <1>1, <1>2, <1>4, <1>5, <1>6, <1>7 DEF FreeBlocks

(* The map of a file's blocks is neither free, nor the root's block, nor   *)
(* one of the blocks that fs_umount() writes.                              *)
LEMMA Untouched ==
  ASSUME FileSystemAssumption, GoodMemory, SoundNow, NEW n \in inodeMap, HasMap(inode[n].blockCount)
  PROVE  LET b == inode[n].indirectBlock
         IN  b \in blockMap /\ b \in Block /\ b # RootBlock /\ ~(b < MetaBlocks)
<1> DEFINE b == inode[n].indirectBlock
<1>1. n # RootInode /\ RootInode \in inodeMap
  BY FileSystemAssumption, OwnFacts
<1>2. b \in Own(n) /\ b \in blockMap
  BY FileSystemAssumption, OwnFacts
<1>3. Own(RootInode) = {RootBlock} /\ Own(n) \cap Own(RootInode) = {}
  BY FileSystemAssumption, <1>1, OwnFacts
<1>4. b \notin 0 .. MetaBlocks - 1
  BY FileSystemAssumption, <1>2, OwnFacts
<1>5. b \in Block
  BY <1>2 DEF GoodMemory, GoodMaps
<1> HIDE DEF b
<1>6. ~(b < MetaBlocks)
  BY <1>4, <1>5, FileSystemAssumption, Sizing DEF Block
<1> QED BY <1>2, <1>3, <1>5, <1>6 DEF b

LEMMA SameItself == \A ino : SameBlocks(ino, ino)
BY DEF SameBlocks

(* A new inode takes free blocks and nothing else changes, the root's      *)
(* block apart.                                                            *)
LEMMA AddSound ==
  ASSUME FileSystemAssumption, GoodMemory, SoundNow,
         NEW i \in InodeNum \ inodeMap, NEW ino, NEW B \in SUBSET FreeBlocks,
         inodeMap' = inodeMap \cup {i}, blockMap' = blockMap \cup B, inode' = [inode EXCEPT ![i] = ino], leaked' = leaked,
         \A b \in blockMap \ {RootBlock} : disk'[b] = disk[b],
         SoundInode(disk', ino), OwnedIn(disk', ino) = B,
         superBlock'.freeBlockCount = Cardinality(Block \ blockMap')
  PROVE  SoundNow'
<1> DEFINE new(n) == OwnedIn(disk', inode'[n])
<1>1. inode \in [InodeNum -> GoodInode] /\ inodeMap \subseteq InodeNum
  BY DEF GoodMemory, GoodRoot, GoodMaps
<1>2. inode'[i] = ino /\ \A n \in inodeMap : inode'[n] = inode[n] /\ n # i
  BY <1>1
<1>3. \A n \in inodeMap : new(n) = Own(n) /\ SoundInode(disk', inode'[n])
  <2> SUFFICES ASSUME NEW n \in inodeMap PROVE new(n) = Own(n) /\ SoundInode(disk', inode'[n])
    OBVIOUS
  <2>1. HasMap(inode[n].blockCount) => disk'[inode[n].indirectBlock] = disk[inode[n].indirectBlock]
    BY FileSystemAssumption, Untouched
  <2>2. SoundInode(disk, inode[n])
    BY FileSystemAssumption, OwnFacts
  <2> QED BY <1>2, <2>1, <2>2, SameItself, OwnedSame, ZenonT(60) DEF Own
<1>4. new(i) = B /\ SoundInode(disk', inode'[i])
  BY <1>2
<1>5. B \cap blockMap = {}
  BY DEF FreeBlocks
<1>6. /\ \A n \in inodeMap : Own(n) \subseteq blockMap /\ Own(n) \cap (leaked \cup 0 .. MetaBlocks - 1) = {}
      /\ \A n \in inodeMap : \A m \in inodeMap \ {n} : Own(n) \cap Own(m) = {}
      /\ blockMap = (0 .. MetaBlocks - 1) \cup leaked \cup UNION {Own(n) : n \in inodeMap}
  BY FileSystemAssumption, OwnFacts
<1> HIDE DEF new
<1>7. blockMap' = (0 .. MetaBlocks - 1) \cup leaked' \cup UNION {new(n) : n \in inodeMap'}
  <2>1. UNION {new(n) : n \in inodeMap'} = B \cup UNION {Own(n) : n \in inodeMap}
    <3>1. ASSUME NEW b PROVE (\E n \in inodeMap' : b \in new(n)) <=> b \in B \/ (\E n \in inodeMap : b \in Own(n))
      BY <1>3, <1>4
    <3> QED BY <3>1
  <2> QED BY <1>6, <2>1
<1>8. \A n \in inodeMap' :
        /\ SoundInode(disk', inode'[n])
        /\ new(n) \cap (leaked' \cup 0 .. MetaBlocks - 1) = {}
        /\ \A m \in inodeMap' \ {n} : new(n) \cap new(m) = {}
  <2> SUFFICES ASSUME NEW n \in inodeMap'
               PROVE  /\ SoundInode(disk', inode'[n])
                      /\ new(n) \cap (leaked' \cup 0 .. MetaBlocks - 1) = {}
                      /\ \A m \in inodeMap' \ {n} : new(n) \cap new(m) = {}
    OBVIOUS
  <2>1. CASE n = i
    <3>1. \A m \in inodeMap' \ {n} : m \in inodeMap
      BY <2>1
    <3>2. \A m \in inodeMap : B \cap new(m) = {}
      BY <1>3, <1>5, <1>6
    <3>3. B \cap (leaked' \cup 0 .. MetaBlocks - 1) = {}
      BY <1>5, <1>6
    <3> QED BY <1>4, <2>1, <3>1, <3>2, <3>3
  <2>2. CASE n \in inodeMap
    <3>1. \A m \in inodeMap' \ {n} : m = i \/ m \in inodeMap \ {n}
      OBVIOUS
    <3>2. new(n) \cap B = {} /\ \A m \in inodeMap \ {n} : new(n) \cap new(m) = {}
      BY <1>3, <1>5, <1>6, <2>2
    <3> QED BY <1>3, <1>4, <1>6, <2>2, <3>1, <3>2
  <2> QED BY <2>1, <2>2
<1> QED BY <1>7, <1>8 DEF SoundNow, SoundBlocks, new

(* An inode goes and gives back what it owned. *)
LEMMA RemoveSound ==
  ASSUME FileSystemAssumption, GoodMemory, SoundNow, NEW i \in inodeMap,
         inodeMap' = inodeMap \ {i}, blockMap' = blockMap \ Own(i),
         UNCHANGED <<inode, disk, leaked>>,
         superBlock'.freeBlockCount = Cardinality(Block \ blockMap')
  PROVE  SoundNow'
<1>1. /\ \A n \in inodeMap : Own(n) \subseteq blockMap /\ Own(n) \cap (leaked \cup 0 .. MetaBlocks - 1) = {}
      /\ \A n \in inodeMap : SoundInode(disk, inode[n])
      /\ \A n \in inodeMap : \A m \in inodeMap \ {n} : Own(n) \cap Own(m) = {}
      /\ blockMap = (0 .. MetaBlocks - 1) \cup leaked \cup UNION {Own(n) : n \in inodeMap}
  BY FileSystemAssumption, OwnFacts
<1>2. blockMap' = (0 .. MetaBlocks - 1) \cup leaked \cup UNION {Own(n) : n \in inodeMap \ {i}}
  <2>1. ASSUME NEW b PROVE (b \in UNION {Own(n) : n \in inodeMap} /\ b \notin Own(i)) <=> (b \in UNION {Own(n) : n \in inodeMap \ {i}})
    <3>1. b \in UNION {Own(n) : n \in inodeMap} <=> \E n \in inodeMap : b \in Own(n)
      OBVIOUS
    <3>2. b \in UNION {Own(n) : n \in inodeMap \ {i}} <=> \E n \in inodeMap \ {i} : b \in Own(n)
      OBVIOUS
    <3> QED BY <1>1, <3>1, <3>2
  <2>2. ((0 .. MetaBlocks - 1) \cup leaked) \cap Own(i) = {}
    BY <1>1
  <2> QED BY <1>1, <2>1, <2>2
<1> QED BY <1>1, <1>2 DEF SoundNow, SoundBlocks, Own

(* Only the links of an inode are counted anew. *)
LEMMA SameSound ==
  ASSUME FileSystemAssumption, GoodMemory, SoundNow, UNCHANGED <<superBlock, inodeMap, blockMap, disk, leaked>>,
         \A n \in inodeMap : SameBlocks(inode[n], inode'[n])
  PROVE  SoundNow'
<1>1. \A n \in inodeMap : OwnedIn(disk, inode'[n]) = Own(n) /\ SoundInode(disk, inode'[n])
  <2>1. \A n \in inodeMap : SoundInode(disk, inode[n])
    BY FileSystemAssumption, OwnFacts
  <2> QED BY <2>1, OwnedSame DEF Own
<1>2. {OwnedIn(disk, inode'[n]) : n \in inodeMap} = {Own(n) : n \in inodeMap}
  BY <1>1
<1>3. SoundBlocks(superBlock, inodeMap, blockMap, inode', disk, leaked)
  BY <1>1, <1>2 DEF SoundNow, SoundBlocks, Own
<1> QED BY <1>3 DEF SoundNow

(* A refused mkdir keeps a block. *)
LEMMA LostSound ==
  ASSUME FileSystemAssumption, GoodMemory, SoundNow, NEW b \in FreeBlocks,
         UNCHANGED <<inodeMap, inode, disk>>, blockMap' = blockMap \cup {b}, leaked' = leaked \cup {b},
         superBlock'.freeBlockCount = Cardinality(Block \ blockMap')
  PROVE  SoundNow'
<1>1. /\ \A n \in inodeMap : Own(n) \subseteq blockMap /\ Own(n) \cap (leaked \cup 0 .. MetaBlocks - 1) = {}
      /\ \A n \in inodeMap : SoundInode(disk, inode[n])
      /\ \A n \in inodeMap : \A m \in inodeMap \ {n} : Own(n) \cap Own(m) = {}
      /\ blockMap = (0 .. MetaBlocks - 1) \cup leaked \cup UNION {Own(n) : n \in inodeMap}
  BY FileSystemAssumption, OwnFacts
<1>2. b \notin blockMap
  BY DEF FreeBlocks
<1>3. \A n \in inodeMap : Own(n) \cap (leaked' \cup 0 .. MetaBlocks - 1) = {}
  BY <1>1, <1>2
<1>4. blockMap' = (0 .. MetaBlocks - 1) \cup leaked' \cup UNION {Own(n) : n \in inodeMap}
  BY <1>1
<1>5. SoundBlocks(superBlock', inodeMap, blockMap', inode, disk, leaked')
  BY <1>1, <1>3, <1>4 DEF SoundBlocks, Own
<1> QED BY <1>5 DEF SoundNow

-----------------------------------------------------------------------------
(* Which entry names which inode, until the session goes astray. *)

LEMMA NamedFinite ==
  ASSUME NEW dir \in Seq(DirectoryEntry), NEW n
  PROVE  /\ NamedIn(dir, n) \subseteq 1 .. Len(dir) /\ IsFiniteSet(NamedIn(dir, n))
         /\ Cardinality(NamedIn(dir, n)) \in Nat
         /\ (NamedIn(dir, n) = {} <=> Cardinality(NamedIn(dir, n)) = 0)
<1>1. NamedIn(dir, n) \subseteq 1 .. Len(dir) /\ Len(dir) \in Nat
  BY LenProperties DEF NamedIn
<1>2. IsFiniteSet(1 .. Len(dir))
  <2>1. 1 \in Int /\ Len(dir) \in Int
    BY <1>1
  <2> QED BY ONLY <2>1, FS_Interval
<1>3. IsFiniteSet(NamedIn(dir, n))
  BY <1>1, <1>2, FS_Subset
<1> QED BY <1>1, <1>3, FS_CardinalityType, FS_EmptySet

LEMMA NamedAppend ==
  ASSUME NEW dir \in Seq(DirectoryEntry), NEW e \in DirectoryEntry, NEW n
  PROVE  /\ n = e.inode => /\ NamedIn(Append(dir, e), n) # {}
                           /\ Cardinality(NamedIn(Append(dir, e), n)) = Cardinality(NamedIn(dir, n)) + 1
         /\ n # e.inode => NamedIn(Append(dir, e), n) = NamedIn(dir, n)
<1> DEFINE new == Append(dir, e)
<1>1. Len(dir) \in Nat /\ DOMAIN dir = 1 .. Len(dir)
  BY LenProperties
<1>2. /\ new \in Seq(DirectoryEntry) /\ Len(new) = Len(dir) + 1
      /\ \A k \in 1 .. Len(dir) : new[k] = dir[k]
      /\ new[Len(dir) + 1] = e
  BY AppendProperties
<1>3. DOMAIN new = 1 .. Len(dir) + 1
  BY <1>2, LenProperties
<1> HIDE DEF new
<1>4. \A k : k \in 1 .. Len(dir) + 1 <=> k \in 1 .. Len(dir) \/ k = Len(dir) + 1
  BY <1>1
<1>5. ASSUME n # e.inode PROVE NamedIn(new, n) = NamedIn(dir, n)
  BY <1>1, <1>2, <1>3, <1>4, <1>5 DEF NamedIn
<1>6. ASSUME n = e.inode PROVE NamedIn(new, n) = NamedIn(dir, n) \cup {Len(dir) + 1}
  BY <1>1, <1>2, <1>3, <1>4, <1>6 DEF NamedIn
<1>7. Len(dir) + 1 \notin NamedIn(dir, n) /\ IsFiniteSet(NamedIn(dir, n))
  <2>1. Len(dir) + 1 \notin 1 .. Len(dir)
    BY <1>1
  <2> QED BY <2>1, NamedFinite
<1>8. Cardinality(NamedIn(dir, n) \cup {Len(dir) + 1}) = Cardinality(NamedIn(dir, n)) + 1
  BY <1>7, FS_AddElement
<1>9. ASSUME n = e.inode
      PROVE  NamedIn(new, n) # {} /\ Cardinality(NamedIn(new, n)) = Cardinality(NamedIn(dir, n)) + 1
  BY <1>6, <1>8, <1>9
<1> QED BY <1>5, <1>9 DEF new

LEMMA NamedRemove ==
  ASSUME FileSystemAssumption, NEW dir, GoodDir(dir), NEW p \in DOMAIN dir, NEW n
  PROVE  /\ n = dir[p].inode =>
              Cardinality(NamedIn(RemoveAt(dir, p), n)) = Cardinality(NamedIn(dir, n)) - 1
         /\ n # dir[p].inode =>
              Cardinality(NamedIn(RemoveAt(dir, p), n)) = Cardinality(NamedIn(dir, n))
<1> DEFINE new == RemoveAt(dir, p)
           S == NamedIn(dir, n)
           T == NamedIn(new, n)
           f == [k \in T |-> IF k < p THEN k ELSE k + 1]
<1>1. /\ dir \in Seq(DirectoryEntry) /\ Len(dir) \in Nat /\ DOMAIN dir = 1 .. Len(dir)
      /\ GoodDir(new) /\ DOMAIN new = 1 .. Len(dir) - 1
      /\ \A k \in 1 .. Len(dir) - 1 : new[k] = IF k < p THEN dir[k] ELSE dir[k + 1]
  BY FileSystemAssumption, RemoveGood DEF GoodDir
<1>2. new \in Seq(DirectoryEntry) /\ p \in 1 .. Len(dir)
  BY <1>1 DEF GoodDir
<1>3. IsFiniteSet(S) /\ IsFiniteSet(T)
  BY <1>1, <1>2, NamedFinite
<1> HIDE DEF new
<1>4. ASSUME NEW k \in T PROVE f[k] \in S \ {p} /\ k \in Int /\ (k < p => f[k] = k) /\ (~(k < p) => f[k] = k + 1)
  <2>1. k \in 1 .. Len(dir) - 1 /\ new[k].inode = n
    BY <1>1 DEF NamedIn
  <2>2. CASE k < p
    BY <1>1, <1>2, <2>1, <2>2 DEF NamedIn
  <2>3. CASE ~(k < p)
    <3>1. f[k] = k + 1 /\ k + 1 \in 1 .. Len(dir) /\ k + 1 # p
      BY <1>1, <1>2, <2>1, <2>3
    <3>2. dir[k + 1].inode = n
      BY <1>1, <2>1, <2>3
    <3> QED BY <1>1, <2>1, <2>3, <3>1, <3>2 DEF NamedIn
  <2> QED BY <2>2, <2>3
<1>5. ASSUME NEW m \in S \ {p} PROVE \E k \in T : f[k] = m
  <2>1. m \in 1 .. Len(dir) /\ m # p /\ dir[m].inode = n
    BY <1>1 DEF NamedIn
  <2>2. CASE m < p
    <3>1. m \in 1 .. Len(dir) - 1
      BY <1>1, <1>2, <2>1, <2>2
    <3>2. new[m].inode = n
      BY <1>1, <2>1, <2>2, <3>1
    <3>3. m \in T
      BY <1>1, <3>1, <3>2 DEF NamedIn
    <3> QED BY <2>2, <3>3
  <2>3. CASE ~(m < p)
    <3>1. m - 1 \in 1 .. Len(dir) - 1 /\ ~(m - 1 < p) /\ (m - 1) + 1 = m
      BY <1>1, <1>2, <2>1, <2>3
    <3>2. new[m - 1] = dir[(m - 1) + 1]
      BY <1>1, <3>1
    <3>3. new[m - 1].inode = n
      BY <2>1, <3>1, <3>2
    <3>4. m - 1 \in T
      BY <1>1, <3>1, <3>3 DEF NamedIn
    <3>5. f[m - 1] = m
      BY <3>1, <3>4
    <3> QED BY <3>4, <3>5
  <2> QED BY <2>2, <2>3
<1> HIDE DEF S, T
<1>6. f \in [T -> S \ {p}]
  <2>1. \A k \in T : (IF k < p THEN k ELSE k + 1) \in S \ {p}
    BY <1>4
  <2> QED BY <2>1
<1> HIDE DEF f
<1>7. \A j, k \in T : f[j] = f[k] => j = k
  <2> SUFFICES ASSUME NEW j \in T, NEW k \in T, f[j] = f[k] PROVE j = k
    OBVIOUS
  <2>1. /\ j \in Int /\ (j < p => f[j] = j) /\ (~(j < p) => f[j] = j + 1)
        /\ k \in Int /\ (k < p => f[k] = k) /\ (~(k < p) => f[k] = k + 1) /\ p \in Int
    BY <1>2, <1>4
  <2> QED BY ONLY <2>1, f[j] = f[k]
<1>8. f \in Bijection(T, S \ {p})
  BY <1>5, <1>6, <1>7 DEF Bijection, Injection, Surjection, IsInjective
<1>9. Cardinality(S \ {p}) = Cardinality(T)
  BY <1>3, <1>8, FS_Bijection DEF ExistsBijection
<1>10. Cardinality(S \ {p}) = IF p \in S THEN Cardinality(S) - 1 ELSE Cardinality(S)
  BY <1>3, FS_RemoveElement
<1>11. p \in S <=> n = dir[p].inode
  BY <1>1, <1>2 DEF S, NamedIn
<1> QED BY <1>9, <1>10, <1>11 DEF S, T, new

LEMMA EntriesAre ==
  ASSUME FileSystemAssumption, GoodMemory, EntriesNow
  PROVE  /\ curDir \in Seq(DirectoryEntry) /\ inodeMap \subseteq InodeNum /\ RootInode \in inodeMap
         /\ \A n \in InodeNum : n \in inodeMap <=> NamedIn(curDir, n) # {}
         /\ \A n \in inodeMap \ {RootInode} :
              Cardinality(NamedIn(curDir, n)) = IF inode[n].type = "file" THEN inode[n].linkCount ELSE 1
         /\ inode \in [InodeNum -> GoodInode]
         /\ \A k \in DOMAIN curDir : curDir[k].inode \in inodeMap
<1>1. /\ curDir \in Seq(DirectoryEntry) /\ inodeMap \subseteq InodeNum /\ RootInode \in inodeMap
      /\ inode \in [InodeNum -> GoodInode]
  BY DEF GoodMemory, GoodRoot, GoodMaps, GoodDir
<1>2. /\ \A n \in InodeNum : n \in inodeMap <=> NamedIn(curDir, n) # {}
      /\ \A n \in inodeMap \ {RootInode} :
           Cardinality(NamedIn(curDir, n)) = IF inode[n].type = "file" THEN inode[n].linkCount ELSE 1
  BY DEF EntriesNow, SoundEntries
<1>3. \A k \in DOMAIN curDir : curDir[k].inode \in InodeNum
  <2>1. \A k \in DOMAIN curDir : curDir[k] \in DirectoryEntry
    BY ONLY <1>1, LenProperties, ElementOfSeq
  <2> QED BY <2>1 DEF DirectoryEntry
<1>4. \A k \in DOMAIN curDir : curDir[k].inode \in inodeMap
  BY <1>2, <1>3 DEF NamedIn
<1> QED BY <1>1, <1>2, <1>4

(* The entry of a new inode. *)
LEMMA EntriesAdded ==
  ASSUME FileSystemAssumption, GoodMemory, EntriesNow, NEW i \in InodeNum \ inodeMap, NEW ino, NEW name \in Name,
         ino.type = "file" => ino.linkCount = 1,
         inodeMap' = inodeMap \cup {i}, inode' = [inode EXCEPT ![i] = ino], curDir' = Append(curDir, Entry(name, i))
  PROVE  EntriesNow'
<1> DEFINE e == Entry(name, i)
<1>1. e \in DirectoryEntry /\ e.inode = i
  BY DEF Entry, DirectoryEntry
<1>2. /\ curDir \in Seq(DirectoryEntry) /\ inodeMap \subseteq InodeNum /\ RootInode \in inodeMap
      /\ \A n \in InodeNum : n \in inodeMap <=> NamedIn(curDir, n) # {}
      /\ \A n \in inodeMap \ {RootInode} :
           Cardinality(NamedIn(curDir, n)) = IF inode[n].type = "file" THEN inode[n].linkCount ELSE 1
      /\ inode \in [InodeNum -> GoodInode]
  BY FileSystemAssumption, EntriesAre
<1>3. curDir' = Append(curDir, e)
  OBVIOUS
<1> HIDE DEF e
<1>4. NamedIn(curDir', i) # {} /\ Cardinality(NamedIn(curDir', i)) = Cardinality(NamedIn(curDir, i)) + 1
  BY <1>1, <1>2, <1>3, NamedAppend
<1>5. Cardinality(NamedIn(curDir, i)) = 0
  <2>1. NamedIn(curDir, i) = {}
    BY <1>2
  <2> QED BY <1>2, <2>1, NamedFinite
<1>6. \A n \in InodeNum \ {i} : NamedIn(curDir', n) = NamedIn(curDir, n)
  BY <1>1, <1>2, <1>3, NamedAppend
<1>7. inode'[i] = ino /\ \A n \in inodeMap : inode'[n] = inode[n] /\ n # i
  BY <1>2
<1>8. \A n \in InodeNum : n \in inodeMap' <=> NamedIn(curDir', n) # {}
  BY <1>2, <1>4, <1>6
<1>9. ASSUME NEW n \in inodeMap' \ {RootInode}
      PROVE  Cardinality(NamedIn(curDir', n)) = IF inode'[n].type = "file" THEN inode'[n].linkCount ELSE 1
  <2>1. CASE n = i
    BY <1>4, <1>5, <1>7, <2>1
  <2>2. CASE n \in inodeMap
    BY <1>2, <1>6, <1>7, <2>2
  <2> QED BY <2>1, <2>2
<1> QED BY <1>8, <1>9 DEF EntriesNow, SoundEntries

(* One more entry for an inode that has some. *)
LEMMA EntriesLinked ==
  ASSUME FileSystemAssumption, GoodMemory, EntriesNow, NEW i \in inodeMap, i # RootInode, NEW name \in Name,
         inode[i].type = "file", inodeMap' = inodeMap,
         inode' = [inode EXCEPT ![i].linkCount = @ + 1], curDir' = Append(curDir, Entry(name, i))
  PROVE  EntriesNow'
<1> DEFINE e == Entry(name, i)
<1>2. /\ curDir \in Seq(DirectoryEntry) /\ inodeMap \subseteq InodeNum /\ RootInode \in inodeMap
      /\ \A n \in InodeNum : n \in inodeMap <=> NamedIn(curDir, n) # {}
      /\ \A n \in inodeMap \ {RootInode} :
           Cardinality(NamedIn(curDir, n)) = IF inode[n].type = "file" THEN inode[n].linkCount ELSE 1
      /\ inode \in [InodeNum -> GoodInode]
  BY FileSystemAssumption, EntriesAre
<1>1. e \in DirectoryEntry /\ e.inode = i /\ i \in InodeNum
  BY <1>2 DEF Entry, DirectoryEntry
<1>3. curDir' = Append(curDir, e)
  OBVIOUS
<1> HIDE DEF e
<1>4. NamedIn(curDir', i) # {} /\ Cardinality(NamedIn(curDir', i)) = Cardinality(NamedIn(curDir, i)) + 1
  BY <1>1, <1>2, <1>3, NamedAppend
<1>5. \A n \in InodeNum \ {i} : NamedIn(curDir', n) = NamedIn(curDir, n)
  BY <1>1, <1>2, <1>3, NamedAppend
<1>6. /\ inode'[i].type = "file" /\ inode'[i].linkCount = inode[i].linkCount + 1
      /\ \A n \in inodeMap \ {i} : inode'[n] = inode[n]
  BY <1>1, <1>2 DEF GoodInode
<1>7. \A n \in InodeNum : n \in inodeMap' <=> NamedIn(curDir', n) # {}
  BY <1>2, <1>4, <1>5
<1>8. ASSUME NEW n \in inodeMap' \ {RootInode}
      PROVE  Cardinality(NamedIn(curDir', n)) = IF inode'[n].type = "file" THEN inode'[n].linkCount ELSE 1
  <2>1. CASE n = i
    <3>1. Cardinality(NamedIn(curDir, i)) = inode[i].linkCount
      BY <1>2
    <3> QED BY <1>4, <1>6, <2>1, <3>1
  <2>2. CASE n # i
    BY <1>2, <1>5, <1>6, <2>2
  <2> QED BY <2>1, <2>2
<1> QED BY <1>7, <1>8 DEF EntriesNow, SoundEntries

(* An entry goes, and its inode with it if it was the last. *)
LEMMA EntriesDropped ==
  ASSUME FileSystemAssumption, GoodMemory, EntriesNow, NEW p \in DOMAIN curDir, NEW i, i = curDir[p].inode, i # RootInode,
         curDir' = RemoveAt(curDir, p),
         \/ /\ Cardinality(NamedIn(curDir, i)) = 1
            /\ inodeMap' = inodeMap \ {i} /\ inode' = inode
         \/ /\ inode[i].type = "file" /\ inode[i].linkCount # 1
            /\ inodeMap' = inodeMap /\ inode' = [inode EXCEPT ![i].linkCount = @ - 1]
  PROVE  EntriesNow'
<1>1. /\ curDir \in Seq(DirectoryEntry) /\ inodeMap \subseteq InodeNum /\ RootInode \in inodeMap
      /\ \A n \in InodeNum : n \in inodeMap <=> NamedIn(curDir, n) # {}
      /\ \A n \in inodeMap \ {RootInode} :
           Cardinality(NamedIn(curDir, n)) = IF inode[n].type = "file" THEN inode[n].linkCount ELSE 1
      /\ inode \in [InodeNum -> GoodInode]
      /\ i \in inodeMap
  BY FileSystemAssumption, EntriesAre
<1>2. GoodDir(curDir) /\ GoodDir(curDir') /\ curDir' \in Seq(DirectoryEntry)
  BY FileSystemAssumption, RemoveGood DEF GoodMemory, GoodDir
<1>3. /\ Cardinality(NamedIn(curDir', i)) = Cardinality(NamedIn(curDir, i)) - 1
      /\ \A n : n # i => Cardinality(NamedIn(curDir', n)) = Cardinality(NamedIn(curDir, n))
  BY FileSystemAssumption, <1>2, NamedRemove
<1>4. \A n : /\ Cardinality(NamedIn(curDir, n)) \in Nat /\ Cardinality(NamedIn(curDir', n)) \in Nat
  BY <1>1, <1>2, NamedFinite
<1>5. \A n : (NamedIn(curDir, n) = {} <=> Cardinality(NamedIn(curDir, n)) = 0) /\ (NamedIn(curDir', n) = {} <=> Cardinality(NamedIn(curDir', n)) = 0)
  BY <1>1, <1>2, NamedFinite
<1>6. CASE Cardinality(NamedIn(curDir, i)) = 1 /\ inodeMap' = inodeMap \ {i} /\ inode' = inode
  <2>1. NamedIn(curDir', i) = {}
    BY <1>3, <1>5, <1>6
  <2>2. \A n \in InodeNum : n \in inodeMap' <=> NamedIn(curDir', n) # {}
    BY <1>1, <1>3, <1>5, <1>6, <2>1
  <2>3. \A n \in inodeMap' \ {RootInode} :
          Cardinality(NamedIn(curDir', n)) = IF inode'[n].type = "file" THEN inode'[n].linkCount ELSE 1
    BY <1>1, <1>3, <1>6
  <2> QED BY <2>2, <2>3 DEF EntriesNow, SoundEntries
<1>7. CASE inode[i].type = "file" /\ inode[i].linkCount # 1
           /\ inodeMap' = inodeMap /\ inode' = [inode EXCEPT ![i].linkCount = @ - 1]
  <2>1. Cardinality(NamedIn(curDir, i)) = inode[i].linkCount /\ Cardinality(NamedIn(curDir, i)) # 0
    BY <1>1, <1>5, <1>7
  <2>2. Cardinality(NamedIn(curDir', i)) # 0 /\ Cardinality(NamedIn(curDir', i)) = inode[i].linkCount - 1
    BY <1>3, <1>4, <1>7, <2>1
  <2>3. /\ inode'[i].type = "file" /\ inode'[i].linkCount = inode[i].linkCount - 1
        /\ \A n \in inodeMap \ {i} : inode'[n] = inode[n]
    BY <1>1, <1>7 DEF GoodInode
  <2>4. \A n \in InodeNum : n \in inodeMap' <=> NamedIn(curDir', n) # {}
    BY <1>1, <1>3, <1>5, <1>7, <2>2
  <2>5. ASSUME NEW n \in inodeMap' \ {RootInode}
        PROVE  Cardinality(NamedIn(curDir', n)) = IF inode'[n].type = "file" THEN inode'[n].linkCount ELSE 1
    <3>1. CASE n = i
      BY <2>2, <2>3, <3>1
    <3>2. CASE n # i
      BY <1>1, <1>3, <1>7, <2>3, <3>2
    <3> QED BY <3>1, <3>2
  <2> QED BY <2>4, <2>5 DEF EntriesNow, SoundEntries
<1> QED BY <1>6, <1>7

-----------------------------------------------------------------------------
(* The commands, in the root. *)

LEMMA BlocksSound ==
  ASSUME FileSystemAssumption, GoodMemory, SoundNow, NEW n \in Nat, ~BlocksFull(n)
  PROVE  LET got == get_blocks(BlocksFor(n))
         IN  /\ Len(got) = BlocksFor(n) /\ Cardinality(Range(got)) = Len(got)
             /\ \A bytes : \A b \in blockMap : Filled(got, bytes)[b] = disk[b]
<1> DEFINE got == get_blocks(BlocksFor(n))
<1>1. BlocksFor(n) \in Nat
  BY FileSystemAssumption, Turns
<1>2. /\ got \in Seq(Block) /\ \A i, j \in DOMAIN got : got[i] = got[j] => i = j
      /\ Range(got) \in SUBSET FreeBlocks
  BY FileSystemAssumption, BlocksGood
<1>3. superBlock.freeBlockCount = Cardinality(FreeBlocks) /\ superBlock.freeBlockCount \in Nat
  BY FileSystemAssumption, OwnFacts DEF GoodMemory, GoodMaps
<1>4. BlocksFor(n) <= Cardinality(FreeBlocks)
  BY <1>1, <1>3 DEF BlocksFull
<1>5. Len(got) = BlocksFor(n) /\ Cardinality(Range(got)) = Len(got)
  BY FileSystemAssumption, <1>1, <1>4, GetBlocks
<1> HIDE DEF got
<1>6. ASSUME NEW bytes, NEW b \in blockMap PROVE Filled(got, bytes)[b] = disk[b]
  <2>1. b \in Block \ Range(got)
    BY <1>2 DEF FreeBlocks, GoodMemory, GoodMaps
  <2> QED BY FileSystemAssumption, <1>2, <2>1, FilledIs
<1> QED BY <1>5, <1>6 DEF got

(* A new file's inode, blocks and entry are its own. *)
LEMMA NewSound ==
  ASSUME FileSystemAssumption, GoodMemory, SoundMemory, NEW name \in Name, NEW type, NEW n \in Nat \ {0},
         type = "directory" => n = 1, NEW bytes, Len(bytes) = n, ~InodesFull, ~BlocksFull(n),
         Take(Range(get_blocks(BlocksFor(n))), {get_inode}),
         disk' = Filled(get_blocks(BlocksFor(n)), bytes),
         inode' = [inode EXCEPT ![get_inode] = NewInode(type, n, get_blocks(BlocksFor(n)))],
         curDir' = Append(curDir, Entry(name, get_inode)), UNCHANGED <<curDirInode, leaked>>
  PROVE  SoundMemory'
<1> DEFINE got == get_blocks(BlocksFor(n))
           i == get_inode
           ino == NewInode(type, n, got)
<1>1. SoundNow /\ EntriesNow /\ curDirInode = RootBlock
  BY DEF SoundMemory
<1>2. i \in InodeNum \ inodeMap /\ {i} \in SUBSET FreeInodes
  BY FileSystemAssumption, InodeGood
<1>3. /\ got \in Seq(Block) /\ Len(got) <= BlocksFor(n)
      /\ \A j, k \in DOMAIN got : got[j] = got[k] => j = k
      /\ Range(got) \in SUBSET FreeBlocks /\ Cardinality(Range(got)) <= superBlock.freeBlockCount
  BY FileSystemAssumption, BlocksGood
<1>4. Len(got) = BlocksFor(n) /\ Cardinality(Range(got)) = Len(got) /\ \A b \in blockMap : disk'[b] = disk[b]
  BY FileSystemAssumption, <1>1, BlocksSound
<1>5. /\ inodeMap' = inodeMap \cup {i} /\ blockMap' = blockMap \cup Range(got)
      /\ inode' = [inode EXCEPT ![i] = ino] /\ disk' = Filled(got, bytes)
      /\ curDir' = Append(curDir, Entry(name, i)) /\ curDirInode' = curDirInode /\ leaked' = leaked
  BY DEF Take
<1>6. ino.type = "file" => ino.linkCount = 1
  BY DEF NewInode
<1>7. superBlock'.freeBlockCount = Cardinality(Block \ blockMap')
  <2>1. GoodMaps(superBlock, inodeMap, blockMap) /\ superBlock.freeBlockCount = Cardinality(Block \ blockMap)
    BY FileSystemAssumption, <1>1, OwnFacts DEF GoodMemory, FreeBlocks
  <2>2. Take(Range(got), {i})
    OBVIOUS
  <2> HIDE DEF got, i
  <2> QED BY FileSystemAssumption, <1>2, <1>3, <2>1, <2>2, TakeKeeps
<1> HIDE DEF got, i
<1>8. SoundInode(disk', ino) /\ OwnedIn(disk', ino) = Range(got)
  <2>1. got \in Seq(Block) /\ (\A j, k \in DOMAIN got : got[j] = got[k] => j = k) /\ Len(got) = BlocksFor(n)
        /\ Cardinality(Range(got)) = Len(got)
    BY <1>3, <1>4
  <2>2. /\ SoundInode(Filled(got, bytes), NewInode(type, n, got))
        /\ OwnedIn(Filled(got, bytes), NewInode(type, n, got)) = Range(got)
    BY ONLY FileSystemAssumption, <2>1, n \in Nat \ {0}, type = "directory" => n = 1, Len(bytes) = n, NewInodeOwns
  <2>3. disk' = Filled(got, bytes)
    BY <1>5
  <2> QED BY ONLY <2>2, <2>3, Zenon
<1> HIDE DEF ino
<1>9. SoundNow'
  BY FileSystemAssumption, <1>1, <1>2, <1>3, <1>4, <1>5, <1>7, <1>8, AddSound
<1>10. EntriesNow'
  BY FileSystemAssumption, <1>1, <1>2, <1>5, <1>6, EntriesAdded
<1> QED BY <1>1, <1>5, <1>9, <1>10 DEF SoundMemory

LEMMA CreateSound ==
  ASSUME FileSystemAssumption, GoodMemory, SoundMemory, NEW name \in Name, NEW n \in Nat \ {0}, NEW data,
         file_create(name, n, data)
  PROVE  SoundMemory'
<1> DEFINE got == get_blocks(BlocksFor(n))
           bytes == [k \in 1 .. n |-> DataBlock(data, k)]
           i == get_inode
<1>1. Len(got) = BlocksFor(n)
  BY FileSystemAssumption, BlocksSound DEF SoundMemory, file_create
<1>2. /\ ~InodesFull /\ ~BlocksFull(n) /\ Take(Range(got), {i})
      /\ disk' = Filled(got, bytes) /\ inode' = [inode EXCEPT ![i] = NewInode("file", n, got)]
      /\ curDir' = Append(curDir, Entry(name, i)) /\ UNCHANGED <<curDirInode, leaked>>
  BY <1>1 DEF file_create, AddEntry
<1>3. Len(bytes) = n
  OBVIOUS
<1> HIDE DEF bytes
<1>4. "file" = "directory" => n = 1
  OBVIOUS
<1> QED BY FileSystemAssumption, <1>2, <1>3, <1>4, NewSound

LEMMA CopySound ==
  ASSUME FileSystemAssumption, GoodMemory, SoundMemory, NEW src \in Name, NEW dest \in Name, file_copy(src, dest)
  PROVE  SoundMemory'
<1> DEFINE ino == InodeOf(src)
           n == ino.blockCount
           type == ino.type
           got == get_blocks(BlocksFor(n))
           bytes == file_cat(ino)
           i == get_inode
<1>1. Exists(src) /\ ~BlocksFull(n)
  BY DEF file_copy
<1>2. search_cur_dir(src) \in inodeMap
  <2>1. Position(src) \in DOMAIN curDir
    BY <1>1, SearchGood DEF GoodMemory
  <2> QED BY FileSystemAssumption, <2>1, EntriesAre DEF SoundMemory, search_cur_dir
<1>3. ino \in GoodInode /\ SoundInode(disk, ino)
  BY FileSystemAssumption, <1>2, OwnFacts DEF SoundMemory, InodeOf
<1>4. n \in Nat \ {0} /\ (type = "directory" => n = 1)
  BY <1>3 DEF SoundInode, GoodInode
<1>5. Len(got) = BlocksFor(n)
  BY FileSystemAssumption, <1>1, <1>4, BlocksSound DEF SoundMemory
<1>6. /\ ~InodesFull /\ Take(Range(got), {i})
      /\ disk' = Filled(got, bytes) /\ inode' = [inode EXCEPT ![i] = NewInode(type, n, got)]
      /\ curDir' = Append(curDir, Entry(dest, i)) /\ UNCHANGED <<curDirInode, leaked>>
  BY <1>5 DEF file_copy, AddEntry
<1>7. Len(bytes) = n
  BY <1>4 DEF file_cat, BytesIn
<1> HIDE DEF bytes, n, type, ino
<1> QED BY FileSystemAssumption, <1>1, <1>4, <1>6, <1>7, NewSound

LEMMA LinkSound ==
  ASSUME FileSystemAssumption, GoodMemory, SoundMemory, NEW src \in Name, NEW dest \in Name, hard_link(src, dest)
  PROVE  SoundMemory'
<1> DEFINE i == search_cur_dir(src)
<1>1. /\ Exists(src) /\ ~IsDir(src)
      /\ inode' = [inode EXCEPT ![i].linkCount = @ + 1]
      /\ curDir' = Append(curDir, Entry(dest, i))
      /\ UNCHANGED <<superBlock, inodeMap, blockMap, curDirInode, disk, leaked>>
  BY DEF hard_link, AddEntry, maps
<1>2. i \in inodeMap
  <2>1. Position(src) \in DOMAIN curDir
    BY <1>1, SearchGood DEF GoodMemory
  <2> QED BY FileSystemAssumption, <2>1, EntriesAre DEF SoundMemory, search_cur_dir
<1>3. i # RootInode /\ inode[i].type # "directory"
  BY <1>1 DEF IsDir, InodeOf, GoodMemory, GoodRoot
<1>4. inode \in [InodeNum -> GoodInode] /\ inodeMap \subseteq InodeNum
  BY DEF GoodMemory, GoodRoot, GoodMaps
<1>5. inode[i].type = "file"
  BY <1>2, <1>3, <1>4 DEF GoodInode
<1> HIDE DEF i
<1>6. \A n \in inodeMap : SameBlocks(inode[n], inode'[n])
  BY <1>1, <1>2, <1>4 DEF SameBlocks, GoodInode
<1>7. SoundNow'
  BY FileSystemAssumption, <1>1, <1>6, SameSound DEF SoundMemory
<1>8. EntriesNow'
  BY FileSystemAssumption, <1>1, <1>2, <1>3, <1>5, EntriesLinked DEF SoundMemory
<1> QED BY <1>1, <1>7, <1>8 DEF SoundMemory

LEMMA RemoveFileSound ==
  ASSUME FileSystemAssumption, GoodMemory, SoundMemory, NEW name \in Name, file_remove(name)
  PROVE  SoundMemory'
<1> DEFINE i == search_cur_dir(name)
           p == Position(name)
<1>1. /\ Exists(name) /\ ~IsDir(name) /\ curDir' = RemoveAt(curDir, p)
      /\ UNCHANGED <<curDirInode, disk, leaked>>
      /\ \/ inode[i].linkCount = 1 /\ Free(Freed(inode[i]), {i}) /\ inode' = inode
         \/ inode[i].linkCount # 1 /\ inode' = [inode EXCEPT ![i].linkCount = @ - 1] /\ UNCHANGED <<superBlock, inodeMap, blockMap>>
  BY DEF file_remove, RemoveEntry, InodeOf, LastLink, maps
<1>2. p \in DOMAIN curDir /\ i = curDir[p].inode /\ i \in inodeMap
  <2>1. p \in DOMAIN curDir
    BY <1>1, SearchGood DEF GoodMemory
  <2> QED BY FileSystemAssumption, <2>1, EntriesAre DEF SoundMemory, search_cur_dir
<1>3. i # RootInode /\ inode[i].type # "directory"
  BY <1>1 DEF IsDir, InodeOf, GoodMemory, GoodRoot
<1>4. inode \in [InodeNum -> GoodInode] /\ inodeMap \subseteq InodeNum
  BY DEF GoodMemory, GoodRoot, GoodMaps
<1>5. inode[i].type = "file"
  BY <1>2, <1>3, <1>4 DEF GoodInode
<1> HIDE DEF i, p
<1>6. CASE inode[i].linkCount = 1 /\ Free(Freed(inode[i]), {i}) /\ inode' = inode
  <2>1. Freed(inode[i]) = Own(i)
    BY DEF Freed, BlocksOf, FileBlocks, Own, OwnedIn
  <2>2. /\ GoodMaps(superBlock, inodeMap, blockMap) /\ superBlock.freeBlockCount = Cardinality(Block \ blockMap)
        /\ -1 \notin Own(i)
    <3>1. Own(i) \subseteq blockMap
      BY FileSystemAssumption, <1>2, OwnFacts DEF SoundMemory
    <3>2. -1 \notin Block
      BY DEF Block
    <3> QED BY FileSystemAssumption, <3>1, <3>2, OwnFacts DEF SoundMemory, GoodMemory, GoodMaps, FreeBlocks
  <2>3. superBlock'.freeBlockCount = Cardinality(Block \ blockMap')
    BY FileSystemAssumption, <1>6, <2>1, <2>2, FreeKeeps
  <2>4. inodeMap' = inodeMap \ {i} /\ blockMap' = blockMap \ Own(i)
    BY <1>6, <2>1 DEF Free
  <2>5. SoundNow'
    BY FileSystemAssumption, <1>1, <1>2, <1>6, <2>3, <2>4, RemoveSound DEF SoundMemory
  <2>6. Cardinality(NamedIn(curDir, i)) = 1
    BY FileSystemAssumption, <1>2, <1>3, <1>5, <1>6, EntriesAre DEF SoundMemory
  <2>7. EntriesNow'
    BY FileSystemAssumption, <1>1, <1>2, <1>3, <1>6, <2>4, <2>6, EntriesDropped DEF SoundMemory
  <2> QED BY <1>1, <2>5, <2>7 DEF SoundMemory
<1>7. CASE inode[i].linkCount # 1 /\ inode' = [inode EXCEPT ![i].linkCount = @ - 1] /\ UNCHANGED <<superBlock, inodeMap, blockMap>>
  <2>1. \A n \in inodeMap : SameBlocks(inode[n], inode'[n])
    BY <1>2, <1>4, <1>7 DEF SameBlocks, GoodInode
  <2>2. SoundNow'
    BY FileSystemAssumption, <1>1, <1>7, <2>1, SameSound DEF SoundMemory
  <2>3. EntriesNow'
    BY FileSystemAssumption, <1>1, <1>2, <1>3, <1>5, <1>7, EntriesDropped DEF SoundMemory
  <2> QED BY <1>1, <2>2, <2>3 DEF SoundMemory
<1> QED BY <1>1, <1>6, <1>7

(* A new directory that has a block, and is written to the root's. *)
LEMMA MakeDirSound ==
  ASSUME FileSystemAssumption, GoodMemory, SoundMemory, NEW name \in Name, dir_make(name), get_block # -1
  PROVE  SoundMemory'
<1> DEFINE block == get_block
           i == get_inode
           ino == [ZeroInode EXCEPT !.type = "directory", !.blockCount = 1, !.directBlock = <<block>>]
           new == DirBlock(<<Entry(".", i), Entry("..", curDir'[1].inode)>>)
<1>1. /\ ~MkdirRefused(name) /\ Take({block} \cap Block, {i}) /\ inode' = [inode EXCEPT ![i] = ino]
      /\ curDir' = Append(curDir, Entry(name, i)) /\ curDirInode' = curDirInode /\ leaked' = leaked
      /\ disk' = write_disk_block(write_disk_block(disk, block, new), curDirInode, DirBlock(curDir'))
  BY DEF dir_make, AddEntry
<1>2. i \in InodeNum \ inodeMap /\ {i} \in SUBSET FreeInodes
  BY FileSystemAssumption, <1>1, InodeGood DEF MkdirRefused
<1>3. block \in FreeBlocks /\ {block} \in SUBSET FreeBlocks /\ {block} \cap Block = {block}
  BY FileSystemAssumption, GetOne DEF FreeBlocks
<1>4. SoundNow /\ EntriesNow /\ curDirInode = RootBlock
  BY DEF SoundMemory
<1> HIDE DEF block, i, new
<1>5. /\ ino.type = "directory" /\ ino.blockCount = 1 /\ ino.directBlock = <<block>>
  BY DEF ZeroInode
<1> HIDE DEF ino
<1>6. \A d : SoundInode(d, ino) /\ OwnedIn(d, ino) = {block}
  <2> SUFFICES ASSUME NEW d PROVE SoundInode(d, ino) /\ OwnedIn(d, ino) = {block}
    OBVIOUS
  <2>1. <<block>> \in Seq(Block) /\ Len(<<block>>) = 1 /\ Range(<<block>>) = {block}
    BY <1>3 DEF FreeBlocks, Range
  <2>2. ~HasMap(1) /\ ~HasMap(ino.blockCount)
    BY FileSystemAssumption, Sizing, <1>5 DEF HasMap
  <2>3. ino.directBlock \in Seq(Block) /\ Len(ino.directBlock) = ino.blockCount
    BY <1>5, <2>1
  <2>4. OwnedIn(d, ino) = {block}
    BY FileSystemAssumption, <1>5, <2>1, <2>2, <2>3, OwnedDirect
  <2>5. Cardinality({block}) = 1 /\ BlocksFor(1) = 1
    BY <2>2, FS_Singleton DEF BlocksFor
  <2> QED BY <1>5, <2>2, <2>3, <2>4, <2>5 DEF SoundInode
<1>7. \A b \in blockMap \ {RootBlock} : disk'[b] = disk[b]
  <2>1. block \notin blockMap
    BY <1>3 DEF FreeBlocks
  <2>2. \A d, b, c, buf : b # c => write_disk_block(d, b, buf)[c] = d[c]
    BY DEF write_disk_block
  <2> QED BY <1>1, <1>4, <2>1, <2>2
<1>8. superBlock'.freeBlockCount = Cardinality(Block \ blockMap')
  <2>1. GoodMaps(superBlock, inodeMap, blockMap) /\ superBlock.freeBlockCount = Cardinality(Block \ blockMap)
    BY FileSystemAssumption, <1>4, OwnFacts DEF GoodMemory, FreeBlocks
  <2>2. Take({block}, {i})
    BY <1>1, <1>3
  <2>3. Cardinality({block}) <= superBlock.freeBlockCount
    <3>1. IsFiniteSet(FreeBlocks) /\ superBlock.freeBlockCount = Cardinality(FreeBlocks)
      BY FileSystemAssumption, <2>1, Finite, FS_Difference DEF FreeBlocks
    <3> QED BY <1>3, <3>1, FS_Subset
  <2> QED BY FileSystemAssumption, <1>2, <1>3, <2>1, <2>2, <2>3, TakeKeeps
<1>9. inodeMap' = inodeMap \cup {i} /\ blockMap' = blockMap \cup {block}
  BY <1>1, <1>3 DEF Take
<1>10. SoundNow'
  <2>1. SoundInode(disk', ino) /\ OwnedIn(disk', ino) = {block}
    BY <1>6
  <2> QED BY FileSystemAssumption, <1>1, <1>2, <1>3, <1>4, <1>7, <1>8, <1>9, <2>1, AddSound
<1>11. EntriesNow'
  <2>1. ino.type = "file" => ino.linkCount = 1
    BY <1>5
  <2> QED BY FileSystemAssumption, <1>1, <1>2, <1>4, <1>9, <2>1, EntriesAdded
<1> QED BY <1>1, <1>4, <1>10, <1>11 DEF SoundMemory

LEMMA MakeDirFailsSound ==
  ASSUME FileSystemAssumption, GoodMemory, SoundMemory, NEW name \in Name, dir_make_fails(name)
  PROVE  SoundMemory'
<1> DEFINE block == get_block
<1>1. /\ block # -1 /\ Take({block}, {}) /\ leaked' = leaked \cup {block}
      /\ UNCHANGED <<inode, curDir, curDirInode, disk>>
  BY DEF dir_make_fails
<1>2. block \in FreeBlocks
  BY FileSystemAssumption, <1>1, GetOne
<1>3. SoundNow /\ EntriesNow /\ curDirInode = RootBlock
  BY DEF SoundMemory
<1> HIDE DEF block
<1>4. superBlock'.freeBlockCount = Cardinality(Block \ blockMap')
  <2>1. GoodMaps(superBlock, inodeMap, blockMap) /\ superBlock.freeBlockCount = Cardinality(Block \ blockMap)
    BY FileSystemAssumption, <1>3, OwnFacts DEF GoodMemory, FreeBlocks
  <2>2. Cardinality({block}) <= superBlock.freeBlockCount
    <3>1. IsFiniteSet(FreeBlocks) /\ superBlock.freeBlockCount = Cardinality(FreeBlocks) /\ {block} \in SUBSET FreeBlocks
      BY FileSystemAssumption, <1>2, <2>1, Finite, FS_Difference DEF FreeBlocks
    <3> QED BY <3>1, FS_Subset
  <2>3. {block} \in SUBSET FreeBlocks /\ {} \in SUBSET FreeInodes
    BY <1>2
  <2> QED BY FileSystemAssumption, <1>1, <2>1, <2>2, <2>3, TakeKeeps
<1>5. inodeMap' = inodeMap /\ blockMap' = blockMap \cup {block}
  BY <1>1 DEF Take
<1>6. SoundNow'
  BY FileSystemAssumption, <1>1, <1>2, <1>3, <1>4, <1>5, LostSound
<1>7. EntriesNow'
  BY <1>1, <1>3, <1>5 DEF EntriesNow, SoundEntries
<1> QED BY <1>1, <1>3, <1>6, <1>7 DEF SoundMemory

LEMMA RemoveDirSound ==
  ASSUME FileSystemAssumption, GoodMemory, SoundMemory, NEW name \in Name, dir_remove(name)
  PROVE  SoundMemory'
<1> DEFINE i == search_cur_dir(name)
           p == Position(name)
<1>1. /\ Exists(name) /\ name \in Names /\ curDir' = RemoveAt(curDir, p) /\ Free(Range(inode[i].directBlock), {i})
      /\ UNCHANGED <<inode, curDirInode, disk, leaked>> /\ inode[i].type = "directory"
  BY DEF dir_remove, RemoveEntry, IsDir, Name, InodeOf
<1>2. p \in DOMAIN curDir /\ i = curDir[p].inode /\ i # RootInode
  BY <1>1, SearchGood DEF GoodMemory, search_cur_dir
<1>3. SoundNow /\ EntriesNow /\ curDirInode = RootBlock
  BY DEF SoundMemory
<1>4. i \in inodeMap
  BY FileSystemAssumption, <1>2, <1>3, EntriesAre
<1> HIDE DEF i, p
<1>5. /\ inode[i].blockCount = 1 /\ SoundInode(disk, inode[i]) /\ Own(i) \subseteq blockMap
      /\ superBlock.freeBlockCount = Cardinality(Block \ blockMap)
  BY FileSystemAssumption, <1>1, <1>3, <1>4, OwnFacts DEF SoundInode, FreeBlocks
<1>6. Range(inode[i].directBlock) = Own(i)
  <2>1. ~HasMap(inode[i].blockCount)
    BY FileSystemAssumption, Sizing, <1>5 DEF HasMap
  <2>2. inode[i].directBlock \in Seq(Block) /\ Len(inode[i].directBlock) = inode[i].blockCount
    BY <1>5, <2>1 DEF SoundInode
  <2> QED BY FileSystemAssumption, <2>1, <2>2, OwnedDirect DEF Own
<1>7. superBlock'.freeBlockCount = Cardinality(Block \ blockMap')
  <2>1. GoodMaps(superBlock, inodeMap, blockMap) /\ -1 \notin Own(i)
    <3>1. -1 \notin Block
      BY DEF Block
    <3> QED BY <1>5, <3>1 DEF GoodMemory, GoodMaps
  <2> QED BY FileSystemAssumption, <1>1, <1>5, <1>6, <2>1, FreeKeeps
<1>8. inodeMap' = inodeMap \ {i} /\ blockMap' = blockMap \ Own(i)
  BY <1>1, <1>6 DEF Free
<1>9. SoundNow'
  BY FileSystemAssumption, <1>1, <1>3, <1>4, <1>7, <1>8, RemoveSound
<1>10. Cardinality(NamedIn(curDir, i)) = 1
  BY FileSystemAssumption, <1>1, <1>2, <1>3, <1>4, EntriesAre
<1>11. EntriesNow'
  BY FileSystemAssumption, <1>1, <1>2, <1>3, <1>8, <1>10, EntriesDropped
<1> QED BY <1>1, <1>3, <1>9, <1>11 DEF SoundMemory

(* A command that does not go astray keeps the root sound. *)
LEMMA CommandSound ==
  ASSUME FileSystemAssumption, GoodMemory, execute_command, ~astray => SoundMemory
  PROVE  ~astray' => SoundMemory'
<1> SUFFICES ASSUME ~astray' PROVE SoundMemory'
  OBVIOUS
<1>1. PICK name \in Name :
        \/ \E n \in Sizes, data \in Data : file_create(name, n, data)
        \/ \E src \in Name : file_copy(src, name) \/ hard_link(src, name)
        \/ file_remove(name)
        \/ dir_make(name) \/ dir_make_fails(name)
        \/ dir_remove(name)
        \/ dir_change(name)
  BY DEF execute_command
<1>2. CASE \E n \in Sizes, data \in Data : file_create(name, n, data)
  <2>1. PICK n \in Sizes, data \in Data : file_create(name, n, data)
    BY <1>2
  <2>2. n \in Nat \ {0}
    BY FileSystemAssumption DEF FileSystemAssumption
  <2>3. astray' = astray
    BY <2>1 DEF file_create
  <2> QED BY FileSystemAssumption, <2>1, <2>2, <2>3, CreateSound
<1>3. CASE \E src \in Name : file_copy(src, name) \/ hard_link(src, name)
  <2>1. PICK src \in Name : file_copy(src, name) \/ hard_link(src, name)
    BY <1>3
  <2>2. astray' = astray
    BY <2>1 DEF file_copy, hard_link
  <2> QED BY FileSystemAssumption, <2>1, <2>2, CopySound, LinkSound
<1>4. CASE file_remove(name)
  <2>1. astray' = astray
    BY <1>4 DEF file_remove
  <2> QED BY FileSystemAssumption, <1>4, <2>1, RemoveFileSound
<1>5. CASE dir_make(name)
  <2>1. ~astray /\ get_block # -1
    BY <1>5 DEF dir_make
  <2> QED BY FileSystemAssumption, <1>5, <2>1, MakeDirSound
<1>6. CASE dir_make_fails(name)
  <2>1. astray' = astray
    BY <1>6 DEF dir_make_fails
  <2> QED BY FileSystemAssumption, <1>6, <2>1, MakeDirFailsSound
<1>7. CASE dir_remove(name)
  <2>1. astray' = astray
    BY <1>7 DEF dir_remove
  <2> QED BY FileSystemAssumption, <1>7, <2>1, RemoveDirSound
<1>8. CASE dir_change(name)
  <2>1. astray' = TRUE
    BY FileSystemAssumption, <1>8, ChangeDirGood
  <2> QED BY <2>1
<1> QED BY <1>1, <1>2, <1>3, <1>4, <1>5, <1>6, <1>7, <1>8

(* Only cd can take a block for what it is not, and it leaves the root. *)
LEMMA SessionKept ==
  ASSUME FileSystemAssumption, GoodFlags, GoodMemory, session = "mounted", execute_command
  PROVE  session' \in {"mounted", "wild"} /\ (session' = "wild" => astray')
<1>1. session' \in {"mounted", "wild"}
  BY FileSystemAssumption, CommandGood
<1>2. session' = session \/ astray'
  <2>1. PICK name \in Name :
          \/ \E n \in Sizes, data \in Data : file_create(name, n, data)
          \/ \E src \in Name : file_copy(src, name) \/ hard_link(src, name)
          \/ file_remove(name)
          \/ dir_make(name) \/ dir_make_fails(name)
          \/ dir_remove(name)
          \/ dir_change(name)
    BY DEF execute_command
  <2>2. dir_change(name) => astray'
    BY FileSystemAssumption, ChangeDirGood
  <2>3. (\E n \in Sizes, data \in Data : file_create(name, n, data)) => session' = session
    BY DEF file_create
  <2>4. (\E src \in Name : file_copy(src, name) \/ hard_link(src, name)) => session' = session
    BY DEF file_copy, hard_link
  <2>5. file_remove(name) \/ dir_make(name) \/ dir_make_fails(name) \/ dir_remove(name) => session' = session
    BY DEF file_remove, dir_make, dir_make_fails, dir_remove
  <2> QED BY <2>1, <2>2, <2>3, <2>4, <2>5
<1> QED BY <1>1, <1>2

-----------------------------------------------------------------------------
(* The image says what memory said. *)

(* The disk that the next process mounts, after all of the image was       *)
(* written in the root.                                                    *)
LEMMA WholeDisk ==
  ASSUME FileSystemAssumption, GoodMemory, curDirInode = RootBlock, disk_umount(MAX_BLOCK)
  PROVE  /\ \A b \in 0 .. MetaBlocks - 1 : ImageDisk'[b] = MetaBlock(b)
         /\ ImageDisk'[RootBlock] = DirBlock(curDir)
         /\ \A b \in Block : b # RootBlock /\ ~(b < MetaBlocks) => ImageDisk'[b] = disk[b]
         /\ image'.astray <=> astray
         /\ image'.leaked = leaked /\ image'.exists
<1>1. /\ MAX_BLOCK \in Nat /\ MetaBlocks \in Nat /\ MetaBlocks < MAX_BLOCK /\ RootBlock \in Block /\ RootBlock = MetaBlocks
  BY FileSystemAssumption, Sizing DEF RootBlock
<1>2. MAX_BLOCK \in 0 .. MAX_BLOCK /\ ~(MAX_BLOCK < MAX_BLOCK) /\ \A b \in Block : b < MAX_BLOCK
  BY <1>1 DEF Block
<1>3. /\ \A b \in Block : b < MAX_BLOCK => ImageDisk'[b] = DiskToSave[b]
      /\ image'.exists = TRUE /\ image'.astray = (astray \/ MAX_BLOCK < MAX_BLOCK) /\ image'.leaked = leaked
  BY FileSystemAssumption, <1>2, WrittenDisk
<1>4. \A b \in Block : ImageDisk'[b] = DiskToSave[b]
  BY <1>2, <1>3
<1>5. \A b \in 0 .. MetaBlocks - 1 : b \in Block /\ b # RootBlock /\ b < MetaBlocks
  BY <1>1 DEF Block
<1>6. /\ DiskToSave[RootBlock] = DirBlock(curDir)
      /\ \A b \in Block : b # RootBlock /\ b < MetaBlocks => DiskToSave[b] = MetaBlock(b)
      /\ \A b \in Block : b # RootBlock /\ ~(b < MetaBlocks) => DiskToSave[b] = disk[b]
  BY FileSystemAssumption, <1>1, SavedDisk DEF GoodMemory
<1>7. image'.astray <=> astray
  BY <1>2, <1>3
<1> QED BY <1>1, <1>3, <1>4, <1>5, <1>6, <1>7

(* Every inode comes back as it was. *)
LEMMA WholeTable ==
  ASSUME FileSystemAssumption, GoodMemory, \A b \in 0 .. MetaBlocks - 1 : ImageDisk'[b] = MetaBlock(b)
  PROVE  ImageInode' = inode
<1>1. \A k \in InodeNum : ImageInode'[k] = inode[k]
  <2> SUFFICES ASSUME NEW k \in InodeNum PROVE ImageInode'[k] = inode[k]
    OBVIOUS
  <2> DEFINE q == k \div INODES_PER_BLOCK
             r == k % INODES_PER_BLOCK
  <2>1. q \in 0 .. numInodeBlock - 1 /\ r \in 0 .. INODES_PER_BLOCK - 1 /\ q * INODES_PER_BLOCK + r = k
    BY FileSystemAssumption, InodeAt
  <2>2. ImageInode'[k] = IF ImageDisk'[3 + q].kind = "zero" THEN ZeroInode ELSE ImageDisk'[3 + q].inodes[r]
    BY DEF ImageInode
  <2> HIDE DEF q, r
  <2>3. 3 + q \in 3 .. MetaBlocks - 1 /\ 3 + q \in 0 .. MetaBlocks - 1 /\ (3 + q) - 3 = q
    BY FileSystemAssumption, Sizing, <2>1
  <2>4. ImageDisk'[3 + q] = InodeBlock((3 + q) - 3)
    BY FileSystemAssumption, <2>3, MetaBlockIs
  <2>5. ImageDisk'[3 + q] = InodeBlock(q)
    BY ONLY <2>3, <2>4, Zenon
  <2>6. InodeBlock(q).kind # "zero" /\ InodeBlock(q).inodes[r] = inode[q * INODES_PER_BLOCK + r]
    BY <2>1 DEF InodeBlock
  <2>7. inode[q * INODES_PER_BLOCK + r] = inode[k]
    BY ONLY <2>1, Zenon
  <2> QED BY <2>2, <2>5, <2>6, <2>7
<1>2. inode \in [InodeNum -> GoodInode]
  BY DEF GoodMemory, GoodRoot
<1>3. ImageInode' = [k \in InodeNum |-> ImageInode'[k]]
  BY DEF ImageInode
<1> QED BY <1>1, <1>2, <1>3

(* Two disks that differ in the root's block and in those that are not     *)
(* data hold the same files.                                               *)
LEMMA SavedSound ==
  ASSUME FileSystemAssumption, GoodMemory, SoundNow, NEW d,
         \A b \in Block : b # RootBlock /\ ~(b < MetaBlocks) => d[b] = disk[b]
  PROVE  SoundBlocks(superBlock, inodeMap, blockMap, inode, d, leaked)
<1>1. \A n \in inodeMap : OwnedIn(d, inode[n]) = Own(n) /\ SoundInode(d, inode[n])
  <2> SUFFICES ASSUME NEW n \in inodeMap PROVE OwnedIn(d, inode[n]) = Own(n) /\ SoundInode(d, inode[n])
    OBVIOUS
  <2>1. HasMap(inode[n].blockCount) => d[inode[n].indirectBlock] = disk[inode[n].indirectBlock]
    BY FileSystemAssumption, Untouched
  <2>2. SoundInode(disk, inode[n])
    BY FileSystemAssumption, OwnFacts
  <2> QED BY <2>1, <2>2, SameItself, OwnedSame DEF Own
<1>2. {OwnedIn(d, inode[n]) : n \in inodeMap} = {Own(n) : n \in inodeMap}
  BY <1>1
<1> QED BY <1>1, <1>2 DEF SoundNow, SoundBlocks, Own

LEMMA UnmountSound ==
  ASSUME FileSystemAssumption, GoodMemory, SoundMemory, disk_umount(MAX_BLOCK)
  PROVE  SoundImage'
<1>1. SoundNow /\ EntriesNow /\ curDirInode = RootBlock
  BY DEF SoundMemory
<1>2. /\ \A b \in 0 .. MetaBlocks - 1 : ImageDisk'[b] = MetaBlock(b)
      /\ ImageDisk'[RootBlock] = DirBlock(curDir)
      /\ \A b \in Block : b # RootBlock /\ ~(b < MetaBlocks) => ImageDisk'[b] = disk[b]
      /\ image'.leaked = leaked
  BY FileSystemAssumption, <1>1, WholeDisk
<1>3. ImageInode' = inode
  BY FileSystemAssumption, <1>2, WholeTable
<1>4. 0 \in 0 .. MetaBlocks - 1 /\ 1 \in 0 .. MetaBlocks - 1 /\ 2 \in 0 .. MetaBlocks - 1 /\ 3 .. MetaBlocks - 1 \subseteq 0 .. MetaBlocks - 1
  BY FileSystemAssumption, Sizing
<1>5. /\ ImageDisk'[0] = [kind |-> "super", super |-> superBlock]
      /\ ImageDisk'[1] = [kind |-> "inodeMap", map |-> inodeMap]
      /\ ImageDisk'[2] = [kind |-> "blockMap", map |-> blockMap]
      /\ \A b \in 3 .. MetaBlocks - 1 : ImageDisk'[b] = InodeBlock(b - 3)
  BY FileSystemAssumption, <1>2, <1>4, MetaBlockIs
<1>6. ImageSuper' = superBlock /\ ImageInodeMap' = inodeMap /\ ImageBlockMap' = blockMap
  BY <1>5 DEF ImageSuper, ImageInodeMap, ImageBlockMap, AsMap
<1>7. FirstBlock(inode[RootInode]) = RootBlock
  BY DEF GoodMemory, GoodRoot, FirstBlock
<1>8. ImageRoot' = curDir
  BY <1>2, <1>3, <1>7 DEF ImageRoot, AsDirectory, DirBlock
<1>9. Mountable'
  <2>1. \A b \in 3 .. MetaBlocks - 1 : ImageDisk'[b].kind \in {"inodes", "zero"}
    <3>1. \A j : InodeBlock(j).kind = "inodes"
      BY DEF InodeBlock
    <3> QED BY <1>5, <3>1
  <2>2. IsDirectory(ImageDisk'[FirstBlock(ImageInode'[RootInode])])
    BY <1>2, <1>3, <1>7 DEF IsDirectory, DirBlock
  <2>3. ImageDisk'[0].kind = "super" /\ ImageDisk'[1].kind = "inodeMap" /\ ImageDisk'[2].kind = "blockMap"
    BY <1>5
  <2> QED BY <2>1, <2>2, <2>3 DEF Mountable, ImageIntact
<1>10. SoundBlocks(superBlock, inodeMap, blockMap, inode, ImageDisk', leaked)
  BY FileSystemAssumption, <1>1, <1>2, SavedSound
<1> QED BY <1>1, <1>2, <1>3, <1>6, <1>8, <1>9, <1>10 DEF SoundImage, EntriesNow

LEMMA SoundImageKept ==
  ASSUME SoundImage, image' = image
  PROVE  SoundImage'
<1>1. ImageDisk' = ImageDisk
  BY DEF ImageDisk
<1>2. ImageInode' = ImageInode
  BY <1>1 DEF ImageInode
<1>3. Mountable' = Mountable
  BY <1>1, <1>2 DEF Mountable, ImageIntact
<1>4. ImageSuper' = ImageSuper /\ ImageInodeMap' = ImageInodeMap /\ ImageBlockMap' = ImageBlockMap /\ ImageRoot' = ImageRoot
  BY <1>1, <1>2 DEF ImageSuper, ImageInodeMap, ImageBlockMap, ImageRoot
<1> QED BY <1>1, <1>2, <1>3, <1>4 DEF SoundImage

LEMMA MountSound ==
  ASSUME FileSystemAssumption, GoodImage, SoundImage, leaked = image.leaked, UNCHANGED leaked, fs_mount
  PROVE  SoundMemory'
<1>1. GoodRoot(ImageInodeMap, ImageInode)
  BY DEF fs_mount, Mountable, GoodImage
<1>2. FirstBlock(ImageInode[RootInode]) = RootBlock
  BY <1>1 DEF GoodRoot, FirstBlock
<1>3. /\ superBlock' = ImageSuper /\ inodeMap' = ImageInodeMap /\ blockMap' = ImageBlockMap
      /\ inode' = ImageInode /\ curDirInode' = RootBlock /\ curDir' = ImageRoot /\ disk' = ImageDisk
  BY <1>2 DEF fs_mount, ImageSuper, ImageInodeMap, ImageBlockMap
<1>4. /\ SoundBlocks(ImageSuper, ImageInodeMap, ImageBlockMap, ImageInode, ImageDisk, leaked')
      /\ SoundEntries(ImageInodeMap, ImageInode, ImageRoot)
  BY DEF SoundImage
<1>5. SoundNow' /\ EntriesNow'
  BY <1>3, <1>4 DEF SoundNow, EntriesNow
<1> QED BY <1>3, <1>5 DEF SoundMemory

(* The disk that is made when there is no image. *)
LEMMA FormatSound ==
  ASSUME FileSystemAssumption, Zeroed, leaked' = {}, fs_format
  PROVE  SoundMemory'
<1>1. /\ superBlock' = [freeBlockCount |-> MAX_BLOCK - MetaBlocks - 1, freeInodeCount |-> MAX_INODE - 1]
      /\ inodeMap' = {RootInode} /\ blockMap' = 0 .. RootBlock
      /\ inode' = [inode EXCEPT ![RootInode].type = "directory",
                                ![RootInode].blockCount = 1,
                                ![RootInode].directBlock = <<RootBlock>>]
      /\ curDir' = <<Entry(".", RootInode)>> /\ curDirInode' = RootBlock
  BY DEF fs_format
<1>2. inode = [k \in InodeNum |-> ZeroInode]
  BY DEF Zeroed
<1>3. /\ MAX_BLOCK \in Nat /\ MetaBlocks \in Nat \ {0} /\ MetaBlocks < MAX_BLOCK
      /\ RootInode \in InodeNum /\ RootBlock \in Block /\ RootBlock = MetaBlocks
  BY FileSystemAssumption, Sizing DEF RootBlock
<1>4. superBlock'.freeBlockCount = Cardinality(Block \ blockMap')
  <2>1. Block \ (0 .. RootBlock) = MetaBlocks + 1 .. MAX_BLOCK - 1
    BY <1>3 DEF Block
  <2>2. MetaBlocks + 1 \in Int /\ MAX_BLOCK - 1 \in Int
    BY <1>3
  <2>3. Cardinality(MetaBlocks + 1 .. MAX_BLOCK - 1) =
          IF MetaBlocks + 1 > MAX_BLOCK - 1 THEN 0 ELSE (MAX_BLOCK - 1) - (MetaBlocks + 1) + 1
    BY ONLY <2>2, FS_Interval
  <2>4. Cardinality(MetaBlocks + 1 .. MAX_BLOCK - 1) = MAX_BLOCK - MetaBlocks - 1
    BY ONLY <1>3, <2>3
  <2> QED BY <1>1, <2>1, <2>4
<1>5. inode'[RootInode] =
        [ZeroInode EXCEPT !.type = "directory", !.blockCount = 1, !.directBlock = <<RootBlock>>]
  BY <1>1, <1>2, <1>3
<1> DEFINE ino == inode'[RootInode]
<1>6. /\ ino.type = "directory" /\ ino.blockCount = 1 /\ ino.directBlock = <<RootBlock>>
  BY <1>5 DEF ZeroInode
<1> HIDE DEF ino
<1>7. SoundInode(disk', ino) /\ OwnedIn(disk', ino) = {RootBlock}
  <2>1. <<RootBlock>> \in Seq(Block) /\ Len(<<RootBlock>>) = 1 /\ Range(<<RootBlock>>) = {RootBlock}
    BY <1>3 DEF Range
  <2>2. ~HasMap(1) /\ ~HasMap(ino.blockCount)
    BY FileSystemAssumption, Sizing, <1>6 DEF HasMap
  <2>3. ino.directBlock \in Seq(Block) /\ Len(ino.directBlock) = ino.blockCount
    BY <1>6, <2>1
  <2>4. OwnedIn(disk', ino) = {RootBlock}
    BY FileSystemAssumption, <1>6, <2>1, <2>2, <2>3, OwnedDirect
  <2>5. Cardinality({RootBlock}) = 1 /\ BlocksFor(1) = 1
    BY <2>2, FS_Singleton DEF BlocksFor
  <2> QED BY <1>6, <2>2, <2>3, <2>4, <2>5 DEF SoundInode
<1>8. /\ \A n \in inodeMap' : n = RootInode /\ inode'[n] = ino
      /\ UNION {OwnedIn(disk', inode'[n]) : n \in inodeMap'} = {RootBlock}
  <2>1. inodeMap' = {RootInode} /\ inode'[RootInode] = ino
    BY <1>1 DEF ino
  <2> QED BY <1>7, <2>1
<1>9. blockMap' = (0 .. MetaBlocks - 1) \cup leaked' \cup {RootBlock} /\ {RootBlock} \cap (0 .. MetaBlocks - 1) = {}
  <2>1. 0 .. RootBlock = (0 .. MetaBlocks - 1) \cup {RootBlock} /\ RootBlock \notin 0 .. MetaBlocks - 1
    BY <1>3
  <2> QED BY <1>1, <2>1
<1>10. SoundNow'
  <2>1. \A n \in inodeMap' :
          /\ SoundInode(disk', inode'[n])
          /\ OwnedIn(disk', inode'[n]) \cap (leaked' \cup 0 .. MetaBlocks - 1) = {}
          /\ \A m \in inodeMap' \ {n} : OwnedIn(disk', inode'[n]) \cap OwnedIn(disk', inode'[m]) = {}
    BY <1>7, <1>8, <1>9
  <2> QED BY <1>4, <1>8, <1>9, <2>1 DEF SoundNow, SoundBlocks
<1>11. EntriesNow'
  <2> DEFINE dot == <<Entry(".", RootInode)>>
  <2>1. DOMAIN dot = {1} /\ dot[1].inode = RootInode
    BY DEF Entry
  <2>2. curDir' = dot
    BY <1>1
  <2> HIDE DEF dot
  <2>3. \A n \in InodeNum : n = RootInode <=> NamedIn(dot, n) # {}
    BY <2>1 DEF NamedIn
  <2> QED BY <1>1, <1>3, <2>2, <2>3 DEF EntriesNow, SoundEntries
<1> QED BY <1>1, <1>10, <1>11 DEF SoundMemory

-----------------------------------------------------------------------------
(* The invariant of a session in the root. *)

LEMMA SoundInit == FileSystemAssumption /\ Init => SoundInv
<1> SUFFICES ASSUME FileSystemAssumption, Init PROVE SoundInv
  OBVIOUS
<1>1. image = NoImage /\ session = "none" /\ astray = FALSE /\ leaked = {}
  BY DEF Init
<1>2. image.exists = FALSE /\ image.astray = FALSE /\ image.leaked = {}
  BY <1>1 DEF NoImage
<1>3. TypeInv
  BY TypeInit
<1> QED BY <1>1, <1>2, <1>3 DEF SoundInv

LEMMA SoundStep == FileSystemAssumption /\ SoundInv /\ [Next]_vars => SoundInv'
<1> SUFFICES ASSUME FileSystemAssumption, SoundInv, [Next]_vars PROVE SoundInv'
  OBVIOUS
<1>1. /\ TypeInv
      /\ session = "none" => astray = image.astray /\ leaked = image.leaked
      /\ session \in {"invalid", "wild"} => astray
      /\ session = "mounted" /\ ~astray => SoundMemory
      /\ image.exists /\ ~image.astray => SoundImage
  BY DEF SoundInv
<1>2. TypeInv'
  BY FileSystemAssumption, <1>1, TypeStep
<1>3. GoodFlags /\ GoodImage /\ (session = "none" => Zeroed) /\ (session = "mounted" => GoodMemory)
  BY <1>1 DEF TypeInv
<1>4. CASE Mount
  <2>1. session = "none" /\ UNCHANGED <<image, astray, leaked>> /\ Zeroed
    BY <1>3, <1>4 DEF Mount
  <2>2. image'.exists /\ ~image'.astray => SoundImage'
    BY <1>1, <2>1, SoundImageKept
  <2>3. CASE fs_mount
    <3>1. session' = "mounted" /\ image.exists
      BY <2>3 DEF fs_mount
    <3>2. ~astray' => SoundMemory'
      BY FileSystemAssumption, <1>1, <1>3, <2>1, <2>3, <3>1, MountSound
    <3> QED BY <1>2, <2>2, <3>1, <3>2 DEF SoundInv
  <2>4. CASE fs_mount_fails
    <3>1. session' \in {"wild", "invalid"} /\ image.exists /\ ~Mountable
      BY <2>4 DEF fs_mount_fails, Mountable
    <3>2. image.astray /\ astray'
      BY <1>1, <2>1, <3>1 DEF SoundImage
    <3> QED BY <1>2, <2>2, <3>1, <3>2 DEF SoundInv
  <2>5. CASE fs_format
    <3>1. session' = "mounted" /\ ~image.exists
      BY <2>5 DEF fs_format
    <3>2. leaked' = {}
      BY <1>1, <1>3, <2>1, <3>1 DEF GoodImage, NoImage
    <3>3. SoundMemory'
      BY FileSystemAssumption, <2>1, <2>5, <3>2, FormatSound
    <3> QED BY <1>2, <2>2, <3>1, <3>3 DEF SoundInv
  <2> QED BY <1>4, <2>3, <2>4, <2>5 DEF Mount
<1>5. CASE Command
  <2>1. session = "mounted" /\ GoodMemory /\ (~astray => SoundMemory)
    BY <1>1, <1>3, <1>5 DEF Command
  <2>2. CASE execute_command /\ UNCHANGED image
    <3>1. image'.exists /\ ~image'.astray => SoundImage'
      BY <1>1, <2>2, SoundImageKept
    <3>2. ~astray' => SoundMemory'
      BY FileSystemAssumption, <2>1, <2>2, CommandSound
    <3>3. session' \in {"mounted", "wild"} /\ (session' = "wild" => astray')
      BY FileSystemAssumption, <1>3, <2>1, <2>2, SessionKept
    <3> QED BY <1>2, <3>1, <3>2, <3>3 DEF SoundInv
  <2>3. CASE fs_umount
    <3>1. PICK n \in {MAX_BLOCK} \cup IF Kills THEN Torn ELSE {} : disk_umount(n)
      BY <2>3 DEF fs_umount
    <3>2. session' = "none"
      BY <2>3 DEF fs_umount, Ended
    <3>3. astray' = image'.astray /\ leaked' = image'.leaked /\ (~image'.astray => ~astray /\ ~(n < MAX_BLOCK))
      BY <3>1 DEF disk_umount
    <3>4. ~image'.astray => SoundImage'
      <4> SUFFICES ASSUME ~image'.astray PROVE SoundImage'
        OBVIOUS
      <4>1. n = MAX_BLOCK
        BY <3>1, <3>3 DEF FileSystemAssumption
      <4> QED BY FileSystemAssumption, <2>1, <3>1, <3>3, <4>1, UnmountSound
    <3> QED BY <1>2, <3>2, <3>3, <3>4 DEF SoundInv
  <2>4. CASE Killed
    <3>1. session' = "none" /\ image' = image /\ astray' = image'.astray /\ leaked' = image'.leaked
      BY <2>4 DEF Killed, Ended
    <3>2. image'.exists /\ ~image'.astray => SoundImage'
      BY <1>1, <3>1, SoundImageKept
    <3> QED BY <1>2, <3>1, <3>2 DEF SoundInv
  <2> QED BY <1>5, <2>2, <2>3, <2>4 DEF Command
<1>6. CASE UNCHANGED vars
  <2>1. UNCHANGED <<superBlock, inodeMap, blockMap, inode, curDir, curDirInode, disk, image, session, astray, leaked>>
    BY <1>6 DEF vars, memory, maps
  <2>2. image'.exists /\ ~image'.astray => SoundImage'
    BY <1>1, <2>1, SoundImageKept
  <2>3. SoundMemory => SoundMemory'
    BY <2>1 DEF SoundMemory, SoundNow, EntriesNow
  <2> QED BY <1>1, <1>2, <2>1, <2>2, <2>3 DEF SoundInv
<1> QED BY <1>4, <1>5, <1>6 DEF Next

(* What the root owns and names, memory and image alike, through every     *)
(* command, unmounting, kill and mount (directory.c, file.c, fs.c).        *)
THEOREM SoundInvariance == Spec => []SoundInv
<1>1. Init => SoundInv
  BY FileSystemAssumption, SoundInit
<1>2. SoundInv /\ [Next]_vars => SoundInv'
  BY FileSystemAssumption, SoundStep
<1> QED BY <1>1, <1>2, PTL DEF Spec

(* Every block is free, or belongs to one inode, or was kept by a refused  *)
(* mkdir, and the superblock counts the free ones: whatever is created,    *)
(* copied, linked and removed in the root, and however often it is         *)
(* unmounted, killed and mounted, no block is owned twice, freed while     *)
(* owned, or kept after its file (get_block(), free_block() in fs_util.c,  *)
(* file_create(), file_copy(), file_remove() in file.c, dir_make(),        *)
(* dir_remove() in directory.c).                                           *)
THEOREM BlocksAreAccounted == Spec => []BlocksAccounted
<1>1. SoundInv => BlocksAccounted
  <2> SUFFICES ASSUME SoundInv, session = "mounted", ~astray
               PROVE  /\ superBlock.freeBlockCount = Cardinality(FreeBlocks)
                      /\ blockMap = (0 .. MetaBlocks - 1) \cup leaked \cup UNION {Owned(n) : n \in inodeMap}
                      /\ \A n \in inodeMap :
                           /\ Cardinality(Owned(n)) = BlocksFor(inode[n].blockCount)
                           /\ Owned(n) \cap (leaked \cup 0 .. MetaBlocks - 1) = {}
                           /\ \A m \in inodeMap \ {n} : Owned(n) \cap Owned(m) = {}
    BY DEF BlocksAccounted
  <2>1. \A n : Owned(n) = OwnedIn(disk, inode[n])
    BY DEF Owned, BlocksOf, FileBlocks, OwnedIn
  <2>2. SoundBlocks(superBlock, inodeMap, blockMap, inode, disk, leaked)
    BY DEF SoundInv, SoundMemory, SoundNow
  <2>3. \A n \in inodeMap : Cardinality(Owned(n)) = BlocksFor(inode[n].blockCount)
    BY <2>1, <2>2 DEF SoundBlocks, SoundInode
  <2>4. {Owned(n) : n \in inodeMap} = {OwnedIn(disk, inode[n]) : n \in inodeMap}
    BY <2>1
  <2> QED BY <2>1, <2>2, <2>3, <2>4 DEF SoundBlocks, FreeBlocks
<1> QED BY <1>1, SoundInvariance, PTL

(* The superblock counts the free inodes, in every session; and in the     *)
(* root an inode is allocated while an entry names it and no longer, and a *)
(* file's linkCount is the number of those entries (hard_link() and        *)
(* file_remove() in file.c, get_inode() and free_inode() in fs_util.c).    *)
THEOREM InodesAreAccounted == Spec => []InodesAccounted
<1>1. SoundInv => InodesAccounted
  <2> SUFFICES ASSUME SoundInv, session = "mounted" PROVE InodesAccounted
    BY DEF InodesAccounted
  <2>1. superBlock.freeInodeCount = Cardinality(FreeInodes)
    BY DEF SoundInv, TypeInv, GoodMemory, GoodMaps, FreeInodes
  <2>2. ASSUME ~astray
        PROVE  /\ \A n \in InodeNum : n \in inodeMap <=> Named(n) # {}
               /\ \A n \in inodeMap \ {RootInode} :
                    Cardinality(Named(n)) = IF inode[n].type = "file" THEN inode[n].linkCount ELSE 1
    <3>1. SoundEntries(inodeMap, inode, curDir)
      BY <2>2 DEF SoundInv, SoundMemory, EntriesNow
    <3>2. \A n : Named(n) = NamedIn(curDir, n)
      BY DEF Named, NamedIn
    <3> QED BY <3>1, <3>2 DEF SoundEntries
  <2> QED BY <2>1, <2>2 DEF InodesAccounted
<1> QED BY <1>1, SoundInvariance, PTL

-----------------------------------------------------------------------------
(* The root's block, in every session: also when directories were written  *)
(* where they do not belong.                                               *)

(* No map on the disk lists it, and no inode but the root's leads to it.   *)
SafeBlock(buf) == buf.kind = "map" => buf.blocks \in Seq(Block \ {RootBlock})

SafeInode(ino) ==
  /\ RootBlock \notin Range(ino.directBlock) /\ ino.indirectBlock # RootBlock
  /\ ~HasMap(ino.blockCount) => ino.blockCount <= Len(ino.directBlock)

SafeDisk(d) == IsDirectory(d[RootBlock]) /\ \A b \in Block : SafeBlock(d[b])
SafeTable(table) == \A n \in InodeNum \ {RootInode} : SafeInode(table[n])

RootSafe(blocks, table, d) == RootBlock \in blocks /\ SafeTable(table) /\ SafeDisk(d)

SafeNow == RootSafe(blockMap, inode, disk)

SafeInv ==
  /\ TypeInv
  /\ session = "mounted" => SafeNow
  /\ image.exists /\ Mountable => RootSafe(ImageBlockMap, ImageInode, ImageDisk)
  /\ MountsAgain

LEMMA BlockSafe ==
  /\ SafeBlock(Zero) /\ SafeBlock(Garbage)
  /\ \A dir : SafeBlock(DirBlock(dir)) /\ IsDirectory(DirBlock(dir))
  /\ \A data, k : SafeBlock(DataBlock(data, k))
BY DEF SafeBlock, Zero, Garbage, DirBlock, DataBlock, IsDirectory

(* A directory may be written anywhere. *)
LEMMA WriteSafe ==
  ASSUME FileSystemAssumption, NEW d, DOMAIN d = Block, SafeDisk(d), NEW b, NEW dir
  PROVE  LET e == write_disk_block(d, b, DirBlock(dir)) IN DOMAIN e = Block /\ SafeDisk(e)
<1>1. RootBlock \in Block
  BY FileSystemAssumption, Sizing
<1>2. CASE b \in Block
  <2> DEFINE e == [d EXCEPT ![b] = DirBlock(dir)]
  <2>1. DOMAIN e = Block /\ \A c \in Block : e[c] = IF c = b THEN DirBlock(dir) ELSE d[c]
    OBVIOUS
  <2> HIDE DEF e
  <2>2. SafeDisk(e)
    BY <1>1, <2>1, BlockSafe DEF SafeDisk
  <2> QED BY <1>2, <2>1, <2>2 DEF write_disk_block, e
<1>3. CASE b \notin Block
  BY <1>3 DEF write_disk_block
<1> QED BY <1>2, <1>3

(* A file's bytes and its map go to blocks that are not the root's. *)
LEMMA FilledSafe ==
  ASSUME FileSystemAssumption, DOMAIN disk = Block, SafeDisk(disk), NEW n \in Nat,
         NEW got \in Seq(Block), \A i, j \in DOMAIN got : got[i] = got[j] => i = j,
         Len(got) <= BlocksFor(n), RootBlock \notin Range(got),
         NEW bytes, Len(bytes) = n, \A k \in 1 .. n : SafeBlock(bytes[k])
  PROVE  SafeDisk(Filled(got, bytes))
<1>1. RootBlock \in Block \ Range(got)
  BY FileSystemAssumption, Sizing
<1>2. \A b \in Block \ Range(got) : Filled(got, bytes)[b] = disk[b]
  BY FileSystemAssumption, FilledIs
<1>3. ASSUME NEW t \in DOMAIN got PROVE SafeBlock(Filled(got, bytes)[got[t]])
  <2>1. t \in 1 .. Len(got) /\ t \in 1 .. BlocksFor(n) /\ DOMAIN got = 1 .. Len(got) /\ Len(got) \in Nat
    <3>1. t \in 1 .. Len(got) /\ Len(got) \in Nat /\ DOMAIN got = 1 .. Len(got)
      BY LenProperties
    <3>2. BlocksFor(n) \in Nat
      BY FileSystemAssumption, Turns
    <3> QED BY ONLY <3>1, <3>2, Len(got) <= BlocksFor(n)
  <2>2. (t <= DIRECT => t \in 1 .. n) /\ (t > DIRECT + 1 => t - 1 \in 1 .. n)
    BY FileSystemAssumption, <2>1, Turns
  <2>3. got[t] \in Block /\ SafeBlock(disk[got[t]])
    BY <2>1, ElementOfSeq DEF SafeDisk
  <2> DEFINE map == [k \in 1 .. n - DIRECT |-> got[Turn(DIRECT + k)]]
  <2>4. \/ t <= DIRECT /\ Filled(got, bytes)[got[t]] = bytes[t]
        \/ t > DIRECT + 1 /\ Filled(got, bytes)[got[t]] = bytes[t - 1]
        \/ t = DIRECT + 1 /\ Len(got) = BlocksFor(n) /\ Filled(got, bytes)[got[t]] = MapBlock(map)
        \/ Filled(got, bytes)[got[t]] = disk[got[t]]
    <3>1. Filled(got, bytes)[got[t]] =
            IF t <= DIRECT THEN bytes[t]
            ELSE IF t > DIRECT + 1 THEN bytes[t - 1]
            ELSE IF Len(got) = BlocksFor(Len(bytes))
            THEN MapBlock([k \in 1 .. Len(bytes) - DIRECT |-> got[Turn(DIRECT + k)]])
            ELSE disk[got[t]]
      <4>1. Filled(got, bytes)[got[t]] = FilledWith(got, bytes, t)
        BY FileSystemAssumption, FilledIs
      <4> QED BY ONLY <4>1 DEF FilledWith
    <3>2. Filled(got, bytes)[got[t]] =
            IF t <= DIRECT THEN bytes[t]
            ELSE IF t > DIRECT + 1 THEN bytes[t - 1]
            ELSE IF Len(got) = BlocksFor(n) THEN MapBlock(map)
            ELSE disk[got[t]]
      BY ONLY <3>1, Len(bytes) = n
    <3>3. ~(t <= DIRECT) /\ ~(t > DIRECT + 1) => t = DIRECT + 1
      <4>1. DIRECT \in Nat
        BY FileSystemAssumption, Sizing
      <4> QED BY ONLY <2>1, <4>1
    <3> HIDE DEF map
    <3> QED BY ONLY <3>2, <3>3
  <2>5. ASSUME t = DIRECT + 1, Len(got) = BlocksFor(n) PROVE map \in Seq(Block \ {RootBlock})
    <3>1. HasMap(n) /\ Len(got) = n + 1 /\ n > DIRECT /\ DIRECT \in Nat
      BY FileSystemAssumption, Sizing, Turns, <2>1, <2>5
    <3>2. \A k \in 1 .. n - DIRECT : Turn(DIRECT + k) \in 1 .. Len(got)
      BY ONLY <3>1, n \in Nat DEF Turn
    <3>3. \A k \in 1 .. Len(got) : got[k] \in Block \ {RootBlock}
      <4>1. \A k \in 1 .. Len(got) : got[k] \in Range(got) /\ got[k] \in Block
        BY <2>1, ElementOfSeq DEF Range
      <4> QED BY <4>1
    <3>4. map \in [1 .. n - DIRECT -> Block \ {RootBlock}]
      BY <3>2, <3>3
    <3>5. n - DIRECT \in Nat
      BY ONLY <3>1, n \in Nat
    <3> HIDE DEF map
    <3> QED BY ONLY <3>4, <3>5
  <2> HIDE DEF map
  <2>6. map \in Seq(Block \ {RootBlock}) => SafeBlock(MapBlock(map))
    BY DEF SafeBlock, MapBlock
  <2> QED BY <2>2, <2>3, <2>4, <2>5, <2>6
<1>4. \A b \in Range(got) : \E t \in DOMAIN got : b = got[t]
  BY DEF Range
<1>5. \A b \in Block : SafeBlock(Filled(got, bytes)[b])
  BY <1>2, <1>3, <1>4 DEF SafeDisk
<1> QED BY <1>1, <1>2, <1>5 DEF SafeDisk

(* get_block() does not give the root's block. *)
LEMMA BlocksSafe ==
  ASSUME FileSystemAssumption, GoodMemory, RootBlock \in blockMap, NEW n \in Nat, ~BlocksFull(n)
  PROVE  LET got == get_blocks(BlocksFor(n))
         IN  /\ got \in Seq(Block) /\ Len(got) <= BlocksFor(n)
             /\ \A i, j \in DOMAIN got : got[i] = got[j] => i = j
             /\ RootBlock \notin Range(got)
<1> DEFINE got == get_blocks(BlocksFor(n))
<1>1. /\ got \in Seq(Block) /\ Len(got) <= BlocksFor(n)
      /\ \A i, j \in DOMAIN got : got[i] = got[j] => i = j
      /\ Range(got) \in SUBSET FreeBlocks
  BY FileSystemAssumption, BlocksGood
<1> QED BY <1>1 DEF FreeBlocks

LEMMA NewInodeSafe ==
  ASSUME FileSystemAssumption, NEW type, NEW n \in Nat,
         NEW got \in Seq(Block), Len(got) = BlocksFor(n), RootBlock \notin Range(got)
  PROVE  SafeInode(NewInode(type, n, got))
<1>1. DIRECT \in Nat \ {0} /\ RootBlock \in Nat \ {0} /\ DOMAIN got = 1 .. Len(got)
  BY FileSystemAssumption, Sizing, LenProperties DEF RootBlock
<1>2. \A k \in 1 .. BlocksFor(n) : got[k] \in Block \ {RootBlock}
  <2>1. \A k \in 1 .. BlocksFor(n) : got[k] \in Range(got) /\ got[k] \in Block
    BY <1>1, ElementOfSeq DEF Range
  <2> QED BY <2>1
<1>3. /\ BlocksFor(n) \in Nat /\ (HasMap(n) => BlocksFor(n) = n + 1 /\ n > DIRECT)
      /\ (~HasMap(n) => BlocksFor(n) = n)
  BY FileSystemAssumption, Turns
<1> DEFINE m == IF HasMap(n) THEN DIRECT ELSE n
           blocks == IF n = 0 THEN <<-1>> ELSE SubSeq(got, 1, m)
<1>4. m \in Nat /\ m <= BlocksFor(n) /\ (~HasMap(n) => n <= m)
  BY ONLY <1>1, <1>3, n \in Nat
<1> HIDE DEF m
<1>5. RootBlock \notin Range(blocks) /\ (~HasMap(n) => n <= Len(blocks))
  <2>1. CASE n = 0
    <3>1. Range(<<-1>>) = {-1} /\ Len(<<-1>>) = 1
      BY DEF Range
    <3> QED BY <1>1, <2>1, <3>1
  <2>2. CASE n # 0
    <3>1. 1 \in Int /\ m \in Int /\ \A k \in 1 .. m : got[k] \in Block \ {RootBlock}
      BY <1>2, <1>3, <1>4
    <3>2. SubSeq(got, 1, m) \in Seq(Block \ {RootBlock}) /\ Len(SubSeq(got, 1, m)) = IF 1 <= m THEN m - 1 + 1 ELSE 0
      BY ONLY <3>1, SubSeqProperties
    <3>3. Range(SubSeq(got, 1, m)) \subseteq Block \ {RootBlock}
      BY <3>2, LenProperties, ElementOfSeq DEF Range
    <3>4. Len(SubSeq(got, 1, m)) = m
      BY ONLY <1>4, <3>2
    <3> QED BY <1>4, <2>2, <3>3, <3>4
  <2> QED BY <2>1, <2>2
<1>6. (IF HasMap(n) THEN got[DIRECT + 1] ELSE 0) # RootBlock
  <2>1. HasMap(n) => DIRECT + 1 \in 1 .. BlocksFor(n)
    BY ONLY <1>1, <1>3, n \in Nat
  <2> QED BY <1>1, <1>2, <2>1
<1>7. NewInode(type, n, got) = [type |-> type, blockCount |-> n, linkCount |-> 1, directBlock |-> blocks,
                               indirectBlock |-> IF HasMap(n) THEN got[DIRECT + 1] ELSE 0]
  BY DEF NewInode, m
<1> HIDE DEF blocks
<1> QED BY <1>5, <1>6, <1>7 DEF SafeInode

(* What is written to an inode other than the root's. *)
LEMMA TableSafe ==
  ASSUME NEW table \in [InodeNum -> GoodInode], SafeTable(table), NEW i \in InodeNum, NEW ino, SafeInode(ino)
  PROVE  SafeTable([table EXCEPT ![i] = ino])
BY DEF SafeTable

LEMMA LinkCountSafe ==
  ASSUME NEW ino \in GoodInode, SafeInode(ino), NEW links
  PROVE  SafeInode([ino EXCEPT !.linkCount = links])
<1> DEFINE new == [ino EXCEPT !.linkCount = links]
<1>1. new.directBlock = ino.directBlock /\ new.indirectBlock = ino.indirectBlock /\ new.blockCount = ino.blockCount
  BY DEF GoodInode
<1> HIDE DEF new
<1>2. SafeInode(new)
  BY <1>1 DEF SafeInode
<1> QED BY <1>2 DEF new

LEMMA CreateSafe ==
  ASSUME FileSystemAssumption, GoodMemory, SafeNow, NEW name, NEW n \in Nat, NEW data, file_create(name, n, data)
  PROVE  SafeNow'
<1> DEFINE got == get_blocks(BlocksFor(n))
           bytes == [k \in 1 .. n |-> DataBlock(data, k)]
           i == get_inode
<1>1. /\ ~InodesFull /\ ~BlocksFull(n) /\ Take(Range(got), {i})
      /\ disk' = Filled(got, bytes)
      /\ inode' = IF Len(got) = BlocksFor(n) THEN [inode EXCEPT ![i] = NewInode("file", n, got)] ELSE inode
  BY DEF file_create
<1>2. i \in InodeNum
  BY FileSystemAssumption, <1>1, InodeGood
<1>3. RootBlock \in blockMap /\ SafeTable(inode) /\ SafeDisk(disk) /\ DOMAIN disk = Block
  BY DEF SafeNow, RootSafe, GoodMemory, GoodDisk
<1>4. /\ got \in Seq(Block) /\ Len(got) <= BlocksFor(n)
      /\ \A j, k \in DOMAIN got : got[j] = got[k] => j = k
      /\ RootBlock \notin Range(got)
  BY FileSystemAssumption, <1>1, <1>3, BlocksSafe
<1>5. Len(bytes) = n /\ \A k \in 1 .. n : SafeBlock(bytes[k])
  BY BlockSafe
<1> HIDE DEF got, bytes, i
<1>6. SafeDisk(disk')
  BY FileSystemAssumption, <1>1, <1>3, <1>4, <1>5, FilledSafe
<1>7. SafeTable(inode')
  <2>1. CASE Len(got) = BlocksFor(n)
    <3>1. SafeInode(NewInode("file", n, got))
      BY FileSystemAssumption, <1>4, <2>1, NewInodeSafe
    <3>2. inode \in [InodeNum -> GoodInode]
      BY DEF GoodMemory, GoodRoot
    <3> QED BY <1>1, <1>2, <1>3, <2>1, <3>1, <3>2, TableSafe
  <2>2. CASE Len(got) # BlocksFor(n)
    BY <1>1, <1>3, <2>2
  <2> QED BY <2>1, <2>2
<1>8. RootBlock \in blockMap'
  BY <1>1, <1>3 DEF Take
<1> QED BY <1>6, <1>7, <1>8 DEF SafeNow, RootSafe

(* What is copied may be anything that is on the disk. *)
LEMMA CopySafe ==
  ASSUME FileSystemAssumption, GoodMemory, SafeNow, NEW src, NEW dest, file_copy(src, dest)
  PROVE  SafeNow'
<1> DEFINE ino == InodeOf(src)
           n == ino.blockCount
           got == get_blocks(BlocksFor(n))
           bytes == file_cat(ino)
           i == get_inode
<1>1. /\ ~InodesFull /\ ~BlocksFull(n) /\ Take(Range(got), {i}) /\ Exists(src)
      /\ disk' = Filled(got, bytes)
      /\ \/ /\ Len(got) = BlocksFor(n)
            /\ inode' = [inode EXCEPT ![i] = NewInode(ino.type, n, got)]
         \/ inode' = inode
  BY DEF file_copy
<1>2. i \in InodeNum
  BY FileSystemAssumption, <1>1, InodeGood
<1>3. RootBlock \in blockMap /\ SafeTable(inode) /\ SafeDisk(disk) /\ DOMAIN disk = Block
  BY DEF SafeNow, RootSafe, GoodMemory, GoodDisk
<1>4. n \in Nat
  <2>1. search_cur_dir(src) \in InodeNum
    BY <1>1, SearchGood DEF GoodMemory
  <2> QED BY <2>1 DEF GoodMemory, GoodRoot, InodeOf, GoodInode
<1>5. /\ got \in Seq(Block) /\ Len(got) <= BlocksFor(n)
      /\ \A j, k \in DOMAIN got : got[j] = got[k] => j = k
      /\ RootBlock \notin Range(got)
  BY FileSystemAssumption, <1>1, <1>3, <1>4, BlocksSafe
<1>6. Len(bytes) = n /\ \A k \in 1 .. n : SafeBlock(bytes[k])
  <2>1. bytes = [k \in 1 .. n |-> read_disk_block(disk, BlocksIn(disk, ino)[k], Garbage)]
    BY DEF file_cat, BytesIn
  <2>2. \A b : SafeBlock(read_disk_block(disk, b, Garbage))
    BY <1>3, BlockSafe DEF read_disk_block, SafeDisk
  <2> HIDE DEF bytes, n
  <2> QED BY <1>4, <2>1, <2>2
<1> HIDE DEF got, bytes, i, n, ino
<1>7. SafeDisk(disk')
  BY FileSystemAssumption, <1>1, <1>3, <1>4, <1>5, <1>6, FilledSafe
<1>8. SafeTable(inode')
  <2>1. CASE Len(got) = BlocksFor(n) /\ inode' = [inode EXCEPT ![i] = NewInode(ino.type, n, got)]
    <3>1. SafeInode(NewInode(ino.type, n, got))
      BY FileSystemAssumption, <1>4, <1>5, <2>1, NewInodeSafe
    <3>2. inode \in [InodeNum -> GoodInode]
      BY DEF GoodMemory, GoodRoot
    <3> QED BY <1>2, <1>3, <2>1, <3>1, <3>2, TableSafe
  <2>2. CASE inode' = inode
    BY <1>3, <2>2
  <2> QED BY <1>1, <2>1, <2>2
<1>9. RootBlock \in blockMap'
  BY <1>1, <1>3 DEF Take
<1> QED BY <1>7, <1>8, <1>9 DEF SafeNow, RootSafe

LEMMA LinkSafe ==
  ASSUME FileSystemAssumption, GoodMemory, SafeNow, NEW src, NEW dest, hard_link(src, dest)
  PROVE  SafeNow'
<1> DEFINE i == search_cur_dir(src)
<1>1. /\ Exists(src) /\ ~IsDir(src) /\ inode' = [inode EXCEPT ![i].linkCount = @ + 1]
      /\ blockMap' = blockMap /\ disk' = disk
  BY DEF hard_link, maps
<1>2. i \in InodeNum /\ i # RootInode
  BY <1>1, SearchGood DEF GoodMemory, GoodRoot, IsDir, InodeOf
<1>3. inode \in [InodeNum -> GoodInode] /\ SafeTable(inode)
  BY DEF GoodMemory, GoodRoot, SafeNow, RootSafe
<1> HIDE DEF i
<1>4. SafeInode([inode[i] EXCEPT !.linkCount = @ + 1])
  BY <1>2, <1>3, LinkCountSafe DEF SafeTable
<1>5. inode' = [inode EXCEPT ![i] = [inode[i] EXCEPT !.linkCount = @ + 1]]
  BY <1>1, <1>2, <1>3
<1>6. SafeTable(inode')
  BY <1>2, <1>3, <1>4, <1>5, TableSafe
<1> QED BY <1>1, <1>6 DEF SafeNow, RootSafe

(* What rm frees was named by an inode that does not lead to the root's    *)
(* block, or by a map, which does not list it.                             *)
LEMMA FreedSafe ==
  ASSUME FileSystemAssumption, GoodMemory, SafeNow, NEW n \in InodeNum \ {RootInode}, Readable(inode[n])
  PROVE  RootBlock \notin Freed(inode[n])
<1> DEFINE ino == inode[n]
<1>1. /\ ino \in GoodInode /\ SafeInode(ino) /\ \A b \in Block : SafeBlock(disk[b])
  BY DEF GoodMemory, GoodRoot, SafeNow, RootSafe, SafeTable, SafeDisk
<1> HIDE DEF ino
<1>2. ino.directBlock \in Seq(Block \cup {-1}) /\ ino.indirectBlock \in Block /\ ino.blockCount \in Nat
  BY <1>1 DEF GoodInode
<1>3. /\ DOMAIN ino.directBlock = 1 .. Len(ino.directBlock) /\ Len(ino.directBlock) \in Nat
      /\ \A k \in 1 .. Len(ino.directBlock) : ino.directBlock[k] # RootBlock
  <2>1. DOMAIN ino.directBlock = 1 .. Len(ino.directBlock) /\ Len(ino.directBlock) \in Nat
    BY <1>2, LenProperties
  <2>2. RootBlock \notin Range(ino.directBlock)
    BY <1>1 DEF SafeInode
  <2> QED BY <2>1, <2>2 DEF Range
<1>4. RootBlock \notin Range(FileBlocks(ino))
  <2>1. CASE HasMap(ino.blockCount)
    <3> DEFINE map == disk[ino.indirectBlock].blocks
    <3>1. FileBlocks(ino) = ino.directBlock \o map
      BY <2>1 DEF FileBlocks, BlocksIn
    <3>2. map \in Seq(Block \ {RootBlock})
      BY <1>1, <1>2, <2>1 DEF SafeBlock, Readable, ino
    <3>3. ino.directBlock \in Seq((Block \cup {-1}) \ {RootBlock})
      BY <1>2, <1>3, ElementOfSeq
    <3> HIDE DEF map
    <3>4. map \in Seq((Block \cup {-1}) \ {RootBlock})
      <4>1. Block \ {RootBlock} \subseteq (Block \cup {-1}) \ {RootBlock}
        OBVIOUS
      <4> QED BY ONLY <3>2, <4>1, SeqMonotonic
    <3>5. ino.directBlock \o map \in Seq((Block \cup {-1}) \ {RootBlock})
      BY ONLY <3>3, <3>4, ConcatProperties
    <3> QED BY <3>1, <3>5, LenProperties, ElementOfSeq DEF Range
  <2>2. CASE ~HasMap(ino.blockCount)
    <3>1. FileBlocks(ino) = SubSeq(ino.directBlock, 1, ino.blockCount) /\ ino.blockCount <= Len(ino.directBlock)
      BY <1>1, <2>2 DEF FileBlocks, BlocksIn, SafeInode
    <3>2. \A k \in 1 .. ino.blockCount : ino.directBlock[k] \in (Block \cup {-1}) \ {RootBlock}
      <4>1. \A k \in 1 .. ino.blockCount : k \in 1 .. Len(ino.directBlock)
        BY ONLY <1>2, <1>3, <3>1
      <4> QED BY <1>2, <1>3, <4>1, ElementOfSeq
    <3>3. 1 \in Int /\ ino.blockCount \in Int
      BY <1>2
    <3>4. SubSeq(ino.directBlock, 1, ino.blockCount) \in Seq((Block \cup {-1}) \ {RootBlock})
      BY ONLY <3>2, <3>3, SubSeqProperties
    <3> QED BY <3>1, <3>4, LenProperties, ElementOfSeq DEF Range
  <2> QED BY <2>1, <2>2
<1>5. RootBlock # ino.indirectBlock
  BY <1>1 DEF SafeInode
<1> QED BY <1>4, <1>5 DEF Freed, BlocksOf, ino

LEMMA RemoveFileSafe ==
  ASSUME FileSystemAssumption, GoodMemory, SafeNow, NEW name, file_remove(name)
  PROVE  SafeNow'
<1> DEFINE i == search_cur_dir(name)
<1>1. /\ Exists(name) /\ ~IsDir(name) /\ Readable(InodeOf(name)) /\ disk' = disk
      /\ \/ Free(Freed(InodeOf(name)), {i}) /\ inode' = inode
         \/ inode' = [inode EXCEPT ![i].linkCount = @ - 1] /\ blockMap' = blockMap
  BY DEF file_remove, maps
<1>2. i \in InodeNum /\ i # RootInode /\ InodeOf(name) = inode[i]
  BY <1>1, SearchGood DEF GoodMemory, GoodRoot, IsDir, InodeOf
<1>3. inode \in [InodeNum -> GoodInode] /\ SafeTable(inode) /\ RootBlock \in blockMap /\ SafeDisk(disk)
  BY DEF GoodMemory, GoodRoot, SafeNow, RootSafe
<1> HIDE DEF i
<1>4. CASE Free(Freed(InodeOf(name)), {i}) /\ inode' = inode
  <2>1. RootBlock \notin Freed(inode[i])
    BY FileSystemAssumption, <1>1, <1>2, FreedSafe
  <2>2. blockMap' = blockMap \ Freed(inode[i])
    BY <1>2, <1>4 DEF Free
  <2> QED BY <1>1, <1>3, <1>4, <2>1, <2>2 DEF SafeNow, RootSafe
<1>5. CASE inode' = [inode EXCEPT ![i].linkCount = @ - 1] /\ blockMap' = blockMap
  <2>1. SafeInode([inode[i] EXCEPT !.linkCount = @ - 1])
    BY <1>2, <1>3, LinkCountSafe DEF SafeTable
  <2>2. inode' = [inode EXCEPT ![i] = [inode[i] EXCEPT !.linkCount = @ - 1]]
    BY <1>5, <1>2, <1>3
  <2>3. SafeTable(inode')
    BY <1>2, <1>3, <2>1, <2>2, TableSafe
  <2> QED BY <1>1, <1>3, <1>5, <2>3 DEF SafeNow, RootSafe
<1> QED BY <1>1, <1>4, <1>5

LEMMA MakeDirSafe ==
  ASSUME FileSystemAssumption, GoodMemory, SafeNow, NEW name, dir_make(name)
  PROVE  SafeNow'
<1> DEFINE block == get_block
           i == get_inode
           ino == [ZeroInode EXCEPT !.type = "directory", !.blockCount = 1, !.directBlock = <<block>>]
           dots == <<Entry(".", i), Entry("..", curDir'[1].inode)>>
           first == write_disk_block(disk, block, DirBlock(dots))
<1>1. /\ ~MkdirRefused(name) /\ Take({block} \cap Block, {i}) /\ inode' = [inode EXCEPT ![i] = ino]
      /\ disk' = write_disk_block(first, curDirInode, DirBlock(curDir'))
  BY DEF dir_make
<1>2. i \in InodeNum
  BY FileSystemAssumption, <1>1, InodeGood DEF MkdirRefused
<1>3. inode \in [InodeNum -> GoodInode] /\ SafeTable(inode) /\ RootBlock \in blockMap /\ SafeDisk(disk) /\ DOMAIN disk = Block
  BY DEF GoodMemory, GoodRoot, GoodDisk, SafeNow, RootSafe
<1>4. block # RootBlock
  <2>1. block \in FreeBlocks \cup {-1} /\ RootBlock \in Nat
    BY FileSystemAssumption, GetOne, Sizing DEF RootBlock
  <2> QED BY <1>3, <2>1 DEF FreeBlocks
<1>5. SafeInode(ino)
  <2> HIDE DEF block
  <2>1. ino.directBlock = <<block>> /\ ino.indirectBlock = 0 /\ ino.blockCount = 1
    BY DEF ZeroInode
  <2>2. Range(<<block>>) = {block} /\ Len(<<block>>) = 1 /\ RootBlock # 0
    BY FileSystemAssumption, Sizing DEF Range, RootBlock
  <2> HIDE DEF ino
  <2> QED BY <1>4, <2>1, <2>2 DEF SafeInode
<1>6. SafeDisk(disk')
  <2> HIDE DEF block, dots
  <2>1. SafeDisk(first) /\ DOMAIN first = Block
    BY FileSystemAssumption, <1>3, WriteSafe
  <2> HIDE DEF first
  <2> QED BY FileSystemAssumption, <1>1, <2>1, WriteSafe
<1> HIDE DEF i, ino, block, first
<1>7. SafeTable(inode')
  BY <1>1, <1>2, <1>3, <1>5, TableSafe
<1>8. RootBlock \in blockMap'
  BY <1>1, <1>3 DEF Take
<1> QED BY <1>6, <1>7, <1>8 DEF SafeNow, RootSafe

LEMMA RemoveDirSafe ==
  ASSUME FileSystemAssumption, GoodMemory, SafeNow, NEW name \in Name, dir_remove(name)
  PROVE  SafeNow'
<1> DEFINE i == search_cur_dir(name)
<1>1. /\ Exists(name) /\ name \in Names /\ Free(Range(inode[i].directBlock), {i})
      /\ inode' = inode /\ disk' = disk
  BY DEF dir_remove, IsDir, Name, InodeOf
<1>2. i \in InodeNum \ {RootInode}
  BY <1>1, SearchGood DEF GoodMemory
<1> HIDE DEF i
<1>3. RootBlock \notin Range(inode[i].directBlock)
  BY <1>2 DEF SafeNow, RootSafe, SafeTable, SafeInode
<1> QED BY <1>1, <1>3 DEF Free, SafeNow, RootSafe

LEMMA ChangeDirSafe ==
  ASSUME FileSystemAssumption, GoodMemory, SafeNow, NEW name, dir_change(name)
  PROVE  SafeNow'
<1>1. PICK inodeNum : ChangeTo(inodeNum)
  BY DEF dir_change
<1>2. /\ disk' = write_disk_block(disk, FirstBlock(inode[curDirInode]), DirBlock(curDir))
      /\ blockMap' = blockMap /\ inode' = inode
  BY <1>1 DEF ChangeTo, maps
<1>3. DOMAIN disk = Block /\ SafeDisk(disk)
  BY DEF GoodMemory, GoodDisk, SafeNow, RootSafe
<1>4. SafeDisk(disk')
  BY FileSystemAssumption, <1>2, <1>3, WriteSafe
<1> QED BY <1>2, <1>4 DEF SafeNow, RootSafe

LEMMA CommandSafe ==
  ASSUME FileSystemAssumption, GoodMemory, SafeNow, execute_command
  PROVE  SafeNow'
<1>1. PICK name \in Name :
        \/ \E n \in Sizes, data \in Data : file_create(name, n, data)
        \/ \E src \in Name : file_copy(src, name) \/ hard_link(src, name)
        \/ file_remove(name)
        \/ dir_make(name) \/ dir_make_fails(name)
        \/ dir_remove(name)
        \/ dir_change(name)
  BY DEF execute_command
<1>2. ASSUME NEW n \in Sizes, NEW data \in Data, file_create(name, n, data) PROVE SafeNow'
  <2>1. n \in Nat
    BY FileSystemAssumption DEF FileSystemAssumption
  <2> QED BY FileSystemAssumption, <1>2, <2>1, CreateSafe
<1>3. ASSUME NEW src \in Name, file_copy(src, name) \/ hard_link(src, name) PROVE SafeNow'
  BY FileSystemAssumption, <1>3, CopySafe, LinkSafe
<1>4. ASSUME dir_make_fails(name) PROVE SafeNow'
  <2>1. blockMap \subseteq blockMap' /\ UNCHANGED <<inode, disk>>
    BY <1>4 DEF dir_make_fails, Take
  <2> QED BY <2>1 DEF SafeNow, RootSafe
<1>5. file_remove(name) \/ dir_make(name) \/ dir_remove(name) \/ dir_change(name) => SafeNow'
  BY FileSystemAssumption, RemoveFileSafe, MakeDirSafe, RemoveDirSafe, ChangeDirSafe
<1> QED BY <1>1, <1>2, <1>3, <1>4, <1>5

(* The image, however much of it was written, is safe where it mounts; and *)
(* all of it mounts if the current directory went to a block of data.      *)
LEMMA UnmountSafe ==
  ASSUME FileSystemAssumption, GoodMemory, SafeNow, NEW n \in 0 .. MAX_BLOCK, disk_umount(n)
  PROVE  /\ Mountable' => RootSafe(ImageBlockMap', ImageInode', ImageDisk')
         /\ MountsAgain'
<1>1. /\ \A b \in Block : b < n => ImageDisk'[b] = DiskToSave[b]
      /\ \A b \in Block : ~(b < n) => ImageDisk'[b] = Zero
      /\ Len(image'.blocks) = n /\ image'.at = curDirInode
  BY FileSystemAssumption, WrittenDisk
<1>2. /\ MAX_BLOCK \in Nat /\ MetaBlocks \in Nat /\ MetaBlocks < MAX_BLOCK /\ 3 <= MetaBlocks
      /\ RootBlock \in Block /\ RootBlock = MetaBlocks
  BY FileSystemAssumption, Sizing DEF RootBlock
<1>3. RootBlock \in blockMap /\ SafeTable(inode) /\ SafeDisk(disk)
  BY DEF SafeNow, RootSafe
<1>4. /\ \A b \in Block : SafeBlock(DiskToSave[b])
      /\ IsDirectory(DiskToSave[RootBlock])
  <2>1. \A b \in Block :
          \/ DiskToSave[b] = DirBlock(curDir)
          \/ b < MetaBlocks /\ DiskToSave[b] = MetaBlock(b)
          \/ DiskToSave[b] = disk[b]
    BY FileSystemAssumption, SavedDisk DEF GoodMemory
  <2>2. \A b \in Block : b < MetaBlocks => SafeBlock(MetaBlock(b))
    <3> SUFFICES ASSUME NEW b \in Block, b < MetaBlocks PROVE SafeBlock(MetaBlock(b))
      OBVIOUS
    <3>1. b = 0 \/ b = 1 \/ b = 2 \/ b \in 3 .. MetaBlocks - 1
      BY <1>2 DEF Block
    <3>2. \A j : InodeBlock(j).kind = "inodes"
      BY DEF InodeBlock
    <3> QED BY FileSystemAssumption, <3>1, <3>2, MetaBlockIs DEF SafeBlock
  <2>3. ~(RootBlock < MetaBlocks)
    BY <1>2
  <2> QED BY <1>2, <1>3, <2>1, <2>2, <2>3, BlockSafe DEF SafeDisk
<1>5. SafeDisk(ImageDisk')
  <2>1. IsDirectory(Zero) /\ SafeBlock(Zero)
    BY BlockSafe DEF IsDirectory, Zero
  <2> QED BY <1>1, <1>2, <1>4, <2>1 DEF SafeDisk
<1>6. ASSUME Mountable' PROVE RootSafe(ImageBlockMap', ImageInode', ImageDisk')
  <2>1. /\ ImageBlockMap' = blockMap
        /\ \A k \in InodeNum : ImageInode'[k] \in {inode[k], ZeroInode}
    BY FileSystemAssumption, <1>6, MountableSaved
  <2>2. SafeInode(ZeroInode)
    <3>1. Range(<<0>>) = {0} /\ Len(<<0>>) = 1 /\ RootBlock # 0
      BY <1>2 DEF Range
    <3> QED BY <3>1 DEF SafeInode, ZeroInode
  <2>3. SafeTable(ImageInode')
    BY <1>3, <2>1, <2>2 DEF SafeTable
  <2> QED BY <1>3, <1>5, <2>1, <2>3 DEF RootSafe
<1>7. ASSUME n = MAX_BLOCK, curDirInode >= MetaBlocks PROVE Mountable'
  <2>1. curDirInode \in Nat
    BY FileSystemAssumption, Sizing DEF GoodMemory, InodeNum
  <2>2. \A b \in 0 .. MetaBlocks - 1 : b \in Block /\ b < MetaBlocks /\ b < n /\ b # curDirInode
    BY <1>2, <1>7, <2>1 DEF Block
  <2>3. \A b \in 0 .. MetaBlocks - 1 : ImageDisk'[b] = MetaBlock(b)
    BY FileSystemAssumption, <1>1, <2>2, SavedDisk DEF GoodMemory
  <2>4. ImageInode' = inode
    BY FileSystemAssumption, <2>3, WholeTable
  <2>5. 0 \in 0 .. MetaBlocks - 1 /\ 1 \in 0 .. MetaBlocks - 1 /\ 2 \in 0 .. MetaBlocks - 1 /\ 3 .. MetaBlocks - 1 \subseteq 0 .. MetaBlocks - 1
    BY <1>2
  <2>6. ImageDisk'[0].kind = "super" /\ ImageDisk'[1].kind = "inodeMap" /\ ImageDisk'[2].kind = "blockMap"
    BY FileSystemAssumption, <2>3, <2>5, MetaBlockIs
  <2>7. \A b \in 3 .. MetaBlocks - 1 : ImageDisk'[b].kind = "inodes"
    <3>1. \A j : InodeBlock(j).kind = "inodes"
      BY DEF InodeBlock
    <3>2. \A b \in 3 .. MetaBlocks - 1 : ImageDisk'[b] = InodeBlock(b - 3)
      BY FileSystemAssumption, <2>3, <2>5, MetaBlockIs
    <3> QED BY <3>1, <3>2
  <2>8. IsDirectory(ImageDisk'[FirstBlock(ImageInode'[RootInode])])
    <3>1. FirstBlock(inode[RootInode]) = RootBlock
      BY DEF GoodMemory, GoodRoot, FirstBlock
    <3> QED BY <1>5, <2>4, <3>1 DEF SafeDisk
  <2> QED BY <2>6, <2>7, <2>8 DEF Mountable, ImageIntact
<1>8. MountsAgain'
  BY <1>1, <1>7 DEF MountsAgain
<1> QED BY <1>6, <1>8

LEMMA SafeImageKept ==
  ASSUME MountsAgain, image.exists /\ Mountable => RootSafe(ImageBlockMap, ImageInode, ImageDisk), image' = image
  PROVE  MountsAgain' /\ (image'.exists /\ Mountable' => RootSafe(ImageBlockMap', ImageInode', ImageDisk'))
<1>1. ImageDisk' = ImageDisk
  BY DEF ImageDisk
<1>2. ImageInode' = ImageInode /\ ImageBlockMap' = ImageBlockMap
  BY <1>1 DEF ImageInode, ImageBlockMap
<1>3. Mountable' = Mountable
  BY <1>1, <1>2 DEF Mountable, ImageIntact
<1> QED BY <1>1, <1>2, <1>3 DEF MountsAgain

LEMMA FormatSafe ==
  ASSUME FileSystemAssumption, Zeroed, fs_format
  PROVE  SafeNow'
<1>1. /\ blockMap' = 0 .. RootBlock
      /\ inode' = [inode EXCEPT ![RootInode].type = "directory",
                                ![RootInode].blockCount = 1,
                                ![RootInode].directBlock = <<RootBlock>>]
      /\ disk' = [disk EXCEPT ![RootBlock] = DirBlock(curDir')]
  BY DEF fs_format
<1>2. inode = [k \in InodeNum |-> ZeroInode] /\ disk = [b \in Block |-> Zero]
  BY DEF Zeroed
<1>3. RootBlock \in Block /\ RootBlock \in Nat \ {0}
  BY FileSystemAssumption, Sizing DEF RootBlock
<1>4. SafeDisk(disk')
  <2>1. disk'[RootBlock] = DirBlock(curDir') /\ \A b \in Block : disk'[b] \in {Zero, DirBlock(curDir')}
    BY <1>1, <1>2, <1>3
  <2> QED BY <2>1, BlockSafe DEF SafeDisk
<1>5. SafeTable(inode')
  <2>1. \A k \in InodeNum \ {RootInode} : inode'[k] = ZeroInode
    BY <1>1, <1>2
  <2>2. SafeInode(ZeroInode)
    <3>1. Range(<<0>>) = {0} /\ Len(<<0>>) = 1
      BY DEF Range
    <3> QED BY <1>3, <3>1 DEF SafeInode, ZeroInode
  <2> QED BY <2>1, <2>2 DEF SafeTable
<1> QED BY <1>1, <1>3, <1>4, <1>5 DEF SafeNow, RootSafe

LEMMA SafeInit == FileSystemAssumption /\ Init => SafeInv
<1> SUFFICES ASSUME FileSystemAssumption, Init PROVE SafeInv
  OBVIOUS
<1>1. image.exists = FALSE /\ session = "none"
  BY DEF Init, NoImage
<1> QED BY <1>1, TypeInit DEF SafeInv, MountsAgain

LEMMA SafeStep == FileSystemAssumption /\ SafeInv /\ [Next]_vars => SafeInv'
<1> SUFFICES ASSUME FileSystemAssumption, SafeInv, [Next]_vars PROVE SafeInv'
  OBVIOUS
<1>1. /\ TypeInv /\ MountsAgain
      /\ session = "mounted" => SafeNow
      /\ image.exists /\ Mountable => RootSafe(ImageBlockMap, ImageInode, ImageDisk)
  BY DEF SafeInv
<1>2. TypeInv'
  BY FileSystemAssumption, <1>1, TypeStep
<1>3. GoodImage /\ (session = "none" => Zeroed) /\ (session = "mounted" => GoodMemory)
  BY <1>1 DEF TypeInv
<1>4. CASE Mount
  <2>1. session = "none" /\ image' = image /\ Zeroed
    BY <1>3, <1>4 DEF Mount
  <2>2. MountsAgain' /\ (image'.exists /\ Mountable' => RootSafe(ImageBlockMap', ImageInode', ImageDisk'))
    BY <1>1, <2>1, SafeImageKept
  <2>3. CASE fs_mount
    <3>1. /\ image.exists /\ Mountable
          /\ blockMap' = ImageBlockMap /\ inode' = ImageInode /\ disk' = ImageDisk
      BY <2>3 DEF fs_mount, ImageBlockMap
    <3>2. SafeNow'
      BY <1>1, <3>1 DEF SafeNow
    <3> QED BY <1>2, <2>2, <3>2 DEF SafeInv
  <2>4. CASE fs_mount_fails
    <3>1. session' # "mounted"
      BY <2>4 DEF fs_mount_fails
    <3> QED BY <1>2, <2>2, <3>1 DEF SafeInv
  <2>5. CASE fs_format
    <3>1. SafeNow'
      BY FileSystemAssumption, <2>1, <2>5, FormatSafe
    <3> QED BY <1>2, <2>2, <3>1 DEF SafeInv
  <2> QED BY <1>4, <2>3, <2>4, <2>5 DEF Mount
<1>5. CASE Command
  <2>1. GoodMemory /\ SafeNow
    BY <1>1, <1>3, <1>5 DEF Command
  <2>2. CASE execute_command /\ UNCHANGED image
    <3>1. SafeNow'
      BY FileSystemAssumption, <2>1, <2>2, CommandSafe
    <3>2. MountsAgain' /\ (image'.exists /\ Mountable' => RootSafe(ImageBlockMap', ImageInode', ImageDisk'))
      BY <1>1, <2>2, SafeImageKept
    <3> QED BY <1>2, <3>1, <3>2 DEF SafeInv
  <2>3. CASE fs_umount
    <3>1. PICK n \in {MAX_BLOCK} \cup IF Kills THEN Torn ELSE {} : disk_umount(n)
      BY <2>3 DEF fs_umount
    <3>2. n \in 0 .. MAX_BLOCK
      BY FileSystemAssumption, <3>1 DEF FileSystemAssumption
    <3>3. session' = "none"
      BY <2>3 DEF fs_umount, Ended
    <3>4. MountsAgain' /\ (Mountable' => RootSafe(ImageBlockMap', ImageInode', ImageDisk'))
      BY FileSystemAssumption, <2>1, <3>1, <3>2, UnmountSafe
    <3> QED BY <1>2, <3>3, <3>4 DEF SafeInv
  <2>4. CASE Killed
    <3>1. session' = "none" /\ image' = image
      BY <2>4 DEF Killed, Ended
    <3>2. MountsAgain' /\ (image'.exists /\ Mountable' => RootSafe(ImageBlockMap', ImageInode', ImageDisk'))
      BY <1>1, <3>1, SafeImageKept
    <3> QED BY <1>2, <3>1, <3>2 DEF SafeInv
  <2> QED BY <1>5, <2>2, <2>3, <2>4 DEF Command
<1>6. CASE UNCHANGED vars
  <2>1. UNCHANGED <<blockMap, inode, disk, image, session>>
    BY <1>6 DEF vars, memory, maps
  <2>2. MountsAgain' /\ (image'.exists /\ Mountable' => RootSafe(ImageBlockMap', ImageInode', ImageDisk'))
    BY <1>1, <2>1, SafeImageKept
  <2> QED BY <1>1, <1>2, <2>1, <2>2 DEF SafeInv, SafeNow
<1> QED BY <1>4, <1>5, <1>6 DEF Next

(* A disk that fs_umount() wrote whole is one that fs_mount() can read,    *)
(* unless curDirInode then named the superblock, a map or the inodes: in   *)
(* every session, with any cd, any directory written to the wrong block,   *)
(* any kill and any mount of an image that was cut short before (fs.c,     *)
(* fs_mount() and fs_umount(); directory.c, dir_change()).                 *)
THEOREM MountsAgainAlways == Spec => []MountsAgain
<1>1. Init => SafeInv
  BY FileSystemAssumption, SafeInit
<1>2. SafeInv /\ [Next]_vars => SafeInv'
  BY FileSystemAssumption, SafeStep
<1>3. SafeInv => MountsAgain
  BY DEF SafeInv
<1> QED BY <1>1, <1>2, <1>3, PTL DEF Spec

-----------------------------------------------------------------------------
(* What the names stand for: Spec implements FlatDirectory.                *)

(* A directory in which a name is found where it was put: fs.c searches    *)
(* for the first entry of a name, and nothing takes "." from the root.     *)
Listing(dir) ==
  /\ \A j, k \in DOMAIN dir : dir[j].name = dir[k].name => j = k
  /\ \E k \in DOMAIN dir : dir[k] = Entry(".", RootInode)

FlatParts ==
  /\ image.astray => astray
  /\ session = "mounted" /\ ~astray => Listing(curDir)
  /\ image.exists /\ ~image.astray => Listing(ImageRoot)

FlatInv == SoundInv /\ FlatParts

-----------------------------------------------------------------------------
(* Names and what they stand for. *)

(* In a listing a name stands for what its one entry names. *)
LEMMA StandingAt ==
  ASSUME NEW dir \in Seq(DirectoryEntry), Listing(dir), NEW table, NEW d, NEW name \in Name \ {"."}
  PROVE  /\ (\A k \in DOMAIN dir : dir[k].name # name) => Standing(dir, table, d)[name] = Nothing
         /\ \A k \in DOMAIN dir : dir[k].name = name =>
              Standing(dir, table, d)[name] = StandsFor(d, table[dir[k].inode])
<1> DEFINE p == PositionIn(dir, name)
<1>1. Standing(dir, table, d)[name] = IF p = 0 THEN Nothing ELSE StandsFor(d, table[dir[p].inode])
  BY DEF Standing
<1>2. /\ p # 0 => p \in DOMAIN dir /\ dir[p].name = name
      /\ (\E k \in DOMAIN dir : dir[k].name = name) => p # 0
  BY PositionFound
<1> HIDE DEF p
<1>3. (\A k \in DOMAIN dir : dir[k].name # name) => Standing(dir, table, d)[name] = Nothing
  BY <1>1, <1>2
<1>4. ASSUME NEW k \in DOMAIN dir, dir[k].name = name
      PROVE  Standing(dir, table, d)[name] = StandsFor(d, table[dir[k].inode])
  <2>1. p = k
    BY <1>2, <1>4 DEF Listing
  <2>2. p # 0
    BY <1>2, <1>4
  <2> QED BY ONLY <1>1, <2>1, <2>2
<1> QED BY <1>3, <1>4

(* Two functions on the names with the same values are one. *)
LEMMA StandingShape ==
  ASSUME NEW dir, NEW table, NEW d, NEW dir2, NEW table2, NEW e,
         \A name \in Name \ {"."} : Standing(dir2, table2, e)[name] = Standing(dir, table, d)[name]
  PROVE  Standing(dir2, table2, e) = Standing(dir, table, d)
BY DEF Standing

(* As long as the entries stand for what they stood for, so do the names. *)
LEMMA StandingSame ==
  ASSUME NEW dir \in Seq(DirectoryEntry), Listing(dir), NEW table, NEW d, NEW table2, NEW e,
         \A k \in DOMAIN dir : StandsFor(e, table2[dir[k].inode]) = StandsFor(d, table[dir[k].inode])
  PROVE  Standing(dir, table2, e) = Standing(dir, table, d)
<1>1. ASSUME NEW name \in Name \ {"."}
      PROVE  Standing(dir, table2, e)[name] = Standing(dir, table, d)[name]
  <2>1. CASE \A k \in DOMAIN dir : dir[k].name # name
    BY <2>1, StandingAt
  <2>2. CASE \E k \in DOMAIN dir : dir[k].name = name
    <3>1. PICK k \in DOMAIN dir : dir[k].name = name
      BY <2>2
    <3>2. /\ Standing(dir, table, d)[name] = StandsFor(d, table[dir[k].inode])
          /\ Standing(dir, table2, e)[name] = StandsFor(e, table2[dir[k].inode])
      BY <3>1, StandingAt
    <3> QED BY <3>2
  <2> QED BY <2>1, <2>2
<1> QED BY <1>1, StandingShape

(* A name that stood for nothing stands for something, and one that stood  *)
(* for something stands for nothing; the others stand for what they did.   *)
Gains(was, is, name, what) ==
  name # "." /\ was[name] = Nothing /\ is = [was EXCEPT ![name] = what]

Loses(was, is, name, what) ==
  name # "." /\ was[name] = what /\ is = [was EXCEPT ![name] = Nothing]

(* A new entry gives its name something to stand for, and no other. *)
LEMMA StandingAdd ==
  ASSUME NEW dir \in Seq(DirectoryEntry), Listing(dir), NEW table, NEW d, NEW table2, NEW e,
         NEW name \in Name, NEW i \in InodeNum, \A k \in DOMAIN dir : dir[k].name # name,
         \A k \in DOMAIN dir : StandsFor(e, table2[dir[k].inode]) = StandsFor(d, table[dir[k].inode])
  PROVE  /\ Listing(Append(dir, Entry(name, i)))
         /\ Gains(Standing(dir, table, d), Standing(Append(dir, Entry(name, i)), table2, e), name,
                  StandsFor(e, table2[i]))
<1> DEFINE dir2 == Append(dir, Entry(name, i))
<1>1. Entry(name, i) \in DirectoryEntry /\ Entry(name, i).name = name /\ Entry(name, i).inode = i
  BY DEF Entry, DirectoryEntry
<1>2. DOMAIN dir = 1 .. Len(dir) /\ Len(dir) \in Nat
  BY LenProperties
<1>3. /\ dir2 \in Seq(DirectoryEntry) /\ DOMAIN dir2 = 1 .. Len(dir) + 1
      /\ \A k \in 1 .. Len(dir) : dir2[k] = dir[k]
      /\ dir2[Len(dir) + 1] = Entry(name, i)
  BY <1>1, AppendProperties, LenProperties
<1>4. Len(dir) + 1 \in DOMAIN dir2 /\ \A k \in DOMAIN dir2 : k \in DOMAIN dir \/ k = Len(dir) + 1
  BY <1>2, <1>3
<1>5. DOMAIN dir \subseteq DOMAIN dir2
  BY <1>2, <1>3
<1>6. \A k \in DOMAIN dir : dir2[k] = dir[k]
  BY <1>2, <1>3
<1> HIDE DEF dir2
<1>7. Listing(dir2)
  <2>1. ASSUME NEW j \in DOMAIN dir2, NEW k \in DOMAIN dir2, dir2[j].name = dir2[k].name PROVE j = k
    BY <1>1, <1>3, <1>4, <1>6, <2>1 DEF Listing
  <2>2. \E k \in DOMAIN dir2 : dir2[k] = Entry(".", RootInode)
    BY <1>5, <1>6 DEF Listing
  <2> QED BY <2>1, <2>2 DEF Listing
<1>8. name # "."
  BY DEF Listing, Entry
<1>9. Standing(dir, table, d)[name] = Nothing
  BY <1>8, StandingAt
<1>10. ASSUME NEW other \in Name \ {"."}
       PROVE  Standing(dir2, table2, e)[other] =
                IF other = name THEN StandsFor(e, table2[i]) ELSE Standing(dir, table, d)[other]
  <2>1. CASE other = name
    <3>1. dir2[Len(dir) + 1].name = other /\ dir2[Len(dir) + 1].inode = i
      BY <1>1, <1>3, <2>1
    <3>2. Standing(dir2, table2, e)[other] = StandsFor(e, table2[dir2[Len(dir) + 1].inode])
      BY <1>3, <1>4, <1>7, <3>1, StandingAt
    <3> QED BY <2>1, <3>1, <3>2
  <2>2. CASE other # name /\ \E k \in DOMAIN dir : dir[k].name = other
    <3>1. PICK k \in DOMAIN dir : dir[k].name = other
      BY <2>2
    <3>2. k \in DOMAIN dir2 /\ dir2[k] = dir[k]
      BY <1>5, <1>6
    <3>3. Standing(dir2, table2, e)[other] = StandsFor(e, table2[dir2[k].inode])
      BY <1>3, <1>7, <3>1, <3>2, StandingAt
    <3>4. Standing(dir, table, d)[other] = StandsFor(d, table[dir[k].inode])
      BY <3>1, StandingAt
    <3> QED BY <2>2, <3>2, <3>3, <3>4
  <2>3. CASE other # name /\ \A k \in DOMAIN dir : dir[k].name # other
    <3>1. \A k \in DOMAIN dir2 : dir2[k].name # other
      BY <1>1, <1>3, <1>4, <1>6, <2>3
    <3>2. Standing(dir2, table2, e)[other] = Nothing /\ Standing(dir, table, d)[other] = Nothing
      BY <1>3, <1>7, <2>3, <3>1, StandingAt
    <3> QED BY <2>3, <3>2
  <2> QED BY <2>1, <2>2, <2>3
<1>11. Standing(dir2, table2, e) = [Standing(dir, table, d) EXCEPT ![name] = StandsFor(e, table2[i])]
  <2>1. /\ Standing(dir2, table2, e) = [other \in Name \ {"."} |-> Standing(dir2, table2, e)[other]]
        /\ Standing(dir, table, d) = [other \in Name \ {"."} |-> Standing(dir, table, d)[other]]
    BY DEF Standing
  <2> QED BY <1>10, <2>1
<1> QED BY <1>7, <1>8, <1>9, <1>11 DEF dir2, Gains

(* An entry that is removed takes its name with it, and no other. *)
LEMMA StandingRemove ==
  ASSUME FileSystemAssumption, NEW dir, GoodDir(dir), Listing(dir), NEW table, NEW d, NEW table2, NEW e,
         NEW p \in DOMAIN dir, dir[p].name # ".",
         \A k \in DOMAIN dir : StandsFor(e, table2[dir[k].inode]) = StandsFor(d, table[dir[k].inode])
  PROVE  /\ Listing(RemoveAt(dir, p))
         /\ Loses(Standing(dir, table, d), Standing(RemoveAt(dir, p), table2, e), dir[p].name,
                  StandsFor(d, table[dir[p].inode]))
<1> DEFINE dir2 == RemoveAt(dir, p)
           name == dir[p].name
<1>1. dir \in Seq(DirectoryEntry) /\ GoodDir(dir2) /\ dir2 \in Seq(DirectoryEntry)
  BY RemoveGood DEF GoodDir
<1>2. /\ Len(dir) \in Nat /\ DOMAIN dir = 1 .. Len(dir) /\ DOMAIN dir2 = 1 .. Len(dir) - 1
      /\ \A i \in 1 .. Len(dir) - 1 : dir2[i] = IF i < p THEN dir[i] ELSE dir[i + 1]
  BY RemoveGood
<1> HIDE DEF dir2
<1>3. p \in Int
  BY <1>2
<1> DEFINE Old(k) == IF k < p THEN k ELSE k + 1
<1>4. \A k \in DOMAIN dir2 : Old(k) \in DOMAIN dir /\ dir2[k] = dir[Old(k)] /\ Old(k) # p
  BY <1>2, <1>3
<1>5. \A j, k \in DOMAIN dir2 : Old(j) = Old(k) => j = k
  BY <1>2, <1>3
<1>6. ASSUME NEW k \in DOMAIN dir, k # p PROVE \E j \in DOMAIN dir2 : Old(j) = k
  <2>1. CASE k < p
    <3>1. k \in DOMAIN dir2 /\ Old(k) = k
      BY <1>2, <1>3, <2>1
    <3> QED BY <3>1
  <2>2. CASE ~(k < p)
    <3>1. k - 1 \in DOMAIN dir2 /\ Old(k - 1) = k
      BY <1>2, <1>3, <1>6, <2>2
    <3> QED BY <3>1
  <2> QED BY <2>1, <2>2
<1> HIDE DEF Old
<1>7. name \in Name \ {"."}
  <2>1. dir[p] \in DirectoryEntry
    BY <1>1, ElementOfSeq
  <2> QED BY <2>1 DEF DirectoryEntry
<1>8. Listing(dir2)
  <2>1. ASSUME NEW j \in DOMAIN dir2, NEW k \in DOMAIN dir2, dir2[j].name = dir2[k].name PROVE j = k
    BY <1>4, <1>5, <2>1 DEF Listing
  <2>2. \E k \in DOMAIN dir2 : dir2[k] = Entry(".", RootInode)
    <3>1. PICK k \in DOMAIN dir : dir[k] = Entry(".", RootInode)
      BY DEF Listing
    <3>2. k # p
      BY <3>1 DEF Entry
    <3>3. PICK j \in DOMAIN dir2 : Old(j) = k
      BY <1>6, <3>2
    <3>4. dir2[j] = Entry(".", RootInode)
      BY <1>4, <3>1, <3>3
    <3> QED BY <3>4
  <2> QED BY <2>1, <2>2 DEF Listing
<1>9. Standing(dir, table, d)[name] = StandsFor(d, table[dir[p].inode])
  BY <1>1, <1>7, StandingAt
<1>10. ASSUME NEW other \in Name \ {"."}
       PROVE  Standing(dir2, table2, e)[other] =
                IF other = name THEN Nothing ELSE Standing(dir, table, d)[other]
  <2>1. CASE other = name
    <3>1. \A k \in DOMAIN dir2 : dir2[k].name # other
      BY <1>4, <2>1 DEF Listing
    <3> QED BY <1>1, <1>8, <2>1, <3>1, StandingAt
  <2>2. CASE other # name /\ \E k \in DOMAIN dir : dir[k].name = other
    <3>1. PICK k \in DOMAIN dir : dir[k].name = other
      BY <2>2
    <3>2. k # p
      BY <2>2, <3>1
    <3>3. PICK j \in DOMAIN dir2 : Old(j) = k
      BY <1>6, <3>2
    <3>4. dir2[j] = dir[k]
      BY <1>4, <3>3
    <3>5. Standing(dir2, table2, e)[other] = StandsFor(e, table2[dir2[j].inode])
      BY <1>1, <1>8, <3>1, <3>4, StandingAt
    <3>6. Standing(dir, table, d)[other] = StandsFor(d, table[dir[k].inode])
      BY <1>1, <3>1, StandingAt
    <3> QED BY <2>2, <3>4, <3>5, <3>6
  <2>3. CASE other # name /\ \A k \in DOMAIN dir : dir[k].name # other
    <3>1. \A k \in DOMAIN dir2 : dir2[k].name # other
      BY <1>4, <2>3
    <3>2. Standing(dir2, table2, e)[other] = Nothing /\ Standing(dir, table, d)[other] = Nothing
      BY <1>1, <1>8, <2>3, <3>1, StandingAt
    <3> QED BY <2>3, <3>2
  <2> QED BY <2>1, <2>2, <2>3
<1>11. Standing(dir2, table2, e) = [Standing(dir, table, d) EXCEPT ![name] = Nothing]
  <2>1. /\ Standing(dir2, table2, e) = [other \in Name \ {"."} |-> Standing(dir2, table2, e)[other]]
        /\ Standing(dir, table, d) = [other \in Name \ {"."} |-> Standing(dir, table, d)[other]]
    BY DEF Standing
  <2> QED BY <1>10, <2>1
<1> QED BY <1>7, <1>8, <1>9, <1>11 DEF dir2, Loses

-----------------------------------------------------------------------------
(* Files whose blocks are not touched, and files that are written. *)

(* The blocks of a sound inode are as many as it counts, and its own. *)
LEMMA BlocksInSound ==
  ASSUME FileSystemAssumption, NEW d, NEW ino, SoundInode(d, ino), ino.blockCount \in Nat
  PROVE  /\ \A k \in 1 .. ino.blockCount : BlocksIn(d, ino)[k] \in OwnedIn(d, ino)
         /\ HasMap(ino.blockCount) => ino.indirectBlock \in OwnedIn(d, ino)
<1> DEFINE n == ino.blockCount
           blocks == BlocksIn(d, ino)
<1>1. DIRECT \in Nat \ {0}
  BY FileSystemAssumption, Sizing
<1>2. ino.directBlock \in Seq(Block) /\ Len(ino.directBlock) = IF HasMap(n) THEN DIRECT ELSE n
  BY DEF SoundInode
<1>3. blocks \in Seq(Block) /\ Len(blocks) = n
  <2>1. CASE HasMap(n)
    <3> DEFINE back == d[ino.indirectBlock].blocks
    <3>1. back \in Seq(Block) /\ Len(back) = n - DIRECT
      BY <2>1 DEF SoundInode
    <3>2. blocks = ino.directBlock \o back
      BY <2>1 DEF BlocksIn
    <3>3. ino.directBlock \in Seq(Block) /\ Len(ino.directBlock) = DIRECT
      BY <1>2, <2>1
    <3> HIDE DEF blocks, back
    <3>4. blocks \in Seq(Block) /\ Len(blocks) = DIRECT + (n - DIRECT)
      <4>1. /\ ino.directBlock \o back \in Seq(Block)
            /\ Len(ino.directBlock \o back) = Len(ino.directBlock) + Len(back)
        BY ONLY <3>1, <3>3, ConcatProperties
      <4> QED BY ONLY <3>1, <3>2, <3>3, <4>1, Zenon
    <3>5. DIRECT + (n - DIRECT) = n
      BY <1>1
    <3> QED BY ONLY <3>4, <3>5
  <2>2. CASE ~HasMap(n)
    <3>1. blocks = SubSeq(ino.directBlock, 1, n) /\ Len(ino.directBlock) = n
      BY <1>2, <2>2 DEF BlocksIn
    <3>2. SubSeq(ino.directBlock, 1, n) = ino.directBlock
      BY <1>2, <3>1, SubSeqFull
    <3> QED BY <1>2, <3>1, <3>2
  <2> QED BY <2>1, <2>2
<1>4. Range(blocks) \subseteq OwnedIn(d, ino)
  BY DEF OwnedIn
<1> HIDE DEF blocks
<1>5. \A k \in 1 .. n : blocks[k] \in Range(blocks)
  BY <1>3, LenProperties DEF Range
<1>6. HasMap(n) => ino.indirectBlock \in OwnedIn(d, ino)
  BY DEF OwnedIn
<1> QED BY <1>4, <1>5, <1>6 DEF blocks

(* An inode stands for the same bytes as long as the blocks it owns hold   *)
(* what they held; its link count is no matter, nor is a directory's block.*)
LEMMA StandsSame ==
  ASSUME FileSystemAssumption, NEW d, NEW e, NEW ino \in GoodInode, NEW new, SoundInode(d, ino), SameBlocks(ino, new),
         ino.type = "directory" \/ \A b \in OwnedIn(d, ino) : e[b] = d[b]
  PROVE  StandsFor(e, new) = StandsFor(d, ino)
<1> DEFINE n == ino.blockCount
<1>1. n \in Nat /\ new.type = ino.type /\ new.blockCount = n
  BY DEF GoodInode, SameBlocks
<1>2. CASE ino.type = "directory"
  BY <1>1, <1>2 DEF StandsFor
<1>3. CASE ino.type # "directory"
  <2>1. \A b \in OwnedIn(d, ino) : e[b] = d[b]
    BY <1>3
  <2>2. /\ \A k \in 1 .. n : BlocksIn(d, ino)[k] \in OwnedIn(d, ino)
        /\ HasMap(n) => ino.indirectBlock \in OwnedIn(d, ino)
    BY FileSystemAssumption, <1>1, BlocksInSound
  <2>3. BlocksIn(e, new) = BlocksIn(d, ino)
    BY <2>1, <2>2 DEF BlocksIn, SameBlocks
  <2>4. ASSUME NEW k \in 1 .. n
        PROVE  read_disk_block(e, BlocksIn(e, new)[k], Garbage) = read_disk_block(d, BlocksIn(d, ino)[k], Garbage)
    BY <2>1, <2>2, <2>3 DEF read_disk_block
  <2>5. BytesIn(e, new) = BytesIn(d, ino)
    BY <1>1, <2>4 DEF BytesIn
  <2> QED BY <1>1, <1>3, <2>5 DEF StandsFor
<1> QED BY <1>2, <1>3

(* A file stands for the bytes it is created with, whether its blocks fit  *)
(* in the inode or need the indirect block.                                *)
LEMMA NewStands ==
  ASSUME FileSystemAssumption, NEW n \in Nat \ {0},
         NEW got \in Seq(Block), \A i, j \in DOMAIN got : got[i] = got[j] => i = j,
         Len(got) = BlocksFor(n), NEW bytes, Len(bytes) = n, bytes = [k \in 1 .. n |-> bytes[k]]
  PROVE  StandsFor(Filled(got, bytes), NewInode("file", n, got)) = [type |-> "file", bytes |-> bytes]
<1> DEFINE e == Filled(got, bytes)
           ino == NewInode("file", n, got)
           blocks == BlocksIn(e, ino)
<1>1. DIRECT \in Nat \ {0}
  BY FileSystemAssumption, Sizing
<1>2. DOMAIN got = 1 .. BlocksFor(n) /\ \A t \in 1 .. BlocksFor(n) : got[t] \in Block
  BY LenProperties, ElementOfSeq
<1>3. /\ HasMap(n) => BlocksFor(n) = n + 1 /\ n > DIRECT
      /\ ~HasMap(n) => BlocksFor(n) = n /\ n <= DIRECT
  BY FileSystemAssumption, Turns
<1>4. /\ ino.type = "file" /\ ino.blockCount = n
      /\ ino.directBlock = SubSeq(got, 1, IF HasMap(n) THEN DIRECT ELSE n)
      /\ HasMap(n) => ino.indirectBlock = got[DIRECT + 1]
  BY DEF NewInode
<1>5. \A t \in DOMAIN got :
        e[got[t]] = IF t <= DIRECT THEN bytes[t]
                    ELSE IF t > DIRECT + 1 THEN bytes[t - 1]
                    ELSE IF Len(got) = BlocksFor(Len(bytes))
                    THEN MapBlock([k \in 1 .. Len(bytes) - DIRECT |-> got[Turn(DIRECT + k)]])
                    ELSE disk[got[t]]
  BY FileSystemAssumption, FilledIs DEF FilledWith
<1> HIDE DEF e, ino
<1>6. ASSUME NEW k \in 1 .. n
      PROVE  Turn(k) \in 1 .. BlocksFor(n) /\ blocks[k] = got[Turn(k)]
  <2>1. CASE ~HasMap(n)
    <3>1. SubSeq(got, 1, Len(got)) = got /\ Len(got) = n
      BY <1>3, <2>1, SubSeqFull
    <3>2. ino.directBlock = got
      BY <1>4, <2>1, <3>1
    <3>3. blocks = got
      BY <1>4, <2>1, <3>1, <3>2 DEF BlocksIn
    <3>4. Turn(k) = k
      BY <1>3, <2>1 DEF Turn
    <3> QED BY <1>3, <2>1, <3>3, <3>4
  <2>2. CASE HasMap(n)
    <3> DEFINE front == SubSeq(got, 1, DIRECT)
               back  == [j \in 1 .. n - DIRECT |-> got[Turn(DIRECT + j)]]
    <3>1. DIRECT + 1 \in DOMAIN got /\ ~(DIRECT + 1 <= DIRECT) /\ ~(DIRECT + 1 > DIRECT + 1)
      BY <1>1, <1>2, <1>3, <2>2
    <3>2. e[got[DIRECT + 1]] = MapBlock(back)
      BY <1>5, <3>1
    <3>3. front \in Seq(Block) /\ Len(front) = DIRECT
      <4>1. 1 \in Int /\ DIRECT \in Int /\ (\A j \in 1 .. DIRECT : got[j] \in Block) /\ DIRECT <= Len(got)
        BY <1>1, <1>2, <1>3, <2>2
      <4>2. front \in Seq(Block) /\ Len(front) = IF 1 <= DIRECT THEN DIRECT - 1 + 1 ELSE 0
        BY ONLY <4>1, SubSeqProperties
      <4> HIDE DEF front
      <4> QED BY <1>1, <4>2
    <3>4. \A j \in 1 .. DIRECT : front[j] = got[j]
      <4>1. \A j \in 1 .. DIRECT : j \in 1 .. DIRECT - 1 + 1 /\ 1 + j - 1 = j
        BY <1>1
      <4>2. 1 \in Int /\ DIRECT \in Int /\ \A j \in 1 .. DIRECT : got[j] \in Block
        BY <1>1, <1>2, <1>3, <2>2
      <4>3. \A j \in 1 .. DIRECT - 1 + 1 : front[j] = got[1 + j - 1]
        BY ONLY <4>2, SubSeqProperties
      <4> HIDE DEF front
      <4>4. ASSUME NEW j \in 1 .. DIRECT PROVE front[j] = got[j]
        <5>1. front[j] = got[1 + j - 1] /\ 1 + j - 1 = j
          BY <4>1, <4>3
        <5> QED BY ONLY <5>1, Zenon
      <4> QED BY <4>4
    <3>5. ASSUME NEW j \in 1 .. n - DIRECT PROVE Turn(DIRECT + j) \in 1 .. BlocksFor(n)
      BY <1>1, <1>3, <2>2 DEF Turn
    <3>6. back \in Seq(Block) /\ Len(back) = n - DIRECT
      <4>1. back \in [1 .. n - DIRECT -> Block]
        BY <1>2, <3>5
      <4>2. n - DIRECT \in Nat
        BY <1>1, <1>3, <2>2
      <4> HIDE DEF back
      <4> QED BY ONLY <4>1, <4>2
    <3>7. \A j \in 1 .. n - DIRECT : back[j] = got[Turn(DIRECT + j)]
      OBVIOUS
    <3> HIDE DEF front, back
    <3>8. blocks = front \o back
      <4>1. e[ino.indirectBlock].blocks = back
        BY <1>4, <2>2, <3>2 DEF MapBlock
      <4> QED BY <1>4, <2>2, <4>1 DEF BlocksIn, front
    <3>81. \A j \in 1 .. Len(front) + Len(back) :
              (front \o back)[j] = IF j <= Len(front) THEN front[j] ELSE back[j - Len(front)]
      <4>1. front \in Seq(Block) /\ back \in Seq(Block)
        BY <3>3, <3>6
      <4> QED BY ONLY <4>1, ConcatProperties
    <3>9. CASE k <= DIRECT
      <4>1. k \in 1 .. Len(front) + Len(back) /\ k <= Len(front)
        BY <1>1, <1>3, <2>2, <3>3, <3>6, <3>9
      <4>2. blocks[k] = front[k]
        BY ONLY <3>8, <3>81, <4>1
      <4>3. k \in 1 .. DIRECT /\ Turn(k) = k /\ k \in 1 .. BlocksFor(n)
        BY <1>1, <1>3, <2>2, <3>9 DEF Turn
      <4> QED BY <3>4, <4>2, <4>3
    <3>10. CASE ~(k <= DIRECT)
      <4>1. k \in 1 .. Len(front) + Len(back) /\ ~(k <= Len(front))
        BY <1>1, <1>3, <2>2, <3>3, <3>6, <3>10
      <4>2. blocks[k] = back[k - Len(front)]
        BY ONLY <3>8, <3>81, <4>1
      <4>3. k - Len(front) \in 1 .. n - DIRECT /\ DIRECT + (k - Len(front)) = k
        BY <1>1, <1>3, <2>2, <3>3, <3>10
      <4>4. back[k - Len(front)] = got[Turn(DIRECT + (k - Len(front)))]
        BY <3>7, <4>3
      <4>5. Turn(DIRECT + (k - Len(front))) = Turn(k)
        BY ONLY <4>3, Zenon
      <4> QED BY <3>5, <4>2, <4>3, <4>4, <4>5
    <3> QED BY <3>9, <3>10
  <2> QED BY <2>1, <2>2
<1> HIDE DEF blocks
<1>7. ASSUME NEW k \in 1 .. n PROVE e[got[Turn(k)]] = bytes[k]
  <2>1. Turn(k) \in DOMAIN got
    BY <1>2, <1>6
  <2>2. CASE k <= DIRECT
    <3>1. Turn(k) = k
      BY <2>2 DEF Turn
    <3> QED BY <1>5, <2>1, <2>2, <3>1
  <2>3. CASE ~(k <= DIRECT)
    <3>1. Turn(k) = k + 1 /\ ~(k + 1 <= DIRECT) /\ k + 1 > DIRECT + 1 /\ k + 1 - 1 = k
      BY <1>1, <2>3 DEF Turn
    <3>2. \A t \in DOMAIN got : ~(t <= DIRECT) /\ t > DIRECT + 1 => e[got[t]] = bytes[t - 1]
      BY ONLY <1>5, Zenon
    <3>3. PICK t \in DOMAIN got : t = Turn(k)
      BY <2>1
    <3>4. ~(t <= DIRECT) /\ t > DIRECT + 1 /\ t - 1 = k
      BY ONLY <1>1, <3>1, <3>3, k \in 1 .. n, n \in Nat \ {0}
    <3>5. e[got[t]] = bytes[t - 1]
      BY ONLY <3>2, <3>4, t \in DOMAIN got, Zenon
    <3> QED BY ONLY <3>3, <3>4, <3>5, Zenon
  <2> QED BY <2>2, <2>3
<1>8. ASSUME NEW k \in 1 .. n PROVE read_disk_block(e, blocks[k], Garbage) = bytes[k]
  <2>1. blocks[k] \in Block /\ blocks[k] = got[Turn(k)]
    BY <1>2, <1>6
  <2> QED BY <1>7, <2>1 DEF read_disk_block
<1>9. BytesIn(e, ino) = [k \in 1 .. n |-> bytes[k]]
  BY <1>4, <1>8 DEF BytesIn, blocks
<1>10. StandsFor(e, ino) = [type |-> "file", bytes |-> bytes]
  BY <1>4, <1>9 DEF StandsFor
<1> QED BY <1>10 DEF e, ino

-----------------------------------------------------------------------------
(* What each command does to what the names stand for. *)

Was == Standing(curDir, inode, disk)
Is  == Standing(curDir', inode', disk')

(* No entry changes what it stands for while the blocks of the files keep  *)
(* what they hold: the root's block and those of the file system itself    *)
(* belong to no file.                                                      *)
LEMMA EntriesStand ==
  ASSUME FileSystemAssumption, GoodMemory, SoundMemory, NEW e, NEW table,
         \A b \in blockMap : b # RootBlock /\ ~(b < MetaBlocks) => e[b] = disk[b],
         \A n \in inodeMap : SameBlocks(inode[n], table[n])
  PROVE  \A k \in DOMAIN curDir : StandsFor(e, table[curDir[k].inode]) = StandsFor(disk, inode[curDir[k].inode])
<1>1. SoundNow /\ EntriesNow
  BY DEF SoundMemory
<1>2. /\ RootInode \in inodeMap /\ Own(RootInode) = {RootBlock}
      /\ \A n \in inodeMap : Own(n) \subseteq blockMap
      /\ \A n \in inodeMap : inode[n] \in GoodInode
      /\ \A n \in inodeMap : SoundInode(disk, inode[n])
      /\ \A n \in inodeMap : Own(n) \cap (leaked \cup 0 .. MetaBlocks - 1) = {}
      /\ \A n \in inodeMap : \A m \in inodeMap \ {n} : Own(n) \cap Own(m) = {}
  BY FileSystemAssumption, <1>1, OwnFacts
<1>3. blockMap \subseteq Block /\ inode[RootInode].type = "directory"
  BY DEF GoodMemory, GoodMaps, GoodRoot
<1>4. MetaBlocks \in Int /\ Block \subseteq Nat
  BY FileSystemAssumption, Sizing DEF Block
<1>5. ASSUME NEW n \in inodeMap
      PROVE  StandsFor(e, table[n]) = StandsFor(disk, inode[n])
  <2>1. ASSUME n # RootInode, NEW b \in Own(n) PROVE e[b] = disk[b]
    <3>1. b \in blockMap /\ b \notin 0 .. MetaBlocks - 1 /\ b \in Nat
      BY <1>2, <1>3, <1>4
    <3>2. b # RootBlock
      BY <1>2, <2>1
    <3>3. ~(b < MetaBlocks)
      BY <1>4, <3>1
    <3> QED BY <3>1, <3>2, <3>3
  <2>2. inode[n].type = "directory" \/ \A b \in OwnedIn(disk, inode[n]) : e[b] = disk[b]
    BY <1>3, <2>1 DEF Own
  <2>3. inode[n] \in GoodInode /\ SoundInode(disk, inode[n]) /\ SameBlocks(inode[n], table[n])
    BY <1>2
  <2> DEFINE ino == inode[n]
             new == table[n]
  <2> HIDE DEF ino, new
  <2>4. /\ ino \in GoodInode /\ SoundInode(disk, ino) /\ SameBlocks(ino, new)
        /\ ino.type = "directory" \/ \A b \in OwnedIn(disk, ino) : e[b] = disk[b]
    BY <2>2, <2>3 DEF ino, new
  <2>5. StandsFor(e, new) = StandsFor(disk, ino)
    BY ONLY FileSystemAssumption, <2>4, StandsSame
  <2> QED BY <2>5 DEF ino, new
<1>6. \A k \in DOMAIN curDir : curDir[k].inode \in inodeMap
  BY FileSystemAssumption, <1>1, EntriesAre
<1> QED BY <1>5, <1>6

(* A name that is not found names no entry; one that is found names one.   *)
LEMMA NameFound ==
  ASSUME GoodMemory, NEW name
  PROVE  /\ ~Exists(name) => \A k \in DOMAIN curDir : curDir[k].name # name
         /\ Exists(name) => /\ Position(name) \in DOMAIN curDir /\ curDir[Position(name)].name = name
                            /\ search_cur_dir(name) = curDir[Position(name)].inode
<1>1. curDir \in Seq(DirectoryEntry)
  BY DEF GoodMemory, GoodDir
<1> QED BY <1>1, PositionFound DEF Exists, Position, search_cur_dir

(* "." is there, names the root, and so no command but cd can concern it.  *)
LEMMA DotIsRoot ==
  ASSUME GoodMemory, Listing(curDir)
  PROVE  Exists(".") /\ search_cur_dir(".") = RootInode /\ IsDir(".")
<1>1. PICK k \in DOMAIN curDir : curDir[k] = Entry(".", RootInode)
  BY DEF Listing
<1>2. curDir[k].name = "." /\ curDir[k].inode = RootInode
  BY <1>1 DEF Entry
<1>3. Exists(".")
  BY <1>2, NameFound
<1>4. search_cur_dir(".") = RootInode
  <2>1. Position(".") \in DOMAIN curDir /\ curDir[Position(".")].name = "." /\ search_cur_dir(".") = curDir[Position(".")].inode
    BY <1>3, NameFound
  <2>2. Position(".") = k
    BY <1>2, <2>1 DEF Listing
  <2> QED BY <1>2, <2>1, <2>2
<1> QED BY <1>3, <1>4 DEF IsDir, InodeOf, GoodMemory, GoodRoot

(* What a name of the directory stands for. *)
LEMMA StandingFound ==
  ASSUME GoodMemory, Listing(curDir), NEW name \in Name \ {"."}, Exists(name)
  PROVE  Was[name] = StandsFor(disk, InodeOf(name))
<1>1. /\ Position(name) \in DOMAIN curDir /\ curDir[Position(name)].name = name
      /\ search_cur_dir(name) = curDir[Position(name)].inode
  BY NameFound
<1>2. curDir \in Seq(DirectoryEntry)
  BY DEF GoodMemory, GoodDir
<1>3. Was[name] = StandsFor(disk, inode[curDir[Position(name)].inode])
  BY <1>1, <1>2, StandingAt DEF Was
<1> QED BY <1>1, <1>3 DEF InodeOf

(* Every entry that is added to the directory. *)
LEMMA AddStands ==
  ASSUME FileSystemAssumption, GoodMemory, SoundMemory, Listing(curDir),
         NEW name \in Name, ~Exists(name), NEW i \in InodeNum,
         curDir' = Append(curDir, Entry(name, i)),
         \A b \in blockMap \ {RootBlock} : disk'[b] = disk[b],
         \A n \in inodeMap : SameBlocks(inode[n], inode'[n])
  PROVE  Listing(curDir') /\ Gains(Was, Is, name, StandsFor(disk', inode'[i]))
<1>1. curDir \in Seq(DirectoryEntry)
  BY DEF GoodMemory, GoodDir
<1>2. \A k \in DOMAIN curDir : curDir[k].name # name
  BY NameFound
<1>3. \A b \in blockMap : b # RootBlock /\ ~(b < MetaBlocks) => disk'[b] = disk[b]
  OBVIOUS
<1>4. \A k \in DOMAIN curDir : StandsFor(disk', inode'[curDir[k].inode]) = StandsFor(disk, inode[curDir[k].inode])
  BY FileSystemAssumption, <1>3, EntriesStand
<1>5. /\ Listing(Append(curDir, Entry(name, i)))
      /\ Gains(Standing(curDir, inode, disk), Standing(Append(curDir, Entry(name, i)), inode', disk'), name,
               StandsFor(disk', inode'[i]))
  BY ONLY <1>1, <1>2, <1>4, Listing(curDir), name \in Name, i \in InodeNum, StandingAdd
<1> QED BY <1>5 DEF Was, Is

(* Every entry of a file or a directory that is removed. *)
LEMMA DropStands ==
  ASSUME FileSystemAssumption, GoodMemory, SoundMemory, Listing(curDir), NEW name, name # ".", Exists(name),
         curDir' = RemoveAt(curDir, Position(name)), disk' = disk,
         \A n \in inodeMap : SameBlocks(inode[n], inode'[n])
  PROVE  Listing(curDir') /\ Loses(Was, Is, name, StandsFor(disk, InodeOf(name)))
<1> DEFINE p == Position(name)
<1>1. GoodDir(curDir)
  BY DEF GoodMemory
<1>2. p \in DOMAIN curDir /\ curDir[p].name = name /\ search_cur_dir(name) = curDir[p].inode
  BY NameFound
<1>3. \A b \in blockMap : b # RootBlock /\ ~(b < MetaBlocks) => disk'[b] = disk[b]
  OBVIOUS
<1>4. \A k \in DOMAIN curDir : StandsFor(disk', inode'[curDir[k].inode]) = StandsFor(disk, inode[curDir[k].inode])
  BY FileSystemAssumption, <1>3, EntriesStand
<1> HIDE DEF p
<1>5. p \in DOMAIN curDir /\ curDir[p].name # "."
  BY <1>2
<1>6. /\ Listing(RemoveAt(curDir, p))
      /\ Loses(Standing(curDir, inode, disk), Standing(RemoveAt(curDir, p), inode', disk'), curDir[p].name,
               StandsFor(disk, inode[curDir[p].inode]))
  BY ONLY FileSystemAssumption, <1>1, <1>4, <1>5, Listing(curDir), StandingRemove
<1> QED BY <1>2, <1>6 DEF Was, Is, InodeOf, p

(* The commands of a session in the root directory. *)

LEMMA NewEntryStands ==
  ASSUME FileSystemAssumption, GoodMemory, SoundMemory, Listing(curDir), NEW name \in Name, ~Exists(name),
         NEW type, NEW n \in Nat \ {0}, NEW bytes, Len(bytes) = n, bytes = [k \in 1 .. n |-> bytes[k]],
         type \in {"file", "directory"}, ~InodesFull, ~BlocksFull(n),
         disk' = Filled(get_blocks(BlocksFor(n)), bytes),
         inode' = [inode EXCEPT ![get_inode] = NewInode(type, n, get_blocks(BlocksFor(n)))],
         curDir' = Append(curDir, Entry(name, get_inode))
  PROVE  /\ Listing(curDir')
         /\ Gains(Was, Is, name, IF type = "directory" THEN [type |-> "directory"]
                                 ELSE [type |-> "file", bytes |-> bytes])
<1> DEFINE got == get_blocks(BlocksFor(n))
           i == get_inode
           ino == NewInode(type, n, got)
<1>1. i \in InodeNum /\ i \notin inodeMap
  BY FileSystemAssumption, InodeGood
<1>2. got \in Seq(Block) /\ \A j, k \in DOMAIN got : got[j] = got[k] => j = k
  BY FileSystemAssumption, BlocksGood
<1>3. Len(got) = BlocksFor(n) /\ \A b \in blockMap : Filled(got, bytes)[b] = disk[b]
  BY FileSystemAssumption, BlocksSound DEF SoundMemory
<1>4. \A b \in blockMap \ {RootBlock} : disk'[b] = disk[b]
  BY <1>3
<1>5. inode' = [inode EXCEPT ![i] = ino] /\ curDir' = Append(curDir, Entry(name, i)) /\ disk' = Filled(got, bytes)
  OBVIOUS
<1>6. ino.type = type
  BY DEF NewInode
<1>7. type = "file" => StandsFor(Filled(got, bytes), ino) = [type |-> "file", bytes |-> bytes]
  <2> SUFFICES ASSUME type = "file"
               PROVE  StandsFor(Filled(got, bytes), NewInode("file", n, got)) = [type |-> "file", bytes |-> bytes]
    OBVIOUS
  <2>1. got \in Seq(Block) /\ (\A j, k \in DOMAIN got : got[j] = got[k] => j = k) /\ Len(got) = BlocksFor(n)
    BY <1>2, <1>3
  <2> HIDE DEF got
  <2> QED BY ONLY FileSystemAssumption, <2>1, n \in Nat \ {0}, Len(bytes) = n,
                  bytes = [k \in 1 .. n |-> bytes[k]], NewStands, ZenonT(90)
<1> HIDE DEF got, i, ino
<1>8. inode \in [InodeNum -> GoodInode] /\ inodeMap \subseteq InodeNum
  BY DEF GoodMemory, GoodMaps, GoodRoot
<1>9. inode'[i] = ino /\ \A m \in inodeMap : inode'[m] = inode[m]
  BY <1>1, <1>5, <1>8
<1>10. \A m \in inodeMap : SameBlocks(inode[m], inode'[m])
  BY <1>9, SameItself
<1>11. Listing(curDir') /\ Gains(Was, Is, name, StandsFor(disk', inode'[i]))
  BY FileSystemAssumption, <1>1, <1>4, <1>5, <1>10, AddStands
<1>12. StandsFor(disk', inode'[i]) = IF type = "directory" THEN [type |-> "directory"]
                                     ELSE [type |-> "file", bytes |-> bytes]
  <2>1. CASE type = "directory"
    BY <1>6, <1>9, <2>1 DEF StandsFor
  <2>2. CASE type = "file"
    BY <1>5, <1>7, <1>9, <2>2
  <2> QED BY <2>1, <2>2
<1> QED BY <1>11, <1>12

(* file_create(): the name stands for the bytes it is created with. *)
LEMMA CreateStands ==
  ASSUME FileSystemAssumption, GoodMemory, SoundMemory, Listing(curDir), NEW name \in Name,
         NEW n \in Nat \ {0}, NEW data, file_create(name, n, data)
  PROVE  /\ Listing(curDir')
         /\ Gains(Was, Is, name, [type |-> "file", bytes |-> [k \in 1 .. n |-> DataBlock(data, k)]])
<1> DEFINE got == get_blocks(BlocksFor(n))
           bytes == [k \in 1 .. n |-> DataBlock(data, k)]
           type == "file"
<1>1. Len(got) = BlocksFor(n)
  BY FileSystemAssumption, BlocksSound DEF SoundMemory, file_create
<1>2. /\ ~Exists(name) /\ ~InodesFull /\ ~BlocksFull(n)
      /\ disk' = Filled(got, bytes) /\ inode' = [inode EXCEPT ![get_inode] = NewInode(type, n, got)]
      /\ curDir' = Append(curDir, Entry(name, get_inode))
  BY <1>1 DEF file_create, AddEntry
<1>3. Len(bytes) = n /\ bytes = [k \in 1 .. n |-> bytes[k]]
  OBVIOUS
<1>4. type \in {"file", "directory"} /\ type # "directory" /\ type = "file"
  OBVIOUS
<1> HIDE DEF bytes, type
<1>5. /\ Listing(curDir')
      /\ Gains(Was, Is, name, IF type = "directory" THEN [type |-> "directory"]
                              ELSE [type |-> "file", bytes |-> bytes])
  BY FileSystemAssumption, <1>2, <1>3, <1>4, NewEntryStands
<1> QED BY <1>4, <1>5 DEF bytes

(* file_copy(): the copy stands for what the original stands for. *)
LEMMA CopyStands ==
  ASSUME FileSystemAssumption, GoodMemory, SoundMemory, Listing(curDir), NEW src \in Name, NEW dest \in Name,
         file_copy(src, dest)
  PROVE  Listing(curDir') /\ Gains(Was, Is, dest, StandsFor(disk, InodeOf(src)))
<1> DEFINE ino == InodeOf(src)
           n == ino.blockCount
           type == ino.type
           got == get_blocks(BlocksFor(n))
           bytes == file_cat(ino)
<1>1. Exists(src) /\ ~Exists(dest) /\ ~BlocksFull(n) /\ ~InodesFull
  BY DEF file_copy
<1>2. search_cur_dir(src) \in inodeMap
  <2>1. Position(src) \in DOMAIN curDir
    BY <1>1, SearchGood DEF GoodMemory
  <2> QED BY FileSystemAssumption, <2>1, EntriesAre DEF SoundMemory, search_cur_dir
<1>3. ino \in GoodInode /\ SoundInode(disk, ino)
  BY FileSystemAssumption, <1>2, OwnFacts DEF SoundMemory, InodeOf
<1>4. n \in Nat \ {0} /\ type \in {"file", "directory"}
  BY <1>3 DEF SoundInode, GoodInode
<1>5. Len(got) = BlocksFor(n)
  BY FileSystemAssumption, <1>1, <1>4, BlocksSound DEF SoundMemory
<1>6. /\ disk' = Filled(got, bytes) /\ inode' = [inode EXCEPT ![get_inode] = NewInode(type, n, got)]
      /\ curDir' = Append(curDir, Entry(dest, get_inode))
  BY <1>5 DEF file_copy, AddEntry
<1>7. Len(bytes) = n /\ bytes = [k \in 1 .. n |-> bytes[k]]
  BY <1>4 DEF file_cat, BytesIn
<1>8. StandsFor(disk, ino) = IF type = "directory" THEN [type |-> "directory"]
                             ELSE [type |-> "file", bytes |-> bytes]
  BY DEF StandsFor, file_cat
<1> HIDE DEF bytes, n, type, ino
<1>9. /\ Listing(curDir')
      /\ Gains(Was, Is, dest, IF type = "directory" THEN [type |-> "directory"]
                              ELSE [type |-> "file", bytes |-> bytes])
  BY FileSystemAssumption, <1>1, <1>4, <1>6, <1>7, NewEntryStands
<1> QED BY <1>8, <1>9 DEF ino

(* hard_link(): the link stands for what the file stands for. *)
LEMMA LinkStands ==
  ASSUME FileSystemAssumption, GoodMemory, SoundMemory, Listing(curDir), NEW src \in Name, NEW dest \in Name,
         hard_link(src, dest)
  PROVE  Listing(curDir') /\ Gains(Was, Is, dest, StandsFor(disk, InodeOf(src)))
<1> DEFINE i == search_cur_dir(src)
<1>1. /\ Exists(src) /\ ~Exists(dest)
      /\ inode' = [inode EXCEPT ![i].linkCount = @ + 1]
      /\ curDir' = Append(curDir, Entry(dest, i)) /\ disk' = disk
  BY DEF hard_link, AddEntry
<1>2. i \in inodeMap
  <2>1. Position(src) \in DOMAIN curDir
    BY <1>1, SearchGood DEF GoodMemory
  <2> QED BY FileSystemAssumption, <2>1, EntriesAre DEF SoundMemory, search_cur_dir
<1>3. inode \in [InodeNum -> GoodInode] /\ inodeMap \subseteq InodeNum
  BY DEF GoodMemory, GoodRoot, GoodMaps
<1> HIDE DEF i
<1>4. \A n \in inodeMap : SameBlocks(inode[n], inode'[n])
  BY <1>1, <1>2, <1>3 DEF SameBlocks, GoodInode
<1>5. i \in InodeNum /\ \A b \in blockMap \ {RootBlock} : disk'[b] = disk[b]
  BY <1>1, <1>2, <1>3
<1>6. Listing(curDir') /\ Gains(Was, Is, dest, StandsFor(disk', inode'[i]))
  BY FileSystemAssumption, <1>1, <1>4, <1>5, AddStands
<1>7. StandsFor(disk', inode'[i]) = StandsFor(disk, inode[i])
  <2>1. inode[i] \in GoodInode /\ SoundInode(disk, inode[i])
    BY FileSystemAssumption, <1>2, OwnFacts DEF SoundMemory
  <2>2. SameBlocks(inode[i], inode'[i]) /\ \A b \in OwnedIn(disk, inode[i]) : disk'[b] = disk[b]
    BY <1>1, <1>2, <1>4
  <2> DEFINE old == inode[i]
             new == inode'[i]
             e   == disk'
  <2> HIDE DEF old, new, e
  <2>3. /\ old \in GoodInode /\ SoundInode(disk, old) /\ SameBlocks(old, new)
        /\ \A b \in OwnedIn(disk, old) : e[b] = disk[b]
    BY <2>1, <2>2 DEF old, new, e
  <2>4. StandsFor(e, new) = StandsFor(disk, old)
    BY ONLY FileSystemAssumption, <2>3, StandsSame
  <2> QED BY <2>4 DEF old, new, e
<1> QED BY <1>6, <1>7 DEF InodeOf, i

(* file_remove(): the other names of the file keep standing for it. *)
LEMMA RemoveFileStands ==
  ASSUME FileSystemAssumption, GoodMemory, SoundMemory, Listing(curDir), NEW name \in Name, file_remove(name)
  PROVE  Listing(curDir') /\ Loses(Was, Is, name, StandsFor(disk, InodeOf(name)))
<1> DEFINE i == search_cur_dir(name)
<1>1. /\ Exists(name) /\ ~IsDir(name) /\ curDir' = RemoveAt(curDir, Position(name)) /\ disk' = disk
      /\ inode' = inode \/ inode' = [inode EXCEPT ![i].linkCount = @ - 1]
  BY DEF file_remove, RemoveEntry, InodeOf
<1>2. name # "."
  BY <1>1, DotIsRoot
<1>3. i \in inodeMap
  <2>1. Position(name) \in DOMAIN curDir
    BY <1>1, SearchGood DEF GoodMemory
  <2> QED BY FileSystemAssumption, <2>1, EntriesAre DEF SoundMemory, search_cur_dir
<1>4. inode \in [InodeNum -> GoodInode] /\ inodeMap \subseteq InodeNum
  BY DEF GoodMemory, GoodRoot, GoodMaps
<1> HIDE DEF i
<1>5. \A n \in inodeMap : SameBlocks(inode[n], inode'[n])
  <2>1. CASE inode' = inode
    BY <2>1, SameItself
  <2>2. CASE inode' = [inode EXCEPT ![i].linkCount = @ - 1]
    BY <1>3, <1>4, <2>2 DEF SameBlocks, GoodInode
  <2> QED BY <1>1, <2>1, <2>2
<1> QED BY FileSystemAssumption, <1>1, <1>2, <1>5, DropStands

(* dir_make() with a block: the name stands for a directory. *)
LEMMA MakeDirStands ==
  ASSUME FileSystemAssumption, GoodMemory, SoundMemory, Listing(curDir), NEW name \in Name, dir_make(name),
         get_block # -1
  PROVE  Listing(curDir') /\ Gains(Was, Is, name, [type |-> "directory"])
<1> DEFINE block == get_block
           i == get_inode
           ino == [ZeroInode EXCEPT !.type = "directory", !.blockCount = 1, !.directBlock = <<block>>]
           new == DirBlock(<<Entry(".", i), Entry("..", curDir'[1].inode)>>)
<1>1. /\ ~MkdirRefused(name) /\ inode' = [inode EXCEPT ![i] = ino]
      /\ curDir' = Append(curDir, Entry(name, i))
      /\ disk' = write_disk_block(write_disk_block(disk, block, new), curDirInode, DirBlock(curDir'))
  BY DEF dir_make, AddEntry
<1>2. i \in InodeNum /\ i \notin inodeMap /\ ~Exists(name)
  BY FileSystemAssumption, <1>1, InodeGood DEF MkdirRefused
<1>3. block \notin blockMap /\ curDirInode = RootBlock
  BY FileSystemAssumption, GetOne DEF FreeBlocks, SoundMemory
<1>4. ino.type = "directory"
  BY DEF ZeroInode
<1> HIDE DEF block, i, new, ino
<1>5. inode \in [InodeNum -> GoodInode] /\ inodeMap \subseteq InodeNum
  BY DEF GoodMemory, GoodMaps, GoodRoot
<1>6. inode'[i] = ino /\ \A m \in inodeMap : inode'[m] = inode[m]
  BY <1>1, <1>2, <1>5
<1>7. \A m \in inodeMap : SameBlocks(inode[m], inode'[m])
  BY <1>6, SameItself
<1>8. \A b \in blockMap \ {RootBlock} : disk'[b] = disk[b]
  <2>1. \A d, b, c, buf : b # c => write_disk_block(d, b, buf)[c] = d[c]
    BY DEF write_disk_block
  <2> QED BY <1>1, <1>3, <2>1
<1>9. Listing(curDir') /\ Gains(Was, Is, name, StandsFor(disk', inode'[i]))
  BY FileSystemAssumption, <1>1, <1>2, <1>7, <1>8, AddStands
<1>10. StandsFor(disk', inode'[i]) = [type |-> "directory"]
  BY <1>4, <1>6 DEF StandsFor
<1> QED BY <1>9, <1>10

(* dir_remove(): the name stands for nothing again. *)
LEMMA RemoveDirStands ==
  ASSUME FileSystemAssumption, GoodMemory, SoundMemory, Listing(curDir), NEW name \in Name, dir_remove(name)
  PROVE  Listing(curDir') /\ Loses(Was, Is, name, StandsFor(disk, InodeOf(name)))
<1>1. /\ Exists(name) /\ name # "." /\ curDir' = RemoveAt(curDir, Position(name)) /\ disk' = disk
      /\ inode' = inode
  BY DEF dir_remove, RemoveEntry, IsDir
<1>2. \A n \in inodeMap : SameBlocks(inode[n], inode'[n])
  BY <1>1, SameItself
<1> QED BY FileSystemAssumption, <1>1, <1>2, DropStands

-----------------------------------------------------------------------------
(* The steps of FlatDirectory. *)

(* A command that FlatDirectory knows, or that a user cannot tell. *)
Changes ==
  \/ \E name \in Name, bytes \in Bytes : Gains(Was, Is, name, [type |-> "file", bytes |-> bytes])
  \/ \E name \in Name : Gains(Was, Is, name, [type |-> "directory"])
  \/ \E name \in Name, src \in Name \ {"."} : Was[src] # Nothing /\ Gains(Was, Is, name, Was[src])
  \/ \E name \in Name : \E what : what # Nothing /\ Loses(Was, Is, name, what)
  \/ Is = Was

LEMMA SomethingStands == \A d, ino : StandsFor(d, ino) # Nothing
BY DEF StandsFor, Nothing

LEMMA CommandChanges ==
  ASSUME FileSystemAssumption, GoodMemory, SoundMemory, Listing(curDir), execute_command, ~astray'
  PROVE  Listing(curDir') /\ Changes
<1>1. PICK name \in Name :
        \/ \E n \in Sizes, data \in Data : file_create(name, n, data)
        \/ \E src \in Name : file_copy(src, name) \/ hard_link(src, name)
        \/ file_remove(name)
        \/ dir_make(name) \/ dir_make_fails(name)
        \/ dir_remove(name)
        \/ dir_change(name)
  BY DEF execute_command
<1>2. CASE \E n \in Sizes, data \in Data : file_create(name, n, data)
  <2>1. PICK n \in Sizes, data \in Data : file_create(name, n, data)
    BY <1>2
  <2>2. n \in Nat \ {0}
    BY FileSystemAssumption DEF FileSystemAssumption
  <2> DEFINE bytes == [k \in 1 .. n |-> DataBlock(data, k)]
  <2>3. Listing(curDir') /\ Gains(Was, Is, name, [type |-> "file", bytes |-> bytes])
    BY FileSystemAssumption, <2>1, <2>2, CreateStands
  <2>4. bytes \in Bytes
    BY DEF Bytes
  <2> HIDE DEF bytes
  <2> QED BY <2>3, <2>4 DEF Changes
<1>3. CASE \E src \in Name : file_copy(src, name) \/ hard_link(src, name)
  <2>1. PICK src \in Name : file_copy(src, name) \/ hard_link(src, name)
    BY <1>3
  <2>2. Listing(curDir') /\ Gains(Was, Is, name, StandsFor(disk, InodeOf(src)))
    BY FileSystemAssumption, <2>1, CopyStands, LinkStands
  <2>3. CASE src # "."
    <3>1. Exists(src)
      BY <2>1 DEF file_copy, hard_link
    <3>2. Was[src] = StandsFor(disk, InodeOf(src))
      BY <2>3, <3>1, StandingFound
    <3>3. Was[src] # Nothing
      BY <3>2, SomethingStands
    <3> QED BY <2>2, <2>3, <3>2, <3>3 DEF Changes
  <2>4. CASE src = "."
    <3>1. InodeOf(src).type = "directory"
      BY <2>4, DotIsRoot DEF IsDir
    <3>2. StandsFor(disk, InodeOf(src)) = [type |-> "directory"]
      BY <3>1 DEF StandsFor
    <3> QED BY <2>2, <3>2 DEF Changes
  <2> QED BY <2>3, <2>4
<1>4. CASE file_remove(name)
  <2>1. Listing(curDir') /\ Loses(Was, Is, name, StandsFor(disk, InodeOf(name)))
    BY FileSystemAssumption, <1>4, RemoveFileStands
  <2> QED BY <2>1, SomethingStands DEF Changes
<1>5. CASE dir_make(name)
  <2>1. get_block # -1
    BY <1>5 DEF dir_make
  <2>2. Listing(curDir') /\ Gains(Was, Is, name, [type |-> "directory"])
    BY FileSystemAssumption, <1>5, <2>1, MakeDirStands
  <2> QED BY <2>2 DEF Changes
<1>6. CASE dir_make_fails(name)
  <2>1. curDir' = curDir /\ Is = Was
    BY <1>6 DEF dir_make_fails, Was, Is
  <2> QED BY <2>1 DEF Changes
<1>7. CASE dir_remove(name)
  <2>1. Listing(curDir') /\ Loses(Was, Is, name, StandsFor(disk, InodeOf(name)))
    BY FileSystemAssumption, <1>7, RemoveDirStands
  <2> QED BY <2>1, SomethingStands DEF Changes
<1>8. CASE dir_change(name)
  <2>1. astray' = TRUE
    BY FileSystemAssumption, <1>8, ChangeDirGood
  <2> QED BY <2>1
<1> QED BY <1>1, <1>2, <1>3, <1>4, <1>5, <1>6, <1>7, <1>8

(* No command brings a session back that has gone astray. *)
LEMMA AstrayStays == execute_command /\ astray => astray'
<1> SUFFICES ASSUME execute_command, astray PROVE astray'
  OBVIOUS
<1>1. PICK name \in Name :
        \/ \E n \in Sizes, data \in Data : file_create(name, n, data)
        \/ \E src \in Name : file_copy(src, name) \/ hard_link(src, name)
        \/ file_remove(name)
        \/ dir_make(name) \/ dir_make_fails(name)
        \/ dir_remove(name)
        \/ dir_change(name)
  BY DEF execute_command
<1>2. (\E n \in Sizes, data \in Data : file_create(name, n, data)) => astray' = astray
  BY DEF file_create
<1>3. (\E src \in Name : file_copy(src, name) \/ hard_link(src, name)) => astray' = astray
  BY DEF file_copy, hard_link
<1>4. file_remove(name) \/ dir_make_fails(name) \/ dir_remove(name) => astray' = astray
  BY DEF file_remove, dir_make_fails, dir_remove
<1>5. dir_make(name) => astray'
  BY DEF dir_make
<1>6. dir_change(name) => astray'
  BY DEF dir_change, ChangeTo
<1> QED BY <1>1, <1>2, <1>3, <1>4, <1>5, <1>6

LEMMA ImageSame ==
  ASSUME image' = image
  PROVE  OnImage' = OnImage /\ ImageRoot' = ImageRoot
<1>1. ImageDisk' = ImageDisk
  BY DEF ImageDisk
<1>2. ImageInode' = ImageInode
  BY <1>1 DEF ImageInode
<1>3. ImageRoot' = ImageRoot
  BY <1>1, <1>2 DEF ImageRoot
<1> QED BY <1>1, <1>2, <1>3 DEF OnImage

(* A change of what the names stand for is a command of FlatDirectory. *)
LEMMA ChangesAreFlat ==
  ASSUME Changes, ~astray, ~astray', astray' = astray, session = "mounted", session' = "mounted", image' = image
  PROVE  [Flat!Next]_(Flat!vars)
<1>1. StandingNow = Was /\ StandingNow' = Is
  BY DEF StandingNow, Was, Is
<1>2. UNCHANGED <<OnImage, astray, image.astray>>
  BY ImageSame
<1>3. CASE \E name \in Name, bytes \in Bytes : Gains(Was, Is, name, [type |-> "file", bytes |-> bytes])
  <2>1. PICK name \in Name, bytes \in Bytes : Gains(Was, Is, name, [type |-> "file", bytes |-> bytes])
    BY <1>3
  <2>2. name \in Name \ {"."} /\ Flat!Create(name)
    BY <1>1, <2>1 DEF Gains, Flat!Create, Flat!Nothing, Nothing, Flat!File
  <2> QED BY <1>2, <2>2 DEF Flat!Next, Flat!Command
<1>4. CASE \E name \in Name : Gains(Was, Is, name, [type |-> "directory"])
  <2>1. PICK name \in Name : Gains(Was, Is, name, [type |-> "directory"])
    BY <1>4
  <2>2. name \in Name \ {"."} /\ Flat!MakeDirectory(name)
    BY <1>1, <2>1 DEF Gains, Flat!MakeDirectory, Flat!Nothing, Nothing, Flat!Directory
  <2> QED BY <1>2, <2>2 DEF Flat!Next, Flat!Command
<1>5. CASE \E name \in Name, src \in Name \ {"."} : Was[src] # Nothing /\ Gains(Was, Is, name, Was[src])
  <2>1. PICK name \in Name, src \in Name \ {"."} : Was[src] # Nothing /\ Gains(Was, Is, name, Was[src])
    BY <1>5
  <2>2. name \in Name \ {"."} /\ Flat!Duplicate(src, name)
    BY <1>1, <2>1 DEF Gains, Flat!Duplicate, Flat!Nothing, Nothing
  <2> QED BY <1>2, <2>2 DEF Flat!Next, Flat!Command
<1>6. CASE \E name \in Name : \E what : what # Nothing /\ Loses(Was, Is, name, what)
  <2>1. PICK name \in Name : \E what : what # Nothing /\ Loses(Was, Is, name, what)
    BY <1>6
  <2>2. name \in Name \ {"."} /\ Flat!Remove(name)
    BY <1>1, <2>1 DEF Loses, Flat!Remove, Flat!Nothing, Nothing
  <2> QED BY <1>2, <2>2 DEF Flat!Next, Flat!Command
<1>7. CASE Is = Was
  BY <1>1, <1>2, <1>7 DEF Flat!vars
<1> QED BY <1>3, <1>4, <1>5, <1>6, <1>7 DEF Changes

-----------------------------------------------------------------------------
(* The refinement. *)

(* Mounting shows the user what the image holds, and the first mount of    *)
(* all an empty directory.                                                 *)
LEMMA MountIsFlat ==
  ASSUME FileSystemAssumption, FlatInv, Mount
  PROVE  FlatParts' /\ UNCHANGED Flat!vars
<1>1. session = "none" /\ UNCHANGED <<image, astray>>
  BY DEF Mount
<1>2. /\ OnImage' = OnImage /\ ImageRoot' = ImageRoot
      /\ GoodImage /\ astray = image.astray
  BY <1>1, ImageSame DEF FlatInv, SoundInv, TypeInv, FlatParts
<1>3. StandingNow = OnImage
  BY <1>1, <1>2 DEF StandingNow, OnImage
<1>4. CASE fs_mount
  <2>1. session' = "mounted" /\ image.exists /\ curDir' = ImageRoot /\ inode' = ImageInode /\ disk' = ImageDisk
    BY <1>4 DEF fs_mount
  <2>2. ~astray' => StandingNow' = OnImage
    BY <1>1, <1>2, <2>1 DEF StandingNow, OnImage
  <2>3. astray' => StandingNow' = OnImage
    BY <1>1, <1>2, <2>1 DEF StandingNow, OnImage
  <2>4. FlatParts'
    BY <1>1, <1>2, <2>1 DEF FlatParts, FlatInv
  <2> QED BY <1>1, <1>2, <1>3, <2>2, <2>3, <2>4 DEF Flat!vars
<1>5. CASE fs_mount_fails
  <2>1. session' \in {"wild", "invalid"}
    BY <1>5 DEF fs_mount_fails
  <2>2. StandingNow' = OnImage'
    BY <1>1, <1>2, <2>1 DEF StandingNow, OnImage
  <2>3. FlatParts'
    BY <1>1, <1>2, <2>1 DEF FlatParts, FlatInv
  <2> QED BY <1>1, <1>2, <1>3, <2>2, <2>3 DEF Flat!vars
<1>6. CASE fs_format
  <2> DEFINE dot == <<Entry(".", RootInode)>>
  <2>1. session' = "mounted" /\ ~image.exists /\ curDir' = dot
    BY <1>6 DEF fs_format
  <2>2. ~astray /\ OnImage = StandingNowhere
    BY <1>2, <2>1 DEF GoodImage, NoImage, OnImage
  <2>3. DOMAIN dot = {1} /\ dot[1] = Entry(".", RootInode) /\ dot[1].name = "."
    BY DEF Entry
  <2>4. dot \in Seq(DirectoryEntry)
    <3>1. Entry(".", RootInode) \in DirectoryEntry
      BY FileSystemAssumption, Sizing DEF Entry, DirectoryEntry, Name
    <3> QED BY <3>1
  <2> HIDE DEF dot
  <2>5. Listing(dot)
    BY <2>3 DEF Listing
  <2>6. \A name \in Name \ {"."} : Standing(dot, inode', disk')[name] = Nothing
    <3> SUFFICES ASSUME NEW name \in Name \ {"."} PROVE Standing(dot, inode', disk')[name] = Nothing
      OBVIOUS
    <3>1. \A k \in DOMAIN dot : dot[k].name # name
      BY <2>3
    <3> QED BY <2>4, <2>5, <3>1, StandingAt
  <2>7. Standing(dot, inode', disk') = StandingNowhere
    BY <2>6 DEF Standing, StandingNowhere
  <2>8. StandingNow' = OnImage
    BY <1>1, <2>1, <2>2, <2>7 DEF StandingNow
  <2>9. FlatParts'
    BY <1>1, <1>2, <2>1, <2>2, <2>5 DEF FlatParts, FlatInv
  <2> QED BY <1>1, <1>2, <1>3, <2>8, <2>9 DEF Flat!vars
<1> QED BY <1>4, <1>5, <1>6 DEF Mount

(* A command, or one that leads the session astray. *)
LEMMA CommandIsFlat ==
  ASSUME FileSystemAssumption, FlatInv, SoundInv', session = "mounted", execute_command, UNCHANGED image
  PROVE  FlatParts' /\ [Flat!Next]_(Flat!vars)
<1>1. /\ GoodFlags /\ GoodFlags' /\ GoodMemory /\ (~astray => SoundMemory /\ Listing(curDir))
      /\ image.astray => astray
      /\ image.exists /\ ~image.astray => Listing(ImageRoot)
  BY DEF FlatInv, SoundInv, TypeInv, FlatParts
<1>2. OnImage' = OnImage /\ ImageRoot' = ImageRoot /\ image'.astray = image.astray
  BY ImageSame
<1>3. astray => astray'
  BY AstrayStays
<1>4. session' \in {"mounted", "wild"} /\ (session' = "wild" => astray')
  BY FileSystemAssumption, <1>1, SessionKept
<1>5. CASE astray'
  <2>1. Flat!GoAstray
    BY <1>2, <1>5 DEF Flat!GoAstray
  <2> QED BY <1>1, <1>2, <1>3, <1>5, <2>1 DEF FlatParts, Flat!Next
<1>6. CASE ~astray'
  <2>1. ~astray /\ session' = "mounted" /\ astray' = astray
    BY <1>1, <1>3, <1>4, <1>6 DEF GoodFlags
  <2>2. Listing(curDir') /\ Changes
    BY FileSystemAssumption, <1>1, <1>6, <2>1, CommandChanges
  <2>3. [Flat!Next]_(Flat!vars)
    BY <1>6, <2>1, <2>2, ChangesAreFlat
  <2> QED BY <1>1, <1>2, <1>3, <2>2, <2>3 DEF FlatParts
<1> QED BY <1>5, <1>6

(* Unmounting in the root saves what the names stand for; an image that is *)
(* cut short leads astray.                                                 *)
LEMMA UnmountIsFlat ==
  ASSUME FileSystemAssumption, FlatInv, SoundInv', session = "mounted", fs_umount
  PROVE  FlatParts' /\ [Flat!Next]_(Flat!vars)
<1>1. /\ GoodFlags /\ GoodFlags' /\ GoodImage' /\ GoodMemory /\ (~astray => SoundMemory /\ Listing(curDir))
      /\ image.astray => astray
  BY DEF FlatInv, SoundInv, TypeInv, FlatParts
<1>2. PICK n \in {MAX_BLOCK} \cup IF Kills THEN Torn ELSE {} : disk_umount(n)
  BY DEF fs_umount
<1>3. session' = "none"
  BY DEF fs_umount, Ended
<1>4. astray' = image'.astray /\ (~image'.astray => ~astray /\ ~(n < MAX_BLOCK)) /\ image'.exists
  BY <1>2 DEF disk_umount
<1>5. CASE astray'
  <2>1. Flat!GoAstray
    BY <1>4, <1>5 DEF Flat!GoAstray
  <2> QED BY <1>3, <1>4, <1>5, <2>1 DEF FlatParts, Flat!Next
<1>6. CASE ~astray'
  <2>1. ~astray /\ ~image.astray /\ ~image'.astray /\ n = MAX_BLOCK
    BY <1>1, <1>2, <1>4, <1>6 DEF FileSystemAssumption
  <2>2. curDirInode = RootBlock
    BY <1>1, <2>1 DEF SoundMemory
  <2>3. /\ \A b \in 0 .. MetaBlocks - 1 : ImageDisk'[b] = MetaBlock(b)
        /\ ImageDisk'[RootBlock] = DirBlock(curDir)
        /\ \A b \in Block : b # RootBlock /\ ~(b < MetaBlocks) => ImageDisk'[b] = disk[b]
    BY FileSystemAssumption, <1>1, <1>2, <2>1, <2>2, WholeDisk
  <2>4. ImageInode' = inode
    BY FileSystemAssumption, <1>1, <2>3, WholeTable
  <2>5. ImageRoot' = curDir
    <3>1. FirstBlock(inode[RootInode]) = RootBlock
      BY <1>1 DEF GoodMemory, GoodRoot, FirstBlock
    <3> QED BY <2>3, <2>4, <3>1 DEF ImageRoot, AsDirectory, DirBlock
  <2>6. Standing(curDir, inode, ImageDisk') = Standing(curDir, inode, disk)
    <3> DEFINE e == ImageDisk'
    <3>1. \A b \in blockMap : b # RootBlock /\ ~(b < MetaBlocks) => e[b] = disk[b]
      BY <1>1, <2>3 DEF GoodMemory, GoodMaps
    <3>2. \A m \in inodeMap : SameBlocks(inode[m], inode[m])
      BY SameItself
    <3> HIDE DEF e
    <3>3. \A k \in DOMAIN curDir : StandsFor(e, inode[curDir[k].inode]) = StandsFor(disk, inode[curDir[k].inode])
      BY FileSystemAssumption, <1>1, <2>1, <3>1, <3>2, EntriesStand
    <3>4. curDir \in Seq(DirectoryEntry) /\ Listing(curDir)
      BY <1>1, <2>1 DEF GoodMemory, GoodDir
    <3>5. Standing(curDir, inode, e) = Standing(curDir, inode, disk)
      BY <3>3, <3>4, StandingSame
    <3> QED BY <3>5 DEF e
  <2>7. StandingNow = Standing(curDir, inode, disk)
    BY <2>1 DEF StandingNow
  <2>8. OnImage' = StandingNow
    BY <1>4, <2>1, <2>4, <2>5, <2>6, <2>7 DEF OnImage
  <2>9. StandingNow' = OnImage'
    BY <1>3, <1>6 DEF StandingNow
  <2>10. astray' = astray /\ image'.astray = image.astray
    BY <1>1, <1>4, <1>6, <2>1 DEF GoodFlags, GoodImage, FlatInv, SoundInv, TypeInv, FlatParts
  <2>11. Flat!Save
    BY <2>8, <2>9, <2>10 DEF Flat!Save
  <2>12. FlatParts'
    BY <1>1, <1>3, <1>4, <2>1, <2>5 DEF FlatParts
  <2> QED BY <2>1, <2>11, <2>12 DEF Flat!Next
<1> QED BY <1>5, <1>6

(* A kill takes the user back to the image. *)
LEMMA KillIsFlat ==
  ASSUME FlatInv, Killed
  PROVE  FlatParts' /\ [Flat!Next]_(Flat!vars)
<1>1. session' = "none" /\ image' = image /\ astray' = image.astray
  BY DEF Killed, Ended
<1>2. OnImage' = OnImage /\ ImageRoot' = ImageRoot
  BY <1>1, ImageSame
<1>3. StandingNow' = OnImage
  BY <1>1, <1>2 DEF StandingNow, OnImage
<1>4. Flat!Lose
  BY <1>1, <1>2, <1>3 DEF Flat!Lose
<1>5. FlatParts'
  BY <1>1, <1>2 DEF FlatParts, FlatInv
<1> QED BY <1>4, <1>5 DEF Flat!Next

LEMMA InitIsFlat == FileSystemAssumption /\ Init => FlatInv /\ Flat!Init
<1> SUFFICES ASSUME FileSystemAssumption, Init PROVE FlatInv /\ Flat!Init
  OBVIOUS
<1>1. image = NoImage /\ session = "none" /\ astray = FALSE
  BY DEF Init
<1>2. image.exists = FALSE /\ image.astray = FALSE
  BY <1>1 DEF NoImage
<1>3. FlatInv
  BY <1>1, <1>2, SoundInit DEF FlatInv, FlatParts
<1>4. OnImage = StandingNowhere /\ StandingNow = StandingNowhere
  BY <1>1, <1>2 DEF OnImage, StandingNow
<1>5. Flat!Init
  BY <1>1, <1>2, <1>4 DEF Flat!Init, StandingNowhere, Nothing, Flat!Nothing
<1> QED BY <1>3, <1>5

LEMMA NextIsFlat == FileSystemAssumption /\ FlatInv /\ [Next]_vars => FlatInv' /\ [Flat!Next]_(Flat!vars)
<1> SUFFICES ASSUME FileSystemAssumption, FlatInv, [Next]_vars
             PROVE  FlatInv' /\ [Flat!Next]_(Flat!vars)
  OBVIOUS
<1>1. SoundInv'
  BY FileSystemAssumption, SoundStep DEF FlatInv, FlatParts
<1>2. FlatParts' => FlatInv'
  BY <1>1 DEF FlatParts, FlatInv
<1>3. CASE Mount
  BY FileSystemAssumption, <1>2, <1>3, MountIsFlat
<1>4. CASE Command
  <2>1. session = "mounted"
    BY <1>4 DEF Command
  <2>2. CASE execute_command /\ UNCHANGED image
    BY FileSystemAssumption, <1>1, <1>2, <2>1, <2>2, CommandIsFlat
  <2>3. CASE fs_umount
    BY FileSystemAssumption, <1>1, <1>2, <2>1, <2>3, UnmountIsFlat
  <2>4. CASE Killed
    BY <1>2, <2>4, KillIsFlat
  <2> QED BY <1>4, <2>2, <2>3, <2>4 DEF Command
<1>5. CASE UNCHANGED vars
  <2>1. UNCHANGED <<inode, curDir, disk, image, session, astray>>
    BY <1>5 DEF vars, memory
  <2>2. OnImage' = OnImage /\ ImageRoot' = ImageRoot
    BY <2>1, ImageSame
  <2>3. StandingNow' = StandingNow
    BY <2>1, <2>2 DEF StandingNow
  <2>4. FlatParts'
    BY <2>1, <2>2 DEF FlatParts, FlatInv
  <2> QED BY <1>2, <2>1, <2>2, <2>3, <2>4 DEF Flat!vars
<1> QED BY <1>3, <1>4, <1>5 DEF Next

(* What the names of the root stand for, through every command that is     *)
(* given there: a name keeps standing for the bytes it was created with,   *)
(* whatever is created, copied, linked and removed beside it and across    *)
(* unmounting, and a kill takes the user back to what the last session     *)
(* unmounted (file.c, directory.c; fs_mount() and fs_umount() in fs.c).    *)
THEOREM FlatRefinement == Spec => FlatSpec
<1>1. Init => FlatInv /\ Flat!Init
  BY FileSystemAssumption, InitIsFlat
<1>2. FlatInv /\ [Next]_vars => FlatInv' /\ [Flat!Next]_(Flat!vars)
  BY FileSystemAssumption, NextIsFlat
<1> QED BY <1>1, <1>2, PTL DEF Spec, FlatSpec, Flat!Spec
=============================================================================
