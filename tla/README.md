# Formal models of the CSCI 4730 operating-systems projects

The repository holds four C programs: a multi-process word counter (`p1`), a
multi-threaded web server (`p2`), a virtual memory simulator (`p3`) and a file
system simulator (`p4`). This directory holds TLA+ models of all four, the TLC
configurations that check them, and TLAPS proofs of what the four promise: for
any number of processes, threads, children, frames, blocks and inodes.

## Inventory

| part | state | operations | what is hard | what makes it correct |
|---|---|---|---|---|
| p1 `wc_multi.c`, `wc_core.c` | the file, a pipe and a child per part, the last exit status, the total | fork, count, write, exit; waitpid, retry, read | children killed at any moment, also after the write; fork failing; int arithmetic; a byte that looks like EOF | the total is that of the whole file; one count per pipe; only killed children are replaced, and all of them; the program ends |
| p1 `wc.c` | the file, the total | count, abort | a byte that looks like EOF | what the multi-process counter must print |
| p2 `webserver_multi.c`, `net.c` | `request[]`, two semaphores, a mutex, descriptors, the pool | accept, producer, consumer, process, crash, join | listener, workers and main interleave; crashes in mid-request; the slot is chosen by a semaphore's value; reused descriptors | tokens account for slots; the index is in bounds; no deadlock; the listener comes back to accept; every request is taken once; the pool keeps its size |
| p2 `client.c` with `webserver.c` | the client's threads, their results, connections, the queue of `listen()` | connect, send, recv, join, start again; accept, process | two programs that wait for each other's bytes; a process that ends with the connections of others in hand; a result read from a stack that is gone | no connection is forgotten; nobody waits for ever; the number printed is the number answered |
| p3 `vm.c`, `pagetable.c`, `pt_core.c`, `disk.c` | page tables, inverted table, free-frame counter, memory, swap disk, counters | page hit, page fault with and without eviction, read, write | long sequences of faults; entries read through another page's; memory from malloc that is not cleared; type letters other than R and W | the tables are inverse to each other; a read gives the byte last written |
| p3 policies in `pagetable.c` | FIFO counter, LRU list, CLOCK list | victim, hit, load | a list that differs from its meaning shows only at a later eviction | the victim is the one the policy's definition names |
| p3 `list.c`, `clock_list.c`, `list_test.c` | a doubly linked list | insert head, insert tail, remove, remove head, update ref | stale `prev` pointers, one-node lists, loops | each call computes its sequence operation and returns |
| p4 `fs.c`, `fs_util.c`, `directory.c`, `file.c`, `disk.c`, `fs_sim.c` | bit maps, inodes, superblock, current directory, disk blocks, the image file | mkdir, rmdir, cd, create, copy, link, remove, mount, umount, quit | block number against inode number in `curDirInode`; errors halfway; sharing by hard links; a kill between commands or in the middle of the image | no block owned twice, free counts equal free bits, link counts equal entries; a kill loses the session and no more; an image written whole mounts again, wherever the program was left |
| p3 `input_gen.c` | | prints random requests | | not modelled |

The four projects do not interact. Within p2, the threads of the server share
memory and semaphores, client and server talk over connections; within p1,
processes share pipes and exit statuses; p3 and p4 are sequential, and what is
hard in them are long sequences of legal operations.

## Modules

| module | models | run(s) |
|---|---|---|
| `FlatMemory` | what p3 promises: one byte per page of each process | target of `FlatSpec` |
| `QueueOps` | the list operations as operators on sequences | used by `VM`, `LinkedList` |
| `VM` | the simulator: one action per input line | `VM` |
| `PolicyHistory` | `VM` with the history of requests | `VM` |
| `LinkedList` | `list.c` and `clock_list.c` at the pointers | `LinkedList` |
| `WordCountCore` | `wc.h`, `wc_core.c`: the count of a stretch of a file | used by the next two |
| `SingleWordCount` | `wc.c` | target of `PrintsLikeWc` |
| `WordCount` | `wc_multi.c` | `WordCount`, `NotRedone` |
| `WebServer` | `webserver_multi.c`, `net.c` | `WebServer`, `TakenOnce`, `NotReplaced` |
| `ClientServer` | `client.c` and `webserver.c` together | `ClientServer` |
| `FlatDirectory` | what p4 promises: names that keep standing for their bytes, and go back to the last unmount at a kill | target of `FlatSpec` |
| `FileSystem` | p4: one action per command, unmount, kill and mount | `FileSystem`, `FilesLost`, `NoBlock`, `Remounts` |
| `QueueProofs`, `VMProofs` | proofs about `QueueOps` and `VM` | |
| `PolicyProofs` | proofs about `PolicyHistory` | |
| `LinkedListProofs` | proofs about `LinkedList` | |
| `WordCountProofs` | proofs about `WordCount` | |
| `WebServerProofs` | proofs about `WebServer` | |
| `ClientServerProofs` | proofs about `ClientServer` | |
| `FileSystemProofs` | proofs about `FileSystem` | |

Modules whose name starts with `MC` only give values to constants that a `.cfg`
file cannot write, and, for the simulator, fewer initial states and an order in
which pages are first asked for. A definition whose comment says *mutant* is a plausible bug in the definition
that follows it; the specification does not use it.

### p3: VM, QueueOps, FlatMemory

The program is sequential, so a step is one line of the input, from the parse
to the printed reply: `PageHit`, `FaultFree`, `FaultEvict` (is_page_hit and
pagefault_handler under MMU), `Access` (what main does with the frame),
`Skip` (a refused line) and `pt_print_stats` (end of input). The names of the
variables are the program's; `fifoIndex` is the global `i` of `pagetable.c`.

* A page and a frame hold one byte, as in `PHYSICAL_MEM` and `SWAP_DISK`, so
  the offset within an address does not matter and is left out.
* The inverted table, the PFN and dirty fields and the physical memory come
  from malloc and are read before they are written (`pagetable.c:111-112`).
  `UninitIPTE` and `UninitPFN` say what they may hold. Where the value names no
  page, the read through it may give anything or end the process (`WildRead`).
* A request whose type is neither R nor W is refused only after the page was
  loaded, and main returns: `type = "X"` in `Next`.
* Left out, because it lies outside the state of the program: a negative pid or
  page number (the code tests only the upper bounds) and an unknown type with a
  page number past the table. They index arrays out of bounds. A first line
  that does not parse leaves the sizes 0 and the program refuses to start.
* The FIFO counter is unbounded here and an int in the code.

`FlatSpec` is the refinement `FlatMemory` with the contents of a page read from
the frame its entry names, or from the swap disk (`PageContents`), and the
reply without its physical address and hit mark (`PageLine`).

`PolicyHistory` adds when a page was last used, last loaded and hit, and states
LRU, FIFO and CLOCK by them. `MCVM` checks `VM` and these histories together. A
page is but a name to the simulator, except the one that a cleared inverted
table names, so `MCNext` takes the others in one order (`Below`): for every run
it leaves out there is one it keeps that differs by a renaming of pages. The
pages are integers and the code is told of (0, 0), so TLC's own symmetry sets
do not apply. `LinkedList` walks the lists one node per step, so
that an endless loop or a NULL dereference could show, and checks that each
call leaves the sequence that `QueueOps` computes; `VM` is built on `QueueOps`.
The calls are those of `pagetable.c` and of `list_test.c` (the only one that
inserts at the head). The program frees no node; the model uses the address of a removed node again
once no pointer of the list names it, which `DoublyLinked` makes invisible.

### p1: WordCount, SingleWordCount, WordCountCore

The parent is one process with a program counter (`fork`, `wait`, `retry`,
`waitRetry`, `read`, `done`), each action a system call with the code around
it; a child goes from `count` to `write` to `exit` and ends as a zombie until
it is waited for. `Killed` ends a child at any of its steps: `abort()` comes
before the write, a signal from outside at any time. `waitpid` is modelled with
its -1 argument and its failure, because the result of `fork()` is not checked.
A file is a sequence of four kinds of byte. The largest int is `INT_MAX`; an
offset that overflows may be wrapped or kept, as a compiler may do either.
`pipe()`, `fopen()` in a child and the write are taken to succeed (a child whose
`fopen()` fails dies of a signal, which is `Killed`).

`PrintsLikeWc` is the refinement of `SingleWordCount`, the program the projects
start from: whatever happens to children and pipes, what the parent prints is
one thing only, and it is the total `wc` prints for that file. It is stated for
the runs in which the code can keep it: no byte 0xFF, which `wc_core.c:30` takes
for the end of the file and `BytesRead` stops at, and no int that overflows.

### p2: WebServer

A step is a system call or a stretch of code that no other thread can observe.
`pc[t]` names the call a thread is in: the listener goes through `bind`,
`accept`, `wait`, `lock`, `critical`, `post`; a worker through `wait`, `lock`,
`critical`, `post`, `process`, `opened` (it has its stream and sleeps), `serving`
(it is in `fgets()`), and may end as `dead`. The critical
section is one step, because `request[]` is touched nowhere else and
`sem_getvalue` is called once in it; the value it reads is the present one, not
that of the wait before the lock. Descriptors are modelled because a request
that is taken twice is closed twice: `fdTable` gives the connection behind each
descriptor, a new one takes the lowest free number. Descriptor 0 is the
terminal, which is also what `request[]` holds at the start.
`TryJoin` follows the code: a worker is started in the slot of each thread that
has *not* ended. What a worker reads is fixed when its `fgets()` begins (`reading`): a connection,
the terminal, or a descriptor that was closed since. A client sends one request, and
`unread` holds the connections whose request nobody has read yet. A read of one of those, or of a
closed descriptor, comes to an end (`ReadEnds`); a read of the terminal may end, and
a second read of a connection ends only if the client goes away (`ReadMayEnd`).
HTTP parsing and replies are one step, `Finish`; when the client has left
(`ClientsLeave`), the answer may raise SIGPIPE, which nobody handles and which
ends the process. `WebServer` allows for it, so its properties say what they
say of a server that has not ended.

### p2: ClientServer

The client and the single-threaded server, two processes. A step is a system
call, or a stretch of code nobody else can observe. The kernel keeps the
connections (`sock`, `queue`, `inbox`): up to `Backlog` + 1 of them wait to be
accepted, a further `connect()` waits and may time out, and when a process ends,
by returning, `exit(1)`, a signal or the crash of its only thread, the kernel
closes what it had open. A line that was sent is there or not; an answer is
some bytes.

* The client's `main` reads a thread's result through a pointer to the stack of
  that thread after joining it (`client.c:66`): `Joined` lets it find 0, 1 or an
  address that is no longer mapped. The history variable `spoiled` is TRUE when
  what was found is not what the thread left.
* An error of `recv()` is only reported and ends the loop like the end of the
  bytes; every other failing call of a thread is an `exit(1)` of the client.
* The server that crashes or whose `accept()` fails is gone for good: nothing
  starts it again.

### p4: FileSystem, FlatDirectory

A step is one command (`execute_command`), unmount or mount. The memory of the
program (`superBlock`, the two maps, `inode`, `curDir`, `curDirInode`) and the
`disk` are separate, and each command writes to the disk what the code writes,
in its order: a create does not write the directory, a mkdir does, an rmdir
does not. A command that is refused and changes nothing is not a step;
`dir_make_fails` is, because a refused mkdir keeps the block it took.

* Sizes are in blocks, and a block of data is one value; what cat prints is the
  sequence of a file's blocks. The indirect block is a block with its own
  contents, written last and freed last.
* `curDirInode` holds a block number after a mount and an inode number after a
  `cd`, as in the code, and is used as the code uses it: `ChangeTo` reads it as
  an inode, `dir_make` and `fs_umount` as a block.
* `free_block(-1)` shifts by a negative number, which C leaves undefined; with
  the compilers at hand the bit looks set and the count goes up. `Free` lets
  it go up or not. A mkdir and a rmdir on a full disk do that as often as one
  likes, so `freeBlockCount` has no bound, and `TypeOK` gives it none.
* A block read as what it is not (a file's data as a directory, a directory as
  a map) makes the session `wild`; the model follows it no further. A file
  whose indirect block was overwritten is neither read, copied nor removed.
* The history variable `astray` is set by the first `cd` and by a mkdir that
  found no free block. From then on the file system does not keep its
  promises, which the violation runs show; the properties of the passing
  run, but for types, the inode count and `MountsAgain`, are about the sessions
  before. `MountsAgain` is about all of them, with any `cd`: the one image written whole that
  does not mount is one that was written with the superblock, a map or the inodes for the
  current directory. In the root after a `cd ..` that is so (`Remounts`).
* The image file (`image`) is truncated and written block by block at unmount.
  `Killed` ends the program between two commands, which loses the session, or
  in the middle of the image, which leaves the blocks below one of `Torn`.
  The image remembers (`at`) where the current directory was written. `Mount`
  starts the next process on what it finds: a whole image mounts; an empty one, or
  one without the superblock's magic number, ends the program; where the rest is
  missing the session is `wild`.
* `df`, `stat` and `ls` only print.

`FlatSpec` is the refinement `FlatDirectory`: what a name stands for is found
through `curDir`, the inode table, the indirect block and the disk. It is what
would break if a linked file's blocks were freed and given to another, if a
copy shared blocks, or if something did not survive unmount and mount; and its
`Lose` says that after a kill the names stand for what they stood for at the last
unmount, unless the kill came while the image was written.

The six commands of the run `FileSystem` take `MountsAgain` through kills, images
cut short and directories without a block. A program left in a directory
whose inode number is that of a block of data needs seven; that such an image
mounts too is proved (`MountsAgainAlways`). The mutant that has unmount
write the directory where `cd` does breaks it.

## Runs

| run | instance | shows |
|---|---|---|
| `VM` | 2 processes, 2 pages, 3 frames, 4 policies, 6 requests | four pages compete for three frames, so evictions, reloads and write-backs of both processes' pages happen; the safety properties and the refinement hold, also when the heap is not cleared; LRU, FIFO and CLOCK evict the page their definition names |
| `LinkedList` | 3 frames, 4 addresses, any number of calls | pointers compute the sequence operators; no NULL dereference; every step brings the end of its call nearer; calls return |
| `WordCount` | 3 children, 15 files, 2 kills, 1 failing fork | a printed total is right and what `wc` prints, no finished part is redone, no zombie is left; without a failing fork there is one count per pipe and the program ends |
| `NotRedone` | 3 children, 1 kill, 1 failing fork | **violated**: a killed child is not replaced |
| `WebServer` | 2 workers, 2 slots, 3 connections, crashes, failing accept, clients that leave | token conservation, index in bounds, no circular wait; as long as a worker has neither crashed nor reads what nothing may come from, the listener comes back to accept and the buffer drains |
| `TakenOnce` | no crashes | **violated**: two workers take one request, and an untaken request is overwritten |
| `NotReplaced` | crashes | **violated**: the join that never ends, the inverted test of `pthread_tryjoin_np` |
| `ClientServer` | 4 threads, a queue of 2, crashes, failing calls, 2 retries | no connection is forgotten, what the client prints is true, nobody waits for ever, the client ends unless it misread a result |
| `FileSystem` | 5 data blocks (1 the root's), 5 inodes, 3 entries, 1 direct block, files of 1 and 2 blocks, 6 commands, kills, images cut at block 0, 2 and 4 | counts, maps, links, owners and contents agree, a kill takes the user back to the last unmount, until the user leaves the root or makes a directory on a full disk; a whole image mounts again, then as well |
| `FilesLost` | the same disk, 7 commands, no kills | **violated**: the first cd loses the entries made since the directory was last written |
| `Remounts` | as `FilesLost` | **violated**: left in the root after a `cd`, the program writes the directory over the superblock and the next start refuses the disk |
| `NoBlock` | as `FilesLost` | **violated**: a directory is made without a block |

The bounds: requests, connections, kills and failing forks are counters with a
bound in a guard (`MaxRequests`, `MaxConn`, `MaxKills`, `MaxFailures`, `MaxCommands`, `MaxFailed`);
`MaxForks` is a bound that is never reached, and `MaxFailed` stops only a client
that misread a result: without that no retry ever succeeds or fails twice, since
a server that failed one request is gone. Four threads on a queue of two leave a
thread that cannot connect while another is served and two wait. `Torn` cuts the
image before anything, after the superblock and before the root's directory. The numbers are the smallest at
which the cases the properties are about happen: more pages than frames and
enough requests to evict a page, bring it back and evict again; more
connections than slots, so that the listener waits; two workers, so that two
are between `sem_wait` and the lock; a disk that a few files
fill, a file that needs an indirect block, and commands enough to link, remove,
reuse the blocks and mount again; a kill of a replacement, or of one child
after a failing fork. Every property fails under the mutant named for it in `PROJECT.json`
in the same instance, so the instance is large enough to see that bug. Deadlock is not
checked, since every program here may legitimately stop: the simulator ends,
the word counter ends, the server waits for clients, the file system's commands
are used up. Where stopping would be
wrong, a property says so (`NoCircularWait`, `OneCountPerPipe`, the liveness
properties).

### Fairness

`WordCount`: weak fairness of the parent and of each child: the operating system
runs every process that is not blocked. Kills are bounded, or a child could be
killed for ever. `WebServer`: weak fairness of the listener (except for accept:
no client need come), of each worker and of main. A worker in `fgets()` goes on only
where something ends its read (`ReadEnds`): the client of a connection sends its one
request or goes away, and the first worker to read it gets the line or the end. Nothing
ends a read of the terminal or a second read of a connection, and the workers caught
in one are `Stuck`: `ListenerReturns` and `BufferDrains` say nothing once every
worker that has not crashed is. What brings a worker there, a slot that was never set
or a request taken twice, is what `TakenOnce` finds. With weak fairness only,
no property relies on a particular waiting thread getting a semaphore. `ClientServer`: weak fairness of
main, of each thread and of the server for the steps they take when nothing
fails (`MainStep`, `ThreadStep`, `ServerStep`); crashes, failing calls and misread
results may happen at any time and never have to, so no property relies on a
failure to end a wait. `LinkedList`: the call in
hand goes on. `VM` and `FileSystem` state no liveness: they do what their input says.

## Proofs

TLAPS checks the following for every value of the constants that satisfies the
named assumptions: `VMAssumption`, `WebServerAssumption`, `ClientServerAssumption`,
`WordCountAssumption`, `FileSystemAssumption`, `ListAssumption`. They say what the code's
`#define`s and calls say (the number of inodes fills whole blocks, the root's
block exists, a directory holds more than two entries, and so on) and bound
nothing else. In each module an invariant is proved inductive, one lemma per
action, and the properties are read off it.

* `QueueProofs`: lemmas about `MoveToTail`, `clock_list_update_ref`, `Sweep`
  and the removal of the head: they keep a list a permutation of the frames
  allocated, a new frame extends it, `Sweep` is a rotation.
* `VMProofs`: the inductive invariant `IInv`, the conjunction of `TypeOK`,
  `MappingInv`, `CleanPageOnDisk`, `QueueInv` and, for each policy,
  that the victim is an allocated frame. None of its parts is inductive by
  itself: that the loaded page gets a frame nobody else has needs the victim to
  be allocated (`QueueInv`) and its inverted entry to name the page to
  invalidate (`MappingInv`); that a clean page is on disk needs that no two
  pages share a frame. There is a lemma per action and conjunct. The theorems
  are `TypeCorrect`, `MappingCorrect`, `QueuesCorrect`, `CleanPagesCorrect` and
  `EvictionCorrect` (an action property). `Refinement`, at the end of the
  module, is `Spec => FlatSpec`. Each action is shown to map to a `Read`,
  a `Write` or a refusal of `FlatMemory`: the contents of all pages are
  unchanged by the swapping because the victim's byte goes to the disk and the
  loaded page's comes from there, and a write reaches exactly one page because
  no two share a frame.
* `PolicyProofs`: the four properties of `PolicyHistory`, of `HSpec`, that is
  with all pages and requests, where the run leaves out those that differ by a
  renaming. `HInv` adds to `IInv` the order each policy keeps: LRU's list is
  sorted by last use and every page outside it was used earlier (`LRUStack`);
  the frames from FIFO's counter round to it are sorted by load; CLOCK's list
  is, once the pages hit since their load are left out, and the bits mean "hit
  since the last eviction". The first in that order is the victim.
* `LinkedListProofs`: the pointers of `list.c` and `clock_list.c` compute the
  sequences of `QueueOps`, for lists of any length. The heap holds no list, so the
  invariant (`Shape`) says that *there is* a sequence of addresses whose nodes point at one
  another in its order, forth and back, with frames that differ (`Chain`); each
  loop of the code stands at a place of it, with the frame sought at no place
  before, or with so many nodes turned by `clock()` (`Turned`). That a walk
  through `next` visits that sequence and no other (`PathIs`) is shown by the
  least place at which it would not, which needs no induction; that the list ends is
  shown by counting (`ChainShort`). Three facts about sequences of addresses
  carry the rest: a node may be bypassed (`Unlinked`), linked after the last
  (`Appended`), or before the first (`Prepended`). `CallsCompute` is what lets `VM` treat a list
  as a sequence; `PointersAgree` and `NeverNull` follow from the same
  invariant. `CallsAdvance` proves the variant of the loops: each step turns a
  referenced node, leaves a loop or leaves a node behind, for good, so no loop runs
  for ever on a list of any length. `ListAssumption` asks for more addresses than frames: `malloc`
  does not fail.
* `WordCountProofs`: every fork has a pipe of its own, so each pipe has one
  writer that writes once (`PipesApart`), which alone makes a count that is
  read the right one; the rest (`ForkedSoFar`, `ContentsOnce`, `Pending`,
  `Retried`, `WaitedInTurn`) is the bookkeeping of a `waitpid(-1)` that reaps
  whom it likes, and gives that a read never blocks if no `fork()` failed and that
  no child is left. With the counts (`CountInv`) follow the right total and
  the refinement of `wc.c`. These three theorems assume `OnlyText`: no byte 0xFF and
  a size that fits an int, since without either the code does not keep the
  promise (`wc_core.c:30`, `wc_multi.c:70`).
* `WebServerProofs`: the inductive invariant is types, `OneInside` (a thread is
  in the critical section exactly when it holds the mutex), `Tokens` (the
  conservation law, over the set of threads between wait and post) and
  `Unborn` (the places in which main may still start a thread are empty;
  without it a start could put a thread back that holds a token). Each action
  is a step outside, a wait, a lock, a leave or a post, with a lemma for each
  kind. `TypeOK`, `TokenConservation` and, because the thread inside holds a
  token itself, `SlotInBounds` follow for any number of workers, slots,
  descriptors and connections; so does `NoCircularWait`, since whoever waits for
  the lock waits for a thread that holds a token and needs no other.
* `ClientServerProofs`: where an open connection is (`Connections`: in the queue,
  once, or in the server's hand) and what a thread was given (`Answers`: its
  byte, at most once, just before the connection is closed). `PrintIsTrue` needs
  `Hopeless` besides: a retry that a result read right asks for finds the
  server gone, so main can never count an answer twice.
* `FileSystemProofs`, in three invariants, each of which says of the image on the
  host what it says of memory, because the next process starts from it.
  `TypeInv` holds in every session: no entry but "." and ".." names the root, so
  its inode and block are never freed or overwritten in the maps; the count of free inodes is exact; that
  of free blocks is never too small, so `get_block()` finds the blocks it was
  asked for. An image that was cut short and mounts all the same had its maps and
  the inode of the root written. `SoundInv` holds until the session goes astray: the blocks are
  partitioned among inodes, the metadata, the refused mkdirs and the free ones;
  an inode is allocated while an entry names it; link counts are numbers of
  entries; `curDirInode` is the root's block, so that an unmount writes the
  directory where the mount looks for it. It is inductive only with the shape
  of every inode: the map of a file's blocks is itself a block of that file,
  so nobody else can write to it (`Untouched`). From it follow `BlocksAccounted` and
  `InodesAccounted`. `SafeInv` holds in every session, also astray, when
  directories were written to blocks and maps were read from files: the root's
  block holds a directory, no map on the disk lists it and no inode but the root's
  leads to it, so it is never given away or filled with bytes. What unmount
  writes is then what mount expects, unless the directory it writes last goes to
  the superblock, a map or the inodes: `MountsAgainAlways`.
  `FlatRefinement` is `Spec => FlatSpec`. It needs besides (`FlatParts`) that no
  name is in the directory twice, so that the search finds a name where it was
  put, and that "." stays the root's, so that no `rm` can take it; and that an
  image that is astray never leads back. Each command changes what one name stands for and
  no other: the blocks of every other file are in the maps, hence not among
  those that `get_block()` gives (`EntriesStand`), and a file that needs the indirect
  block reads back, through `Turn`, the bytes it was filled with (`NewStands`).

Only model-checked, and why:

* Liveness (`RecvReturns` and the others): the prover cannot do ENABLED, on
  which fairness rests. For `CallsReturn` the part that is about the code, that
  every step counts, is proved (`CallsAdvance`); that a call takes its next
  step is not.
* The runs that expect a violation: a counterexample is all they show.

## Plan

1. p4: sub-directories entered in the one way the code supports (from a second
   `cd` on), and what is left of the promises there.
2. p2: refinement of a bag of requests by a corrected `WebServer`.

## Not modelled

* `input_gen.c` prints random requests and keeps nothing; the model of the
  simulator takes any request.
* HTTP (with the `strtok()` that the workers share in `process()`: two of them at
  once may mix up their request lines, so what is answered is not what was asked), argument
  parsing, printing and time measurement; a pool of no thread or of a negative number of them
  (`numThread` is not checked); in the lists, the
  functions that nothing calls; `req_handler()` of `webserver_multi.c`, likewise.
* FIFO's int counter after 2^31 evictions (`pagetable.c:14`), a negative pid
  (`vm.c:108`), files of 2^31 bytes (`wc_multi.c:70`; `WordCount` keeps the width,
  its runs have short files).

Seen while modelling and not the subject of a run:

* The handler of p3 writes every victim to the swap disk, clean or not, where
  the assignment asks for the dirty ones only (`CleanPageOnDisk` shows that the
  write is redundant); the comment at `pagetable.c:24-25` lists the frames of
  CLOCK with pages loaded referenced, which the code does not do.
* p1: a byte 0xFF in a file ends the count of its part: `getc()` is stored in a
  `char` before it is compared with EOF (`wc_core.c:30`). A file of 2^31 bytes
  gives a negative size and a total of 0; every retry
  opens a pipe and closes none (`wc_multi.c:97`).
* p2: the client's retry can never succeed against the single-threaded server,
  which does not outlive the failure that makes a retry necessary: whenever the
  client tells the truth, it retried nothing (`PrintIsTrue`). An address of
  fifteen characters does not fit in the buffer at `client.c:172`.
* p4: an image that was cut after the superblock is mounted as if
  it were whole. Mount and unmount move a whole block to and from the 64 bytes of the inode
  map (`fs.c:35`, `fs.c:88`): what lies behind the map goes to the disk and comes back
  with it; the model takes the map alone. Formatting clears an eighth of
  each map (`fs.c:57`), which is harmless, the maps being zero already.
* p2: the listener can be left waiting for ever with no thread crashed, when every worker
  is `Stuck`; with the default of one worker it is enough that the listener stores and posts
  a request between that worker's `sem_wait` and its lock, and fills the buffer later.
