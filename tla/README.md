# Verification of the ds3 file system

TLA+ modules, TLC configurations and TLAPS proofs for the file system on a disk
image (`LocalFileSystem` on `Disk`, made by `mkfs`), for the HTTP handlers that use
it (`DistributedFileSystemService`), for the server in front of them
(`gunrock.cpp`, `HTTPRequest`, `HTTP`), and for the text functions these use.
Everything here is translated from the source; documents are quoted only where a
run shows that the program does not do what they say.

Running it, in this directory:

    tlc -workers 2 -config LFSTree.cfg MCNameSpace   # a run: module and cfg are in PROJECT.json
    tlapm LFSProofs.tla                              # a proof module

## 1. The system

| Part | State | Operations | Used by |
|---|---|---|---|
| `Disk` (Disk.cpp) | the image file; in memory: `isInTransaction`, `undoLog` | `readBlock`, `writeBlock` (fsync on every write), `beginTransaction`, `commit`, `rollback` | LocalFileSystem |
| `LocalFileSystem` | none of its own: every call reads the metadata, decides, writes back | `lookup`, `stat`, `read`; `create`, `write`, `unlink` | handlers, tools |
| `mkfs` | the image it is writing | super block, zero blocks, two bitmaps, inode table, root directory, in this order | operator |
| `DistributedFileSystemService` | a `LocalFileSystem` | `get`, `put`, `del` | server loop |
| server loop (gunrock.cpp) | list of services, one client at a time | accept, read, dispatch, answer, close | clients |
| HTTPRequest, HTTP, http_parser | state of one request | callbacks while data arrives | server loop |
| ds3 tools | none | one call of LocalFileSystem each, on an inode number and a name | operator |
| StringUtils, HttpUtils, WwwFormEncodedDict, Base64 | none | split, encode, decode | handlers, HTTP |
| FileService, HttpService, sockets, dthread, HTTP client | host files, sockets | see PROJECT.json | server loop |

They interact by calls. The only shared state is the image file: the server and
the tools open it independently and nothing locks it. The server has one thread
and finishes a request before it accepts the next; so there is no concurrency
inside a process, and what is hard lies elsewhere:

- **A call is many block writes.** A process can die between any two; nothing
  repairs the image, and the next process allocates from what it finds.
- **Two processes on one image.** A tool reads the bitmaps and the inode table,
  decides, and writes them back whole; so does the server meanwhile.
- **Three representations of a directory** (its size in bytes, the non-zero
  pointers, the entries in the blocks) are kept in step by hand; `unlink` works
  on a compacted copy in a buffer of exactly the size.
- **Errors in the middle**: `create` and `write` give up after they have already
  written; `put` and `del` ignore most return values.
- **Uninitialised bytes**: the heap behind unlink's buffer, the stack of `mkfs`,
  the inode struct of the handlers.
- **Arithmetic**: the layout of `mkfs` is computed in ints; Base64 works out the
  length and the bytes of a text in two ways; `endswith` takes `npos` for a place.
- **Data that arrives in pieces**: a request is put together by callbacks that see
  a text in as many parts as the reads cut it into.
- **Descriptors and exceptions** of the server loop: a client that hangs up costs a
  descriptor, the store exits when it cannot open its image, and what `write` and
  `accept` throw is caught nowhere.
- **The undo log** has one record per write, lives in memory, and its order
  matters; begin, commit and rollback are commented out in the handlers, so only
  `Disk` itself has them.

What makes each part correct:

- Disk: a rollback restores the image exactly, a crash damages only blocks of
  the open transaction, no record outlives its transaction.
- LocalFileSystem: no block has two owners; a block in use is marked; nothing is
  lost without a crash; names make a tree; what create, write and unlink report
  is what lookup and read then see; no call touches another file or name; what
  dying calls damage is what they were about.
- mkfs: the regions of an image that was made have room for what its super block
  promises, and LocalFileSystem starts from it; one that was not finished gives no
  block away twice.
- Handlers: a refused request changes nothing, and none touches another path; what a request answers is true of
  the image; every request ends.
- Server: a request is read as it was sent; a connection ends, and every open
  descriptor is accounted for; the service that answers is the one the path asks for.
- Tools: what nobody asked them or the server about survives both.
- Text functions: what is encoded is read back; a split loses nothing.

`PROJECT.json` lists every component and, under `hazards`, each of the dangers
above at its line with the properties that cover it.

## 2. Modules

    TxDisk                  what Disk promises (abstract)
      ^ refined by
    Disk                    --- MCDisk, DiskProofs
    NameSpace               what LocalFileSystem promises (abstract) --- NameSpaceProofs
      ^ refined by
    UFS                     on-disk structures; lookup, stat, read as operators
      LocalFileSystem       create, write, unlink; one step is one block write
        LFSProperties       invariants and promises --- MCLocalFileSystem,
                                                        LFSProofs (with UFSLemmas)
          LFSNameSpace      the refinement --- MCNameSpace
          LFSDamage         what dying calls leave --- MCDamage
          DistributedFileSystemService   the handlers --- MCDfs, DfsProofs
        SharedCall          a call whose reads are steps, too
      SharedImage           two processes on one image --- MCSharedImage, SharedImageProofs
      Mkfs                  makes the image LocalFileSystem starts from --- MCMkfs, MkfsProofs
    HTTPRequest             reading one request; one step is one callback
      Gunrock               the server loop --- MCGunrock, GunrockProofs
    Strings                 the text functions --- MCStrings

**Disk** has one action per call; `rollback()` is split into `Rollback`,
`RollbackWrite` for each turn of its loop, and `RollbackEnd`, because a process
can die between two writes. A call that ends the process with `exit(1)` and a
crash are the same step, `Restart`: the object is gone and the next constructor
sees the image as written. `base` is a history variable, the image a rollback
has to restore.

**TxDisk** is the same object with no log: a transaction is begun, written to,
committed or rolled back in one step. A crash may leave anything in the blocks
the transaction touched and nothing in the others.

**UFS** fixes the data. A block is a row of cells of 32 bytes, the size of a
directory entry, and sizes are counted in cells; 4096-byte blocks have 128. A cell
of a file is some text, and it is a cell like any other, so a directory block
read through a pointer of a file would show. A bitmap is the set of its bits that are set.
`lookup`, `stat` and `read` change nothing and are operators on an image.

**LocalFileSystem** models a call in two parts. A *plan* (`CreatePlan`,
`UnlinkPlans`) is what the call decides from the image it read: its return value,
the data blocks it writes in order, and whether and with what the metadata
follow. The steps `FlushBlock`, `FlushInodeBitmap`, `FlushDataBitmap`,
`FlushRegion` are the writes, one block each, in the order of the code.
`write()` decides and writes in one loop and has a step for each turn
(`WriteReuse`, `WriteAllocate`, `WriteFails`), then `WriteTrim`. With nobody else
on the image nothing runs in between, so deciding at the start is what the code does
(AloneAsLFS shows it and AloneActsAsLFS proves it). A call that is refused before it has written leaves everything
unchanged.

| code | model |
|---|---|
| `inodeBitmap`, `dataBitmap`, `inodes` arrays of a call | `mem` |
| where the call is | `pc`, `k`, `pending` |
| arguments and return value | `job` |
| the image file | `disk` |
| a read behind unlink's buffer | ends the process if `Asan`, else any of `HeapCells` |
| a bitmap write outside the bitmap (`StrayBit`) | ends the process if `Asan`, else survives or not |
| a directory pointer `readBlock` exits on, or an index past `direct[]` | ends the process (`Unreadable`) |
| inodes and names mkfs leaves unset | any of `StackInodes`, `StackNames` |

`Asan = TRUE` is the build `make` produces; `Asan = FALSE` is the one with
`DEBUGGER` set. Both are modelled because the code behaves differently in them
(section 5).

Specifications: `Spec` (no process dies), `ServerSpec` (callers write only to
allocated inodes, which the runs on handlers show the server does),
`RestartSpec` (processes die, except while blocks are being given back, see
section 4).

**NameSpace** is a tree of directories with files in it, and knows no blocks,
bitmaps or slots. Each call is one step or none: `Make`, `Remove`, `Put`. Two more steps
are what calls do that do not go through: `Spoil`, a write that runs out of blocks
behind some it has overwritten, and `Drop`, an unlink whose process the sanitizer stops.
**LFSNameSpace** maps an image to such a tree (`View`) and looks at it whenever a call
returns; `tree` is the last one.

**LFSDamage** adds to `RestartSpec` the set of inodes that the names of interrupted
calls led to (`suspect`).

**SharedCall** is a call in a process that is not alone: `ReadInodeBitmap`,
`ReadDataBitmap`, `ReadRegion` and `ReadDirectory` are the reads in the order of the
code, one metadata block each, and `DecideUnlink`, `DecideCreate`, `LinkEntry` decide
on what has been read (`Believed`), with the operators of LocalFileSystem.
**SharedImage** has two such processes. One runs, in the variables of SharedCall; the
other is suspended, with its memory in `other`; `Switch` exchanges them between any two
steps. There is a file neither is asked about.

**Mkfs** has one action per write. `SuperBlock` is the layout, with the wrap of the
`size_t` product into an int (`AsInt`) and C's division (`Quotient`); `TotalBlocks` is the
sum that bounds the loop, which wraps as well, and `Blocks` the number of blocks the super
block promises. The addresses do not wrap: what comes before the data is less than an int
holds even for the largest options (`AddressesAssumption`). `Found` reads what
is in the file as LocalFileSystem reads it: by the super block.

| code | model |
|---|---|
| `num_inodes`, `num_data` | `asked` |
| the file and its length | `file`, `length` |
| a failed assertion, a failed `pwrite`, a kill | `Fail` |
| `pwrite` at an offset beyond an int | may be refused (`CannotPut`) or not |
| the rest of the struct and of the entries on the stack | any of `StackInodes`, `StackNames` |

**DistributedFileSystemService** extends LFSProperties with the request in progress. A
handler is its sequence of calls: `PutDirectory` for each component of the path,
`PutFile`, `PutStore`; `Delete`, `Remove`; `Get` only reads. `Called` lets the
handler go on when the call it made has written its last block.

**HTTPRequest** reads one request. The parser calls back when a text ends, and also
when the data ends in a text or right behind it, so a step takes any piece of what is
left (`Piece`, `Cut`, `Ends`). `http` holds the fields of class `HTTP`, and the
operators on it (`PathText`, `FieldText`, `ValueText`, `AddHeaderField`) are its
callbacks; `sent`, `at`, `idx`, `off` say what the client sends and where the
parser is in it. An assertion that fails is `at = "failed"` and ends the process.

**Gunrock** is `main` and `handle_request`: `phase` is where the thread is, `open`
counts descriptors, `lost` is a history variable. A service is the set of statuses
it may leave (`Outcomes`), which for the store are those of the handlers in
DistributedFileSystemService; `Ended` is a handler that ends the process.

| code | model |
|---|---|
| `m_state`, `m_field`, `m_value`, `m_headers`, `m_path`, `m_body` | `http` |
| `m_sock->read()` throws | `ReadFails`; the socket stays open |
| `client->write()` or `accept()` throws | `WriteFails`, `AcceptFails`: the process ends |
| `Disk` cannot open the image | `StoreOutcomes` without a free descriptor |

**Strings** has the text functions as operators on sequences of bytes. A loop over
the characters is a fold whose state is the variables of the loop; what is written into
a fixed buffer is what the buffer holds afterwards; a function that throws returns
`Thrown`. The references of MCStrings are written the other way round: a field is a
longest stretch without the delimiter, a decoding is right if it reads back what was
encoded.

## 3. Runs

Distinct states in parentheses.

| Run | Question | Result |
|---|---|---|
| MCDisk (40 k) | Is the undo log enough to restore the image, is Disk a TxDisk, does a rollback end? | yes |
| LFSTree (19 k) | Tree, accounting and promises in the default build; is each call one step of NameSpace? | hold; yes |
| LFSFiles (96 k) | Does a call change a file it is not about? Is what was written read? | no; yes |
| LFSRestart (180 k) | Processes that die while they take blocks: are blocks ever shared, and which inodes are damaged? Is `Kept` an invariant? | never; those of the interrupted calls; yes |
| Dfs (19 k) | Answers and image; the assumption of ServerSpec; does a request touch other paths? Do requests end? | hold; no; yes |
| Gunrock (1 k) | Is a request read as it was sent? Where do descriptors go? Which path may store? What ends the server? Does a client leave? | as sent; the lost ones are exactly those of failed reads; only the store's; what the code's assertions and uncaught exceptions name, and no other request; yes |
| SharedImage (968 k) | Two processes, any of which may die: does the file neither is about survive? Is a process that is alone what LocalFileSystem says? | yes; yes |
| Mkfs (4 k) | Is a made image the Init of LocalFileSystem, has it room, is an unfinished one sound? | yes; if the table and the number of blocks fit an int; yes |
| Strings (20 k) | Do the text functions do what their references say? | yes, but for the exceptions the properties name |

And three runs in which TLC finds a disagreement with what a document says; the
counterexample is the scenario, the line and the quotation are in PROJECT.json:

| Run | What TLC finds |
|---|---|
| LFSHidden | default build, directory of three blocks: unlink hides names it is not about |
| LFSAbort | default build: unlink ends the process |
| DfsStored | PUT answers 200 and nothing was stored |

**Bounds of the file system.** 3 to 5 inodes, 3 to 5 data blocks, 2 or 3 entries to a
block, 2 or 3 pointers, 2 inodes to a region block. What has to happen for the code to be
exercised does: a directory needs a second block after one or two names, the last
inode, block and pointer are used up, the inode region has more than one block,
files end inside a block, at its end and one cell behind it (`ManySizes`). Two
names are enough for one to be affected by a call about the other; four are
needed to fill two more blocks of a directory of three. Names are symmetric in the runs
without liveness, which name no particular one. LFSRestart has one name, since a
crash needs no second one to leave two directories with a name of one inode, and
both kinds of heap. Dfs has the sizes 0 and two blocks only, so that liveness stays
checked in a minute; the sizes in between are in LFSFiles.

*Directories of two blocks.* `DirectPtrs` is 2 in LFSTree, so that the properties of
that run are about directories of up to two blocks. With three, OtherNamesStay fails
(LFSHidden), and so does NoLostBlock: a block that becomes empty in the middle leaves a
gap, and create puts the next block at the index that follows from the size, over the
pointer of the block behind the gap. (Put NoLostBlock in LFSHidden.cfg to see it.)

**The other bounds.** Disk: two blocks, so that a transaction can leave one alone; four
records, so that one block is written several times; `MaxUndo` bounds a guard. Gunrock:
three descriptors, so that two can be lost and a third served; texts of up to three
tokens, so that each can be cut in all places, an empty value in the middle and at the end, names that begin alike,
bodies, a request behind a request, and the methods the assertions and the dispatch
treat differently (`MCRequests`). `MaxFds` is the limit of the system, not a bound of
the model. SharedImage: either process makes up to two calls and the two together three (`MaxCalls`,
`MaxTotal`, in guards), so that a call of one can lie between two of the other and across
both; all four calls, both heaps. Mkfs: an int of 8 bits, blocks of 8 bytes, inodes of 4; the options lie
on both sides of each rounding, of the assertions, of the sizes at which the bytes
of the table exceed an int, turn negative and come to 0, and of the number of data blocks
with which the sum of all blocks exceeds one (98 and 99 with 3 or 4 inodes). Strings: all texts of up to 5
characters over those that mean something, up to 8 over two or three of them, and up to
4 bytes, so that Base64 has every padding, the second group too.

**Deadlock** is checked but where the system really stops: SharedImage has calls to make
and then none, `mkfs` ends, a text is complete.

**Fairness.** `DfsFairSpec` asks that a handler that has begun, and each call it
makes, goes on with its next step (one thread executes it, and it waits for nothing), and
nothing about requests being made. `FairSpec` of Disk asks the same of the loop of
rollback, while a crash may interrupt it. `GunrockFairSpec` asks that the thread goes
on and that the client being served sends the rest of its request unless it hangs up.
The code does not ensure the latter, since `read` has no timeout: ClientsLeave says
what holds for clients that do, and the server waits for ever for one that does not.

## 4. Proofs

For all values of the constants that satisfy the named assumptions (`DiskAssumption`,
`UFSAssumption`, `NamesAssumption`, `LFSAssumption`, `DfsAssumption`, `SharedAssumption`,
`MkfsAssumption`, `RequestsAssumption`, `GunrockAssumption`; TLC evaluates them on each
run). Image sizes, block sizes, numbers of names, descriptors and messages are arbitrary.
`NamesAssumption` says that `.`, `..` and the empty name are not among the other legal
names. Some theorems have hypotheses besides, named with them below.

**Disk** (`DiskProofs`). The inductive invariant is
`TypeOK /\ LogOnlyInTx /\ UndoCovers`. `UndoCovers` is what carries the rest: a
block with no pending record has its old contents already, and the *last* record
of a block in the log, the oldest, holds them. Writing a block twice keeps it,
since the second record goes in front of the first, and so does a turn of the
rollback loop. From it follow `RollbackIsExact`, `DamageIsConfined` and, with one
case for each action, `DiskImplementsTxDisk`.

**Blocks** (`LFSProofs`). `NoSharedBlock` and `FreeOnlyWhileGivenBack` under
`RestartSpec`. They are not inductive. The inode region is written block by
block, so the image holds, in between, some inodes from before the call and some
from after it: `Apart` says these two never point to one block. The bitmap a call
has in memory is the one it will write, so while a call takes blocks everything
the image points to must be marked in memory as well (`Taking` in `Owners`).
`Control` relates `pc`, `k` and what has been written. `Ownership` is all of
these. The proof has a lemma for each way a plan changes the metadata (grow a directory,
take a block, release an inode, empty a block), one for each step, and arithmetic lemmas
on blocks and positions in `UFSLemmas`.

`RestartSpec` leaves out one thing: a crash between the data bitmap and the end of the
inode region in `unlink` and `write` (`GivingBack`). There the invariant
really fails: the blocks are free on disk, the inode still points to them, and
the next process may give them to another file. `FreeOnlyWhileGivenBack` says
that this is the only such stretch.

**Contents** (`LFSProofs`). `TypeOK`, `FilesUntouched` and `WrittenIsRead`, also
under `RestartSpec`. What a block write does to a file depends on who owns the block, so
the invariant is `Kept == Ownership /\ Contents`, which TLC checks in LFSRestart.
`FilesApart` says that create and unlink write only blocks no file points to
(`Harmless`), and that the inodes of files a call is not about are the same on disk and in
memory, so that writing the region back does not change them. `Tidy`, that a file has no
block behind its size, is what makes a longer or shorter write come out right; without
it a file would read blocks from an earlier life, since `read` goes by the pointers and
the size. `WriteSoFar` is the loop of write: the first `k` blocks hold the new text, on
disk, at the pointers in memory; after the trim these are all there is. `read` skips
pointers that are 0 or UINT_MAX, so the r-th block it reads is the one at index r only
because the pointers of a file have no gap, which follows from `WriteSoFar` (`Nth`, `SetOfIndices`).
One lemma for each step gives `KeptHolds`; the two action properties follow from it, and
a last lemma turns the blocks of a file into what `read` returns.

**The names in a directory** (`LFSProofs`). `NamesMakeATree` (TreeShape),
`MissingNamesAreAbsent` (AbsentForUnlink), `CreatedNamesAreFound`, `UnlinkedNamesAreGone`.
They have two hypotheses. One is `Asan`, the default build: without it the properties are
false (section 5). The other is `[]NoGap`: no directory has a missing pointer within its
size. `unlink` breaks it when a block in the middle of a directory becomes empty, and what
happens then is LFSHidden. It is not an assumption where an inode has two pointers, as in
the runs: `NoGapInSmallDirectories` proves it there, since the first block holds the two dots.
Readers and unlink go through a directory in different ways, the former by its pointers and the
latter by its size, and create by the slots behind the last entry. The invariant
therefore speaks of the row of a directory, the entries at the positions within its size
(`RowOf`): `Forest` says of the rows of all directories that they make a tree,
`Filled` that a directory has the blocks its size takes and only unused cells behind it. These
two are `Tree`. While a call runs, the image has no tree and the metadata in memory
belong to blocks that are not written yet; so `TreeToCome` says that the blocks that are
left when the pending writes are done (`Ends`) make a tree with what is in memory, and that
this tree shows what the call will report. `Outcome` is the same of a decision, and each
call has its lemma: `CreateGrows`, by way of `SlotGrows` and `BlockGrows`, and
`UnlinkShrinks`, by way of `NameGoneInPlace` and `NameGoneWithBlock`. An unlink that is
to fail after some of its writes needs one more: whichever blocks of a directory have been
written back, the names make a tree (`NameClears`), so a process that `unlink` ends
leaves one too.

**Lost blocks** (`LFSProofs`, the end). `NoBlockIsLost` is NoLostBlock, with the two
hypotheses of the names and a third: the specification is `ServerSpec`, in which callers
write only to allocated inodes, as the handlers do. That every marked block has an owner
(`AllUsed`) is not inductive: `create` would lose what a free inode still points to, and
`unlink` what a directory has behind its size, as it does after a gap. `Accounted` says
that there is neither (`Bare`, `Snug`; for files `Tidy` says the same), `BlocksKept` that this
is so in memory, and while `write` runs also on the disk, to which a write that fails goes
back. What a call decides is spelled out once in each of `CreateCases` and `UnlinkCases`.

**Other names** (`NameSpaceProofs`). `OtherNamesAreKept` is OtherNamesStay: not between two
calls but in every state of one, so the lemma on a decision (`PlanCarries`, from
`CreateCarries` and `UnlinkCarries`) speaks of any mix of old and new blocks (`Between`), read
with the old inodes and with the new. `Carried` says what a directory has to show in all of
these: each name with its inode, but for the name of the call. `WorkCarries` makes of that the
invariant `OthersKept`. `FreeAreDull` is in it because `create` writes the bitmap before the
inode: in between, an allocated inode still is what its last owner or mkfs left. Hence a
hypothesis besides those of the names, that mkfs leaves no directory with pointers in the inodes
it does not set, as in the runs (`CleanStack`); what lookup finds through stack bytes the
code does not say.

**Names** (`NameSpaceProofs`). `TreeOfNames`: a file system that implements NameSpace has
names that make a tree. That no directory is below itself is not a matter of one step
and one place: the invariant says there are depths that grow along names, and `Make`
extends the depths it is given to the new inode.

**One step for each call** (`NameSpaceProofs`, the end). `CallsAreOneStep` is
ImplementsNameSpace, with the hypotheses of the names, and
`CallsAreOneStepInSmallDirectories` without `NoGap` where it need not be assumed. A call
makes many block writes and `NameSpace` one step, the last; so `TreeKept` says of the ones
before it what they will make of the tree on which the call began. `CreateMay`, `UnlinkMay`
and `KeepsTree` are the changes the calls may make, `Promised` says that the blocks to come
(`Ends`, as above) show one, and `CreateDoesAsPromised` and `UnlinkDoesAsPromised` that what a
call decides does: `Carried` gives the names it is not about, `Named` and `Without` the one it
is about, and that an unlink never loses a directory with names in it is `UnlinkSpares`.
Bodies are another matter, since `write` changes them as it goes: `FilesOfTree` says that the
other files hold what they held (from FilesUntouched), `BeingWritten` that the file being
written stays as long as it was until the call is through. Then `PromiseIsKept` makes one of the
steps of NameSpace of every return. `CallsKeepTheTree` puts it together with `TreeOfNames`.

**Layout** (`MkfsProofs`). `LayoutIsRoomy` is arithmetic, for every int of inodes and
blocks whose table has less bytes than an int counts; it also says when `total_blocks` is
the number of blocks and that it is negative otherwise. `MadeIsRoomyHolds` follows the
writes with it: an image reported as made has every block of the layout if their number
is an int (`MkfsInv`), and ends with the root directory if not (`Skipped`: the loop clears
nothing, and the last of the four writes behind it is the highest).

**Requests** (`GunrockProofs`). ReadAsSent is about the end of the message; the
inductive invariant `ReadSoFar` says, for each part the parser is in, what `http`
holds of `sent`: so much of the path, so many of the fields and so much of the
current one (`InPath`, `InName`, `InValue`, `AtEnd`, `InBody`, `Whole`). `Kept` is why
it works: the last field is still in `m_field` and `m_value` while its successor's
name begins, so what counts is the list after `AddHeaderField`. There is one lemma for
each callback; `Requests` may be any set of messages. `DescriptorsAreAccounted` and
`GunrockIsTyped` have one case for each action. `SuccessIsTheStores` rests on ReadAsSent:
the service was chosen by the path that was read, and the property is about the path
that was sent. `ServerEndsWithReason` (ServerStays) puts these together: a process that ends in a
service had a PUT or DELETE for the store, by the path that was sent, and descriptors left, by
DescriptorsAccounted; and one that ends while it reads had a message the assertions are
against, because the last header field, even an empty one, leaves the state at VALUE (`LastFieldHeard`).

**What mkfs leaves** (`MkfsProofs`). `MadeIsInitHolds` and `UnfinishedIsSoundHolds`, for
options that `Fits`: one block is enough for each bitmap, as LocalFileSystem is modelled,
and neither the table's bytes nor the number of blocks exceed an int. The invariant `Filling` says how far the writes have come (`Filled`) and what each block may hold by
then; from the layout theorem the regions do not overlap, so a later write leaves the
earlier ones. An image is read back by its super block (`Found`), which is right because
`SuperBlock` is the layout of `UFS` when it fits. UnfinishedIsSound needs two pointers in an
inode: with one, and blocks of two entries, the root of a fresh image has no room for a name.

**Behind the server** (`DfsProofs`). The handlers share the variables of LocalFileSystem and
must not touch them but by its calls. `HandlersUseLFS` is that refinement: each step of
`DfsSpec` is a step of `Spec` or leaves the image and the call alone. `ServedImageIsKept`
is what follows: what is proved of LocalFileSystem holds of the image behind the server.
`RefusalsChangeNothing` is RefusedChangesNothing: the invariant `Handled` says of a PUT
that while no component has been made the image is the one from before the request,
and that once one has, `put` is in a directory it has made itself, in which there is only
`.` and `..`, so that it finds no file in its way and does not answer 409. That is
the reason, too, that the property is about paths that only go on (`Onward`): `..` leads
out of the new directory again (section 5).

**Two processes** (`SharedImageProofs`). `BystanderIsKept`. Races break nearly every invariant
of LFSProofs: blocks are shared, bits are lost, names lead nowhere. What is left is
`PathKept`, that nobody breaks the way to the file: the root's first block and the
file's block are marked and only the root and the file point to them (`PtrsOK`), the
root and the file are what they were (`TableOK`), the first three entries of the root stay,
and no entry anywhere gives a name that is asked about to either (`CellOK`). All of this
is said of the image, and again of whatever a process remembers of it, as soon as it
has read it, and of the blocks it is about to write (`MemOK`, `WritesOK`, `SeenOK`): a write
back of old data puts back data that keep the path, too. Each of the reads, decisions and
writes has its lemma. The hypothesis `NoForgedEntry` says that no 32 bytes of a file or of
the heap spell a directory entry for the root or the file under another name: two
processes can put the text of a file into a directory, and unlink would then believe it.
The invariant was checked by TLC on the instance of the run.

**A process that is alone** (`SharedImageProofs`, the second part). `AloneActsAsLFS` is
AloneAsLFS, for any image and any number of calls: LocalFileSystem may let a call read and decide in one
step, as long as no other process has begun a call. The mapping (`pcL`, `jobL`, `pendingL`,
`memL`, `kL`) hides a call that has only read, and shows a `create` as decided when it has
made the block of a new directory. `AloneInv` is the invariant it needs: what the process
has read so far is what the image holds (`CreateUpToDate`, `UnlinkUpToDate`,
`WriteUpToDate`, one clause for each place in the call), and the table of inodes is whole up
to the region being read (`ReadUpTo`). It says so of the suspended process, too, when it is
the one that is alone. The decisions then agree (`DecideUnlinkSimulates`,
`DecideCreateSimulates`). What is not obvious is `create`, which writes the first block of a new
directory before it looks for a place in the parent. `LinkInTwo` says that the plan
LocalFileSystem makes for both is that block and then the plan for the entry alone, and
`LinkByBlocks` that the place depends on the blocks of the image and on nothing else of it: the
bitmaps and inodes are those in memory. There is one lemma for each step of
SharedCall; TLC checked the invariant on the instance of the run.

Only model-checked: liveness and whatever else needs ENABLED, which the prover does not
do; `DamageConfined`; of the handlers OtherPathsKept,
KeepsServerSpec, DeletedIsGone and ListingAgrees, which rest on the names in a directory;
Strings, since what a loop computes for every input needs induction over data.

## 5. What the runs say about the code

- A directory's size never shrinks by an entry, and shrinks by a block's worth when a
  block becomes empty. From this follow LFSHidden; that a directory that was ever used
  is refused as not empty for ever, and so is, since its size counts `.` and `..`, an empty one
  a handler is asked to delete; and, in the build without sanitizer, names that `create` reports and
  `lookup` does not find, names that `unlink` reports gone and leaves, and a directory
  that is removed while it still shows a name. (Put CreatedIsFound or AbsentForUnlink
  in LFSAbort.cfg with `Asan = FALSE` to see the first two.)
- In the default build `unlink` ends the process whenever the last block of the directory is
  partly filled and is written back (LFSAbort). If an earlier block has been written by then,
  the name is gone and its inode stays allocated, without a name.
- With crashes the names are not safe: a process that dies in `create` after the directory
  block leaves a name for a free inode, which a later `create` gives to another name as
  well; so does one that dies in `unlink` before the inode region. No document promises otherwise, so this
  is not among the violations. DamageConfined says how far it goes, and `TreeShape` is
  stated for runs without crashes.
- A PUT that is repeated after such a crash finds the name, and behind it an inode that was
  never written. If its bytes are 0 its type is that of a directory, `write` refuses to
  write to it, the file is never stored, and each attempt is answered with 200, as in DfsStored.
- `lookup` passes over entries whose inum is 0, the root's number, so `.` and `..` of the
  root are not found; `get` leaves out the same entries and nothing else, so listings of
  other directories have `.`, `..` and a blank line for each removed name. `ListingAgrees`
  says that the names themselves are listed right.
- `put` and `del` never report a failure of the file system (DfsStored), and yet a request
  that is refused has not changed anything (RefusedChangesNothing), if its path only goes on:
  `put` refuses when it comes upon a file, and there is none in a directory it has just made.
  A path that comes back through `..` is another matter: with a file `n1`, PUT of
  `/ds3/n2/../n1/x` makes the directory `n2` and is then refused with 409. Nor does a request that stops in
  the middle, for want of space or with its process, touch another path (OtherPathsKept).
- Two processes on one image can lose each other's names, give a block to two files and
  leave a name for a free inode. What survives is what neither is about (BystanderKept),
  because each writes back what it read of it.
- `mkfs` empties the file before it looks at its options. 2^24 inodes make
  `total_inode_bytes` negative, 2^25 make it 0: then the inode region has no block, and
  the root directory is written over the table of an image that looks made. The sum
  `total_blocks` wraps, too: with `-d 2147483647 -i 32` it is negative, no block is cleared,
  and `mkfs` returns 0 with an image that ends with the root directory, without the data blocks its
  super block promises. MadeIsRoomy says that there is no third way: with a table and a
  number of blocks that fit, everything is there.
- A char from 128 on is negative; WwwFormEncodedDict prints it in hexadecimal with all its
  leading f's, and the buffer keeps the first three of them. A Base64 text such as `AA=`, with one of
  two `=` missing, is reported one byte longer than what is written. `endswith` is true of a suffix one character longer than the text,
  and the constructor of FileService never comes to its test for an empty
  directory when it is given nothing but slashes.
- `ds3cp` tests `writtenBytes < -1`, so that it does not report -1, -ENOTENOUGHSPACE.

## 6. Limits and assumptions

- LocalFileSystem: one block for each bitmap and one step for its write. Images of `mkfs`
  with more than 32768 inodes or data blocks have more. Mkfs has any number of them.
- Sizes in whole cells. A file of some bytes less is like the next whole cell, since the code
  compares sizes only in blocks.
- `StackInodes` has no pointer into the data region (part of `LFSAssumption`) and one of the
  two types: stack bytes could by chance be a small block number, and then a
  write to the unallocated inode would use it.
- A directory that grows past `direct[]` ends the process; the code reads the bytes behind the
  array.
- Errors of the operating system (open, seek, short write) are crashes.
- SharedImage: two processes; the blocks of a directory are read in one step, and the
  inodes write() reads once more are read with the write of the data bitmap. A transaction
  of the server is not in it: the handlers have none, and a rollback would put back blocks the
  tool has written since.
- Requests the parser accepts, with a body of a given length. No `Upgrade` header (it
  ends a message as CONNECT does), no query or fragment in the path (`fragment_cb` is an
  assertion), no chunked bodies; malformed input, on which the parser stops and `onRead`
  may fail an assertion, is not enumerated.
- Gunrock has the status of an answer, not its text, and not the image.
- Strings: `sscanf` of an escape takes two hexadecimal digits; the white space, signs and `0x`
  it also accepts are left out. `base64ToBytes` of the empty text leaves the length unset.

**Not modelled.** The HTTP client and its responses are linked and used by nothing; dthread
logs; simple_client is an example; static and the test images are data; MySslSocket and
`writeChunk` are called by nothing in the server. FileService reads files of the host.
ds3ls, ds3cat and ds3bits read and print.

## 7. Plan

Done: Disk with its abstraction and proofs; LocalFileSystem, the proofs of ownership,
contents and names, its abstraction; damage by crashes; two processes on one image, with the proof of
what survives and that a process alone is LocalFileSystem; mkfs with the proofs of its layout and of what it leaves; the handlers, with
the proof that they keep what LocalFileSystem promises; the server loop with its proofs; the
text functions.

Next, in this order:

1. The proof of KeepsServerSpec, from what is proved of the names.
2. `Server`: Gunrock and DistributedFileSystemService composed, so that `Outcomes` becomes
   the handler itself, a lost answer and the client's retry act on the image, and a
   process that ends in a handler is restarted on what it left.
