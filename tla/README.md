# Verification of ARMLivingObjects

ARMLivingObjects is a Smalltalk virtual machine: a bytecode interpreter in C
(`src/src/c_vm`) and in ARM assembly (`src/src/arm`), a bootstrap compiler and
primitives in C (`src/src/c`), and a class library in Smalltalk
(`src/src/smalltalk`).  This directory holds TLA+ modules that model the parts
whose correctness depends on long or unlucky sequences of events, TLC
configurations that check them on small instances, and proofs that TLAPS
checks for every instance.

## 1. Inventory

| Component | State it keeps | Operations | Talks to |
|---|---|---|---|
| Protected blocks and signals (`interpret.c`) | the C stack of nested `interpret()` calls; `current_exception_handler`, `current_ensure_frame` and their `previous` chains of `jmp_buf`s | `on:do:`, `ensure:`, `signal`, normal end, unwinding | transactions (each is also an ensure frame) |
| Transactions (`interpret.c`, `txn.s`) | `current_transaction_log_frame`, an on-stack log of triples | `atomic:`, `durable:`, `readOnly:`, logged reads and stores, commit, abort | heap, journal, dirty pages |
| Durable journal (`primitives.c`) | an append-only file of framed, checksummed commits | append + `fsync`, replay, clear | durable commit, restart, checkpoint |
| Checkpoint and restart (`interpret.c`, `checkpoint.c`) | an image file of pages with tables and checksums; a temporary file | incremental checkpoint, validation, restart of a global's value | object memory's dirty pages, journal |
| Object memory (`object.c`) | bump pointer; per page: used bytes, first and covering object, dirty, state, reusable | allocate, release page, mark and clear dirty, enumerate | checkpoint, collector |
| Garbage collector (`gc.s`, `interpret.c`) | from- and to-space, tenured space, remembered set | copy, scan, retry a failed allocation, promote, write barrier | every primitive that allocates |
| Frames and contexts (`frame.c`, `interpret.c`) | stack frames, heap `Context`s made on demand | activate, return, non-local return, materialise a context | collector, blocks |
| Method lookup, symbols (`lookup.c`, `primitives.c`) | method dictionaries, symbol table | lookup along superclasses, intern | interpreter loop, compiler |
| Bootstrap compiler (`bootstrap_compiler.c`) | token stream, chain of scopes, literal and block tables; the classes and the Smalltalk dictionary of the image | tokenise, parse, generate bytecode; define and attach classes, install methods | object memory, symbols, lookup |
| Class library, Smalltalk compiler, SUnit (`smalltalk/*.st`) | ordinary objects | programs that run on the machine | everything above |
| Tools (`tools/*`, `smalltalk_tool_support.c`) | open documents | LSP server, stress drivers | the machine |

The machine is single-threaded.  What is hard in it is not the interleaving of
threads but (a) `longjmp` over C activations that own frames in global chains,
(b) logs that must be all-or-nothing whatever leaves the block, (c) a crash or
a failing system call between any two writes of the journal or the checkpoint,
(d) metadata (dirty marks, remembered set, page tables) that must follow every
store, (e) objects that move under C locals.

What makes each component correct:

* *Protected blocks*: a signal never jumps to a dead activation, every ensure
  block runs, the innermost matching handler takes the signal.
* *Transactions*: a block reads its own writes; its writes reach the heap all
  at once or not at all; nested blocks neither install nor discard anything.
* *Journal, checkpoint, restart*: an acknowledged durable commit and an
  acknowledged checkpoint survive any later crash; an unacknowledged one
  survives whole or not at all; a restart never answers a state that never was.
* *Object memory*: live objects never overlap; every page that differs from
  the last image is dirty; enumeration visits each object once.
* *Collector*: exactly the reachable objects survive, with the same graph.
* *Frames*: `return` and non-local return reach the sender the program means.
* *Lookup, symbols*: the nearest method; one symbol per string.
* *Compiler*: after a load that answers success the methods of the file are the
  ones that run; slots in compiled code are the slots of the frame or instance.
* *Arithmetic*: no result wraps round; a primitive fails only where it must.

## 2. Modules

| Module | What it is |
|---|---|
| `Tagged` | tag bits and SmallInteger encoding (`tagged.c`, `vm_defs.h`) |
| `TxnLog` | the log of triples and the store it is applied to (`txn.s`) |
| `AtomicStore` | abstract: what the three transaction selectors promise |
| `ProtectedBlocks` | `on:do:`, `ensure:`, signals and transactions of one interpreter |
| `MCProtectedBlocks` | TLC instances |
| `ProtectedBlocksProofs` | its invariants, and that it implements `AtomicStore`, proved |
| `DurableStore` | journal, incremental checkpoint and restart of one machine that crashes |
| `MCDurableStore` | TLC instances |
| `ObjectMemory`, `MCObjectMemory` | allocation, page tables, release and reuse of pages, the walk, the image passes (`object.c`) |
| `Activations` | abstract: what calls, returns and `^` promise a program |
| `Frames`, `MCFrames` | words on one stack, frame pointers, contexts, nested `interpret()`s (`frame.c`, `interpret.c`) |
| `Collector`, `MCCollector` | the copying collector and the way the interpreter roots, retries and relocates (`gc.s`, `interpret.c`) |
| `ClassLoader`, `MCClassLoader` | from a source file to classes, methods and globals (`bootstrap_compiler.c`, `lookup.c`, `primitives.c`) |
| `BlockScopes` | the slots of variables in nested blocks: compiler against machine |
| `WordArithmetic` | SmallInteger and Character primitives at the width of a word |
| `DurableStoreProofs`, `ObjectMemoryProofs`, `WordArithmeticProofs` | the invariants of these modules, proved |
| `FramesProofs` | the invariants of `Frames`, and that it implements `Activations`, proved |
| `CompilerProofs` | the invariants of `ClassLoader` and of `BlockScopes`, proved |
| `CollectorInvariants` | the inductive invariants of `Collector` |
| `CollectorProofs` | that they hold, and that collections leave no reference behind, are not seen and keep no garbage but what strays lead to |
| `InductionLemmas` | minima, maxima, induction over the natural numbers and recursions along them, and parts of sequences, for the proofs |

`ProtectedBlocks` extends `TxnLog`, which extends `Tagged`, and instantiates
`AtomicStore` with a refinement mapping.  `DurableStore` stands alone: it takes
a durable transaction where `ProtectedBlocks` leaves it, at the end of its
block, and follows the same commit onto the disk.  `DurableFails` and
`StartCommit` of `ProtectedBlocks` are the two outcomes that the steps
`header` to `install` of `DurableStore` have.

`Frames` instantiates `Activations` with a refinement mapping.  The other
modules meet at shared code rather than by composition: `ObjectMemory` has the
pages whose dirty marks `DurableStore` relies on; `Collector` has the frames of
`Frames` reduced to the slots a collection reads and writes, and the chains of
`ProtectedBlocks` reduced to the objects they hold; `BlockScopes` takes the
frame of a block apart that `Frames` treats as given.

### 2.1 `ProtectedBlocks`

Every block primitive calls `interpret()` recursively, so `stack` is the C
stack: one record for each open primitive, named for the block that its
`interpret()` runs.  The program is arbitrary: in any state the running block
may read, store, open a protected block, signal, or end.

| Code | Model |
|---|---|
| `current_exception_handler` and `previous` | `handlers`, depths in `stack`; 0 for a frame whose activation a `longjmp` discarded |
| `current_ensure_frame` and `previous` | `ensures`, depths in `stack` |
| saved `previous` in a C local | `previous` of the activation |
| `current_transaction_log_frame` | `txnFrame`, 0 for NULL |
| the `txn_log` argument of `interpret()` | `logged` of the activation |
| the on-stack log | `log`, a sequence of triples |
| the index of the loop of `_txn_commit` | `installed` |
| `longjmp` | `Resume` and `Abandon` |
| SIGTRAP, i.e. `halt` | status `trapped`: the process is over |
| a write past the log's end, a jump through a dead frame | status `undefined`: nothing is said about what follows |

The primitive of `on:do:` is `OnDo`, `EndOnDo` and `PropagateToHandler`; that
of `ensure:` is `Ensure`, `EndEnsure`, `EndPlain`, `PropagateToEnsure` and
`EndUnwind`; the three transaction selectors are `BeginTransaction`,
`JoinTransaction`, `EndReadOnly`, `DurableFails`, `StartCommit`, `CommitEntry`,
`FinishCommit` and `PropagateToTransaction`.  `committed` is a history
variable: the heap as it would be without the open transaction.

Abstractions.  `handlesSignalClass:` is a relation on classes (it is a send in
the code, to a method without side effects).  Arguments and results of blocks
are left out, and so is the non-local return out of a protected block.
Word and byte slots are told apart, with the tagging and the truncation to
eight bits that a byte triple goes through, because the two commit paths differ.
The collector moves no object here.

### 2.2 `DurableStore`

`pc` is the next system call of the primitive that runs.  An object is its
offset in the heap; it has one field and lies on the page `PageOf` gives it.

| Code | Model |
|---|---|
| magic, count, body and checksum written by `txn_log_append_fsync` | a `Frame` that is a `stub`, `partial` or `whole` |
| `fsync` of the journal | `synced`, the frames that a power loss keeps |
| `rename`, `fsync` of the directory | `replaced`: older images that a power loss may bring back |
| `unlink` of the journal, never synced | `unlinked`: journals that a power loss may bring back |
| page bytes and page checksums of an image | `words` and `sums`: a checksum is the content it was computed over, so it never collides |
| pointers that become offsets and back | `encode_durable_log_value`, `decode_durable_log_value` |
| load, validate, replay | `Restart(image, journal)`, a function of the files: a restart answers one global of a loaded copy and leaves the running heap alone |

Three things end a process: a failing journal write (`AppendFails`; the machine
traps), `Kill` (the operating system keeps the files as they are) and
`PowerLoss` (what was not synced may be gone).  A failing call in a checkpoint
makes the primitive fail and the process goes on (`CheckpointFails`).  A new
process bootstraps `InitialHeap` with all pages clean (`Boot`).

`acked` and `expected` are history variables.  `acked` holds the place and the
content of every acknowledged commit since the last checkpoint.  `expected` is
the set of heaps that a restart may answer while every store since a valid
checkpoint was durable: one, or two while a commit is under way; it is `{}`
where the code promises nothing.

Assumptions about the file system (external): a power loss takes a suffix of
the unsynced part of an append-only file; `fsync` of the new journal also
makes the removal of the old one permanent; `rename` is atomic.

Abstractions.  Objects have equal size and one field and do not cross pages.
There are no free pages: `om_release_page` has no caller outside the tests.  A
durable transaction without stores is left out.  The commit of an `atomic:`
block is a sequence of `Store`s here.

### 2.3 `ObjectMemory`

The bump pointer, the units of the heap and one row of tables per page:
`om_page_used_bytes`, first and covering object, state, reusable.

| Code | Model |
|---|---|
| `om_alloc` | `om_alloc`: reuse of a released page first, then the bump pointer, with the gap that keeps small objects on one page |
| `om_release_page` | an action under `MayRelease` |
| `om_next_object` and its kin | the walk, as the objects it visits |
| the image passes of `object.c` and `interpret.c` | which slots each of them converts |
| `om_mark_address_range_dirty` | the pages a store marks |

`MayRelease` is what the client must know: the page holds no live object and
shares no object, live or dead, with another page.  `om_release_page` has no
caller outside the tests, so this is the weakest precondition under which the
tables stay sound, not something the code looks at.  The three header words are one unit.

### 2.4 `Activations` and `Frames`

`Activations` is a stack of activations with variables and operands of their
own, and closures that know their home.  `Frames` has what the machine has:
one stack of words, `fp`, `ip`, `bytecode_base`, and `calls`, the nested
`interpret()`s with the primitive that waits in each.  A program is any path
through `Program`, the bytecodes a code unit may have at each place.

`Chain` is the walk along the saved frame pointers that a `^` and
`ensure_frame_context` make.  As an operator it stops where a pointer does not lead
down the stack, so that it is defined in every state; that it never stops early is
part of what is proved (`ChainFacts`).

The abstraction maps the chain of frames, across the `interpret()`s, to
activations; `id`, `home` and `homeId` are history that the mapping uses.
A block may outlive its home.  For a `^` whose home is gone `Activations` has
`CannotReturn`, which sends `cannotReturn:`, and nothing else.  The code does
otherwise when the home left a context behind (deviation 10): the value goes to a
caller of the block, or the interpreter resumes at a field that is no address and
the model stops.  `Implements` names these steps, `DeadHomeReturn`, as the one
exception to the refinement and says nothing of what they do; `ImplementsStrictly`
is the refinement without the exception, and it fails.

`Uses` opens three more behaviours of blocks with `^`, which no run allows
because the code leaves the abstraction in each: `"nested"` (the `^` is in a
block made by a block), `"protected"` (its home belongs to an outer
`interpret()`), `"contextless"` (its home is running but has no context, because
there is no context class or no memory for one; `cannotReturn:` is sent all the
same).

Abstractions.  Saved ip, saved fp, method, flags and context are one word, so
that `required_words`, temporaries and six, is temporaries and two.  Programs
send a block as many arguments as it takes.  Collections between steps are
`Collector`'s, signals are `ProtectedBlocks`'.  `frame_return`'s branch into a
sender context (`frame.c:191`) is reached from tests only; `BC_HALT` is only in
host code.

### 2.5 `Collector`

An allocation is a `job` with stages; when it fails, `gc` goes through
gathering the roots, copying them, scanning the to-space object by object,
exchanging the spaces and writing the roots back by position, and the job is
tried again.  What a primitive holds in C locals meanwhile is in `calls`.

`Uses` opens the program behaviours one at a time (calls, object arguments,
allocation inside `ensure:`, closures, young objects in tenured ones), `Watch`
says which references `NoStaleReference` and `CollectionsInvisible` look at.
Whether the running method lies in a space that moves is chosen at the start
among `CodeMoves`; `"young"` lets such a method make calls and closures, too.
The passing runs watch what the code does keep: frame slots, handler and
ensure chains, log entries, and, where code moves, the running `interpret()`'s
ip and class table.

Abstractions.  A tagged value is one value.  The code leaves out the words of a
frame that are no pointers when it gathers roots; `StackLocs` lists them, and they
come back as they went.  For a method with temporaries the loops over a frame's
words lose their bounds, which `.Lgcss_add_slot` overwrites with the words it reads
(`gc.s:570-621`): how far they run depends on the values of tagged words, saved
`ip`s and frame pointers, which the model does not have.  They still list every
temporary and operand; what else they list is any of the frames' arguments
(`Overscan`) and strays, words that are no references of the program.  A stray
outside the from-space is left alone, so that a collection chooses the others as
any sequence of up to `MaxStrays` addresses in the from-space (`Strays`): of an
object, live or not, of the inside of one, or of free room.  A stray that leads to
no object makes the collection `wild`; what the others have become is `kept`, a
history variable.  C globals that
name classes and symbols refer to memory that the collector does not move.  The
payload of a signal held in a local of the unwinding `ensure:` is unrooted like
the locals of deviation 14 and is not modelled separately.

### 2.6 `ClassLoader`

A call of the host is a record with a stage: `Load` reads the file, `Define`
defines the classes of the preamble, `Parse` splits the chunks, `Install`
compiles and installs one method, `Refuse` and `Answer` end the call.  `image`
is the rest of the image: room, symbol slots, and the Smalltalk dictionary with
its array of associations.  A method is the names it mentions and what they were
resolved to: fields, associations, and other literals.

| Code | Model |
|---|---|
| class bindings, `bc_active_class_bindings` | `call.bound`, `active` |
| `bc_lookup_class_named`, `bc_global_association_oop` | operators of the same names |
| exclamation marks | segments, paired up by `bc_parse_method_chunks` |
| `om_alloc` answering NULL | `room` is used up |

Abstractions.  Names in nested blocks count as names of their method, and blocks
are not materialised one by one (`bc_build_block_literal_array`).  `String`,
`Array` and `Association` are always found.  `room` counts objects, not bytes.
Subclasses of `Class`, whose five slots have no names, are in no run.

### 2.7 `BlockScopes`

A state is a nest of scopes in which the innermost one runs: `scopes` is the
compiler's chain of `CgState`s, `words` the temporaries of the running frame,
each holding the variable it is meant for.  `Enter` compiles a block, makes its
closure and activates it.  The slots are computed by the compiler's rules, the
words by the machine's.  Variables have different names: shadowing, where
enclosing arguments are found before enclosing temporaries, is left out.
`PlainNestsAgree` is `SlotsAgree` for nests whose blocks take no arguments.
Closures copy words, so an assignment to an outer temporary inside a block is
not seen outside it; the module says which word is meant, not who sees it.
`ScopesInit`, `ScopesNext`, `ScopesSpec` and `ScopesTypeOK` have their long names so
that `CompilerProofs` can extend the two modules of the compiler.

### 2.8 `WordArithmetic`

`stack` has the words, `values` what a programmer takes them for.  A primitive
that fails leaves both and `MethodBody` runs; what the program makes of the
error is any SmallInteger.  A send finds the primitive in the class of its
receiver, so the SIGTRAP for a receiver with the wrong tag is never reached.
`asCharacter` does not check its receiver; programs send it to code points only.

## 3. Runs

| Run | Checks | Result |
|---|---|---|
| `protected_blocks_control` | `TypeOK`, `EnsureChainSound`, `HandlerChainSound`, `EnsureNeverSkipped` | hold |
| `protected_blocks_memory` | `LogInScope`, `InstalledPrefix`, `RefinesAtomicStore`, `SignalLands`, `CommitEnds` | hold |
| `durable_commits` | `TypeOK`, `AckedInJournal`, `RestartAnswersHeap`, `ImageSurvives` | hold |
| `object_memory_pages` | `TypeOK`, `LiveObjectsIntact`, `WalkFindsObjects`, `CheckpointConvertsAll`, `ImageRoundTrip`, `StoresMarkTheirPages` | hold |
| `frames_calls` | `TypeOK`, `IpInMethod`, `SendersFollowFrames`, `FramesWithinLimit`, `Implements` | hold |
| `collector_roots` | `NoStaleReference`, `CollectionsInvisible` | hold |
| `collector_closures` | `TypeOK`, `CopiesSucceed`, `OutOfMemoryIsReal`, `CollectionsInvisible` | hold |
| `loader` | `TypeOK`, `LoadTakesEffect`, `FieldsMatchLayout`, `ReferencesFollowGlobals`, `GlobalsAreWhole` | hold |
| `scopes` | `TypeOK`, `OffsetIsCopied`, `PlainNestsAgree` | hold |
| `arithmetic` | `WordsAreExact`, `FailuresAreReal` | hold |
| `durable_torn_writes` | `TornWritesIgnored` | violated |
| `collector_args` | `NoStaleReference` | violated |

Run one with `tlc -config ProtectedBlocks_control.cfg MCProtectedBlocks`; the
configuration and the module of every run are in `PROJECT.json`.

### 3.1 What holds

* Under every nesting of `on:do:`, `ensure:` and transactions, normal ends and
  signals the chain of ensure frames is exact, and no `ensure:` block is skipped.
  The chain of handlers holds every running `on:do:` in order.  It is exact while the
  program runs and no ensure block is run by a signal.  While one is, dead frames lie in
  it between the `on:do:`s that the block opened and those around the `ensure:`, and
  when the signal goes on they are at its head (`HandlerChainSound`).  So the outer
  ones are then reached through memory that is gone: deviation 23.
  The control run leaves out the memory (no slots) and reaches
  depth five: enough for a handler in an ensure in a transaction in a handler,
  with one block above that is abandoned.
* The log is an all-or-nothing overlay.  The memory run has one word slot, one
  byte slot, a byte value and one that is not a byte, room for two triples
  (two to the same slot, or one each; the third overflows), and depth three:
  a transaction, a joined one or an `ensure:` in it, and a block in that.
* A commit ends, and a signal is taken by a block or traps, if no dead handler frame
  can stop its search: an `ensure:` block that still has to run comes before any
  handler, or the handler frames are live and outside the transaction it aborts
  (`Sheltered`).  Other signals may jump to a dead frame (deviation 23).
* A commit that was acknowledged stays in the journal, a restart answers
  exactly the committed heap when only durable transactions changed it since the
  checkpoint, and a checkpoint never leaves the disk without an image.
  `durable_commits` starts with one object and may allocate a second on a page of
  its own, so that a checkpoint copies one page and writes the other.  With one
  object the journal takes two triples, as two frames or as one frame of two:
  the first case in which the order of frames and of triples and a torn frame
  with another behind it matter.  With two objects it takes one triple.  At most
  one rename and one removal are pending, which is what two checkpoints in a row
  need.
* Objects stay apart, and the walk and the two image passes reach every slot:
  four pages of two units, the last one cut short, and objects of one to four
  units, so that an object fills a page, continues over one or two more, or
  leaves a gap.
* Frames implement activations, up to the stack limit, in every step but the return
  of a `^` whose home is gone and left a context (deviation 10): two methods and two
  blocks, one of each with an argument and a temporary, five activations, two
  closures and three contexts.  Five is enough for a method that calls a
  primitive that runs a block that sends a method that calls a block.  Programs
  start with a context class and without one, and three contexts run out half way
  up the stack.
* A collection is invisible to what the code roots.  `collector_roots` has a space
  of four words, so that the second or third object fills it, two frames, a
  handler, an ensure frame and a log entry; its methods have no temporaries.
  `collector_closures` has a space of seven words and two collections, so that a space
  is used again; there the method has a temporary, each collection is given no stray
  or any one, and the running method may move.  With one stray every address of the
  from-space is tried, from live objects and garbage to free room.  Several strays,
  several frames with temporaries and the listed arguments of such frames are left to
  the proofs, which have any number of each.  A copy fails only for a stray that leads
  to no object, and the retry fails only if the live objects and what the stray leads
  to fill the space.
* Loads take effect in every order of the calls of `MCClassLoader`, which take no
  snapshot of the bindings and repeat no selector (deviations 18 and 19), and a load that
  fails at its k-th method leaves an image later loads can build on.  The
  dictionary's array starts with two associations (eight in the code) and grows in
  the middle of a file; the symbol table takes nine names and a file three chunks
  (128), so that both limits are reached; `LoaderRooms` runs over every amount of
  memory from none to more than the calls allocate, so that each allocation fails
  once.
* The compiler and the machine agree about the words in front of a block's
  variables, four scopes deep with up to two arguments and temporaries each, and
  about every variable of a nest whose blocks take no arguments.
* Arithmetic on words of seven bits, with every one of the 32 SmallIntegers as
  literal and three words of stack, never wraps.  Seven bits are the fewest that
  have a sign, a tag of two bits, a tag of four bits and several code points.

Deadlock is not looked for where a program may simply end (it stops at the bound,
returns from its last frame, or traps); the runs of `ProtectedBlocks`,
`DurableStore` and `ClassLoader` look for it.

### 3.2 What does not hold

These are places where the code departs from what its documents, tests or
comments say, or from what a program would expect.  Two are runs and entries of
`findings` in `PROJECT.json`, with the sentence of the repository they
contradict: 5 (`durable_torn_writes`) and 12 (`collector_args`).  The others are
left out of the passing runs, so that these say what holds besides them, and each
is seen by the change of a configuration in brackets.

`ProtectedBlocks`:

1. `propagate_signal` goes to the innermost ensure frame before it looks for a
   handler.  `[[x foo] on: Error do: [...]] ensure: [...]` runs the ensure block
   and loses the inner handler.  [`ProtectedBlocks_control.cfg` with property
   `InnerHandlerWins`]
2. `at:put:` of a byte inside a transaction skips the checks it makes outside one.
   [`ProtectedBlocks_memory.cfg` with invariant `ByteTriplesAreSmallInts`]

and 23, at the end of this list.

`DurableStore`:

3. Allocation marks no page dirty and a new process starts with clean pages, so an
   incremental checkpoint takes stale pages from the older image under checksums
   of the new ones.  [`DurableStore_commits.cfg` with both objects on one page and
   invariant `CheckpointRestores`]
4. The journal has no record of allocations.  [the same with
   `DurableCommitRestored`]
5. Commits are appended behind a torn frame and replay never reaches them.
   [`durable_torn_writes`]
6. The image is replaced before the journal is removed, and frames do not say
   which image they belong to.  [`DurableStore_commits.cfg` with
   `JournalNotOlderThanImage`]

`ObjectMemory`:

7. `om_alloc` reuses a released page although the bump pointer is still in it.
   [`LiveObjectsIntact` with `ReleasesCurrentPage = TRUE`]
8. NULL is encoded as an offset that wraps round, and an image with a free page is
   refused.  [`FreePagesValid`]

`Frames`, with property `Implements`:

9. The home of a block made in a block is that block's frame, so its `^` leaves
   only the enclosing block.  [`Uses = {"nested"}`]
10. A `^` whose home is gone does not send `cannotReturn:` when there is a context;
    it resumes in a caller of the block, or at a field that is no address.
    `tests/test_blocks.c:806` expects "escaped non-local return sends cannotReturn:".
    [`Frames_calls.cfg` with property `ImplementsStrictly`]
11. A `^` out of a protected block unwinds frames of an outer `interpret()` from
    inside a nested one.  [`Uses = {"protected"}`]

`Collector`, from `Collector_args.cfg` with invariant `NoStaleReference` unless stated:

12. Arguments are no roots.  [`collector_args`]
13. Saved ips and the registers of outer `interpret()`s are not relocated when
    code moves.  [`Uses = {"calls", "young"}`, `CodeMoves = {TRUE}`,
    `Watch = {"ips"}`, `SpaceWords = 7`]
14. `ensure:` keeps objects in C locals across a collection.
    [`Uses = {"calls", "ensure"}`, `Watch = {"locals"}`]
15. `BC_PUSH_CLOSURE` uses what it read before a collection.
    [`Uses = {"closure", "young"}`, `CodeMoves = {TRUE}`, `SpaceWords = 9`]
16. The remembered set is filled and never read.  [`Uses = {"calls", "tenured"}`,
    `Watch = {"tenured"}`]
17. The scan of the words of a frame with temporaries clobbers its own bounds.  The
    first loop goes on below `sp` and the second may go up past the frame, as the
    words it meets will have it, off the stack at worst.  Strays become roots: they keep garbage, or
    are taken for objects where none is.  [`Collector_closures.cfg` with the invariant
    that `outcome` is not `"wild"`]

`ClassLoader`, with calls that the run leaves out:

18. A class that is loaded again gets no methods; the old class of the name gets
    them.  [`LoadTakesEffect` with `Snapshot = TRUE` and a class loaded twice]
19. A method that is installed again is never found.  [the same with a class and a
    description of it that repeats a selector]
20. Without a target class, variables are numbered by first use in each method.
    [`FieldsMatchLayout` with `Snapshot = TRUE` and methods compiled before their
    class is known]
21. Allocations whose answer is not looked at.  [`FullMemoryIsReported` with
    `MaxSymbols = 20`]

`BlockScopes`:

22. A block with arguments uses wrong slots for its own temporaries, and blocks
    inside it for everything.  [`SlotsAgree`]

`ProtectedBlocks`, once more:

23. `propagate_signal` longjmps to an `ensure:` or a transaction without restoring
    `current_exception_handler` (`interpret.c:801-806`, `1412-1422`, `1570-1589`), so
    the frame of an `on:do:` inside stays at the head of the chain when its C
    activation is gone.  The signal that goes on from there, or another one raised in
    the ensure block, is looked up through that frame (`interpret.c:809-818`), and if
    its class fits, jumped to: `[[[x foo] on: Error do: [...]] ensure: [...]]
    on: Error do: [...]` reaches its outer handler through dead memory, if at all.
    `plan.md:372` has `ensure:` work "for normal completion and unwinding in the
    current tests"; none of them has an `on:do:` inside the `ensure:`.
    [`ProtectedBlocks_memory.cfg` with property `EverySignalLands`]

`RestartAnswersHeap` holds because `expected` is empty exactly where deviations
3 to 6 bite: after an allocation or a store that is not durable, after a `Boot`,
and when a power loss brings a removed journal back.  `AckedInJournal` says
where the bytes are, not that replay reaches them; that it may not is deviation 5.

### 3.3 Fairness

Only `protected_blocks_memory` uses fairness (`FairSpec`): weak fairness of `propagate_signal` and of
`CommitEntry \/ FinishCommit`.  Both are straight-line C and assembly that wait
for nothing, so once enabled they stay enabled and are taken.  Nothing is
assumed about the program: a block may run forever.

## 4. Proofs

`ProtectedBlocksProofs` proves, for every set of slots, values and classes,
every log capacity and every depth:

* `TypeCorrect`, `EnsureChainCorrect`, `HandlerChainCorrect`, `LogScopeCorrect`
  and `InstallCorrect`: the invariants of the control and memory runs.
  `HandlerChainCorrect` does not say that the chain is free of dead frames, which
  is false, but where they are: only while an ensure block is run by a signal, around
  what that block opened, or when the signal goes on after it;
* `EnsureAlwaysRuns`: the action property `EnsureNeverSkipped`.

`CompilerProofs` proves of `BlockScopes`, for nests of any depth:

* `ScopesTypeTheorem` and `OffsetsTheorem`, whatever arguments the blocks take.
  `OffsetIsCopied` is inductive with `TypeOK`: both sides add the same three
  numbers when a block is entered;
* `SlotsTheorem`, that `PlainNestsAgree` holds, with no hypothesis on the
  constants.  It is not inductive alone: that the own temporaries follow the
  copied words needs `OffsetIsCopied`, and that the words keep their places when
  they are copied needs that no scope but the method has arguments.  The
  inductive invariant `NestInv` is `TypeOK /\ OffsetIsCopied /\ MethodFromZero /\
  PlainNestsAgree`, where `MethodFromZero` says that the method's scope starts at
  slot 0.  A block with arguments takes the nest out of `Plain` for good; it is
  what breaks `SlotsAgree` (deviation 22).

The last theorem of `ProtectedBlocksProofs` is `TransactionsAreAtomic`: `ProtectedBlocks`
implements `AtomicStore` with `store <- committed`, `overlay <- Overlay` (the
youngest triple of each slot) and `mode <- OpenMode`.  The install loop is a
sequence of stutters and `FinishCommit` is the abstract commit.

`WordArithmeticProofs` proves, for machine words of every width from six bits on
and any range of characters that fits: `ExactTheorem` (`WordsAreExact`) and
`FailuresTheorem` (`FailuresAreReal`).  `IInv == StackInv /\ FailedInv` says that
every word on the stack has one of the four tags and denotes the value computed
beside it, and that a failed primitive left operands it had to refuse.
`WordsAreExact` alone says nothing of the kinds of words that the next primitive
will meet.  The bounds of the overflow tests are powers of two with a symbolic
exponent: `PowerStep` derives `2^(n + 1) = 2 * 2^n` from the number of subsets
of `1..n`, and every bound is written as a multiple of the sixteenth part of the
range of words.

`DurableStoreProofs` proves, for every heap and layout of pages, journals of any
length, and any sequence of commits, checkpoints, failing calls and crashes:
`TypeTheorem`, `AckedTheorem` (`AckedInJournal`), `ImageTheorem`
(`ImageSurvives`) and `RestartTheorem` (`RestartAnswersHeap`).  The invariant is

    IInv == TypeOK /\ HeapInv /\ AckedInv /\ AppendInv /\ RemovalInv /\ ImageInv
              /\ CheckpointInv /\ RunningInv /\ CrashedInv

* `AppendInv` follows the frame that is being appended from `body` over `fsync`
  to `install`: what is acknowledged is whole and synced because of it.
  `RemovalInv`: while a power loss may still bring a removed journal back, nothing
  is acknowledged, so `AckedInv` survives the removal.
* `ImageInv` and `CheckpointInv` follow the temporary file to its name: no image
  has the name before it is synced, and its header and checksums are the live
  heap's.
* `RunningInv` is the heart: if every store since the checkpoint was durable,
  every image that may be there leads, with the committed frames, to the heap,
  and a clean page of the image equals the live one.  In a replay the last triple
  of an object decides; the lemmas about it say that one more whole frame has the
  effect of its commit (`ReplayCommit`), that a torn frame at the end has none
  (`ReplayTorn`), and that replaying a journal again changes nothing
  (`ReplayAgain`), which is why a crash between the rename of the new image and
  the removal of the old journal is harmless.
* `CrashedInv` is `RunningInv` seen from a machine that is down: whatever
  survives answers a heap that is expected.  It is what makes crashes during a
  restart harmless.

`ObjectMemoryProofs` proves, for every size of the heap and the pages and every
set of object sizes: `TypeTheorem` for any client, and under the hypothesis
`~ReleasesCurrentPage` `IntactTheorem` (`LiveObjectsIntact`), `MarkTheorem`
(`StoresMarkTheirPages`), `WalkTheorem` (`WalkFindsObjects`), `CheckpointTheorem`
(`CheckpointConvertsAll`) and `RoundTripTheorem` (`ImageRoundTrip`).  The
hypothesis is the one the passing run has: a client that releases the page being
filled loses objects (deviation 7).  No function of the system calls
`om_release_page`; the one test that does (tests/test_persist.c:275) releases a
page behind the one being filled.

`LiveObjectsIntact` is not inductive: an object is safe from the next allocation
because the bump pointer is past its end and its pages are not reusable
(`LiveOnHeldPages`), and because a reusable page, which an allocation may take
instead, lies wholly behind the bump pointer (`ReleasedBehind`).  What is said of
the walk needs a second invariant,

    WalkInv == FilledInv /\ TiledInv /\ TablesInv /\ LiveListed

the units that the tables call used are those the bump pointer has passed; the
objects that headers announce, live and dead, tile exactly these units; the first
and the covering object of a page are what the headers say; and the live objects
are among them.  From it follows that the object after one is where
`om_next_object` looks for it, over the gap at the end of a page and over
released pages (`NextIsNext`).  The walk is a recursion along these steps.
`WalkExists` gives it a solution, as the least set closed under the steps, and
an object that no walk reached would have a last one before it that was reached,
whose next it is.  `RoundTripTheorem` follows the loader's own walk, page
by page from the covering object to the used count (`LoadedWalkOfPage`).  An
entry that stands for NULL is a wrapped offset (deviation 8), which ends the walk
because the image buffer fits in the address space.

`FramesProofs` proves, for every program, every size of the stack and the heap and
any nesting of `interpret()`s, `TypeCorrect`, `IpIsInMethod`,
`FramesAreWithinLimit` and `SendersAreCallers` (`SendersFollowFrames`), and that
frames implement activations.  For the first four the
hypothesis `PlainUses` leaves out two kinds of programs: with a `^` in a block that
a block made, or out of a protected block.  Either may unwind frames of an outer
`interpret()` from inside a nested one, after which the saved stack pointer of the
waiting primitive lies beyond words that are gone (deviations 9 and 11): `IInv` is
false then.  Programs may still send `^` to a home that has returned or has no
context.  The invariant is

    IInv == HeapInv /\ StackInv /\ RestInv
              /\ (Running => TopInv /\ FramesInv /\ CallsInv /\ HistoryInv)

* `FramesInv` says of each frame word of the stack, found by its place and not by a
  walk: its caller is the frame below it, its receiver and arguments lie on the
  caller's operands (`CallerOK`); its closure is known through the context slot
  whether that holds a block or a context (`ClosureOK`); its context is no other
  frame's (`LinkOK`) and describes it (`SenderOK`).  That the running frame is the
  topmost (`TopInv`) makes everything above it operands.
* `CallsInv` says where each waiting primitive's saved registers point: its frame is
  the caller of the frame its `interpret()` entered, its saved stack pointer is
  above that frame's temporaries and below the entered frame, and the entries of the
  outer `interpret()`s are not above it.
* `HistoryInv` is what a `^` relies on: frames have different identities, the lowest is
  the host's, and as long as the activation that gave a block its home context has a
  frame, that context is the frame's (`HistoryOK`).  So a home that `interpret.c` finds by
  comparing contexts is the activation the program means, and one that it does not
  find is gone.
* Every bytecode either writes operands (`OwnWords`), enters a frame (`EnterFrame`),
  goes back to a frame that is on the stack (`BackTo`) or gives frames contexts
  (`GrowthStep`); the lemmas about what each of the four keeps (`KeptFrames`,
  `KeptOK`, `GrownFrames`, `GrownCallers`, `GrownLinks`, `GrownSenders`) are shared by
  the actions.
* The walk is a recursion along saved frame pointers.  Since they lead down the stack
  it has a solution (`DescentsExist` in `InductionLemmas`), and since the caller of a
  frame is the next frame word below it the walk visits every frame word of the stack
  (`ChainWhole`).  That is what turns `FramesInv` into properties of the chain, and
  what `LinkOK` and `SenderOK` need when contexts are made for a part of the chain.

`FramesImplementActivations` proves `Spec => Implements` under the hypothesis
`Uses = {}`, which is that of the run: with `"nested"` or `"protected"` the code does not
implement `Activations` (deviations 9 and 11), and with `"contextless"` it sends
`cannotReturn:` although the home runs.  The theorem says nothing of a `DeadHomeReturn`
(deviation 10): of a `^` it says that one whose home runs returns from it, and that one
whose home is gone without a context sends `cannotReturn:`.  The proof goes from the words to the activations
in four layers.

* The frame words of the stack can be listed upwards (`Order(u, l)`, from
  `EnumeratedOrder`); the walk is the list backwards (`ChainOfOrder`), so the j-th
  activation is that of the frame `u[j]`, suspended unless it is the last
  (`ActsOfOrder`).  After this the recursion of `Chain` is not needed again.
* `SameBelow(g)` is what a step has to keep of the frames up to `g`: their fields, but
  for the context slot, their other words, and the calls of primitives that made
  them.  Then their activations are kept (`SameSuspended`), whether the step keeps
  the words themselves (`SameBelowKept`) or gives frames contexts
  (`SameBelowGrown`).
* A step then leaves the stack of activations in one of two shapes: the first `m` of
  them with another last one (`BackInActs`: control is in the m-th frame), or with a
  new activation on it (`NewInActs`: a frame was entered above the m-th).
  `MethodEntered` and `BlockEntered` say which activation a new frame is: its code, its
  home, its arguments among the operands that the caller gives up, its variables in the
  temporaries.  Lemmas on sequences (`TopShapes`, `LocalShape`) turn these shapes into the
  `EXCEPT`s and `Append`s of `Activations`.
* Each action is one of `Activations` or of a few (`StepActs`).  Those that only touch
  operands or make contexts are `Local`; a value that leaves an activation, by a return or by
  `^`, is `DeliversFrom` the frame where it arrives: at the host, in a frame of this
  `interpret()`, or at a primitive that waits, which then pushes it, runs the cleanup
  block or restores the value that waited (`AnswerDelivers`).  An overflow, a trap
  and `BC_HALT` are `Stop`.

`CollectorProofs` proves, for every program, every size of the spaces and any number
of collections, `CollectorTypes` (`TypeOK`), and under the hypothesis `PlainPrograms`
`CopyingSucceeds` (`CopiesSucceed`), `NoStaleReferences` (`NoStaleReference`),
`CollectionsAreInvisible` (`CollectionsInvisible`) and `OutOfMemoryReal`
(`OutOfMemoryIsReal`).
`PlainPrograms == Uses \subseteq {"calls", "closure"}` is what both passing runs satisfy:
programs call and make closures but give the collector none of the references it does
not root, which are the other members of `Uses`.  Without it the conclusions are false:
deviations 12 to 16.  How many temporaries methods have is arbitrary, and with it the
overscan of deviation 17: frames may have their arguments listed and any number of
strays may be.  `CodeMoves` is arbitrary, and so is what `Watch` names.  There are three
invariants, in `CollectorInvariants`.

    BInv == HeapOK /\ HeldIn(Word) /\ StacksOK /\ (inTxn: type)
              /\ JobIn(Word) /\ GcOK /\ (counters, outcome: types)
    CInv == HeldIn(Old) /\ PlainStacks /\ PlainJob /\ StayingOK /\ LogOK /\ Settled
              /\ (gc # NoGc => CopyOK) /\ WildOK
    UInv == Counted /\ CopiesUsed /\ ObjectsUsed /\ Trapped

* `BInv` (`BasicInvariant`) is the type invariant made inductive.  The objects of each space
  tile it (`Tiles`), from its beginning to `free` or to the to-space's free pointer, which is
  why the scan always stops at the beginning of an object.  `StacksOK` orders the depths
  of the `interpret()`s, so that what a primitive takes back from its caller's
  operands is there.  `RootsOK` says that as many roots come back as places wait for
  them, and a pointer where a pointer was; the strays come after them.
* `CInv` (`ReferencesInvariant`) says where references lead.  `Old` is the objects of the
  from-space and what never moves, `Fresh` the copies and what never moves.
  The program holds references to `Old` only, until the spaces are exchanged.  During a
  collection (`CopyOK`) unscanned copies hold references to `Old`, scanned ones to
  `Fresh`, and the roots are what `MovedIn`, one step along the forwarding address,
  makes of what they were gathered from.  `WildOK`: a copy fails exactly for a stray
  that leads to no object, which `gc_copy_object` then leaves as it is.
* `Linked` is why there is always room.  Forwarding addresses lead to copies of the object
  that has them, each copy has exactly one such object, and the words of the forwarded objects
  are exactly as many as the to-space has used.  Since an object that is not
  forwarded is disjoint from them and lies in a from-space of the same size, there is room
  for it (`CopyHasRoom`).
* `CopyAll` is a fold.  `CopyWalk` are its intermediate results, each of which comes from
  the one before in one of four ways (`CopyCases`): the word is no reference into the
  space, it has been copied, it is copied now, or it cannot be.  What holds of copying a
  list is an induction over its length (`CopiedAll`, `CopiedAllGood`); that the fold and the
  other recursions of the module have values is `RecursionExists` in `InductionLemmas`.
* At the exchange the roots are written back by position.  Every place that the stacks
  and chains have is among `CollectOrder` (`OrderFacts`) except arguments, which
  `PlainPrograms` has be tagged, so that nothing keeps an old address.
* `NoStaleReference` speaks of what is reachable in `MaxAllocs` steps; `Met`, what is in
  `Old` or `Fresh`, is closed under the steps of the search (`MetFacts`).
* `CollectionsInvisible` compares the graphs that two such searches find, in the heap before
  and in the heap after a step.  A relation `T` pairs the references that lead to the same
  object: if `T` pairs what is held, and paired references have the same identity and as
  many words, paired again (`Corresponds`), the searches find paired references after any
  number of steps, and the graphs are equal (`ViewsAgree`).  For a step that copies, `T` is
  `NowSame`: the same object at the end of the forwarding address (`MovesCorrespond`).  For the
  exchange it is `Arrived`: a reference and the reference to its copy
  (`ArrivedCorresponds`), with `HeldMoves` for what the program holds.
* `UInv` (`UseInvariant`) is about garbage.  A copy was made for a root or for a word of a
  copy that lies before it (`CopiesUsed`).  After the exchange the copies are all the objects
  there are, and every root is something the program holds or was a stray, so that each object is
  held, `kept`, or referred to by one before it (`ObjectsUsed`).  An object with `k`
  objects before it is then found in `k` steps (`AllReached`) from what is held and
  kept, and there are no more
  objects than have been made (`Counted`, because `Linked` is one to one), so that
  `MaxAllocs` steps reach them all.  Since objects tile the space the sum in
  `OutOfMemoryIsReal` is what is in use (`TotalFills`), and that left no room (`Trapped`).

`CompilerProofs` proves of `ClassLoader`, for every set of files, every order of loads and any
room for objects and symbols: `TypeTheorem`, `GlobalsTheorem`
(`GlobalsAreWhole`) and `ReferencesTheorem` (`ReferencesFollowGlobals`).

    IInv == ClassesOK(classes, ToSet(image.globals)) /\ ImageOK(image, Len(classes))
              /\ Bound(active, Len(classes)) /\ CallOK(call, Len(classes))
              /\ made \subseteq Calls

A reference compiled into a method is an association of the dictionary because
associations never leave it and their keys are never changed (`Unique`, in
`ImageOK`); the dictionary is whole although a load may stop anywhere, because an
association gets its key and its value before it is put in, and the value is a
class that was allocated before.  `Bound` and `CallOK` carry this through the
bindings of the compiler, which outlive the load that made them: a name that they
bind is written to the dictionary when a method refers to it.

The steps of a load are recursive functions and folds (over literals, methods,
chunks of a file).  The provers have no induction over data, but the theorems
here need less than what such a function computes, only that it exists and that its values
have a type.  Both are statements about a set of numbers, and `InductionLemmas`
proves that a set which holds 0 and the successor of each member holds every
natural number (`NatSetInduction`, from the least-number principle
`NatMinimum`, itself from the well-foundedness of `<`): one induction builds the
function from its initial segments, a second one types it.

`LayoutInvariant` and `FieldsTheorem` (`FieldsMatchLayout`) have the hypothesis
`CompiledWithoutNames`: the methods of loads that compile without a class mention no
variables, which is exactly what deviation 20 is about and what the run's loads satisfy.

    LInv == IInv /\ ClassesLaidOut(classes) /\ CallKnown

`ClassesLaidOut` says that superclasses are older than their subclasses (`Shaped`, so that the
recursions up the superclasses have values and can be reasoned about by `HeritageInduction`),
that a class has room for its layout (`LayoutOf`: the variables of the superclass, then its own;
classes that are made later do not change it, `LayoutStays`), that metaclasses have no
variables, and that a method has in the slot of each variable it uses the name of that variable
(`MethodsHold`).  A subclass keeps the slots of its superclass (`SlotInherited`), so what
`class_lookup` finds is right for the receiver's class, however far up it finds it
(`LookupHolds`).

The assumptions are the named `ASSUME`s of the modules: the constants have
their types; `Absent` is no value and `NoClass` no class (`ProtectedBlocks`); a
word has at least six bits, so that a tagged integer and the four tags fit
(`WordArithmetic`); the first heap points nowhere outside itself
(`DurableStore`); a page and an object have at least one unit, and
the heap ends inside the address space (`ObjectMemory`); methods and blocks are
different code units, `MaxPc` bounds their length, and the host's first frame fits
on the stack (`Frames`); the bounds are natural numbers, objects have at most two
fields, and what the program starts with fits in a space (`Collector`); the symbols registered at the start fit in their tables, a
file has at least one segment, and the host binds names to classes that exist
(`ClassLoader`).  TLC evaluates them in every run.

The inductive invariant of `ProtectedBlocksProofs` is

    IInv == TypeOK /\ EnsureChainSound /\ HandlersLinked /\ LogInScope
              /\ InstalledPrefix /\ YoungestExists

No part is inductive alone.  The ensure chain is exact only because nothing
but the topmost activation can be committing (`LogInScope`).  A `longjmp` to
an ensure frame cuts the stack at a depth that `EnsureChainSound` provides, and
the handlers above that depth become dangling; that the ones below it stay
linked needs the ordering conjuncts of `HandlersLinked`.  `DeadHandlersConfined`,
the other half of `HandlerChainSound`, is a second induction on top of `IInv`: the
`longjmp` that leaves dead entries starts an ensure block (kind `unwind`) that
`Separates` the live handlers below them from those above.  The heap equals
the committed heap after an abort because `InstalledPrefix` says that nothing
is installed outside a commit.  `YoungestExists` is what makes the `CHOOSE` of
the backward scan meaningful without an induction over the log.

The proofs go by cases on the actions, with one lemma for each action and
lemmas for what pushing, popping, cutting and grafting the stack does to each
chain.

Only model-checked:

* the liveness properties (fairness is out of the prover's reach);
* of `ClassLoader` `LoadTakesEffect`, which says what a whole load computes and
  holds for the calls of the run only (deviations 18 and 19);
* the violations.

`YoungestExists`, `MethodFromZero` and the inductive invariants are parts of
proofs, not of runs; TLC has checked them on the instances of the runs.

## 5. Not modelled, and the plan

| Next | What it will say |
|---|---|
| `Dispatch` | `oop_class`, `perform:` and `doesNotUnderstand:` |

Not modelled:

* the tokenizer, the expression parser and the emission of bytecodes of the
  bootstrap compiler, `whileTrue:` inlining and cascades: pure functions on text,
  whose hard part is their text;
* the string, symbol, printing and reflection primitives, which read their
  arguments and answer, and the letter and case tests of characters;
* `persist.s`: one pass over a flat image that `ObjectMemory`'s passes replaced;
* the LSP server and the expression tool (one request at a time, input and output
  around the machine), the stress drivers, test support;
* the Smalltalk class library and the compiler written in it: programs, not the
  machine;
* the assembly interpreter loop, a second implementation of `interpret.c`;
* the registration of several object memories and of collector contexts.

Hazards without a property: a transaction log with more than 64 stores (the
model calls the state undefined; no document gives a limit), `fclose(NULL)` when
a temporary file cannot be opened (nothing follows it), a block sent the wrong
number of arguments (an unchecked error of the program), the stale bindings
after a long method header (never read), and a restart that answers an object of
the heap it frees (the tests restart integers).
