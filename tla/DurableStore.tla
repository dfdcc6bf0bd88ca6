---------------------------- MODULE DurableStore ----------------------------
(***************************************************************************)
(* What is on disk and how it gets there: the durable journal              *)
(* (src/c/primitives.c), the incremental checkpoint and the restart        *)
(* (src/c_vm/interpret.c, src/c_vm/checkpoint.c) of one virtual machine    *)
(* that may be killed, lose power or see a system call fail between any    *)
(* two of its writes, and be started again.                                *)
(*                                                                         *)
(* An object is its offset in the heap, 1 for the first, and has one       *)
(* field; PageOf gives the page its bytes are on.  The heap grows by       *)
(* bumping a pointer, so Len(heap) is the number of bytes used.            *)
(***************************************************************************)
EXTENDS Naturals, Sequences, FiniteSets

CONSTANTS
  HeapSize,      \* objects the heap has room for
  PageOf,        \* the page of each object
  SmallInt,      \* values that are not pointers
  InitialHeap,   \* what bootstrapping a virtual machine leaves in its heap
  MaxStores,     \* bound: triples in the journal, for each number of objects
  MaxPending     \* bound: renames, and removals, not known to be on disk

Object == 1..HeapSize

ASSUME SizeAssumption   == {HeapSize, MaxPending} \subseteq Nat
ASSUME BoundAssumption  == MaxStores \in [Object -> Nat]
ASSUME PageOfAssumption == PageOf \in [Object -> Nat]

(***************************************************************************)
(* A live field holds a value or the address of an object of its heap.  On *)
(* disk an address is an offset.  `small`, `object` and `offset` stand for *)
(* the ranges of words the conversions tell apart.                         *)
(***************************************************************************)
Live    == [small : SmallInt] \cup [object : Object]
OnDisk  == [small : SmallInt] \cup [offset : Object]
\* The bytes of a page above the last object.
Blank   == [blank |-> 0]
Words   == [Object -> OnDisk \cup {Blank}]
IsObject(w) == "object" \in DOMAIN w
IsOffset(w) == "offset" \in DOMAIN w

ASSUME InitialHeapAssumption ==
  /\ InitialHeap \in Seq(Live)
  /\ Len(InitialHeap) \in Object
  /\ \A o \in DOMAIN InitialHeap :
       IsObject(InitialHeap[o]) => InitialHeap[o].object <= Len(InitialHeap)

\* A frame of the journal: the triples of one commit, and how much of the
\* frame is in the file: less than magic and count, less than all, or all.
Triple == [object : Object, value : Live]
Part   == {"stub", "partial", "whole"}
Frame  == [entries : Seq([object : Object, value : OnDisk]), part : Part]

\* An image file: the object count of its header, the pages, what the page
\* checksums were computed over, and whether all of it is on disk.
Image   == [used : Object, words : Words, sums : Words, synced : BOOLEAN]
NoImage == [used |-> 0]

VARIABLES
  pc,        \* where the virtual machine is
  heap,      \* its objects
  dirty,     \* its dirty pages
  writes,    \* the triples of the durable transaction that is committing
  temp,      \* the temporary file of a checkpoint
  journal,   \* the frames in the journal file
  synced,    \* how many of them are known to be on disk
  unlinked,  \* journals whose removal is not yet known to be on disk
  image,     \* the image file
  replaced,  \* images whose replacement is not yet known to be on disk
  acked,     \* history: place in the journal and entries of acknowledged commits
  expected   \* history: the heaps a restart may answer if every store since the
             \* last checkpoint was durable, {} if not

disk == <<journal, synced, unlinked, image, replaced>>
vars == <<pc, heap, dirty, writes, temp, disk, acked, expected>>

Steps == {"idle", "header", "body", "fsync", "install",
          "sync", "rename", "directory", "clear", "dead"}

TypeOK ==
  /\ pc \in Steps
  /\ heap \in Seq(Live)
  /\ dirty \subseteq Nat
  /\ writes \in Seq(Triple)
  /\ temp \in Image \cup {NoImage}
  /\ journal \in Seq(Frame)
  /\ synced \in 0..Len(journal)
  /\ unlinked \subseteq Seq(Frame)
  /\ image \in Image \cup {NoImage}
  /\ replaced \subseteq Image \cup {NoImage}
  /\ acked \subseteq Nat \X Seq([object : Object, value : OnDisk])
  /\ expected \subseteq Seq(Live)

Init ==
  /\ pc = "idle"
  /\ heap = InitialHeap
  /\ dirty = {}
  /\ writes = <<>>
  /\ temp = NoImage
  /\ journal = <<>>
  /\ synced = 0
  /\ unlinked = {}
  /\ image = NoImage
  /\ replaced = {}
  /\ acked = {}
  /\ expected = {}

-----------------------------------------------------------------------------
(* Conversions between the heap and the disk. *)

\* Mutant: addresses go to the file as they are.
EncodeNothing(w) == w

\* A pointer into the heap becomes an offset; anything else stays as it is.
encode_durable_log_value(w) == IF IsObject(w) THEN [offset |-> w.object] ELSE w

\* An offset becomes a pointer if it lies in the loaded heap.  One that does
\* not is left alone: a word tagged as an object that points nowhere.
decode_durable_log_value(w, used) ==
  IF IsOffset(w) /\ w.offset <= used THEN [object |-> w.offset] ELSE w

Encoded(entries) ==
  [i \in DOMAIN entries |->
     [entries[i] EXCEPT !.value = encode_durable_log_value(@)]]

\* The pages of the live heap as a checkpoint sees them.
LivePages ==
  [o \in Object |-> IF o \in DOMAIN heap THEN encode_durable_log_value(heap[o])
                    ELSE Blank]

checkpoint_page_count(used) == PageOf[used]

\* The youngest triple for an object, when there is one.
Writes(entries, o) == {i \in DOMAIN entries : entries[i].object = o}
Youngest(entries, o) ==
  entries[CHOOSE i \in Writes(entries, o) : \A j \in Writes(entries, o) : j <= i].value

\* The heap h after the triples have been stored in order.
Overlay(h, entries) ==
  [o \in DOMAIN h |-> IF Writes(entries, o) = {} THEN h[o] ELSE Youngest(entries, o)]

-----------------------------------------------------------------------------
(* Restart: load and check the image, then replay the journal.  It answers *)
(* {h} when it succeeds and h is the loaded heap, {} when it fails.        *)

\* Every page has the checksum the table gives it.
image_checkpoint_validate(img) == img # NoImage /\ img.words = img.sums

Loaded(img) ==
  [o \in 1..img.used |-> decode_durable_log_value(img.words[o], img.used)]

\* Replay reads frames up to the first one that is not whole.
Replayed(j) == {i \in DOMAIN j : \A k \in 1..i : j[k].part = "whole"}

\* A frame that is not whole ends the replay without an error if nothing
\* follows it, and also if its count can still be read: what follows is taken
\* for its body and the checksum fails.  Otherwise what follows is taken for
\* its magic or count and the replay fails, as it does when a triple names an
\* object that is not in the loaded heap.
ReplayFails(j, used) ==
  \/ \E i \in DOMAIN j : /\ j[i].part = "stub" /\ i < Len(j)
                         /\ \A k \in 1..(i - 1) : j[k].part = "whole"
  \/ \E i \in Replayed(j) : \E k \in DOMAIN j[i].entries :
       j[i].entries[k].object > used

\* Mutant: an older frame wins over a younger one.
ReplayOldestWins(loaded, j) ==
  LET touched(o) == \E i \in Replayed(j) : Writes(j[i].entries, o) # {}
      frame(o) == CHOOSE i \in Replayed(j) :
                    /\ Writes(j[i].entries, o) # {}
                    /\ \A m \in Replayed(j) : m < i => Writes(j[m].entries, o) = {}
  IN  [o \in DOMAIN loaded |->
         IF touched(o)
         THEN decode_durable_log_value(Youngest(j[frame(o)].entries, o), Len(loaded))
         ELSE loaded[o]]

txn_log_replay(loaded, j) ==
  LET touched(o) == \E i \in Replayed(j) : Writes(j[i].entries, o) # {}
      frame(o) == CHOOSE i \in Replayed(j) :
                    /\ Writes(j[i].entries, o) # {}
                    /\ \A m \in Replayed(j) : m > i => Writes(j[m].entries, o) = {}
  IN  [o \in DOMAIN loaded |->
         IF touched(o)
         THEN decode_durable_log_value(Youngest(j[frame(o)].entries, o), Len(loaded))
         ELSE loaded[o]]

Restart(img, j) ==
  IF image_checkpoint_validate(img) /\ ~ReplayFails(j, img.used)
  THEN {txn_log_replay(Loaded(img), j)}
  ELSE {}

-----------------------------------------------------------------------------
(* Stores of the running program. *)

\* A program can store values and addresses of objects that exist.
Storable(w) == IsObject(w) => w.object \in DOMAIN heap

\* Bound: the triples of the frames in the journal.
Logged ==
  LET Upto[i \in 0..Len(journal)] == IF i = 0 THEN 0 ELSE Upto[i - 1] + Len(journal[i].entries)
  IN  Upto[Len(journal)]

\* om_alloc, and the code that fills the new object: no page is marked.
Alloc(w) ==
  /\ pc = "idle" /\ Len(heap) < HeapSize /\ Logged <= MaxStores[Len(heap) + 1]
  /\ Storable(w)
  /\ heap' = Append(heap, w)
  /\ expected' = {}
  /\ UNCHANGED <<pc, dirty, writes, temp, disk, acked>>

\* A store outside a transaction, or the commit of an atomic one.
Store(o, w) ==
  /\ pc = "idle" /\ o \in DOMAIN heap
  /\ Storable(w)
  /\ heap' = [heap EXCEPT ![o] = w]
  /\ dirty' = dirty \cup {PageOf[o]}
  /\ expected' = {}
  /\ UNCHANGED <<pc, writes, temp, disk, acked>>

-----------------------------------------------------------------------------
(* The end of a durable transaction: txn_log_append_fsync, then the install. *)

Durable(entries) ==
  /\ pc = "idle"
  /\ \A i \in DOMAIN entries : entries[i].object \in DOMAIN heap
                              /\ Storable(entries[i].value)
  /\ pc' = "header"
  /\ writes' = entries
  /\ expected' = expected \cup {Overlay(h, entries) : h \in expected}
  /\ UNCHANGED <<heap, dirty, temp, disk, acked>>

WriteHeader ==
  /\ pc = "header"
  /\ journal' = Append(journal, [entries |-> Encoded(writes), part |-> "partial"])
  /\ pc' = "body"
  /\ UNCHANGED <<heap, dirty, writes, temp, synced, unlinked, image, replaced,
                 acked, expected>>

WriteBody ==
  /\ pc = "body"
  /\ journal' = [journal EXCEPT ![Len(journal)].part = "whole"]
  /\ pc' = "fsync"
  /\ UNCHANGED <<heap, dirty, writes, temp, synced, unlinked, image, replaced,
                 acked, expected>>

\* Mutant: the file is closed without fsync.
CloseWithoutFsync ==
  /\ pc = "fsync"
  /\ pc' = "install"
  /\ UNCHANGED <<heap, dirty, writes, temp, disk, acked, expected>>

Fsync ==
  /\ pc = "fsync"
  /\ synced' = Len(journal)
  /\ unlinked' = {}
  /\ pc' = "install"
  /\ UNCHANGED <<heap, dirty, writes, temp, journal, image, replaced, acked, expected>>

\* Mutant: the pages of the triples are not marked.
InstallLeavesClean ==
  /\ pc = "install"
  /\ heap' = Overlay(heap, writes)
  /\ acked' = acked \cup {<<Len(journal), Encoded(writes)>>}
  /\ expected' = IF expected = {} THEN {} ELSE {heap'}
  /\ writes' = <<>>
  /\ pc' = "idle"
  /\ UNCHANGED <<dirty, temp, disk>>

\* mark_dirty_pages_for_txn_log, txn_commit_durable; the transaction is over.
Install ==
  /\ pc = "install"
  /\ heap' = Overlay(heap, writes)
  /\ dirty' = dirty \cup {PageOf[writes[i].object] : i \in DOMAIN writes}
  /\ acked' = acked \cup {<<Len(journal), Encoded(writes)>>}
  /\ expected' = IF expected = {} THEN {} ELSE {heap'}
  /\ writes' = <<>>
  /\ pc' = "idle"
  /\ UNCHANGED <<temp, disk>>

\* The virtual machine is gone and with it everything that was not in a file.
Dies ==
  /\ pc' = "dead"
  /\ heap' = <<>> /\ dirty' = {} /\ writes' = <<>> /\ temp' = NoImage

\* A write or the fsync fails: the bytes written stay, the machine traps.
AppendFails ==
  /\ \/ /\ pc = "header"
        /\ \E p \in {"stub", "partial"} :
             journal' = Append(journal, [entries |-> Encoded(writes), part |-> p])
     \/ /\ pc \in {"header", "body", "fsync"}
        /\ UNCHANGED journal
  /\ Dies
  /\ UNCHANGED <<synced, unlinked, image, replaced, acked, expected>>

-----------------------------------------------------------------------------
(* Image>>checkpointTo:. *)

\* A page that is not dirty comes from the image that is there already, if
\* that one is valid and has as many pages.  The checksum is the live page's.
CheckpointWrite ==
  /\ pc = "idle"
  /\ Cardinality(replaced) < MaxPending /\ Cardinality(unlinked) < MaxPending
  /\ LET incremental == /\ image_checkpoint_validate(image)
                        /\ checkpoint_page_count(image.used)
                             = checkpoint_page_count(Len(heap))
     IN  temp' = [used   |-> Len(heap),
                  words  |-> [o \in Object |->
                                IF incremental /\ PageOf[o] \notin dirty
                                THEN image.words[o] ELSE LivePages[o]],
                  sums   |-> LivePages,
                  synced |-> FALSE]
  /\ pc' = "sync"
  /\ UNCHANGED <<heap, dirty, writes, disk, acked, expected>>

\* Mutant: the temporary file is closed without fsync.
CheckpointSyncSkipped ==
  /\ pc = "sync"
  /\ pc' = "rename"
  /\ UNCHANGED <<heap, dirty, writes, temp, disk, acked, expected>>

CheckpointSync ==
  /\ pc = "sync"
  /\ temp' = [temp EXCEPT !.synced = TRUE]
  /\ pc' = "rename"
  /\ UNCHANGED <<heap, dirty, writes, disk, acked, expected>>

CheckpointRename ==
  /\ pc = "rename"
  /\ image' = temp
  /\ replaced' = replaced \cup {image}
  /\ temp' = NoImage
  /\ pc' = "directory"
  /\ UNCHANGED <<heap, dirty, writes, journal, synced, unlinked, acked, expected>>

checkpoint_fsync_parent_directory ==
  /\ pc = "directory"
  /\ replaced' = {}
  /\ pc' = "clear"
  /\ UNCHANGED <<heap, dirty, writes, temp, journal, synced, unlinked, image,
                 acked, expected>>

\* om_clear_dirty_pages, txn_durable_log_clear; the checkpoint is over.
CheckpointClear ==
  /\ pc = "clear"
  /\ dirty' = {}
  /\ journal' = <<>> /\ synced' = 0
  /\ unlinked' = IF journal = <<>> THEN unlinked ELSE unlinked \cup {journal}
  /\ acked' = {}
  /\ expected' = IF expected # {} \/ image_checkpoint_validate(image) THEN {heap} ELSE {}
  /\ pc' = "idle"
  /\ UNCHANGED <<heap, writes, temp, image, replaced>>

\* A system call fails and the primitive fails: before the rename the
\* temporary file is removed, after it everything stays as it is.
CheckpointFails ==
  /\ pc \in {"sync", "rename", "directory", "clear"}
  /\ pc' = "idle"
  /\ temp' = NoImage
  /\ dirty' = IF pc = "clear" THEN {} ELSE dirty
  /\ UNCHANGED <<heap, writes, disk, acked, expected>>

-----------------------------------------------------------------------------
(* Crashes, and the next virtual machine. *)

\* The process is killed; the files stay as the operating system has them.
Kill ==
  /\ pc # "dead"
  /\ Dies
  /\ UNCHANGED <<disk, acked, expected>>

Before(part) == CASE part = "stub" -> {"stub"}
                  [] part = "partial" -> {"stub", "partial"}
                  [] part = "whole" -> Part

\* Of an append-only file, what was synced and any part of what follows.
Survivors(j, n) ==
  {SubSeq(j, 1, m) : m \in n..Len(j)} \cup
  UNION {{Append(SubSeq(j, 1, m - 1), [j[m] EXCEPT !.part = p]) : p \in Before(j[m].part)}
           : m \in (n + 1)..Len(j)}

\* The machine loses power: renames and removals that were not synced may be
\* undone, a file that was not synced may be incomplete.
PowerLoss ==
  /\ Dies
  /\ \/ /\ journal' \in Survivors(journal, synced)
        /\ UNCHANGED expected
     \/ /\ journal' \in unlinked
        /\ expected' = {}
  /\ synced' = Len(journal')
  /\ unlinked' = {}
  /\ image' \in {image} \cup replaced
                \cup (IF image # NoImage /\ ~image.synced THEN {NoImage} ELSE {})
  /\ replaced' = {}
  /\ UNCHANGED acked

\* A new process bootstraps its own heap; nothing on disk changes.
Boot ==
  /\ pc = "dead"
  /\ pc' = "idle"
  /\ heap' = InitialHeap
  /\ expected' = {}
  /\ UNCHANGED <<dirty, writes, temp, disk, acked>>

-----------------------------------------------------------------------------
Transactions ==
  IF pc # "idle" THEN {} ELSE UNION {[1..n -> Triple] : n \in 1..(MaxStores[Len(heap)] - Logged)}

Next ==
  \/ \E w \in Live : Alloc(w) \/ \E o \in Object : Store(o, w)
  \/ \E entries \in Transactions : Durable(entries)
  \/ WriteHeader \/ WriteBody \/ Fsync \/ Install \/ AppendFails
  \/ CheckpointWrite \/ CheckpointSync \/ CheckpointRename
  \/ checkpoint_fsync_parent_directory \/ CheckpointClear \/ CheckpointFails
  \/ Kill \/ PowerLoss \/ Boot

Spec == Init /\ [][Next]_vars

-----------------------------------------------------------------------------
(* Properties. *)

\* Write-ahead: an acknowledged durable commit is whole and synced in the
\* journal from its acknowledgement to the end of the next checkpoint,
\* through kills, power losses, failed appends and new processes.
AckedInJournal ==
  \A a \in acked : /\ a[1] <= synced
                   /\ journal[a[1]] = [entries |-> a[2], part |-> "whole"]

\* Once the first image is on disk there is always a complete one: a crash or
\* a failing call at any point of a checkpoint leaves the old one or the new.
ImageSurvives ==
  [][image # NoImage /\ NoImage \notin replaced => image' # NoImage]_vars

\* If every store since a checkpoint was made by durable transactions, a
\* restart answers the heap as of the last commit, before and after a crash;
\* a commit that a crash interrupted is there as a whole or not at all.
RestartAnswersHeap ==
  expected # {} => /\ Restart(image, journal) # {}
                   /\ Restart(image, journal) \subseteq expected

\* A checkpoint that succeeds wrote an image that restarts into the heap.
\* Pages that stay clean break it (README, deviation 3); no run checks it.
CheckpointRestores == pc = "clear" => Restart(image, <<>>) = {heap}

\* An acknowledged durable commit, the last one in the journal, is there after
\* a restart from a valid image.  Allocations, which the journal leaves out,
\* break it (README, deviation 4); no run checks it.
DurableCommitRestored ==
  image_checkpoint_validate(image) =>
    \A a \in acked : a[1] = Len(journal) =>
      \E h \in Restart(image, journal) :
        \A i \in DOMAIN a[2] :
          LET o == a[2][i].object
          IN  h[o] = decode_durable_log_value(Youngest(a[2], o), HeapSize)

\* A torn write is ignored by replay: it hides no acknowledged commit.
TornWritesIgnored ==
  \A a \in acked : a[1] \in Replayed(journal)

\* When the new image is in place a restart answers the checkpointed heap.
\* The journal that is still there breaks it (README, deviation 6); no run
\* checks it.
JournalNotOlderThanImage ==
  pc = "clear" /\ image_checkpoint_validate(image) => Restart(image, journal) = {heap}

=============================================================================
