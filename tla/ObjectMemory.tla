---------------------------- MODULE ObjectMemory ----------------------------
(***************************************************************************)
(* The object memory of src/c_vm/object.c: a bump allocator with one table *)
(* row for each fixed-size page, the reuse of released pages, the walk     *)
(* over the objects, and the two passes that turn the pointers of a heap   *)
(* into offsets of an image and back (also in src/c_vm/interpret.c).       *)
(*                                                                         *)
(* A unit stands for a word.  An object is a header unit and its slots:   *)
(* the three header words of the code are one unit here, which has the     *)
(* class and the size.  NULL is address 0 and no heap starts near it.      *)
(***************************************************************************)
EXTENDS Integers, FiniteSets

CONSTANTS
  OM_PAGE_UNITS,       \* units of a page
  HeapUnits,           \* units of the buffer given to om_init
  AddressSpace,        \* the number of addresses, at which arithmetic wraps round
  ObjectUnits,         \* bound: the sizes of objects, header included
  ReleasesCurrentPage  \* does the client release the page that is being filled

ASSUME PageAssumption == OM_PAGE_UNITS \in Nat \ {0}
ASSUME HeapAssumption == HeapUnits \in Nat \ {0}
ASSUME UnitsAssumption == ObjectUnits \subseteq Nat \ {0}
ASSUME ClientAssumption == ReleasesCurrentPage \in BOOLEAN

NULL      == 0
HeapStart == 2
HeapEnd   == HeapStart + HeapUnits

\* The buffer is in memory.
ASSUME SpaceAssumption == AddressSpace \in Nat /\ HeapEnd < AddressSpace

Address   == HeapStart..(HeapEnd - 1)
PageCount == (HeapUnits + OM_PAGE_UNITS - 1) \div OM_PAGE_UNITS
Page      == 0..(PageCount - 1)

\* A unit of memory: a header, or a slot (slots are zero as om_alloc leaves them).
Header == [units : ObjectUnits, bytes : BOOLEAN]
Slot   == [units |-> 0, bytes |-> FALSE]

VARIABLES
  free,      \* om[0], the bump pointer
  memory,    \* the units of the heap
  used, first, covering, state, reusable,  \* the tables of the pages
  live       \* history: the objects the program still uses

tables == <<used, first, covering, state, reusable>>
vars   == <<free, memory, tables, live>>

TypeOK ==
  /\ free \in HeapStart..HeapEnd
  /\ memory \in [Address -> Header \cup {Slot}]
  /\ used \in [Page -> 0..OM_PAGE_UNITS]
  /\ first \in [Page -> Address \cup {NULL}]
  /\ covering \in [Page -> Address \cup {NULL}]
  /\ state \in [Page -> {"free", "head", "continuation"}]
  /\ reusable \in [Page -> BOOLEAN]
  /\ live \subseteq [start : Address, units : ObjectUnits, bytes : BOOLEAN]

\* om_init.
Init ==
  /\ free = HeapStart
  /\ memory = [a \in Address |-> Slot]
  /\ used = [p \in Page |-> 0]
  /\ first = [p \in Page |-> NULL]
  /\ covering = [p \in Page |-> NULL]
  /\ state = [p \in Page |-> "free"]
  /\ reusable = [p \in Page |-> FALSE]
  /\ live = {}

-----------------------------------------------------------------------------
(* Pages and addresses. *)

om_page_id_for_address(a) == (a - HeapStart) \div OM_PAGE_UNITS
om_page_start(p) == HeapStart + p * OM_PAGE_UNITS
om_page_end(p)   == om_page_start(p) + OM_PAGE_UNITS

\* The pages that a range of units touches.
PagesOf(a, n) == om_page_id_for_address(a)..om_page_id_for_address(a + n - 1)

Extent(o) == o.start..(o.start + o.units - 1)

\* Mutant: the unit after the range is marked too.
MarkOneTooMany(a, n) == PagesOf(a, n + 1)

\* The pages a store to a range of units makes dirty: a field, a byte, or a
\* whole object (om_mark_field_dirty, om_mark_byte_dirty, om_mark_object_dirty).
om_mark_address_range_dirty(a, n) == PagesOf(a, n)

-----------------------------------------------------------------------------
(* om_alloc. *)

Smallest(S) == CHOOSE x \in S : \A y \in S : x <= y

\* Mutant: whether the page was released is not looked at.
ReusesPagesInUse(n) ==
  {p \in Page : n <= OM_PAGE_UNITS /\ om_page_start(p) < free}

\* Released pages below the bump pointer, for objects that fit in a page.
ReusablePages(n) ==
  {p \in Page : /\ n <= OM_PAGE_UNITS
                /\ reusable[p] /\ state[p] = "free" /\ om_page_start(p) < free}

\* An object that fits in a page but not in the rest of this one starts the next.
BumpStart(n) ==
  LET page_offset == (free - HeapStart) % OM_PAGE_UNITS
  IN  IF page_offset # 0 /\ n <= OM_PAGE_UNITS /\ n > OM_PAGE_UNITS - page_offset
      THEN free - page_offset + OM_PAGE_UNITS
      ELSE free

Placement(n) == IF ReusablePages(n) = {} THEN BumpStart(n)
                ELSE om_page_start(Smallest(ReusablePages(n)))

CoveringWith(a, n) ==
  [p \in Page |-> IF p \in PagesOf(a, n) /\ covering[p] = NULL THEN a ELSE covering[p]]

FirstWith(a) == [first EXCEPT ![om_page_id_for_address(a)] = IF @ = NULL THEN a ELSE @]

\* Mutant: the used units are not capped at the end of the page.
UsedUncapped(a, n) ==
  [p \in Page |-> IF p \in PagesOf(a, n) /\ used[p] < a + n - om_page_start(p)
                  THEN a + n - om_page_start(p) ELSE used[p]]

UsedWith(a, n) ==
  [p \in Page |->
     LET end   == IF a + n < om_page_end(p) THEN a + n ELSE om_page_end(p)
         units == end - om_page_start(p)
     IN  IF p \in PagesOf(a, n) /\ used[p] < units THEN units ELSE used[p]]

om_alloc(n, bytes) ==
  LET a == Placement(n)
      p == om_page_id_for_address(a)
  IN  /\ a + n <= HeapEnd
      /\ memory' = [u \in Address |-> IF u = a THEN [units |-> n, bytes |-> bytes]
                                      ELSE IF u \in a..(a + n - 1) THEN Slot
                                      ELSE memory[u]]
      /\ covering' = CoveringWith(a, n)
      /\ first' = FirstWith(a)
      /\ used' = UsedWith(a, n)
      /\ state' = [q \in Page |-> IF q = p THEN "head"
                                  ELSE IF q \in PagesOf(a, n) THEN "continuation"
                                  ELSE state[q]]
      /\ reusable' = [q \in Page |-> reusable[q] /\ q \notin PagesOf(a, n)]
      /\ free' = IF ReusablePages(n) = {} THEN a + n ELSE free
      /\ live' = live \cup {[start |-> a, units |-> n, bytes |-> bytes]}

-----------------------------------------------------------------------------
(* What the program and the tests do with objects and pages. *)

\* The program drops its last reference to an object.
Drop(o) ==
  /\ live' = live \ {o}
  /\ UNCHANGED <<free, memory, tables>>

\* A client releases a page that it uses no object of, and that no object,
\* used or not, shares with another page: the tables of the other page would
\* still lead there.
MayRelease(p) ==
  /\ \A o \in live : p \notin PagesOf(o.start, o.units)
  /\ \A q \in Page : covering[q] # NULL =>
       (om_page_id_for_address(covering[q]) = p <=> q = p)
  /\ ~ReleasesCurrentPage => om_page_end(p) <= free

om_release_page(p) ==
  /\ MayRelease(p)
  /\ used' = [used EXCEPT ![p] = 0]
  /\ first' = [first EXCEPT ![p] = NULL]
  /\ covering' = [covering EXCEPT ![p] = NULL]
  /\ state' = [state EXCEPT ![p] = "free"]
  /\ reusable' = [reusable EXCEPT ![p] = TRUE]
  /\ UNCHANGED <<free, memory, live>>

Next ==
  \/ \E n \in ObjectUnits, bytes \in BOOLEAN : om_alloc(n, bytes)
  \/ \E o \in live : Drop(o)
  \/ \E p \in Page : om_release_page(p)

Spec == Init /\ [][Next]_vars

-----------------------------------------------------------------------------
(* The walk over the objects. *)

\* om_object_words: an object that is not one has no slots.
om_object_words(a) == IF memory[a] = Slot THEN 1 ELSE memory[a].units

\* Mutant: the walk does not leave the last object of a page.
NextStaysInPage(a) ==
  LET next == a + om_object_words(a)
      p    == om_page_id_for_address(next)
  IN  IF next < free /\ next - om_page_start(p) < used[p] THEN next ELSE NULL

om_next_object(a) ==
  LET next  == a + om_object_words(a)
      p     == om_page_id_for_address(next)
      later == {q \in Page : q > p /\ first[q] # NULL}
  IN  IF next >= free THEN NULL
      ELSE IF next - om_page_start(p) < used[p] THEN next
      ELSE IF later = {} THEN NULL
      ELSE first[Smallest(later)]

\* The objects from a, up to limit.
Walk(a, limit) ==
  LET from[b \in Address \cup {NULL}] ==
        IF b = NULL \/ b >= limit THEN {} ELSE {b} \cup from[om_next_object(b)]
  IN  from[a]

-----------------------------------------------------------------------------
(* Images: the units that hold pointers, and which of them a pass converts. *)

\* The class of an object, and its slots unless they are bytes.
object_slots(a) ==
  IF memory[a].bytes THEN {a} ELSE a..(a + om_object_words(a) - 1)

checkpoint_page_count == (free - HeapStart + OM_PAGE_UNITS - 1) \div OM_PAGE_UNITS
ImagePage == 0..(checkpoint_page_count - 1)

\* The end of the part of a page that is below the bump pointer.
checkpoint_page_end(p) == IF free < om_page_end(p) THEN free ELSE om_page_end(p)

\* Mutant: a page is converted from the first object that starts on it.
PagePassSkipsContinuation(p) ==
  LET end == checkpoint_page_end(p)
  IN  {u \in UNION {object_slots(a) : a \in Walk(first[p], end)} :
         u >= om_page_start(p) /\ u < end}

\* What the checkpoint converts in its copy of a page.
checkpoint_page_pointers_to_offsets(p) ==
  LET end == checkpoint_page_end(p)
  IN  {u \in UNION {object_slots(a) : a \in Walk(covering[p], end)} :
         u >= om_page_start(p) /\ u < end}

\* What the whole-image pass converts: object by object.
image_live_pointers_to_offsets_paged ==
  UNION {UNION {object_slots(a) : a \in Walk(covering[p], om_page_start(p) + used[p])}
           : p \in Page}

\* The tables of an image hold offsets, one more than the distance.  NULL is
\* taken for an object, so its entry wraps round.
page_object_offset_in_heap(a) == (a - HeapStart + 1) % AddressSpace

\* The next object of a loaded image.  An entry that wrapped is not 0, and
\* what it leads to is out of the image.
LoadedNext(a) ==
  LET next == a + om_object_words(a)
      p    == om_page_id_for_address(next)
      later == {q \in ImagePage : q > p /\ page_object_offset_in_heap(first[q]) # 0}
      entry == page_object_offset_in_heap(first[Smallest(later)])
  IN  IF next >= free THEN NULL
      ELSE IF next - om_page_start(p) < used[p] THEN next
      ELSE IF later = {} \/ entry - 1 >= free - HeapStart THEN NULL
      ELSE HeapStart + entry - 1

\* Mutant: the loader never looks behind the first page of an object.
LoadFromFirst ==
  UNION {object_slots(first[p]) : p \in {q \in ImagePage : first[q] # NULL}}

\* What is converted when the image is loaded.
image_offsets_to_live_pointers_paged ==
  LET limit(p) == IF om_page_start(p) + used[p] < free THEN om_page_start(p) + used[p]
                  ELSE free
      from(p) == LET visit[b \in Address \cup {NULL}] ==
                       IF b = NULL \/ b >= limit(p) THEN {}
                       ELSE {b} \cup visit[LoadedNext(b)]
                 IN  visit[covering[p]]
  IN  UNION {UNION {object_slots(a) : a \in from(p)} : p \in ImagePage}

\* The state part of checkpoint_header_is_valid, on the tables as written.
checkpoint_header_is_valid ==
  \A p \in ImagePage : state[p] = "free" =>
    /\ used[p] = 0
    /\ page_object_offset_in_heap(first[p]) = 0
    /\ page_object_offset_in_heap(covering[p]) = 0

-----------------------------------------------------------------------------
(* Properties. *)

\* No two objects in use share a unit, and every one is still as it was
\* allocated: neither the bump pointer nor the reuse of a page overwrites it.
LiveObjectsIntact ==
  \A o \in live :
    /\ memory[o.start] = [units |-> o.units, bytes |-> o.bytes]
    /\ \A q \in live \ {o} : Extent(o) \cap Extent(q) = {}

\* The walk from the first object of the heap reaches every object in use
\* and never takes a slot for an object, whatever was released and reused.
WalkFindsObjects ==
  LET starts == {p \in Page : first[p] # NULL}
      visited == Walk(first[Smallest(starts)], free)
  IN  live # {} => /\ {o.start : o \in live} \subseteq visited
                   /\ \A a \in visited : memory[a] # Slot

LiveSlots == UNION {object_slots(o.start) : o \in live}

\* Page by page, a checkpoint converts every pointer of every object in use.
CheckpointConvertsAll ==
  \A p \in ImagePage :
    \A u \in LiveSlots : om_page_id_for_address(u) = p =>
      state[p] # "free" /\ u \in checkpoint_page_pointers_to_offsets(p)

\* So does the pass over a whole image, and loading converts all of them back,
\* although the two passes take different ways over gaps and continuations.
ImageRoundTrip ==
  /\ LiveSlots \subseteq image_live_pointers_to_offsets_paged
  /\ LiveSlots \subseteq image_offsets_to_live_pointers_paged

\* A store to an object marks exactly the pages whose copies in the image
\* change with it, for every object and every unit of one.
StoresMarkTheirPages ==
  \A o \in live :
    /\ om_mark_address_range_dirty(o.start, o.units)
         = {p \in ImagePage : Extent(o) \cap om_page_start(p)..(checkpoint_page_end(p) - 1) # {}}
    /\ \A u \in Extent(o) :
         \A p \in om_mark_address_range_dirty(u, 1) :
           u \in om_page_start(p)..(checkpoint_page_end(p) - 1)

\* An image may have free pages.  The offset of NULL in their rows breaks it
\* (README, deviation 8); no run checks it.
FreePagesValid == checkpoint_header_is_valid

=============================================================================
