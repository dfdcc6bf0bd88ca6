------------------------- MODULE ObjectMemoryProofs -------------------------
(***************************************************************************)
(* What holds of the object memory for every size of the heap, the pages   *)
(* and the objects.                                                        *)
(***************************************************************************)
EXTENDS ObjectMemory, InductionLemmas

-----------------------------------------------------------------------------
(* Pages and addresses. *)

\* Every unit from the start of the heap on is in the page that its address
\* is divided into.
LEMMA PageOfUnit ==
  ASSUME NEW a \in Int, a >= HeapStart
  PROVE  /\ om_page_id_for_address(a) \in Nat
         /\ om_page_start(om_page_id_for_address(a)) <= a
         /\ a < om_page_end(om_page_id_for_address(a))
<1>1. OM_PAGE_UNITS \in Nat \ {0}
  BY PageAssumption
<1> QED
  BY <1>1 DEF om_page_id_for_address, om_page_start, om_page_end, HeapStart

\* A multiple of the page size that is larger by a page has a larger page.
LEMMA PagesInOrder ==
  ASSUME NEW p \in Int, NEW q \in Int, p < q
  PROVE  /\ om_page_end(p) <= om_page_start(q)
         /\ om_page_start(p) < om_page_end(p)
         /\ om_page_start(p) \in Int /\ om_page_end(p) \in Int
         /\ om_page_start(q) \in Int /\ om_page_end(q) \in Int
<1>1. OM_PAGE_UNITS \in Nat \ {0}
  BY PageAssumption
<1>2. (p + 1) * OM_PAGE_UNITS <= q * OM_PAGE_UNITS
  BY <1>1
<1>3. (p + 1) * OM_PAGE_UNITS = p * OM_PAGE_UNITS + OM_PAGE_UNITS
  BY <1>1
<1>4. p * OM_PAGE_UNITS \in Int /\ q * OM_PAGE_UNITS \in Int
  BY <1>1
<1> QED
  BY <1>1, <1>2, <1>3, <1>4 DEF om_page_start, om_page_end, HeapStart

\* It is in no other page.
LEMMA PageIsUnique ==
  ASSUME NEW a \in Int, a >= HeapStart, NEW p \in Int,
         om_page_start(p) <= a, a < om_page_end(p)
  PROVE  om_page_id_for_address(a) = p
<1> DEFINE q == om_page_id_for_address(a)
<1>1. q \in Nat /\ om_page_start(q) <= a /\ a < om_page_end(q)
  BY PageOfUnit
<1>2. ~ (p < q)
  <2> HIDE DEF q
  <2> QED BY <1>1, PagesInOrder
<1>3. ~ (q < p)
  <2> HIDE DEF q
  <2> QED BY <1>1, PagesInOrder
<1> HIDE DEF q
<1>4. q = p
  BY <1>1, <1>2, <1>3
<1> QED
  BY <1>4 DEF q

\* The pages of later units are later.
LEMMA PagesAreMonotone ==
  ASSUME NEW a \in Int, a >= HeapStart, NEW b \in Int, a <= b
  PROVE  om_page_id_for_address(a) <= om_page_id_for_address(b)
<1> DEFINE p == om_page_id_for_address(a)
           q == om_page_id_for_address(b)
<1>1. p \in Nat /\ q \in Nat /\ om_page_start(p) <= a /\ b < om_page_end(q)
  <2>1. HeapStart \in Int
    BY DEF HeapStart
  <2>2. b >= HeapStart
    BY <2>1
  <2> QED BY <2>2, PageOfUnit
<1>2. ~ (q < p)
  <2> HIDE DEF p, q
  <2> QED BY <1>1, PagesInOrder
<1> HIDE DEF p, q
<1>3. p <= q
  BY <1>1, <1>2
<1> QED
  BY <1>3 DEF p, q

\* The heap ends in its last page, and every page starts in it.
LEMMA PagesOfTheHeap ==
  /\ HeapStart \in Nat \ {0} /\ HeapEnd \in Nat /\ HeapStart < HeapEnd
  /\ PageCount \in Nat
  /\ Address \subseteq Nat \ {0}
  /\ \A a \in Address : om_page_id_for_address(a) \in Page
  /\ \A p \in Page : om_page_start(p) \in Address
<1>1. OM_PAGE_UNITS \in Nat \ {0} /\ HeapUnits \in Nat \ {0}
  BY PageAssumption, HeapAssumption
<1>2. /\ HeapStart \in Nat \ {0} /\ HeapEnd \in Nat /\ HeapStart < HeapEnd
      /\ Address \subseteq Nat \ {0}
  BY <1>1 DEF HeapStart, HeapEnd, Address
<1>3. /\ PageCount \in Nat
      /\ PageCount * OM_PAGE_UNITS <= HeapUnits + OM_PAGE_UNITS - 1
      /\ HeapUnits + OM_PAGE_UNITS - 1 < (PageCount + 1) * OM_PAGE_UNITS
  BY <1>1 DEF PageCount
<1>4. ASSUME NEW p \in Page PROVE om_page_start(p) \in Address
  <2>1. p \in Nat /\ p + 1 <= PageCount
    BY <1>3 DEF Page
  <2>2. (p + 1) * OM_PAGE_UNITS <= PageCount * OM_PAGE_UNITS
    BY <1>1, <1>3, <2>1
  <2>3. (p + 1) * OM_PAGE_UNITS = p * OM_PAGE_UNITS + OM_PAGE_UNITS
    BY <1>1, <2>1
  <2>4. p * OM_PAGE_UNITS \in Nat
    BY <1>1, <2>1
  <2>5. PageCount * OM_PAGE_UNITS \in Nat
    BY <1>1, <1>3
  <2> QED
    BY <1>1, <1>3, <2>2, <2>3, <2>4, <2>5 DEF om_page_start, Address, HeapEnd, HeapStart
<1>5. ASSUME NEW a \in Address PROVE om_page_id_for_address(a) \in Page
  <2> DEFINE p == om_page_id_for_address(a)
  <2>1. a \in Int /\ a >= HeapStart /\ a < HeapStart + HeapUnits
    BY <1>1 DEF Address, HeapEnd, HeapStart
  <2>2. p \in Nat /\ om_page_start(p) <= a
    BY <2>1, PageOfUnit
  <2> HIDE DEF p
  <2>3. ~ (PageCount <= p)
    <3> SUFFICES ASSUME PageCount <= p PROVE FALSE
      OBVIOUS
    <3>1. PageCount * OM_PAGE_UNITS <= p * OM_PAGE_UNITS
      BY <1>1, <1>3, <2>2
    <3>2. (PageCount + 1) * OM_PAGE_UNITS = PageCount * OM_PAGE_UNITS + OM_PAGE_UNITS
      BY <1>1, <1>3
    <3>3. p * OM_PAGE_UNITS \in Nat /\ PageCount * OM_PAGE_UNITS \in Nat
      BY <1>1, <1>3, <2>2
    <3> QED
      BY <1>1, <1>3, <2>1, <2>2, <3>1, <3>2, <3>3 DEF om_page_start, HeapStart
  <2>4. p \in Page
    BY <1>3, <2>2, <2>3 DEF Page
  <2> QED
    BY <2>4 DEF p
<1> QED
  BY <1>2, <1>3, <1>4, <1>5

-----------------------------------------------------------------------------
(* Where om_alloc places an object. *)

\* The pages that the units of a range in the heap touch.
LEMMA PagesOfRange ==
  ASSUME NEW a \in Address, NEW n \in Nat \ {0}, a + n <= HeapEnd
  PROVE  /\ a + n - 1 \in Address
         /\ PagesOf(a, n) \subseteq Page
         /\ om_page_id_for_address(a) \in PagesOf(a, n)
         /\ \A u \in a..(a + n - 1) : u \in Address /\ om_page_id_for_address(u) \in PagesOf(a, n)
<1>1. /\ HeapStart \in Nat \ {0} /\ HeapEnd \in Nat /\ HeapStart < HeapEnd
      /\ a \in Nat /\ a >= HeapStart /\ a < HeapEnd
  BY PagesOfTheHeap DEF Address
<1>2. ASSUME NEW u \in a..(a + n - 1)
      PROVE  u \in Address /\ u \in Int /\ u >= HeapStart /\ a <= u /\ u <= a + n - 1
  BY <1>1 DEF Address
<1>3. a + n - 1 \in a..(a + n - 1) /\ a \in a..(a + n - 1) /\ a + n - 1 \in Int
  BY <1>1
<1>4. ASSUME NEW u \in a..(a + n - 1)
      PROVE  /\ om_page_id_for_address(u) \in Page
             /\ om_page_id_for_address(a) <= om_page_id_for_address(u)
             /\ om_page_id_for_address(u) <= om_page_id_for_address(a + n - 1)
  BY <1>1, <1>2, <1>3, PagesOfTheHeap, PagesAreMonotone
<1> DEFINE from == om_page_id_for_address(a)
           to   == om_page_id_for_address(a + n - 1)
<1>5. PageCount \in Nat /\ from \in Page /\ to \in Page
  BY <1>3, <1>4, PagesOfTheHeap
<1>6. PagesOf(a, n) = from..to
  BY DEF PagesOf
<1> HIDE DEF from, to
<1>7. from..to \subseteq Page
  BY <1>5 DEF Page
<1>8. \A u \in a..(a + n - 1) : om_page_id_for_address(u) \in from..to
  <2> TAKE u \in a..(a + n - 1)
  <2>1. om_page_id_for_address(u) \in Page /\ from <= om_page_id_for_address(u)
                                           /\ om_page_id_for_address(u) <= to
    BY <1>4 DEF from, to
  <2> QED
    BY <1>5, <2>1 DEF Page
<1> QED
  BY <1>2, <1>3, <1>6, <1>7, <1>8

\* The smallest page of a set is one of them.
LEMMA SmallestOfPages ==
  ASSUME NEW S \in SUBSET Nat, S # {}
  PROVE  Smallest(S) \in S /\ \A y \in S : Smallest(S) <= y
BY NatMinimum DEF Smallest

\* An object is placed at the end of the used part of the heap, or at the
\* start of a released page, which it does not leave.
LEMMA PlacementOfObject ==
  ASSUME TypeOK, NEW n \in ObjectUnits, Placement(n) + n <= HeapEnd
  PROVE  /\ Placement(n) \in Address
         /\ \/ ReusablePages(n) = {} /\ free <= Placement(n)
            \/ \E p \in ReusablePages(n) :
                 /\ ReusablePages(n) # {}
                 /\ Placement(n) = om_page_start(p)
                 /\ PagesOf(Placement(n), n) = {p}
                 /\ Placement(n) + n <= om_page_end(p)
<1>1. OM_PAGE_UNITS \in Nat \ {0} /\ n \in Nat \ {0}
  BY PageAssumption, UnitsAssumption
<1>2. HeapStart \in Nat \ {0} /\ HeapEnd \in Nat /\ PageCount \in Nat
  BY PagesOfTheHeap
<1>3. CASE ReusablePages(n) = {}
  <2>1. free \in Nat /\ HeapStart <= free
    BY <1>2 DEF TypeOK
  <2>2. BumpStart(n) \in Nat /\ free <= BumpStart(n)
    BY <1>1, <1>2, <2>1 DEF BumpStart
  <2>3. Placement(n) = BumpStart(n)
    BY <1>3 DEF Placement
  <2>4. Placement(n) \in Address
    BY <1>1, <1>2, <2>1, <2>2, <2>3 DEF Address
  <2> QED
    BY <1>3, <2>2, <2>3, <2>4
<1>4. CASE ReusablePages(n) # {}
  <2> DEFINE p == Smallest(ReusablePages(n))
  <2>1. ReusablePages(n) \in SUBSET Nat /\ ReusablePages(n) \subseteq Page
    BY <1>2 DEF ReusablePages, Page
  <2>2. p \in ReusablePages(n)
    BY <1>4, <2>1, SmallestOfPages
  <2>3. Placement(n) = om_page_start(p)
    BY <1>4 DEF Placement
  <2> HIDE DEF p
  <2>4. p \in Page /\ p \in Nat /\ n <= OM_PAGE_UNITS
    BY <2>1, <2>2 DEF ReusablePages
  <2>5. Placement(n) \in Address /\ Placement(n) \in Nat /\ Placement(n) >= HeapStart
    BY <1>2, <2>3, <2>4, PagesOfTheHeap DEF Address
  <2>6. om_page_end(p) = Placement(n) + OM_PAGE_UNITS
    BY <2>3 DEF om_page_end
  <2>7. om_page_id_for_address(Placement(n)) = p
    BY <1>1, <2>3, <2>4, <2>5, <2>6, PageIsUnique
  <2>8. /\ Placement(n) + n - 1 \in Int /\ Placement(n) + n - 1 >= HeapStart
        /\ om_page_start(p) <= Placement(n) + n - 1
        /\ Placement(n) + n - 1 < om_page_end(p)
        /\ Placement(n) + n <= om_page_end(p)
    BY <1>1, <1>2, <2>3, <2>4, <2>5, <2>6
  <2>9. om_page_id_for_address(Placement(n) + n - 1) = p
    BY <2>4, <2>8, PageIsUnique
  <2>10. PagesOf(Placement(n), n) = {p}
    <3>1. PagesOf(Placement(n), n) = p..p
      BY <2>7, <2>9 DEF PagesOf
    <3> QED BY <2>4, <3>1
  <2> QED
    BY <1>4, <2>2, <2>3, <2>5, <2>8, <2>10
<1> QED
  BY <1>3, <1>4

-----------------------------------------------------------------------------
(* The types. *)

\* om_alloc keeps the types, whether it bumps or reuses a page.
LEMMA AllocTypes ==
  ASSUME TypeOK, NEW n \in ObjectUnits, NEW bytes \in BOOLEAN, om_alloc(n, bytes)
  PROVE  TypeOK'
<1> DEFINE a == Placement(n)
<1>1. OM_PAGE_UNITS \in Nat \ {0} /\ n \in Nat \ {0}
  BY PageAssumption, UnitsAssumption
<1>2. a + n <= HeapEnd
  BY DEF om_alloc
<1>3. a \in Address /\ (ReusablePages(n) = {} => free <= a)
  <2>1. ASSUME NEW p \in ReusablePages(n) PROVE ReusablePages(n) # {}
    OBVIOUS
  <2> QED BY <1>2, <2>1, PlacementOfObject
<1>4. /\ HeapStart \in Nat \ {0} /\ HeapEnd \in Nat /\ a \in Nat /\ a >= HeapStart
  BY <1>3, PagesOfTheHeap DEF Address
<1>5. /\ PagesOf(a, n) \subseteq Page
      /\ om_page_id_for_address(a) \in PagesOf(a, n)
  BY <1>1, <1>2, <1>3, PagesOfRange
<1>6. free' \in HeapStart..HeapEnd
  <2>1. free' = IF ReusablePages(n) = {} THEN a + n ELSE free
    BY DEF om_alloc
  <2>2. free \in HeapStart..HeapEnd
    BY DEF TypeOK
  <2> HIDE DEF a
  <2> QED BY <1>1, <1>2, <1>4, <2>1, <2>2
<1>7. memory' \in [Address -> Header \cup {Slot}]
  <2>1. [units |-> n, bytes |-> bytes] \in Header
    BY DEF Header
  <2> HIDE DEF a
  <2> QED BY <2>1 DEF om_alloc, TypeOK, a
<1>8. used' \in [Page -> 0..OM_PAGE_UNITS]
  <2>1. used' = UsedWith(a, n)
    BY DEF om_alloc
  <2> SUFFICES ASSUME NEW p \in Page
               PROVE  UsedWith(a, n)[p] \in 0..OM_PAGE_UNITS
    BY <2>1 DEF UsedWith
  <2> DEFINE end   == IF a + n < om_page_end(p) THEN a + n ELSE om_page_end(p)
             units == end - om_page_start(p)
  <2>2. UsedWith(a, n)[p] = IF p \in PagesOf(a, n) /\ used[p] < units THEN units ELSE used[p]
    BY DEF UsedWith
  <2>3. used[p] \in 0..OM_PAGE_UNITS
    BY DEF TypeOK
  <2>4. om_page_start(p) \in Nat /\ om_page_end(p) = om_page_start(p) + OM_PAGE_UNITS
    BY PagesOfTheHeap DEF om_page_end
  <2> HIDE DEF a
  <2>5. units \in Int /\ units <= OM_PAGE_UNITS
    BY <1>1, <1>4, <2>4
  <2> HIDE DEF units
  <2> QED BY <1>1, <2>2, <2>3, <2>5
<1>9. first' \in [Page -> Address \cup {NULL}] /\ covering' \in [Page -> Address \cup {NULL}]
  <2>1. first' = FirstWith(a) /\ covering' = CoveringWith(a, n)
    BY DEF om_alloc
  <2>2. first \in [Page -> Address \cup {NULL}] /\ covering \in [Page -> Address \cup {NULL}]
    BY DEF TypeOK
  <2> HIDE DEF a
  <2> QED BY <1>3, <2>1, <2>2 DEF FirstWith, CoveringWith
<1>10. state' \in [Page -> {"free", "head", "continuation"}] /\ reusable' \in [Page -> BOOLEAN]
  BY DEF om_alloc, TypeOK
<1>11. live' \subseteq [start : Address, units : ObjectUnits, bytes : BOOLEAN]
  <2>1. live' = live \cup {[start |-> a, units |-> n, bytes |-> bytes]}
    BY DEF om_alloc
  <2> HIDE DEF a
  <2> QED BY <1>3, <2>1 DEF TypeOK
<1> QED
  BY <1>6, <1>7, <1>8, <1>9, <1>10, <1>11 DEF TypeOK

\* So do dropping a reference and releasing a page.
LEMMA OtherTypes ==
  ASSUME TypeOK,
         \/ UNCHANGED vars
         \/ \E o \in live : Drop(o)
         \/ \E p \in Page : om_release_page(p)
  PROVE  TypeOK'
<1>1. CASE UNCHANGED vars
  BY <1>1 DEF vars, tables, TypeOK
<1>2. ASSUME NEW o \in live, Drop(o) PROVE TypeOK'
  BY <1>2 DEF Drop, tables, TypeOK
<1>3. ASSUME NEW p \in Page, om_release_page(p) PROVE TypeOK'
  <2>1. OM_PAGE_UNITS \in Nat
    BY PageAssumption
  <2> QED BY <1>3, <2>1 DEF om_release_page, TypeOK
<1> QED
  BY <1>1, <1>2, <1>3

\* The variables keep their types.
THEOREM TypeTheorem == Spec => []TypeOK
<1>1. Init => TypeOK
  BY PageAssumption, PagesOfTheHeap DEF Init, TypeOK
<1>2. TypeOK /\ [Next]_vars => TypeOK'
  BY AllocTypes, OtherTypes DEF Next
<1> QED
  BY <1>1, <1>2, PTL DEF Spec

-----------------------------------------------------------------------------
(* The objects in use. *)

\* A page is released behind the bump pointer: a client that leaves the page
\* being filled alone keeps it so.
ReleasedBehind ==
  \A p \in Page : reusable[p] => om_page_end(p) <= free

\* An object in use lies behind the bump pointer, and none of its pages is
\* released.
LiveOnHeldPages ==
  \A o \in live :
    /\ o.start + o.units <= free
    /\ \A p \in PagesOf(o.start, o.units) : ~reusable[p]

\* LiveObjectsIntact alone is not inductive: that an object is not overwritten
\* rests on where the next one can go.
IInv == TypeOK /\ ReleasedBehind /\ LiveOnHeldPages /\ LiveObjectsIntact

\* What the types say of one object.
LEMMA LiveObject ==
  ASSUME TypeOK, NEW o \in live
  PROVE  /\ o.start \in Address /\ o.start \in Nat /\ o.units \in ObjectUnits
         /\ o.units \in Nat \ {0} /\ o.bytes \in BOOLEAN
         /\ o = [start |-> o.start, units |-> o.units, bytes |-> o.bytes]
<1>1. o \in [start : Address, units : ObjectUnits, bytes : BOOLEAN]
  BY DEF TypeOK
<1>2. o.start \in Address /\ o.units \in ObjectUnits /\ o.bytes \in BOOLEAN
      /\ o = [start |-> o.start, units |-> o.units, bytes |-> o.bytes]
  BY <1>1
<1> QED
  BY <1>2, PagesOfTheHeap, UnitsAssumption

\* A new object is placed clear of every object in use.
LEMMA PlacedClear ==
  ASSUME IInv, NEW n \in ObjectUnits, Placement(n) + n <= HeapEnd,
         NEW o \in live
  PROVE  Extent(o) \cap Placement(n)..(Placement(n) + n - 1) = {}
<1> DEFINE a == Placement(n)
<1>1. /\ o.start \in Address /\ o.start \in Nat /\ o.units \in Nat \ {0}
      /\ n \in Nat \ {0}
  BY LiveObject, UnitsAssumption DEF IInv
<1>2. /\ free \in Nat /\ free <= HeapEnd /\ HeapEnd \in Nat /\ HeapStart \in Nat
      /\ Address \subseteq Nat
  BY PagesOfTheHeap DEF IInv, TypeOK
<1>3. /\ o.start + o.units <= free
      /\ \A p \in PagesOf(o.start, o.units) : ~reusable[p]
  BY DEF IInv, LiveOnHeldPages
<1>4. /\ a \in Address
      /\ \/ free <= a
         \/ \E p \in ReusablePages(n) : PagesOf(a, n) = {p}
  BY PlacementOfObject DEF IInv
<1>5. CASE free <= a
  <2> HIDE DEF a
  <2>1. a \in Nat
    BY <1>2, <1>4
  <2>2. o.start..(o.start + o.units - 1) \cap a..(a + n - 1) = {}
    BY <1>1, <1>2, <1>3, <1>5, <2>1
  <2> QED
    BY <2>2 DEF Extent, a
<1>6. ASSUME NEW p \in ReusablePages(n), PagesOf(a, n) = {p}
      PROVE  Extent(o) \cap a..(a + n - 1) = {}
  <2>1. reusable[p]
    BY DEF ReusablePages
  <2>2. \A u \in a..(a + n - 1) : om_page_id_for_address(u) = p
    BY <1>1, <1>4, <1>6, PagesOfRange
  <2>3. o.start + o.units <= HeapEnd
    BY <1>1, <1>2, <1>3
  <2>4. \A u \in o.start..(o.start + o.units - 1) :
          om_page_id_for_address(u) \in PagesOf(o.start, o.units)
    BY <1>1, <2>3, PagesOfRange
  <2> QED
    BY <1>3, <2>1, <2>2, <2>4 DEF Extent
<1> QED
  BY <1>4, <1>5, <1>6

\* om_alloc keeps the released pages behind the bump pointer, and places the
\* new object behind it and on pages that are no longer released.
LEMMA AllocKeepsPages ==
  ASSUME IInv, NEW n \in ObjectUnits, NEW bytes \in BOOLEAN, om_alloc(n, bytes)
  PROVE  ReleasedBehind' /\ LiveOnHeldPages'
<1> DEFINE a == Placement(n)
<1>1. /\ TypeOK /\ ReleasedBehind /\ LiveOnHeldPages
      /\ n \in Nat \ {0} /\ a + n <= HeapEnd
      /\ HeapStart \in Nat /\ HeapEnd \in Nat /\ Address \subseteq Nat
  BY UnitsAssumption, PagesOfTheHeap DEF IInv, om_alloc
<1>2. free \in Nat
  BY <1>1 DEF TypeOK
<1>3. /\ free' = IF ReusablePages(n) = {} THEN a + n ELSE free
      /\ reusable' = [q \in Page |-> reusable[q] /\ q \notin PagesOf(a, n)]
      /\ live' = live \cup {[start |-> a, units |-> n, bytes |-> bytes]}
  BY DEF om_alloc
<1>4. /\ a \in Address /\ a \in Nat
      /\ \/ ReusablePages(n) = {} /\ free <= a
         \/ \E p \in ReusablePages(n) : ReusablePages(n) # {} /\ a + n <= om_page_end(p)
  BY <1>1, PlacementOfObject
<1>5. PagesOf(a, n) \subseteq Page
  BY <1>1, <1>4, PagesOfRange
<1>6. \A p \in Page : om_page_start(p) \in Int /\ om_page_end(p) \in Int
  <2>1. OM_PAGE_UNITS \in Nat
    BY PageAssumption
  <2>2. \A p \in Page : om_page_start(p) \in Nat
    BY <1>1, PagesOfTheHeap
  <2> QED
    BY <2>1, <2>2 DEF om_page_end
<1>7. a + n <= free' /\ free <= free' /\ free' \in Nat
  <2>1. CASE ReusablePages(n) = {} /\ free <= a
    <3>1. free' = a + n
      BY <1>3, <2>1
    <3> HIDE DEF a
    <3> QED BY <1>1, <1>2, <1>4, <2>1, <3>1
  <2>2. ASSUME NEW p \in ReusablePages(n), ReusablePages(n) # {}, a + n <= om_page_end(p)
        PROVE  a + n <= free' /\ free <= free' /\ free' \in Nat
    <3>1. free' = free
      BY <1>3, <2>2
    <3>2. p \in Page /\ reusable[p]
      BY DEF ReusablePages
    <3>3. om_page_end(p) <= free
      BY <1>1, <3>2 DEF ReleasedBehind
    <3> HIDE DEF a
    <3> QED BY <1>1, <1>2, <1>4, <1>6, <2>2, <3>1, <3>2, <3>3
  <2> QED
    BY <1>4, <2>1, <2>2
<1> HIDE DEF a
<1>8. ReleasedBehind'
  <2> SUFFICES ASSUME NEW p \in Page, reusable'[p] PROVE om_page_end(p) <= free'
    BY DEF ReleasedBehind
  <2>1. reusable[p]
    BY <1>3
  <2>2. om_page_end(p) <= free
    BY <1>1, <2>1 DEF ReleasedBehind
  <2> QED BY <1>2, <1>6, <1>7, <2>2
<1>9. LiveOnHeldPages'
  <2> SUFFICES ASSUME NEW o \in live'
               PROVE  /\ o.start + o.units <= free'
                      /\ \A p \in PagesOf(o.start, o.units) : ~reusable'[p]
    BY DEF LiveOnHeldPages
  <2>1. CASE o \in live
    <3>1. o.start \in Address /\ o.start \in Nat /\ o.units \in Nat \ {0}
      BY <1>1, <2>1, LiveObject
    <3>2. /\ o.start + o.units <= free
          /\ \A p \in PagesOf(o.start, o.units) : ~reusable[p]
      BY <1>1, <2>1 DEF LiveOnHeldPages
    <3>3. free <= HeapEnd
      BY <1>1 DEF TypeOK
    <3>4. o.start + o.units <= HeapEnd
      BY <1>1, <1>2, <3>1, <3>2, <3>3
    <3>5. PagesOf(o.start, o.units) \subseteq Page
      BY <3>1, <3>4, PagesOfRange
    <3>6. \A p \in PagesOf(o.start, o.units) : ~reusable'[p]
      BY <1>3, <3>2, <3>5
    <3>7. o.start + o.units <= free'
      BY <1>2, <1>7, <3>1, <3>2
    <3> QED BY <3>6, <3>7
  <2>2. CASE o = [start |-> a, units |-> n, bytes |-> bytes]
    <3>1. o.start = a /\ o.units = n
      BY <2>2
    <3>2. \A p \in PagesOf(a, n) : ~reusable'[p]
      BY <1>3, <1>5
    <3> QED BY <1>7, <3>1, <3>2
  <2> QED
    BY <1>3, <2>1, <2>2
<1> QED
  BY <1>8, <1>9

\* om_alloc overwrites no object in use.
LEMMA AllocKeepsObjects ==
  ASSUME IInv, NEW n \in ObjectUnits, NEW bytes \in BOOLEAN, om_alloc(n, bytes)
  PROVE  LiveObjectsIntact'
<1> DEFINE a   == Placement(n)
           new == [start |-> a, units |-> n, bytes |-> bytes]
<1>1. TypeOK /\ LiveObjectsIntact /\ n \in Nat \ {0} /\ a + n <= HeapEnd
  BY UnitsAssumption DEF IInv, om_alloc
<1>2. /\ memory' = [u \in Address |-> IF u = a THEN [units |-> n, bytes |-> bytes]
                                      ELSE IF u \in a..(a + n - 1) THEN Slot
                                      ELSE memory[u]]
      /\ live' = live \cup {new}
  BY DEF om_alloc
<1>3. a \in Address
  BY <1>1, PlacementOfObject
<1>4. /\ new.start = a /\ new.units = n /\ new.bytes = bytes
      /\ Extent(new) = a..(a + n - 1) /\ a \in Extent(new)
  <2>1. new.start = a /\ new.units = n /\ new.bytes = bytes
    OBVIOUS
  <2>2. a \in Nat
    BY <1>3, PagesOfTheHeap
  <2>3. Extent(new) = a..(a + n - 1)
    BY <2>1 DEF Extent
  <2> HIDE DEF new, a
  <2>4. a \in Extent(new)
    BY <1>1, <2>2, <2>3
  <2> QED
    BY <2>1, <2>3, <2>4
<1>5. \A o \in live : Extent(o) \cap Extent(new) = {}
  BY <1>1, <1>4, PlacedClear
<1>6. \A o \in live : o.start \in Address /\ o.start \in Extent(o)
  BY <1>1, LiveObject DEF Extent
<1> HIDE DEF a, new
<1> SUFFICES ASSUME NEW o \in live'
             PROVE  /\ memory'[o.start] = [units |-> o.units, bytes |-> o.bytes]
                    /\ \A q \in live' \ {o} : Extent(o) \cap Extent(q) = {}
  BY DEF LiveObjectsIntact
<1>7. CASE o \in live
  <2>1. /\ memory[o.start] = [units |-> o.units, bytes |-> o.bytes]
        /\ \A q \in live \ {o} : Extent(o) \cap Extent(q) = {}
    BY <1>1, <1>7 DEF LiveObjectsIntact
  <2>2. o.start # a /\ o.start \notin a..(a + n - 1)
    BY <1>4, <1>5, <1>6, <1>7
  <2>3. memory'[o.start] = memory[o.start]
    BY <1>2, <1>6, <1>7, <2>2
  <2> QED
    BY <1>2, <1>5, <1>7, <2>1, <2>3
<1>8. CASE o = new
  <2>1. memory'[o.start] = [units |-> o.units, bytes |-> o.bytes]
    BY <1>2, <1>3, <1>4, <1>8
  <2>2. \A q \in live' \ {o} : q \in live
    BY <1>2, <1>8
  <2> QED
    BY <1>5, <1>8, <2>1, <2>2
<1> QED
  BY <1>2, <1>7, <1>8

\* Releasing a page that is behind the bump pointer and holds no object in
\* use, and dropping an object, disturb none of it.
LEMMA OthersKeepObjects ==
  ASSUME IInv, ~ReleasesCurrentPage,
         \/ UNCHANGED vars
         \/ \E o \in live : Drop(o)
         \/ \E p \in Page : om_release_page(p)
  PROVE  ReleasedBehind' /\ LiveOnHeldPages' /\ LiveObjectsIntact'
<1> USE DEF IInv, ReleasedBehind, LiveOnHeldPages, LiveObjectsIntact
<1>1. CASE UNCHANGED vars
  BY <1>1 DEF vars, tables
<1>2. ASSUME NEW o \in live, Drop(o)
      PROVE  ReleasedBehind' /\ LiveOnHeldPages' /\ LiveObjectsIntact'
  BY <1>2 DEF Drop, tables
<1>3. ASSUME NEW p \in Page, om_release_page(p)
      PROVE  ReleasedBehind' /\ LiveOnHeldPages' /\ LiveObjectsIntact'
  <2>1. /\ reusable' = [reusable EXCEPT ![p] = TRUE]
        /\ free' = free /\ memory' = memory /\ live' = live
        /\ om_page_end(p) <= free
        /\ \A o \in live : p \notin PagesOf(o.start, o.units)
    BY <1>3 DEF om_release_page, MayRelease
  <2>2. reusable \in [Page -> BOOLEAN]
    BY DEF TypeOK
  <2>3. \A q \in Page : reusable'[q] = (reusable[q] \/ q = p)
    BY <2>1, <2>2
  <2>4. ReleasedBehind'
    BY <2>1, <2>3
  <2>5. LiveOnHeldPages'
    <3> SUFFICES ASSUME NEW o \in live
                 PROVE  \A q \in PagesOf(o.start, o.units) : ~reusable'[q]
      BY <2>1
    <3>1. \A q \in PagesOf(o.start, o.units) : ~reusable[q] /\ q # p
      BY <2>1
    <3> QED BY <2>1, <2>2, <3>1
  <2> QED
    BY <2>1, <2>4, <2>5
<1> QED
  BY <1>1, <1>2, <1>3

\* The invariant holds for a client that does not release the page that is
\* being filled.
THEOREM Invariant ==
  ASSUME ~ReleasesCurrentPage
  PROVE  Spec => []IInv
<1>1. Init => IInv
  BY PageAssumption, PagesOfTheHeap
     DEF Init, IInv, TypeOK, ReleasedBehind, LiveOnHeldPages, LiveObjectsIntact
<1>2. IInv /\ [Next]_vars => IInv'
  <2> SUFFICES ASSUME IInv, [Next]_vars PROVE IInv'
    OBVIOUS
  <2>1. ASSUME NEW n \in ObjectUnits, NEW bytes \in BOOLEAN, om_alloc(n, bytes)
        PROVE  IInv'
    BY <2>1, AllocTypes, AllocKeepsPages, AllocKeepsObjects DEF IInv
  <2>2. CASE \/ UNCHANGED vars
             \/ \E o \in live : Drop(o)
             \/ \E p \in Page : om_release_page(p)
    BY <2>2, OtherTypes, OthersKeepObjects DEF IInv
  <2> QED
    BY <2>1, <2>2 DEF Next
<1> QED
  BY <1>1, <1>2, PTL DEF Spec

\* No object in use is overwritten or shares a unit with another, whatever is
\* allocated, dropped, released and reused.
THEOREM IntactTheorem ==
  ASSUME ~ReleasesCurrentPage
  PROVE  Spec => []LiveObjectsIntact
<1>1. IInv => LiveObjectsIntact
  BY DEF IInv
<1> QED
  BY <1>1, Invariant, PTL

-----------------------------------------------------------------------------
(* The pages that a store marks. *)

\* The pages of an image are those that start behind the bump pointer.
LEMMA PagesOfTheImage ==
  ASSUME TypeOK, NEW p \in Int
  PROVE  p \in ImagePage <=> p \in Nat /\ om_page_start(p) < free
<1>1. OM_PAGE_UNITS \in Nat \ {0} /\ HeapStart = 2
  BY PageAssumption DEF HeapStart
<1>2. free \in Nat /\ HeapStart <= free
  BY PagesOfTheHeap DEF TypeOK
<1> DEFINE c == checkpoint_page_count
<1>3. /\ c \in Nat
      /\ c * OM_PAGE_UNITS <= free - HeapStart + OM_PAGE_UNITS - 1
      /\ free - HeapStart + OM_PAGE_UNITS - 1 < (c + 1) * OM_PAGE_UNITS
  BY <1>1, <1>2 DEF checkpoint_page_count
<1>4. ImagePage = 0..(c - 1)
  BY DEF ImagePage
<1> HIDE DEF c
<1>5. ASSUME p \in Nat, p + 1 <= c PROVE om_page_start(p) < free
  <2>1. (p + 1) * OM_PAGE_UNITS <= c * OM_PAGE_UNITS
    BY <1>1, <1>3, <1>5
  <2>2. (p + 1) * OM_PAGE_UNITS = p * OM_PAGE_UNITS + OM_PAGE_UNITS
    BY <1>1, <1>5
  <2>3. p * OM_PAGE_UNITS \in Int /\ c * OM_PAGE_UNITS \in Int
    BY <1>1, <1>3, <1>5
  <2> QED
    BY <1>1, <1>2, <1>3, <2>1, <2>2, <2>3 DEF om_page_start
<1>6. ASSUME p \in Nat, c <= p PROVE ~ (om_page_start(p) < free)
  <2>1. c * OM_PAGE_UNITS <= p * OM_PAGE_UNITS
    BY <1>1, <1>3, <1>6
  <2>2. (c + 1) * OM_PAGE_UNITS = c * OM_PAGE_UNITS + OM_PAGE_UNITS
    BY <1>1, <1>3
  <2>3. p * OM_PAGE_UNITS \in Int /\ c * OM_PAGE_UNITS \in Int
    BY <1>1, <1>3, <1>6
  <2> QED
    BY <1>1, <1>2, <1>3, <2>1, <2>2, <2>3 DEF om_page_start
<1>7. p \in 0..(c - 1) <=> p \in Nat /\ p + 1 <= c
  BY <1>3
<1>8. p \in Nat => (p + 1 <= c \/ c <= p)
  BY <1>3
<1> QED
  BY <1>4, <1>5, <1>6, <1>7, <1>8

\* A page is touched by a range of units behind the bump pointer exactly when
\* its part of the image has one of them.
LEMMA RangeInImage ==
  ASSUME TypeOK, NEW a \in Address, NEW n \in Nat \ {0}, a + n <= free
  PROVE  PagesOf(a, n)
           = {p \in ImagePage : a..(a + n - 1) \cap om_page_start(p)..(checkpoint_page_end(p) - 1) # {}}
<1>1. /\ a \in Nat /\ a >= HeapStart /\ HeapStart \in Nat /\ HeapEnd \in Nat
      /\ free \in Nat /\ free <= HeapEnd /\ PageCount \in Nat
  BY PagesOfTheHeap DEF Address, TypeOK
<1> DEFINE b == a + n - 1
           from == om_page_id_for_address(a)
           to == om_page_id_for_address(b)
<1>2. b \in Nat /\ a <= b /\ b < free /\ b >= HeapStart /\ a + n <= HeapEnd
  BY <1>1
<1>3. /\ from \in Nat /\ om_page_start(from) <= a /\ a < om_page_end(from)
      /\ to \in Nat /\ om_page_start(to) <= b /\ b < om_page_end(to)
  <2> HIDE DEF b
  <2> QED BY <1>1, <1>2, PageOfUnit
<1>4. PagesOf(a, n) = from..to
  BY DEF PagesOf
<1>5. OM_PAGE_UNITS \in Nat \ {0}
  BY PageAssumption
<1>6. ASSUME NEW p \in Nat
      PROVE  /\ om_page_start(p) \in Nat /\ om_page_end(p) = om_page_start(p) + OM_PAGE_UNITS
             /\ checkpoint_page_end(p) \in Int
             /\ checkpoint_page_end(p) <= om_page_end(p) /\ checkpoint_page_end(p) <= free
  BY <1>1, <1>5 DEF om_page_start, om_page_end, checkpoint_page_end, HeapStart
<1>7. ASSUME NEW p \in from..to
      PROVE  /\ p \in ImagePage
             /\ a..b \cap om_page_start(p)..(checkpoint_page_end(p) - 1) # {}
  <2> HIDE DEF from, to, b
  <2>1. p \in Nat /\ from <= p /\ p <= to
    BY <1>3
  <2>2. om_page_start(p) <= b
    <3>1. CASE p = to
      BY <1>3, <3>1
    <3>2. CASE p < to
      <4>1. om_page_end(p) <= om_page_start(to) /\ om_page_start(to) \in Int
        BY <1>3, <2>1, <3>2, PagesInOrder
      <4> QED
        BY <1>2, <1>3, <1>5, <1>6, <2>1, <4>1
    <3> QED
      BY <1>3, <2>1, <3>1, <3>2
  <2>3. p \in ImagePage
    BY <1>1, <1>2, <1>6, <2>1, <2>2, PagesOfTheImage
  <2>4. CASE p = from
    <3>1. om_page_start(p) <= a /\ a < om_page_end(p) /\ a < free
      BY <1>1, <1>2, <1>3, <2>4
    <3>2. a < checkpoint_page_end(p)
      BY <3>1 DEF checkpoint_page_end
    <3>3. a \in a..b /\ a \in om_page_start(p)..(checkpoint_page_end(p) - 1)
      BY <1>1, <1>2, <1>6, <2>1, <3>1, <3>2
    <3> QED
      BY <2>3, <3>3
  <2>5. CASE from < p
    <3> DEFINE s == om_page_start(p)
    <3>1. om_page_end(from) <= s
      BY <1>3, <2>1, <2>5, PagesInOrder
    <3>2. s \in Nat /\ s < om_page_end(p) /\ s < free
      BY <1>1, <1>2, <1>5, <1>6, <2>1, <2>2
    <3>3. s < checkpoint_page_end(p)
      BY <3>2 DEF checkpoint_page_end
    <3>4. a <= s
      <4>1. om_page_end(from) \in Int
        BY <1>3, <1>5, <1>6
      <4> HIDE DEF s
      <4> QED BY <1>1, <1>3, <3>1, <3>2, <4>1
    <3>5. checkpoint_page_end(p) \in Int
      BY <1>6, <2>1
    <3>6. s \in a..b
      <4> HIDE DEF s
      <4> QED BY <1>1, <1>2, <2>2, <3>2, <3>4 DEF s
    <3>7. s \in s..(checkpoint_page_end(p) - 1)
      <4> HIDE DEF s
      <4> QED BY <3>2, <3>3, <3>5
    <3> QED
      BY <2>3, <3>6, <3>7
  <2> QED
    BY <1>3, <2>1, <2>4, <2>5
<1>8. ASSUME NEW p \in ImagePage, NEW u \in a..b,
             u \in om_page_start(p)..(checkpoint_page_end(p) - 1)
      PROVE  p \in from..to
  <2> HIDE DEF b
  <2>1. p \in Nat
    <3>1. p \in Int
      <4>1. checkpoint_page_count \in Int
        BY <1>1, <1>5 DEF checkpoint_page_count
      <4> QED BY <4>1 DEF ImagePage
    <3> QED BY <3>1, PagesOfTheImage
  <2>2. u \in Int /\ a <= u /\ u <= b /\ u >= HeapStart
    BY <1>1, <1>2
  <2>3. om_page_start(p) <= u /\ u < om_page_end(p)
    <3> DEFINE s == om_page_start(p)
               e == checkpoint_page_end(p)
               t == om_page_end(p)
    <3>1. s \in Int /\ e \in Int /\ t \in Int /\ e <= t /\ u \in s..(e - 1)
      BY <1>5, <1>6, <1>8, <2>1
    <3> HIDE DEF s, e, t
    <3>2. s <= u /\ u < t
      BY <2>2, <3>1
    <3> QED
      BY <3>2 DEF s, t
  <2>4. om_page_id_for_address(u) = p
    BY <2>1, <2>2, <2>3, PageIsUnique
  <2>5. from <= p /\ p <= to
    BY <1>1, <1>2, <2>2, <2>4, PagesAreMonotone
  <2> HIDE DEF from, to
  <2> QED
    BY <1>3, <2>1, <2>5
<1>9. from..to = {p \in ImagePage : a..b \cap om_page_start(p)..(checkpoint_page_end(p) - 1) # {}}
  <2> HIDE DEF from, to, b
  <2> QED BY <1>7, <1>8
<1> QED
  BY <1>4, <1>9

\* A store to an object marks the pages whose copies change, and no other,
\* whether a field or the whole object is stored to.
THEOREM MarkTheorem ==
  ASSUME ~ReleasesCurrentPage
  PROVE  Spec => []StoresMarkTheirPages
<1>1. IInv => StoresMarkTheirPages
  <2> SUFFICES ASSUME IInv, NEW o \in live
               PROVE  /\ om_mark_address_range_dirty(o.start, o.units)
                           = {p \in ImagePage : Extent(o) \cap om_page_start(p)..(checkpoint_page_end(p) - 1) # {}}
                      /\ \A u \in Extent(o) :
                           \A p \in om_mark_address_range_dirty(u, 1) :
                             u \in om_page_start(p)..(checkpoint_page_end(p) - 1)
    BY DEF StoresMarkTheirPages
  <2>1. /\ TypeOK /\ o.start \in Address /\ o.start \in Nat
        /\ o.units \in Nat \ {0} /\ o.start + o.units <= free
    BY LiveObject DEF IInv, LiveOnHeldPages
  <2>2. PagesOf(o.start, o.units)
          = {p \in ImagePage : Extent(o) \cap om_page_start(p)..(checkpoint_page_end(p) - 1) # {}}
    BY <2>1, RangeInImage DEF Extent
  <2>3. ASSUME NEW u \in Extent(o), NEW p \in PagesOf(u, 1)
        PROVE  u \in om_page_start(p)..(checkpoint_page_end(p) - 1)
    <3>1. free \in Nat /\ free <= HeapEnd /\ HeapEnd \in Nat
      BY <2>1, PagesOfTheHeap DEF TypeOK
    <3>2. o.start + o.units <= HeapEnd
      BY <2>1, <3>1
    <3>3. u \in Address /\ u \in Nat /\ u + 1 <= free
      BY <2>1, <2>3, <3>1, <3>2, PagesOfRange DEF Extent
    <3>4. p \in {q \in ImagePage :
                   u..(u + 1 - 1) \cap om_page_start(q)..(checkpoint_page_end(q) - 1) # {}}
      BY <2>1, <2>3, <3>3, RangeInImage, SMTT(30)
    <3>5. u..(u + 1 - 1) = {u}
      BY <3>3
    <3> QED
      BY <3>4, <3>5
  <2> QED
    BY <2>2, <2>3 DEF om_mark_address_range_dirty
<1> QED
  BY <1>1, Invariant, PTL

-----------------------------------------------------------------------------
(* The walk: what the tables and the headers say of each other. *)

\* The units that the tables say are filled.
FilledUnits ==
  {u \in Address :
     u - om_page_start(om_page_id_for_address(u)) < used[om_page_id_for_address(u)]}

\* Where the objects start, those that are no longer used included.
Objects == {a \in FilledUnits : memory[a] # Slot}

Body(m, a) == a..(a + m[a].units - 1)

\* A page is filled up to the bump pointer at most, and the page of the bump
\* pointer up to it exactly.
FilledInv ==
  \A p \in Page :
    /\ used[p] # 0 => om_page_start(p) + used[p] <= free
    /\ om_page_start(p) <= free /\ free < om_page_end(p) => om_page_start(p) + used[p] = free

\* The objects tile the filled units.
TiledInv ==
  /\ \A a \in Objects : \A u \in Body(memory, a) : u \in FilledUnits /\ (u # a => memory[u] = Slot)
  /\ \A u \in FilledUnits : \E a \in Objects : u \in Body(memory, a)

\* A page that is not free is covered from its start on; the first object of a
\* page is the first that starts there.
TablesInv ==
  \A p \in Page :
    /\ used[p] = 0 <=> covering[p] = NULL
    /\ used[p] = 0 <=> state[p] = "free"
    /\ covering[p] # NULL => covering[p] \in Objects /\ om_page_start(p) \in Body(memory, covering[p])
    /\ first[p] # NULL => first[p] \in Objects /\ om_page_id_for_address(first[p]) = p
    /\ \A a \in Objects : om_page_id_for_address(a) = p => first[p] # NULL /\ first[p] <= a

\* The tables lead to every object in use.
LiveListed == \A o \in live : o.start \in Objects

WalkInv == FilledInv /\ TiledInv /\ TablesInv /\ LiveListed

\* The numbers of a page.
LEMMA PageNumbers ==
  ASSUME TypeOK, NEW p \in Page
  PROVE  /\ p \in Nat /\ OM_PAGE_UNITS \in Nat \ {0}
         /\ om_page_start(p) \in Address /\ om_page_start(p) \in Nat
         /\ om_page_end(p) = om_page_start(p) + OM_PAGE_UNITS
         /\ om_page_end(p) \in Nat
         /\ used[p] \in 0..OM_PAGE_UNITS /\ used[p] \in Nat
         /\ free \in Nat /\ HeapEnd \in Nat /\ free <= HeapEnd /\ HeapStart \in Nat
<1>1. PageCount \in Nat /\ OM_PAGE_UNITS \in Nat \ {0}
  BY PagesOfTheHeap, PageAssumption
<1>2. p \in Nat
  BY <1>1 DEF Page
<1>3. om_page_start(p) \in Address /\ om_page_start(p) \in Nat
  BY PagesOfTheHeap
<1>4. om_page_end(p) = om_page_start(p) + OM_PAGE_UNITS
  BY DEF om_page_end
<1>5. used[p] \in 0..OM_PAGE_UNITS /\ used[p] \in Nat
  BY <1>1 DEF TypeOK
<1>6. free \in HeapStart..HeapEnd /\ HeapEnd \in Nat /\ HeapStart \in Nat
  BY PagesOfTheHeap DEF TypeOK
<1> QED
  BY <1>1, <1>2, <1>3, <1>4, <1>5, <1>6

\* A unit in the heap and its page.
LEMMA UnitAndPage ==
  ASSUME NEW u \in Address
  PROVE  /\ u \in Nat /\ om_page_id_for_address(u) \in Page
         /\ om_page_start(om_page_id_for_address(u)) <= u
         /\ u < om_page_end(om_page_id_for_address(u))
         /\ HeapStart <= u /\ u < HeapEnd
<1>1. u \in Nat /\ u \in Int /\ HeapStart <= u /\ u < HeapEnd /\ om_page_id_for_address(u) \in Page
  BY PagesOfTheHeap DEF Address
<1>2. u >= HeapStart
  BY <1>1
<1> QED
  BY <1>1, <1>2, PageOfUnit

\* A filled unit is in the filled part of its page, behind the bump pointer.
LEMMA FilledIn ==
  ASSUME TypeOK, FilledInv, NEW u \in FilledUnits
  PROVE  /\ u \in Address /\ u \in Nat /\ om_page_id_for_address(u) \in Page
         /\ used[om_page_id_for_address(u)] # 0
         /\ om_page_start(om_page_id_for_address(u)) <= u
         /\ u < om_page_start(om_page_id_for_address(u)) + used[om_page_id_for_address(u)]
         /\ u < free
<1> DEFINE p == om_page_id_for_address(u)
<1>1. u \in Address /\ u - om_page_start(p) < used[p]
  BY DEF FilledUnits
<1>2. u \in Nat /\ p \in Page /\ om_page_start(p) <= u
  BY <1>1, UnitAndPage
<1> HIDE DEF p
<1>3. om_page_start(p) \in Nat /\ used[p] \in Nat /\ free \in Nat
  BY <1>2, PageNumbers
<1>4. used[p] # 0 /\ u < om_page_start(p) + used[p]
  BY <1>1, <1>2, <1>3
<1>5. om_page_start(p) + used[p] <= free
  BY <1>2, <1>4 DEF FilledInv
<1>6. u < free
  BY <1>2, <1>3, <1>4, <1>5
<1> QED
  BY <1>1, <1>2, <1>4, <1>6 DEF p

\* The filled part of a page.
LEMMA FilledOf ==
  ASSUME TypeOK, NEW p \in Page, NEW u \in Address,
         om_page_id_for_address(u) = p
  PROVE  u \in FilledUnits <=> u < om_page_start(p) + used[p]
<1>1. om_page_start(p) \in Nat /\ used[p] \in Nat
  BY PageNumbers
<1>2. u \in Nat
  BY UnitAndPage
<1>3. u \in FilledUnits <=> u - om_page_start(p) < used[p]
  BY DEF FilledUnits
<1> QED
  BY <1>1, <1>2, <1>3


\* The pages that a range touches are those that have one of its units.
LEMMA PagesTouched ==
  ASSUME TypeOK, NEW a \in Address, NEW n \in Nat \ {0}, a + n <= HeapEnd, NEW q \in Page
  PROVE  q \in PagesOf(a, n) <=> om_page_start(q) < a + n /\ a < om_page_end(q)
<1> DEFINE b == a + n - 1
           from == om_page_id_for_address(a)
           to == om_page_id_for_address(b)
<1>1. b \in Address
  BY PagesOfRange
<1>2. /\ a \in Nat /\ from \in Page /\ om_page_start(from) <= a /\ a < om_page_end(from)
      /\ b \in Nat /\ to \in Page /\ om_page_start(to) <= b /\ b < om_page_end(to)
  <2> HIDE DEF b
  <2> QED BY <1>1, UnitAndPage
<1>3. a + n = b + 1
  BY <1>2
<1>4. q \in PagesOf(a, n) <=> from <= q /\ q <= to
  <2>1. from \in Nat /\ to \in Nat /\ q \in Nat
    BY <1>2, PageNumbers
  <2>2. PagesOf(a, n) = from..to
    BY DEF PagesOf
  <2> HIDE DEF from, to
  <2> QED BY <2>1, <2>2
<1> HIDE DEF from, to, b
<1>5. /\ q \in Nat /\ om_page_start(q) \in Nat /\ om_page_end(q) \in Nat
      /\ from \in Nat /\ om_page_start(from) \in Nat /\ om_page_end(from) \in Nat
      /\ to \in Nat /\ om_page_start(to) \in Nat /\ om_page_end(to) \in Nat
  BY <1>2, PageNumbers
<1>6. q < from => om_page_end(q) <= om_page_start(from)
  BY <1>5, PagesInOrder
<1>7. /\ from < q => om_page_end(from) <= om_page_start(q)
      /\ om_page_start(q) < om_page_end(q)
  <2>1. om_page_start(q) < om_page_end(q)
    BY PageNumbers
  <2> QED BY <1>5, <2>1, PagesInOrder
<1>8. q < to => om_page_end(q) <= om_page_start(to)
  BY <1>5, PagesInOrder
<1>9. to < q => om_page_end(to) <= om_page_start(q)
  BY <1>5, PagesInOrder
<1>10. CASE from <= q /\ q <= to
  <2>1. a < om_page_end(q)
    BY <1>2, <1>5, <1>7, <1>10
  <2>2. om_page_start(q) <= b
    BY <1>2, <1>5, <1>7, <1>8, <1>10
  <2> QED BY <1>2, <1>3, <1>4, <1>5, <1>10, <2>1, <2>2
<1>11. CASE q < from
  BY <1>2, <1>4, <1>5, <1>6, <1>11
<1>12. CASE to < q
  BY <1>2, <1>3, <1>4, <1>5, <1>9, <1>12
<1> QED
  BY <1>5, <1>10, <1>11, <1>12

\* An object that does not go to the bump pointer itself starts a page.
LEMMA BumpedPlacement ==
  ASSUME TypeOK, NEW n \in ObjectUnits, ReusablePages(n) = {}
  PROVE  Placement(n) = free \/ (\E p \in Nat : free < Placement(n) /\ Placement(n) = om_page_start(p))
<1>1. OM_PAGE_UNITS \in Nat \ {0} /\ HeapStart = 2 /\ free \in Nat /\ HeapStart <= free
  BY PageAssumption, PagesOfTheHeap DEF HeapStart, TypeOK
<1>2. Placement(n) = BumpStart(n)
  BY DEF Placement
<1> DEFINE q == (free - HeapStart) \div OM_PAGE_UNITS
           off == (free - HeapStart) % OM_PAGE_UNITS
<1>3. /\ q \in Nat /\ off \in Nat /\ off < OM_PAGE_UNITS
      /\ free - HeapStart = OM_PAGE_UNITS * q + off
  BY <1>1
<1>4. BumpStart(n) = free \/ BumpStart(n) = free - off + OM_PAGE_UNITS
  BY DEF BumpStart
<1> HIDE DEF q, off
<1>5. OM_PAGE_UNITS * q = q * OM_PAGE_UNITS /\ q * OM_PAGE_UNITS \in Nat
      /\ (q + 1) * OM_PAGE_UNITS = q * OM_PAGE_UNITS + OM_PAGE_UNITS
  BY <1>1, <1>3
<1>6. ASSUME BumpStart(n) = free - off + OM_PAGE_UNITS
      PROVE  q + 1 \in Nat /\ free < BumpStart(n) /\ BumpStart(n) = om_page_start(q + 1)
  BY <1>1, <1>3, <1>5, <1>6 DEF om_page_start
<1> QED
  BY <1>2, <1>4, <1>6

\* A page of a new object was filled up to the object, or not at all.
LEMMA FilledUpTo ==
  ASSUME IInv, FilledInv, TablesInv, NEW n \in ObjectUnits, Placement(n) + n <= HeapEnd,
         NEW q \in PagesOf(Placement(n), n)
  PROVE  IF om_page_start(q) <= Placement(n) THEN om_page_start(q) + used[q] = Placement(n)
         ELSE used[q] = 0
<1> DEFINE a == Placement(n)
<1>1. /\ TypeOK /\ n \in Nat \ {0} /\ a \in Address /\ a \in Nat
  <2>1. ASSUME NEW p \in ReusablePages(n) PROVE ReusablePages(n) # {}
    OBVIOUS
  <2>2. TypeOK /\ a \in Address
    BY <2>1, PlacementOfObject DEF IInv
  <2> HIDE DEF a
  <2> QED BY <2>2, UnitsAssumption, UnitAndPage
<1>2. q \in Page
  BY <1>1, PagesOfRange
<1>3. /\ om_page_start(q) < a + n /\ a < om_page_end(q)
  BY <1>1, <1>2, PagesTouched
<1>4. /\ om_page_start(q) \in Nat /\ used[q] \in Nat /\ free \in Nat /\ om_page_end(q) \in Nat
      /\ q \in Nat
  BY <1>1, <1>2, PageNumbers
<1>5. /\ used[q] # 0 => om_page_start(q) + used[q] <= free
      /\ om_page_start(q) <= free /\ free < om_page_end(q) => om_page_start(q) + used[q] = free
  BY <1>2 DEF FilledInv
<1>6. CASE ReusablePages(n) = {}
  <2>1. CASE a = free
    BY <1>3, <1>4, <1>5, <2>1
  <2>2. ASSUME NEW p \in Nat, free < a, a = om_page_start(p)
        PROVE  om_page_start(q) >= a /\ used[q] = 0
    <3>1. ~ (q < p)
      BY <1>1, <1>3, <1>4, <2>2, PagesInOrder
    <3>2. q = p \/ p < q
      BY <1>4, <3>1
    <3>3. p < q => om_page_end(p) <= om_page_start(q) /\ om_page_start(p) < om_page_end(p)
                   /\ om_page_end(p) \in Int
      BY <1>4, PagesInOrder
    <3> HIDE DEF a
    <3>4. om_page_start(q) >= a
      BY <1>1, <1>4, <2>2, <3>2, <3>3
    <3> QED BY <1>1, <1>4, <1>5, <2>2, <3>4
  <2>3. a = free \/ \E p \in Nat : free < a /\ a = om_page_start(p)
    BY <1>1, <1>6, BumpedPlacement
  <2> HIDE DEF a
  <2>4. a # free => om_page_start(q) >= a /\ used[q] = 0
    BY <2>2, <2>3
  <2>5. a # free => IF om_page_start(q) <= a THEN om_page_start(q) + used[q] = a ELSE used[q] = 0
    BY <1>1, <1>4, <2>4
  <2> QED BY <2>1, <2>5 DEF a
<1>7. CASE ReusablePages(n) # {}
  <2>1. PICK p \in ReusablePages(n) : a = om_page_start(p) /\ PagesOf(a, n) = {p}
    BY <1>1, <1>7, PlacementOfObject
  <2>2. q = p /\ state[q] = "free"
    BY <2>1 DEF ReusablePages
  <2>3. used[q] = 0
    BY <1>2, <2>2 DEF TablesInv
  <2> QED BY <1>4, <2>1, <2>2, <2>3
<1> QED
  BY <1>6, <1>7


\* om_alloc fills the units of the object, which were not filled, and no other.
LEMMA AllocFills ==
  ASSUME IInv, FilledInv, TablesInv, NEW n \in ObjectUnits, NEW bytes \in BOOLEAN, om_alloc(n, bytes)
  PROVE  LET a == Placement(n)
         IN  /\ FilledInv'
             /\ FilledUnits' = FilledUnits \cup a..(a + n - 1)
             /\ FilledUnits \cap a..(a + n - 1) = {}
             /\ \A q \in PagesOf(a, n) : q \in Page /\ used'[q] # 0
             /\ \A q \in Page : q \notin PagesOf(a, n) => used'[q] = used[q]
<1> DEFINE a == Placement(n)
<1>1. /\ TypeOK /\ ReleasedBehind /\ n \in Nat \ {0} /\ a \in Address /\ a \in Nat /\ a + n <= HeapEnd
      /\ \/ ReusablePages(n) = {} /\ free <= a
         \/ \E p \in ReusablePages(n) :
              ReusablePages(n) # {} /\ PagesOf(a, n) = {p} /\ a + n <= om_page_end(p)
  <2>1. TypeOK /\ ReleasedBehind /\ n \in Nat \ {0} /\ a + n <= HeapEnd
    BY UnitsAssumption DEF IInv, om_alloc
  <2>2. /\ a \in Address
        /\ \/ ReusablePages(n) = {} /\ free <= a
           \/ \E p \in ReusablePages(n) :
                ReusablePages(n) # {} /\ PagesOf(a, n) = {p} /\ a + n <= om_page_end(p)
    BY <2>1, PlacementOfObject
  <2> QED BY <2>1, <2>2, UnitAndPage
<1>2. PagesOf(a, n) \subseteq Page
  BY <1>1, PagesOfRange
<1>3. ASSUME NEW q \in PagesOf(a, n)
      PROVE  IF om_page_start(q) <= a THEN om_page_start(q) + used[q] = a ELSE used[q] = 0
  BY <1>1, FilledUpTo
<1>4. ASSUME NEW q \in Page
      PROVE  q \in PagesOf(a, n) <=> om_page_start(q) < a + n /\ a < om_page_end(q)
  BY <1>1, PagesTouched
<1>5. /\ used' = UsedWith(a, n)
      /\ free' = IF ReusablePages(n) = {} THEN a + n ELSE free
  BY DEF om_alloc
<1>6. /\ TypeOK' /\ free \in Nat /\ free' \in Nat /\ free <= free'
  <2>1. TypeOK'
    BY <1>1, AllocTypes
  <2>2. free \in Nat /\ free' \in Nat
    BY <1>1, <2>1, PagesOfTheHeap DEF TypeOK
  <2> HIDE DEF a
  <2> QED BY <1>1, <1>5, <2>1, <2>2
<1>7. ASSUME NEW q \in Page
      PROVE  used'[q] = LET end == IF a + n < om_page_end(q) THEN a + n ELSE om_page_end(q)
                        IN  IF q \in PagesOf(a, n) /\ used[q] < end - om_page_start(q)
                            THEN end - om_page_start(q) ELSE used[q]
  BY <1>5 DEF UsedWith
<1>8. ASSUME NEW q \in Page
      PROVE  /\ om_page_start(q) \in Nat /\ used[q] \in Nat /\ om_page_end(q) \in Nat
             /\ om_page_start(q) < om_page_end(q)
             /\ om_page_start(q) + used[q] <= om_page_end(q)
  BY <1>1, PageNumbers
<1> HIDE DEF a
<1>9. ASSUME NEW q \in PagesOf(a, n)
      PROVE  /\ q \in Page /\ used'[q] # 0
             /\ om_page_start(q) + used'[q] = IF a + n < om_page_end(q) THEN a + n ELSE om_page_end(q)
             /\ om_page_start(q) < a + n /\ a < om_page_end(q)
  <2>1. q \in Page
    BY <1>2
  <2>2. om_page_start(q) < a + n /\ a < om_page_end(q)
    BY <1>4, <2>1
  <2>3. /\ om_page_start(q) \in Nat /\ used[q] \in Nat /\ om_page_end(q) \in Nat
        /\ om_page_start(q) < om_page_end(q)
    BY <1>8, <2>1
  <2>4. IF om_page_start(q) <= a THEN om_page_start(q) + used[q] = a ELSE used[q] = 0
    BY <1>3
  <2> DEFINE end == IF a + n < om_page_end(q) THEN a + n ELSE om_page_end(q)
  <2>5. used'[q] = IF used[q] < end - om_page_start(q) THEN end - om_page_start(q) ELSE used[q]
    BY <1>7, <2>1
  <2>6. end \in Nat /\ used[q] < end - om_page_start(q)
    BY <1>1, <2>2, <2>3, <2>4
  <2> HIDE DEF end
  <2>7. used'[q] = end - om_page_start(q) /\ used'[q] # 0 /\ om_page_start(q) + used'[q] = end
    BY <2>3, <2>5, <2>6
  <2> QED BY <2>1, <2>2, <2>7 DEF end
<1>10. \A q \in Page : q \notin PagesOf(a, n) => used'[q] = used[q]
  BY <1>7
<1>11. ASSUME NEW u \in Address
       PROVE  /\ u \in FilledUnits' <=> u \in FilledUnits \/ u \in a..(a + n - 1)
              /\ u \in FilledUnits => u \notin a..(a + n - 1)
  <2> DEFINE q == om_page_id_for_address(u)
  <2>1. u \in Nat /\ q \in Page /\ om_page_start(q) <= u /\ u < om_page_end(q)
    BY UnitAndPage
  <2>2. u \in FilledUnits <=> u < om_page_start(q) + used[q]
    BY <1>1, <2>1, FilledOf
  <2>3. u \in FilledUnits' <=> u < om_page_start(q) + used'[q]
    <3>1. u \in FilledUnits' <=> u - om_page_start(q) < used'[q]
      BY DEF FilledUnits
    <3> HIDE DEF q
    <3>2. used'[q] \in Nat
      BY <1>6, <2>1 DEF TypeOK
    <3> QED BY <1>8, <2>1, <3>1, <3>2
  <2> HIDE DEF q
  <2>4. u \in a..(a + n - 1) <=> a <= u /\ u < a + n
    BY <1>1, <2>1
  <2>5. CASE q \in PagesOf(a, n)
    BY <1>1, <1>3, <1>8, <1>9, <2>1, <2>2, <2>3, <2>4, <2>5
  <2>6. CASE q \notin PagesOf(a, n)
    <3>1. ~ (om_page_start(q) < a + n /\ a < om_page_end(q))
      BY <1>4, <2>1, <2>6
    <3>2. ~ (a <= u /\ u < a + n)
      BY <1>1, <1>8, <2>1, <3>1
    <3> QED BY <1>10, <2>1, <2>2, <2>3, <2>4, <2>6, <3>2
  <2> QED BY <2>5, <2>6
<1>12. a..(a + n - 1) \subseteq Address /\ FilledUnits \subseteq Address /\ FilledUnits' \subseteq Address
  BY <1>1, PagesOfRange DEF FilledUnits
<1>13. FilledInv'
  <2> SUFFICES ASSUME NEW q \in Page
               PROVE  /\ used'[q] # 0 => om_page_start(q) + used'[q] <= free'
                      /\ om_page_start(q) <= free' /\ free' < om_page_end(q)
                           => om_page_start(q) + used'[q] = free'
    BY DEF FilledInv
  <2>1. /\ om_page_start(q) \in Nat /\ used[q] \in Nat /\ om_page_end(q) \in Nat
        /\ om_page_start(q) < om_page_end(q)
    BY <1>8
  <2>2. /\ used[q] # 0 => om_page_start(q) + used[q] <= free
        /\ om_page_start(q) <= free /\ free < om_page_end(q) => om_page_start(q) + used[q] = free
    BY DEF FilledInv
  <2>3. CASE ReusablePages(n) = {} /\ free <= a
    <3>1. free' = a + n
      BY <1>5, <2>3
    <3>2. CASE q \in PagesOf(a, n)
      BY <1>1, <1>9, <2>1, <3>1, <3>2
    <3>3. CASE q \notin PagesOf(a, n)
      BY <1>1, <1>4, <1>6, <1>10, <2>1, <2>2, <2>3, <3>1, <3>3
    <3> QED BY <3>2, <3>3
  <2>4. ASSUME NEW p \in ReusablePages(n), ReusablePages(n) # {}, PagesOf(a, n) = {p},
               a + n <= om_page_end(p)
        PROVE  /\ used'[q] # 0 => om_page_start(q) + used'[q] <= free'
               /\ om_page_start(q) <= free' /\ free' < om_page_end(q)
                    => om_page_start(q) + used'[q] = free'
    <3>1. free' = free
      BY <1>5, <2>4
    <3>2. p \in Page /\ reusable[p]
      BY DEF ReusablePages
    <3>3. om_page_end(p) <= free
      BY <1>1, <3>2 DEF ReleasedBehind
    <3>4. CASE q = p
      <4>1. om_page_start(q) + used'[q] <= om_page_end(q)
        BY <1>1, <1>9, <2>1, <2>4, <3>4
      <4>2. used'[q] \in Nat
        BY <1>6 DEF TypeOK
      <4> QED BY <1>6, <2>1, <3>1, <3>3, <3>4, <4>1, <4>2
    <3>5. CASE q # p
      BY <1>10, <2>2, <2>4, <3>1, <3>5
    <3> QED BY <3>4, <3>5
  <2> QED BY <1>1, <2>3, <2>4
<1> QED
  BY <1>9, <1>10, <1>11, <1>12, <1>13 DEF a


\* om_alloc adds one object to the tiling.
LEMMA AllocTiles ==
  ASSUME IInv, WalkInv, NEW n \in ObjectUnits, NEW bytes \in BOOLEAN, om_alloc(n, bytes)
  PROVE  LET a == Placement(n)
         IN  /\ Objects' = Objects \cup {a}
             /\ \A b \in Objects : Body(memory', b) = Body(memory, b)
             /\ Body(memory', a) = a..(a + n - 1)
             /\ TiledInv' /\ LiveListed'
<1> DEFINE a == Placement(n)
<1>1. /\ FilledUnits' = FilledUnits \cup a..(a + n - 1)
      /\ FilledUnits \cap a..(a + n - 1) = {}
  BY AllocFills DEF WalkInv
<1>2. n \in Nat \ {0} /\ a \in Address /\ a \in Nat /\ a + n <= HeapEnd
  <2>1. ASSUME NEW p \in ReusablePages(n) PROVE ReusablePages(n) # {}
    OBVIOUS
  <2>2. a + n <= HeapEnd
    BY DEF om_alloc
  <2>3. a \in Address
    BY <2>1, <2>2, PlacementOfObject DEF IInv
  <2> HIDE DEF a
  <2> QED BY <2>2, <2>3, UnitsAssumption, UnitAndPage
<1>3. a..(a + n - 1) \subseteq Address
  BY <1>2, PagesOfRange
<1>4. /\ memory' = [u \in Address |-> IF u = a THEN [units |-> n, bytes |-> bytes]
                                      ELSE IF u \in a..(a + n - 1) THEN Slot
                                      ELSE memory[u]]
      /\ live' = live \cup {[start |-> a, units |-> n, bytes |-> bytes]}
  BY DEF om_alloc
<1> HIDE DEF a
<1>5. a \in a..(a + n - 1)
  BY <1>2
<1>6. memory'[a].units = n /\ memory'[a] # Slot
  <2>1. memory'[a] = [units |-> n, bytes |-> bytes]
    BY <1>2, <1>4
  <2> QED BY <1>2, <2>1 DEF Slot
<1>7. \A u \in a..(a + n - 1) : u # a => memory'[u] = Slot
  BY <1>3, <1>4
<1>8. \A u \in FilledUnits : memory'[u] = memory[u] /\ u # a /\ u \in Address
  BY <1>1, <1>4, <1>5 DEF FilledUnits
<1>9. Objects' = {u \in FilledUnits' : memory'[u] # Slot}
  BY DEF Objects
<1>10. Objects' = Objects \cup {a}
  BY <1>1, <1>5, <1>6, <1>7, <1>8, <1>9 DEF Objects
<1>11. ASSUME NEW b \in Objects PROVE Body(memory', b) = Body(memory, b) /\ b \in FilledUnits
  <2>1. b \in FilledUnits /\ memory'[b] = memory[b]
    BY <1>8 DEF Objects
  <2>2. Body(memory', b) = b..(b + memory'[b].units - 1)
    BY DEF Body
  <2> QED BY <2>1, <2>2 DEF Body
<1>12. Body(memory', a) = a..(a + n - 1)
  <2>1. Body(memory', a) = a..(a + memory'[a].units - 1)
    BY DEF Body
  <2> QED BY <1>6, <2>1
<1>13. TiledInv'
  <2>1. ASSUME NEW b \in Objects', NEW u \in Body(memory', b)
        PROVE  u \in FilledUnits' /\ (u # b => memory'[u] = Slot)
    <3>1. CASE b \in Objects
      <4>1. u \in FilledUnits /\ (u # b => memory[u] = Slot)
        BY <1>11, <2>1, <3>1 DEF WalkInv, TiledInv
      <4> QED BY <1>1, <1>8, <4>1
    <3>2. CASE b = a
      BY <1>1, <1>7, <1>12, <2>1, <3>2
    <3> QED BY <1>10, <3>1, <3>2
  <2>2. ASSUME NEW u \in FilledUnits'
        PROVE  \E b \in Objects' : u \in Body(memory', b)
    <3>1. CASE u \in FilledUnits
      <4>1. PICK b \in Objects : u \in Body(memory, b)
        BY <3>1 DEF WalkInv, TiledInv
      <4> QED BY <1>10, <1>11, <4>1
    <3>2. CASE u \in a..(a + n - 1)
      BY <1>10, <1>12, <3>2
    <3> QED BY <1>1, <3>1, <3>2
  <2>3. TiledInv' <=>
          /\ \A b \in Objects' : \A u \in Body(memory', b) : u \in FilledUnits' /\ (u # b => memory'[u] = Slot)
          /\ \A u \in FilledUnits' : \E b \in Objects' : u \in Body(memory', b)
    BY DEF TiledInv
  <2> QED BY <2>1, <2>2, <2>3
<1>14. LiveListed'
  <2> SUFFICES ASSUME NEW o \in live' PROVE o.start \in Objects'
    BY DEF LiveListed
  <2>1. CASE o \in live
    BY <1>10, <2>1 DEF WalkInv, LiveListed
  <2>2. CASE o = [start |-> a, units |-> n, bytes |-> bytes]
    BY <1>10, <2>2
  <2> QED BY <1>4, <2>1, <2>2
<1> QED
  BY <1>10, <1>11, <1>12, <1>13, <1>14 DEF a

\* om_alloc enters the object in the tables of its pages.
LEMMA AllocTables ==
  ASSUME IInv, WalkInv, NEW n \in ObjectUnits, NEW bytes \in BOOLEAN, om_alloc(n, bytes)
  PROVE  TablesInv'
<1> DEFINE a == Placement(n)
           p0 == om_page_id_for_address(a)
<1>1. /\ FilledUnits \cap a..(a + n - 1) = {}
      /\ \A q \in PagesOf(a, n) : q \in Page /\ used'[q] # 0
      /\ \A q \in Page : q \notin PagesOf(a, n) => used'[q] = used[q]
  BY AllocFills DEF WalkInv
<1>2. /\ Objects' = Objects \cup {a}
      /\ \A b \in Objects : Body(memory', b) = Body(memory, b)
      /\ Body(memory', a) = a..(a + n - 1)
  BY AllocTiles
<1>3. n \in Nat \ {0} /\ a \in Address /\ a \in Nat /\ a + n <= HeapEnd /\ TypeOK
  <2>1. ASSUME NEW p \in ReusablePages(n) PROVE ReusablePages(n) # {}
    OBVIOUS
  <2>2. a + n <= HeapEnd
    BY DEF om_alloc
  <2>3. a \in Address
    BY <2>1, <2>2, PlacementOfObject DEF IInv
  <2> HIDE DEF a
  <2> QED BY <2>2, <2>3, UnitsAssumption, UnitAndPage DEF IInv
<1>4. p0 \in PagesOf(a, n) /\ p0 \in Page
  BY <1>1, <1>3, PagesOfRange
<1>5. ASSUME NEW q \in PagesOf(a, n)
      PROVE  IF om_page_start(q) <= a THEN om_page_start(q) + used[q] = a ELSE used[q] = 0
  BY <1>3, FilledUpTo DEF WalkInv
<1>6. ASSUME NEW q \in PagesOf(a, n) PROVE om_page_start(q) < a + n /\ a < om_page_end(q)
  BY <1>1, <1>3, PagesTouched
<1>7. /\ covering' = CoveringWith(a, n) /\ first' = FirstWith(a)
      /\ state' = [q \in Page |-> IF q = p0 THEN "head"
                                  ELSE IF q \in PagesOf(a, n) THEN "continuation"
                                  ELSE state[q]]
  BY DEF om_alloc
<1>8. /\ first \in [Page -> Address \cup {NULL}] /\ NULL \notin Address
  BY <1>3, PagesOfTheHeap DEF TypeOK, NULL
<1>9. /\ covering' = [q \in Page |-> IF q \in PagesOf(a, n) /\ covering[q] = NULL THEN a ELSE covering[q]]
      /\ first' = [first EXCEPT ![p0] = IF @ = NULL THEN a ELSE @]
  BY <1>7 DEF CoveringWith, FirstWith
<1>10. \A b \in Objects : b \in FilledUnits /\ b \in Address /\ b \in Nat
  BY UnitAndPage DEF Objects, FilledUnits
<1>11. ASSUME NEW b \in Objects, om_page_id_for_address(b) = p0
       PROVE  b < a
  <2>1. b < om_page_start(p0) + used[p0] /\ om_page_start(p0) <= b
    BY <1>3, <1>10, <1>11, FilledIn DEF WalkInv
  <2>2. om_page_start(p0) \in Nat /\ used[p0] \in Nat
    BY <1>3, <1>4, PageNumbers
  <2>3. om_page_start(p0) <= a
    BY <1>3, UnitAndPage
  <2>4. om_page_start(p0) + used[p0] = a
    BY <1>4, <1>5, <2>3
  <2> QED BY <2>1, <2>4
<1> SUFFICES ASSUME NEW q \in Page
    PROVE  /\ used'[q] = 0 <=> covering'[q] = NULL
           /\ used'[q] = 0 <=> state'[q] = "free"
           /\ covering'[q] # NULL => covering'[q] \in Objects' /\ om_page_start(q) \in Body(memory', covering'[q])
           /\ first'[q] # NULL => first'[q] \in Objects' /\ om_page_id_for_address(first'[q]) = q
           /\ \A b \in Objects' : om_page_id_for_address(b) = q => first'[q] # NULL /\ first'[q] <= b
  BY DEF TablesInv
<1>12. /\ used[q] = 0 <=> covering[q] = NULL
       /\ used[q] = 0 <=> state[q] = "free"
       /\ covering[q] # NULL => covering[q] \in Objects /\ om_page_start(q) \in Body(memory, covering[q])
       /\ first[q] # NULL => first[q] \in Objects /\ om_page_id_for_address(first[q]) = q
       /\ \A b \in Objects : om_page_id_for_address(b) = q => first[q] # NULL /\ first[q] <= b
  BY DEF WalkInv, TablesInv
<1>13. om_page_start(q) \in Nat /\ used[q] \in Nat
  BY <1>3, PageNumbers
<1> HIDE DEF a
<1>14. /\ used'[q] = 0 <=> covering'[q] = NULL
       /\ used'[q] = 0 <=> state'[q] = "free"
  <2>1. CASE q \in PagesOf(a, n)
    <3>1. covering'[q] # NULL
      BY <1>3, <1>8, <1>9, <2>1
    <3>2. state'[q] # "free"
      BY <1>7, <2>1
    <3> QED BY <1>1, <2>1, <3>1, <3>2
  <2>2. CASE q \notin PagesOf(a, n)
    BY <1>1, <1>4, <1>7, <1>9, <1>12, <2>2
  <2> QED BY <2>1, <2>2
<1>15. covering'[q] # NULL => covering'[q] \in Objects' /\ om_page_start(q) \in Body(memory', covering'[q])
  <2>1. CASE q \in PagesOf(a, n) /\ covering[q] = NULL
    <3>1. covering'[q] = a
      BY <1>9, <2>1
    <3>2. used[q] = 0
      BY <1>12, <2>1
    <3>3. a <= om_page_start(q) /\ om_page_start(q) < a + n
      BY <1>3, <1>5, <1>6, <1>13, <2>1, <3>2
    <3>4. om_page_start(q) \in a..(a + n - 1)
      BY <1>3, <1>13, <3>3
    <3> QED BY <1>2, <3>1, <3>4
  <2>2. CASE ~ (q \in PagesOf(a, n) /\ covering[q] = NULL)
    <3>1. covering'[q] = covering[q]
      BY <1>9, <2>2
    <3> QED BY <1>2, <1>12, <3>1
  <2> QED BY <2>1, <2>2
<1>16. first'[q] # NULL => first'[q] \in Objects' /\ om_page_id_for_address(first'[q]) = q
  <2>1. CASE q = p0 /\ first[q] = NULL
    <3>1. first'[q] = a
      BY <1>8, <1>9, <2>1
    <3> QED BY <1>2, <2>1, <3>1
  <2>2. CASE ~ (q = p0 /\ first[q] = NULL)
    <3>1. first'[q] = first[q]
      BY <1>8, <1>9, <2>2
    <3> QED BY <1>2, <1>12, <3>1
  <2> QED BY <2>1, <2>2
<1>17. ASSUME NEW b \in Objects', om_page_id_for_address(b) = q
       PROVE  first'[q] # NULL /\ first'[q] <= b
  <2>1. CASE b \in Objects
    <3>1. first[q] # NULL /\ first[q] <= b
      BY <1>12, <1>17, <2>1
    <3>2. first'[q] = first[q]
      BY <1>8, <1>9, <3>1
    <3> QED BY <3>1, <3>2
  <2>2. CASE b = a
    <3>1. q = p0
      BY <1>17, <2>2
    <3>2. CASE first[q] = NULL
      <4>1. first'[q] = a
        BY <1>8, <1>9, <3>1, <3>2
      <4> QED BY <1>3, <1>8, <2>2, <4>1
    <3>3. CASE first[q] # NULL
      <4>1. first'[q] = first[q]
        BY <1>8, <1>9, <3>3
      <4>2. first[q] \in Objects /\ om_page_id_for_address(first[q]) = p0
        BY <1>12, <3>1, <3>3
      <4>3. first[q] < a /\ first[q] \in Nat
        BY <1>10, <1>11, <4>2
      <4> QED BY <1>3, <2>2, <3>3, <4>1, <4>3
    <3> QED BY <3>2, <3>3
  <2> QED BY <1>2, <2>1, <2>2
<1> QED
  BY <1>14, <1>15, <1>16, <1>17


\* An object is a unit of the heap, with a size.
LEMMA ObjectFacts ==
  ASSUME TypeOK, NEW b \in Objects
  PROVE  /\ b \in FilledUnits /\ b \in Address /\ b \in Nat /\ memory[b] # Slot
         /\ memory[b].units \in Nat \ {0}
         /\ b \in Body(memory, b)
         /\ om_object_words(b) = memory[b].units
<1>1. b \in FilledUnits /\ b \in Address /\ memory[b] # Slot
  BY DEF Objects, FilledUnits
<1>2. b \in Nat
  BY <1>1, UnitAndPage
<1>3. memory[b] \in Header
  BY <1>1 DEF TypeOK
<1>4. memory[b].units \in Nat \ {0}
  BY <1>3, UnitsAssumption DEF Header
<1>5. b \in Body(memory, b)
  BY <1>2, <1>4 DEF Body
<1> QED
  BY <1>1, <1>2, <1>4, <1>5 DEF om_object_words

\* A unit is in one object.
LEMMA OneObject ==
  ASSUME TypeOK, TiledInv, NEW b \in Objects, NEW c \in Objects,
         NEW u, u \in Body(memory, b), u \in Body(memory, c)
  PROVE  b = c
<1>1. /\ b \in Nat /\ memory[b].units \in Nat /\ memory[b] # Slot
      /\ c \in Nat /\ memory[c].units \in Nat /\ memory[c] # Slot
  BY ObjectFacts
<1>2. /\ u \in Int /\ b <= u /\ u <= b + memory[b].units - 1
      /\ c <= u /\ u <= c + memory[c].units - 1
  BY <1>1 DEF Body
<1>3. ~ (b < c)
  <2> SUFFICES ASSUME b < c PROVE FALSE
    OBVIOUS
  <2>1. c \in Body(memory, b) /\ c # b
    BY <1>1, <1>2 DEF Body
  <2> QED BY <1>1, <2>1 DEF TiledInv
<1>4. ~ (c < b)
  <2> SUFFICES ASSUME c < b PROVE FALSE
    OBVIOUS
  <2>1. b \in Body(memory, c) /\ c # b
    BY <1>1, <1>2 DEF Body
  <2> QED BY <1>1, <2>1 DEF TiledInv
<1> QED
  BY <1>1, <1>3, <1>4

\* What covers the start of a page that an object has a unit of: the object, if
\* it starts before the page.
LEMMA CoveredFromBefore ==
  ASSUME TypeOK, WalkInv, NEW b \in Objects, NEW u \in Body(memory, b)
  PROVE  LET p == om_page_id_for_address(u)
         IN  /\ p \in Page /\ covering[p] # NULL /\ used[p] # 0
             /\ b < om_page_start(p) => covering[p] = b
<1> DEFINE p == om_page_id_for_address(u)
<1>1. u \in FilledUnits
  BY DEF WalkInv, TiledInv
<1>2. p \in Page /\ used[p] # 0 /\ om_page_start(p) <= u
  BY <1>1, FilledIn DEF WalkInv
<1> HIDE DEF p
<1>3. covering[p] # NULL /\ covering[p] \in Objects /\ om_page_start(p) \in Body(memory, covering[p])
  BY <1>2 DEF WalkInv, TablesInv
<1>4. ASSUME b < om_page_start(p) PROVE covering[p] = b
  <2>1. om_page_start(p) \in Nat /\ b \in Nat /\ memory[b].units \in Nat
    BY <1>2, PageNumbers, ObjectFacts
  <2>2. om_page_start(p) \in Body(memory, b)
    BY <1>2, <1>4, <2>1 DEF Body
  <2> QED BY <1>3, <2>2, OneObject DEF WalkInv
<1> QED
  BY <1>2, <1>3, <1>4 DEF p

\* Releasing a page removes the objects on it, and no other object has a unit
\* there.
LEMMA ReleaseTiles ==
  ASSUME IInv, WalkInv, NEW p \in Page, om_release_page(p)
  PROVE  /\ FilledUnits' = {u \in FilledUnits : om_page_id_for_address(u) # p}
         /\ Objects' = {b \in Objects : om_page_id_for_address(b) # p}
         /\ \A b \in Objects : \A u \in Body(memory, b) :
              om_page_id_for_address(b) = p <=> om_page_id_for_address(u) = p
<1>1. /\ used' = [used EXCEPT ![p] = 0] /\ memory' = memory /\ MayRelease(p)
  BY DEF om_release_page
<1>2. used \in [Page -> 0..OM_PAGE_UNITS] /\ TypeOK
  BY DEF IInv, TypeOK
<1>3. ASSUME NEW u \in Address
      PROVE  u \in FilledUnits' <=> u \in FilledUnits /\ om_page_id_for_address(u) # p
  <2> DEFINE q == om_page_id_for_address(u)
  <2>1. u \in Nat /\ q \in Page /\ om_page_start(q) <= u
    BY UnitAndPage
  <2>2. om_page_start(q) \in Nat
    BY <1>2, <2>1, PageNumbers
  <2>3. /\ u \in FilledUnits <=> u - om_page_start(q) < used[q]
        /\ u \in FilledUnits' <=> u - om_page_start(q) < used'[q]
    BY DEF FilledUnits
  <2> HIDE DEF q
  <2>4. CASE q = p
    BY <1>1, <1>2, <2>1, <2>2, <2>3, <2>4 DEF q
  <2>5. CASE q # p
    BY <1>1, <1>2, <2>1, <2>3, <2>5 DEF q
  <2> QED BY <2>4, <2>5
<1>4. FilledUnits' = {u \in FilledUnits : om_page_id_for_address(u) # p}
  BY <1>3 DEF FilledUnits
<1>5. Objects' = {b \in Objects : om_page_id_for_address(b) # p}
  <2>1. Objects' = {b \in FilledUnits' : memory[b] # Slot}
    BY <1>1 DEF Objects
  <2> QED BY <1>4, <2>1 DEF Objects
<1>6. ASSUME NEW b \in Objects, NEW u \in Body(memory, b)
      PROVE  om_page_id_for_address(b) = p <=> om_page_id_for_address(u) = p
  <2> DEFINE q == om_page_id_for_address(u)
             r == om_page_id_for_address(b)
  <2>1. /\ q \in Page /\ covering[q] # NULL
        /\ b < om_page_start(q) => covering[q] = b
    BY <1>2, CoveredFromBefore
  <2>2. b \in Address /\ b \in Nat /\ u \in Int /\ b <= u /\ r \in Page /\ b < om_page_end(r)
    BY <1>2, ObjectFacts, UnitAndPage DEF Body
  <2>3. covering[q] = b => (r = p <=> q = p)
    BY <1>1, <2>1 DEF MayRelease
  <2>4. ASSUME om_page_start(q) <= b PROVE q = r
    <3>1. u \in FilledUnits
      BY DEF WalkInv, TiledInv
    <3>2. u \in Address
      BY <3>1 DEF FilledUnits
    <3>3. u < om_page_end(q) /\ om_page_end(q) \in Nat
      BY <1>2, <2>1, <3>2, UnitAndPage, PageNumbers
    <3>4. b >= HeapStart /\ q \in Int
      BY <1>2, <2>1, <2>2, UnitAndPage, PageNumbers
    <3> HIDE DEF q
    <3>5. b < om_page_end(q)
      BY <2>2, <3>3
    <3> QED BY <2>2, <2>4, <3>4, <3>5, PageIsUnique
  <2>5. om_page_start(q) \in Nat
    BY <1>2, <2>1, PageNumbers
  <2> HIDE DEF q, r
  <2>6. r = p <=> q = p
    BY <2>1, <2>2, <2>3, <2>4, <2>5
  <2> QED BY <2>6 DEF q, r
<1> QED
  BY <1>4, <1>5, <1>6

\* So the tables stay true when a page is released.
LEMMA ReleaseKeepsTables ==
  ASSUME IInv, WalkInv, ~ReleasesCurrentPage, NEW p \in Page, om_release_page(p)
  PROVE  WalkInv'
<1>1. /\ used' = [used EXCEPT ![p] = 0] /\ first' = [first EXCEPT ![p] = NULL]
      /\ covering' = [covering EXCEPT ![p] = NULL] /\ state' = [state EXCEPT ![p] = "free"]
      /\ memory' = memory /\ live' = live /\ free' = free /\ MayRelease(p)
      /\ om_page_end(p) <= free
  BY DEF om_release_page, MayRelease
<1>2. /\ TypeOK /\ LiveObjectsIntact /\ DOMAIN used = Page /\ DOMAIN first = Page
      /\ DOMAIN covering = Page /\ DOMAIN state = Page
  BY DEF IInv, TypeOK
<1>3. /\ FilledUnits' = {u \in FilledUnits : om_page_id_for_address(u) # p}
      /\ Objects' = {b \in Objects : om_page_id_for_address(b) # p}
      /\ \A b \in Objects : \A u \in Body(memory, b) :
           om_page_id_for_address(b) = p <=> om_page_id_for_address(u) = p
  BY ReleaseTiles
<1>4. FilledInv'
  <2> SUFFICES ASSUME NEW q \in Page
               PROVE  /\ used'[q] # 0 => om_page_start(q) + used'[q] <= free
                      /\ om_page_start(q) <= free /\ free < om_page_end(q)
                           => om_page_start(q) + used'[q] = free
    BY <1>1 DEF FilledInv
  <2>1. CASE q = p
    <3>1. free \in Nat /\ om_page_end(p) \in Nat
      BY <1>2, PageNumbers
    <3>2. used'[q] = 0
      BY <1>1, <1>2, <2>1
    <3> QED BY <1>1, <2>1, <3>1, <3>2
  <2>2. CASE q # p
    <3>1. used'[q] = used[q]
      BY <1>1, <2>2
    <3> QED BY <3>1 DEF WalkInv, FilledInv
  <2> QED BY <2>1, <2>2
<1>5. TiledInv'
  <2>1. TiledInv' <=>
          /\ \A b \in Objects' : \A u \in Body(memory, b) : u \in FilledUnits' /\ (u # b => memory[u] = Slot)
          /\ \A u \in FilledUnits' : \E b \in Objects' : u \in Body(memory, b)
    BY <1>1 DEF TiledInv
  <2>2. ASSUME NEW b \in Objects', NEW u \in Body(memory, b)
        PROVE  u \in FilledUnits' /\ (u # b => memory[u] = Slot)
    <3>1. b \in Objects /\ om_page_id_for_address(b) # p
      BY <1>3
    <3>2. om_page_id_for_address(u) # p
      BY <1>3, <3>1
    <3> QED BY <1>3, <3>1, <3>2 DEF WalkInv, TiledInv
  <2>3. ASSUME NEW u \in FilledUnits' PROVE \E b \in Objects' : u \in Body(memory, b)
    <3>1. u \in FilledUnits /\ om_page_id_for_address(u) # p
      BY <1>3
    <3>2. PICK b \in Objects : u \in Body(memory, b)
      BY <3>1 DEF WalkInv, TiledInv
    <3> QED BY <1>3, <3>1, <3>2
  <2> QED BY <2>1, <2>2, <2>3
<1>6. TablesInv'
  <2> SUFFICES ASSUME NEW q \in Page
      PROVE  /\ used'[q] = 0 <=> covering'[q] = NULL
             /\ used'[q] = 0 <=> state'[q] = "free"
             /\ covering'[q] # NULL => covering'[q] \in Objects' /\ om_page_start(q) \in Body(memory, covering'[q])
             /\ first'[q] # NULL => first'[q] \in Objects' /\ om_page_id_for_address(first'[q]) = q
             /\ \A b \in Objects' : om_page_id_for_address(b) = q => first'[q] # NULL /\ first'[q] <= b
    BY <1>1 DEF TablesInv
  <2>1. CASE q = p
    <3>1. used'[q] = 0 /\ covering'[q] = NULL /\ first'[q] = NULL /\ state'[q] = "free"
      BY <1>1, <1>2, <2>1
    <3> QED BY <1>3, <2>1, <3>1
  <2>2. CASE q # p
    <3>1. used'[q] = used[q] /\ covering'[q] = covering[q] /\ first'[q] = first[q] /\ state'[q] = state[q]
      BY <1>1, <2>2
    <3>2. /\ used[q] = 0 <=> covering[q] = NULL
          /\ used[q] = 0 <=> state[q] = "free"
          /\ covering[q] # NULL => covering[q] \in Objects /\ om_page_start(q) \in Body(memory, covering[q])
          /\ first[q] # NULL => first[q] \in Objects /\ om_page_id_for_address(first[q]) = q
          /\ \A b \in Objects : om_page_id_for_address(b) = q => first[q] # NULL /\ first[q] <= b
      BY DEF WalkInv, TablesInv
    <3>3. covering[q] # NULL => om_page_id_for_address(covering[q]) # p
      BY <1>1, <2>2 DEF MayRelease
    <3> QED BY <1>3, <2>2, <3>1, <3>2, <3>3
  <2> QED BY <2>1, <2>2
<1>7. LiveListed'
  <2> SUFFICES ASSUME NEW o \in live PROVE o.start \in Objects'
    BY <1>1 DEF LiveListed
  <2>1. o.start \in Objects
    BY DEF WalkInv, LiveListed
  <2>2. o.start \in Address /\ o.units \in Nat \ {0} /\ o.start + o.units <= HeapEnd
    <3>1. o.start \in Address /\ o.start \in Nat /\ o.units \in Nat \ {0} /\ o.start + o.units <= free
      BY <1>2, LiveObject DEF IInv, LiveOnHeldPages
    <3>2. free \in Nat /\ HeapEnd \in Nat /\ free <= HeapEnd
      BY <1>2, PageNumbers
    <3> QED BY <3>1, <3>2
  <2>3. om_page_id_for_address(o.start) \in PagesOf(o.start, o.units)
    BY <2>2, PagesOfRange
  <2>4. p \notin PagesOf(o.start, o.units)
    BY <1>1 DEF MayRelease
  <2> QED BY <1>3, <2>1, <2>3, <2>4
<1> QED
  BY <1>4, <1>5, <1>6, <1>7 DEF WalkInv


\* Tables, headers and objects in use agree, whatever is allocated, dropped,
\* released and reused.
THEOREM WalkInvariant ==
  ASSUME ~ReleasesCurrentPage
  PROVE  Spec => [](IInv /\ WalkInv)
<1>1. Init => WalkInv
  <2> SUFFICES ASSUME Init PROVE WalkInv
    OBVIOUS
  <2>1. /\ free = HeapStart /\ used = [p \in Page |-> 0] /\ first = [p \in Page |-> NULL]
        /\ covering = [p \in Page |-> NULL] /\ state = [p \in Page |-> "free"] /\ live = {}
        /\ memory = [a \in Address |-> Slot]
    BY DEF Init
  <2>2. Objects = {}
    BY <2>1 DEF Objects, FilledUnits
  <2>3. FilledUnits = {}
    <3> SUFFICES ASSUME NEW u \in Address,
                        u - om_page_start(om_page_id_for_address(u)) < used[om_page_id_for_address(u)]
                 PROVE  FALSE
      BY DEF FilledUnits
    <3> DEFINE p == om_page_id_for_address(u)
    <3>1. p \in Page /\ u \in Nat /\ om_page_start(p) <= u
      BY UnitAndPage
    <3>2. om_page_start(p) \in Nat
      BY <3>1, PagesOfTheHeap
    <3>3. used[p] = 0
      <4> HIDE DEF p
      <4> QED BY <2>1, <3>1
    <3>4. u - om_page_start(p) < 0
      BY <3>3
    <3> HIDE DEF p
    <3> QED BY <3>1, <3>2, <3>4
  <2>4. FilledInv
    <3> SUFFICES ASSUME NEW p \in Page, om_page_start(p) <= HeapStart
                 PROVE  om_page_start(p) = HeapStart
      <4>1. \A p \in Page : om_page_start(p) \in Nat
        BY PagesOfTheHeap
      <4> QED BY <2>1, <4>1 DEF FilledInv
    <3>1. om_page_start(p) \in Address /\ HeapStart \in Nat
      BY PagesOfTheHeap
    <3>2. HeapStart <= om_page_start(p) /\ om_page_start(p) \in Nat
      BY <3>1, UnitAndPage
    <3> QED BY <3>1, <3>2
  <2>5. TiledInv /\ LiveListed
    BY <2>1, <2>2, <2>3 DEF TiledInv, LiveListed
  <2>6. TablesInv
    BY <2>1, <2>2 DEF TablesInv
  <2> QED BY <2>4, <2>5, <2>6 DEF WalkInv
<1>2. IInv /\ WalkInv /\ [Next]_vars => WalkInv'
  <2> SUFFICES ASSUME IInv, WalkInv, [Next]_vars PROVE WalkInv'
    OBVIOUS
  <2>1. ASSUME NEW n \in ObjectUnits, NEW bytes \in BOOLEAN, om_alloc(n, bytes)
        PROVE  WalkInv'
    <3>1. FilledInv'
      BY <2>1, AllocFills DEF WalkInv
    <3>2. TiledInv' /\ LiveListed'
      BY <2>1, AllocTiles
    <3>3. TablesInv'
      BY <2>1, AllocTables
    <3> QED BY <3>1, <3>2, <3>3 DEF WalkInv
  <2>2. CASE UNCHANGED vars \/ \E o \in live : Drop(o)
    <3>1. /\ free' = free /\ memory' = memory /\ used' = used /\ first' = first
          /\ covering' = covering /\ state' = state /\ live' \subseteq live
      BY <2>2 DEF vars, Drop, tables
    <3>2. FilledUnits' = FilledUnits /\ Objects' = Objects
      BY <3>1 DEF FilledUnits, Objects
    <3>3. FilledInv'
      BY <3>1 DEF WalkInv, FilledInv
    <3>4. TiledInv'
      BY <3>1, <3>2 DEF WalkInv, TiledInv
    <3>5. TablesInv'
      BY <3>1, <3>2 DEF WalkInv, TablesInv
    <3>6. LiveListed'
      BY <3>1, <3>2 DEF WalkInv, LiveListed
    <3> QED BY <3>3, <3>4, <3>5, <3>6 DEF WalkInv
  <2>3. ASSUME NEW p \in Page, om_release_page(p) PROVE WalkInv'
    BY <2>3, ReleaseKeepsTables
  <2> QED
    BY <2>1, <2>2, <2>3 DEF Next
<1> QED
  BY <1>1, <1>2, Invariant, PTL DEF Spec

\* Every step of the walk leads into the heap or ends it.
LEMMA NextInHeap ==
  ASSUME TypeOK, NEW b \in Address
  PROVE  om_next_object(b) \in Address \cup {NULL}
<1> DEFINE next  == b + om_object_words(b)
           p     == om_page_id_for_address(next)
           later == {q \in Page : q > p /\ first[q] # NULL}
<1>1. om_next_object(b) = IF next >= free THEN NULL
                          ELSE IF next - om_page_start(p) < used[p] THEN next
                          ELSE IF later = {} THEN NULL
                          ELSE first[Smallest(later)]
  BY DEF om_next_object
<1>2. om_object_words(b) \in Nat
  <2>1. memory[b] \in Header \cup {Slot}
    BY DEF TypeOK
  <2>2. memory[b] # Slot => memory[b].units \in Nat
    BY <2>1, UnitsAssumption DEF Header
  <2> QED BY <2>2 DEF om_object_words
<1>3. b \in Nat /\ HeapStart <= b /\ free \in Nat /\ free <= HeapEnd /\ HeapEnd \in Nat /\ HeapStart \in Nat
  BY UnitAndPage, PagesOfTheHeap DEF TypeOK
<1>4. ~ (next >= free) => next \in Address
  BY <1>2, <1>3 DEF Address
<1>5. later # {} => first[Smallest(later)] \in Address \cup {NULL}
  <2> SUFFICES ASSUME later # {} PROVE first[Smallest(later)] \in Address \cup {NULL}
    OBVIOUS
  <2>1. later \in SUBSET Nat /\ later \subseteq Page
    BY PagesOfTheHeap DEF Page
  <2> HIDE DEF later
  <2>2. Smallest(later) \in Page
    BY <2>1, SmallestOfPages
  <2> QED BY <2>2 DEF TypeOK
<1> HIDE DEF next, later
<1> QED
  BY <1>1, <1>4, <1>5

\* The walk goes from an object to the next one, over what is left free at the
\* end of a page and over released pages.
LEMMA NextIsNext ==
  ASSUME TypeOK, WalkInv, NEW b \in Objects
  PROVE  LET c == om_next_object(b)
         IN  \/ c = NULL /\ \A h \in Objects : h <= b
             \/ c \in Objects /\ b < c /\ \A h \in Objects : h <= b \/ c <= h
<1> DEFINE next  == b + om_object_words(b)
           p     == om_page_id_for_address(next)
           later == {q \in Page : q > p /\ first[q] # NULL}
<1>1. om_next_object(b) = IF next >= free THEN NULL
                          ELSE IF next - om_page_start(p) < used[p] THEN next
                          ELSE IF later = {} THEN NULL
                          ELSE first[Smallest(later)]
  BY DEF om_next_object
<1>2. /\ b \in Nat /\ memory[b].units \in Nat \ {0} /\ b \in Address
      /\ next = b + memory[b].units
  BY ObjectFacts
<1>3. \A h \in Objects : /\ h \in Nat /\ h < free /\ memory[h] # Slot /\ h \in Address
                         /\ om_page_id_for_address(h) \in Page
  BY ObjectFacts, FilledIn DEF WalkInv
<1>4. free \in Nat /\ free <= HeapEnd /\ HeapEnd \in Nat /\ HeapStart \in Nat /\ HeapStart <= b
  BY <1>2, UnitAndPage, PagesOfTheHeap DEF TypeOK
<1>5. next \in Nat /\ b < next
  BY <1>2
<1>6. Body(memory, b) = b..(next - 1)
  BY <1>2 DEF Body
<1>7. \A h \in Objects : h <= b \/ next <= h
  <2> SUFFICES ASSUME NEW h \in Objects, b < h, h < next PROVE FALSE
    BY <1>2, <1>3, <1>5
  <2>1. h \in Body(memory, b)
    <3>1. h \in Nat
      BY <1>3
    <3> HIDE DEF next
    <3>2. h \in b..(next - 1)
      BY <1>2, <1>5, <3>1
    <3> QED BY <1>6, <3>2
  <2> QED BY <1>2, <1>3, <2>1 DEF WalkInv, TiledInv
<1> HIDE DEF next
<1>8. CASE next >= free
  <2>1. om_next_object(b) = NULL
    BY <1>1, <1>8
  <2>2. \A h \in Objects : h <= b
    BY <1>2, <1>3, <1>4, <1>5, <1>7, <1>8
  <2> QED BY <2>1, <2>2
<1>9. CASE next < free
  <2>1. next \in Address
    BY <1>2, <1>4, <1>5, <1>9 DEF Address
  <2>2. p \in Page /\ om_page_start(p) <= next
    BY <2>1, UnitAndPage
  <2>3. om_page_start(p) \in Nat /\ used[p] \in Nat /\ p \in Nat
    BY <2>2, PageNumbers
  <2>4. CASE next - om_page_start(p) < used[p]
    <3>1. next \in FilledUnits
      BY <2>1, <2>4 DEF FilledUnits
    <3>2. PICK c \in Objects : next \in Body(memory, c)
      BY <3>1 DEF WalkInv, TiledInv
    <3>3. c \in Nat /\ memory[c].units \in Nat /\ c <= next /\ next <= c + memory[c].units - 1
      BY <1>5, <3>2, ObjectFacts DEF Body
    <3>4. ASSUME c < next PROVE FALSE
      <4>1. next - 1 \in Body(memory, c)
        BY <1>5, <3>3, <3>4 DEF Body
      <4>2. next - 1 \in Body(memory, b)
        BY <1>2, <1>5, <1>6
      <4>3. c = b
        BY <4>1, <4>2, OneObject DEF WalkInv
      <4> QED BY <1>2, <1>5, <1>6, <3>2, <4>3
    <3>5. c = next
      BY <1>5, <3>3, <3>4
    <3>6. om_next_object(b) = next
      BY <1>1, <1>4, <1>5, <1>9, <2>4
    <3> QED BY <1>5, <1>7, <3>5, <3>6
  <2>5. CASE ~ (next - om_page_start(p) < used[p])
    <3>1. ASSUME NEW h \in Objects, ~ (h <= b)
          PROVE  p < om_page_id_for_address(h) /\ om_page_id_for_address(h) \in later
      <4> DEFINE r == om_page_id_for_address(h)
      <4>1. next <= h /\ h \in Nat /\ h \in Address
        BY <1>3, <1>7, <3>1
      <4>2. p <= r
        <5>1. next >= HeapStart /\ next \in Int /\ h \in Int
          BY <2>1, <4>1, UnitAndPage
        <5> QED BY <4>1, <5>1, PagesAreMonotone
      <4>3. r \in Page /\ h < om_page_start(r) + used[r] /\ r \in Nat
        BY <3>1, ObjectFacts, FilledIn, PageNumbers DEF WalkInv
      <4>4. first[r] # NULL
        BY <4>3 DEF WalkInv, TablesInv
      <4> HIDE DEF r
      <4>5. r # p
        BY <1>5, <2>3, <2>5, <4>1, <4>3
      <4>6. r > p /\ p < r
        <5> HIDE DEF p
        <5> QED BY <2>3, <4>2, <4>3, <4>5
      <4> QED BY <4>3, <4>4, <4>6 DEF r
    <3>2. CASE later = {}
      <4>1. om_next_object(b) = NULL
        BY <1>1, <2>5, <3>2
      <4> QED BY <3>1, <3>2, <4>1
    <3>3. CASE later # {}
      <4>1. later \in SUBSET Nat
        BY PagesOfTheHeap DEF Page
      <4> DEFINE q == Smallest(later)
      <4>2. q \in later /\ \A y \in later : q <= y
        <5> HIDE DEF later
        <5> QED BY <3>3, <4>1, SmallestOfPages
      <4>3. om_next_object(b) = first[q]
        BY <1>1, <1>4, <1>5, <1>9, <2>5, <3>3
      <4> HIDE DEF q
      <4>4. q \in Page /\ q > p /\ first[q] # NULL /\ q \in Nat
        BY <4>1, <4>2
      <4> HIDE DEF p
      <4>5. first[q] \in Objects /\ om_page_id_for_address(first[q]) = q
        BY <4>4 DEF WalkInv, TablesInv
      <4> DEFINE c == first[q]
      <4>6. c \in Nat /\ c \in Address
        BY <1>3, <4>5
      <4>7. b < c
        <5> SUFFICES ASSUME c <= b PROVE FALSE
          BY <1>2, <4>6
        <5>1. c >= HeapStart /\ c <= next /\ c \in Int /\ next \in Int
          BY <1>2, <1>5, <4>6, UnitAndPage
        <5>2. om_page_id_for_address(c) <= om_page_id_for_address(next)
          BY <5>1, PagesAreMonotone
        <5> QED BY <2>3, <4>4, <4>5, <5>2 DEF p
      <4>8. ASSUME NEW h \in Objects, ~ (h <= b) PROVE c <= h
        <5> DEFINE r == om_page_id_for_address(h)
        <5>1. r \in Page /\ r \in Nat /\ q <= r
          BY <1>3, <3>1, <4>1, <4>2, <4>8
        <5>2. CASE r = q
          BY <4>4, <5>2 DEF WalkInv, TablesInv
        <5>3. CASE q < r
          <6>1. om_page_end(q) <= om_page_start(r)
            BY <4>4, <5>1, <5>3, PagesInOrder
          <6>2. c < om_page_end(q)
            BY <4>5, <4>6, UnitAndPage
          <6>3. om_page_start(r) <= h /\ h \in Nat
            BY <1>3, UnitAndPage
          <6>4. om_page_end(q) \in Nat /\ om_page_start(r) \in Nat
            BY <4>4, <5>1, PageNumbers
          <6> HIDE DEF c, r
          <6> QED BY <4>6, <6>1, <6>2, <6>3, <6>4
        <5> HIDE DEF r
        <5> QED BY <4>4, <5>1, <5>2, <5>3
      <4> QED BY <4>3, <4>5, <4>7, <4>8
    <3> QED BY <3>2, <3>3
  <2> QED BY <2>4, <2>5
<1> QED
  BY <1>4, <1>5, <1>8, <1>9


-----------------------------------------------------------------------------
(* The passes over the objects. *)

IsWalk(f, limit) ==
  f = [b \in Address \cup {NULL} |->
         IF b = NULL \/ b >= limit THEN {} ELSE {b} \cup f[om_next_object(b)]]

\* A walk ends: the recursion that describes it has a solution.
LEMMA WalkSolved ==
  ASSUME TypeOK, NEW limit \in Nat
  PROVE  \E f : IsWalk(f, limit) /\ \A a : Walk(a, limit) = f[a]
<1> DEFINE S == Address \cup {NULL}
           stop == {b \in S : b = NULL \/ b >= limit}
           g == [b \in S |-> om_next_object(b)]
<1>1. \A b \in S \ stop : g[b] \in S
  <2> SUFFICES ASSUME NEW b \in Address PROVE om_next_object(b) \in S
    OBVIOUS
  <2> QED BY NextInHeap
<1>2. PICK h : Follows(h, S, stop, g)
  <2> HIDE DEF S, stop, g
  <2> QED BY <1>1, WalkExists
<1>3. IsWalk(h, limit)
  <2>1. \A b \in S : /\ b \in stop <=> (b = NULL \/ b >= limit)
                     /\ g[b] = om_next_object(b)
    OBVIOUS
  <2> HIDE DEF stop, g
  <2> QED BY <1>2, <2>1 DEF IsWalk, Follows
<1>4. PICK f : f = CHOOSE from : IsWalk(from, limit)
  OBVIOUS
<1>5. IsWalk(f, limit)
  BY <1>3, <1>4
<1>6. \A a : Walk(a, limit) = f[a]
  BY <1>4 DEF Walk, IsWalk
<1> QED
  BY <1>5, <1>6

\* From an object the walk reaches the objects behind it, up to its limit.
LEMMA WalkFromObject ==
  ASSUME TypeOK, WalkInv, NEW a \in Objects, NEW limit \in Nat
  PROVE  Walk(a, limit) = {h \in Objects : a <= h /\ h < limit}
<1>1. PICK f : IsWalk(f, limit) /\ \A b : Walk(b, limit) = f[b]
  BY WalkSolved
<1> DEFINE Rest(b) == {h \in Objects : b <= h /\ h < limit}
           T == {b \in Objects : f[b] # Rest(b)}
<1>2. \A b \in Objects : b \in Address /\ b \in Nat /\ b <= HeapEnd /\ b # NULL
  <2> TAKE b \in Objects
  <2>1. b \in Address /\ b \in Nat
    BY ObjectFacts
  <2>2. b < HeapEnd /\ HeapEnd \in Nat /\ b # 0
    BY <2>1, UnitAndPage, PagesOfTheHeap
  <2> QED BY <2>1, <2>2 DEF NULL
<1>3. \A b \in Address \cup {NULL} :
        f[b] = IF b = NULL \/ b >= limit THEN {} ELSE {b} \cup f[om_next_object(b)]
  BY <1>1 DEF IsWalk
<1>4. T = {}
  <2> SUFFICES ASSUME T # {} PROVE FALSE
    OBVIOUS
  <2>1. T \in SUBSET (0..HeapEnd) /\ HeapEnd \in Nat
    BY <1>2, PagesOfTheHeap
  <2>2. PICK m \in T : \A k \in T : k <= m
    <3> HIDE DEF T
    <3> QED BY <2>1, NatMaximum
  <2>3. m \in Objects /\ m \in Address /\ m \in Nat /\ m # NULL /\ f[m] # Rest(m)
    BY <1>2
  <2>4. CASE m >= limit
    <3>1. f[m] = {}
      BY <1>3, <2>3, <2>4
    <3>2. Rest(m) = {}
      <4> SUFFICES ASSUME NEW h \in Objects, m <= h, h < limit PROVE FALSE
        OBVIOUS
      <4>1. h \in Nat
        BY <1>2
      <4> QED BY <2>3, <2>4, <4>1
    <3> QED BY <2>3, <3>1, <3>2
  <2>5. CASE ~ (m >= limit)
    <3> DEFINE c == om_next_object(m)
    <3>1. f[m] = {m} \cup f[c]
      BY <1>3, <2>3, <2>5
    <3>2. \/ c = NULL /\ \A h \in Objects : h <= m
          \/ c \in Objects /\ m < c /\ \A h \in Objects : h <= m \/ c <= h
      BY <2>3, NextIsNext
    <3> HIDE DEF c
    <3>3. CASE c = NULL /\ \A h \in Objects : h <= m
      <4>1. f[c] = {}
        BY <1>3, <3>3
      <4>2. Rest(m) = {m}
        <5>1. \A h \in Objects : m <= h /\ h < limit <=> h = m
          <6> TAKE h \in Objects
          <6>1. h \in Nat /\ h <= m
            BY <1>2, <3>3
          <6> QED BY <2>3, <2>5, <6>1
        <5> QED BY <2>3, <5>1
      <4> QED BY <2>3, <3>1, <4>1, <4>2
    <3>4. CASE c \in Objects /\ m < c /\ \A h \in Objects : h <= m \/ c <= h
      <4>1. c \in Nat
        BY <1>2, <3>4
      <4>2. ~ (c <= m)
        BY <2>3, <3>4, <4>1
      <4>3. c \notin T
        BY <2>2, <4>2
      <4>4. f[c] = Rest(c)
        BY <3>4, <4>3
      <4>5. \A h \in Objects : m <= h /\ h < limit <=> h = m \/ (c <= h /\ h < limit)
        <5> TAKE h \in Objects
        <5>1. h \in Nat /\ (h <= m \/ c <= h)
          BY <1>2, <3>4
        <5> QED BY <2>3, <2>5, <3>4, <4>1, <5>1
      <4>6. Rest(m) = {m} \cup Rest(c)
        BY <2>3, <4>5
      <4> QED BY <2>3, <3>1, <4>4, <4>6
    <3> QED BY <3>2, <3>3, <3>4
  <2> QED BY <2>4, <2>5
<1>5. f[a] = Rest(a)
  BY <1>4
<1> QED
  BY <1>1, <1>5

\* The walk from the first object of the heap reaches every object in use and
\* takes no slot for an object, whatever was released and reused
\* (om_next_object).
THEOREM WalkTheorem ==
  ASSUME ~ReleasesCurrentPage
  PROVE  Spec => []WalkFindsObjects
<1>1. IInv /\ WalkInv => WalkFindsObjects
  <2> SUFFICES ASSUME IInv, WalkInv PROVE WalkFindsObjects
    OBVIOUS
  <2>1. TypeOK
    BY DEF IInv
  <2> DEFINE starts == {p \in Page : first[p] # NULL}
             s == Smallest(starts)
  <2> SUFFICES ASSUME live # {}
               PROVE  /\ {o.start : o \in live} \subseteq Walk(first[s], free)
                      /\ \A a \in Walk(first[s], free) : memory[a] # Slot
    BY DEF WalkFindsObjects
  <2>2. \A h \in Objects : /\ h \in Nat /\ h < free /\ memory[h] # Slot
                           /\ om_page_id_for_address(h) \in starts
    <3> TAKE h \in Objects
    <3>1. h \in Nat /\ h < free /\ memory[h] # Slot /\ om_page_id_for_address(h) \in Page
      BY <2>1, ObjectFacts, FilledIn DEF WalkInv
    <3> QED BY <3>1 DEF WalkInv, TablesInv
  <2>3. \A o \in live : o.start \in Objects
    BY DEF WalkInv, LiveListed
  <2>4. starts # {} /\ starts \in SUBSET Nat /\ starts \subseteq Page
    BY <2>2, <2>3, PagesOfTheHeap DEF Page
  <2>5. s \in starts /\ \A y \in starts : s <= y
    <3> HIDE DEF starts
    <3> QED BY <2>4, SmallestOfPages
  <2>6. s \in Page /\ s \in Nat /\ first[s] \in Objects /\ om_page_id_for_address(first[s]) = s
    BY <2>4, <2>5 DEF WalkInv, TablesInv
  <2>7. \A h \in Objects : first[s] <= h
    <3> TAKE h \in Objects
    <3> DEFINE r == om_page_id_for_address(h)
               c == first[s]
    <3>1. r \in starts /\ r \in Nat /\ r \in Page /\ s <= r
      BY <2>2, <2>4, <2>5
    <3>2. CASE r = s
      BY <2>6, <3>2 DEF WalkInv, TablesInv
    <3>3. CASE s < r
      <4>1. om_page_end(s) <= om_page_start(r)
        BY <2>6, <3>1, <3>3, PagesInOrder
      <4>2. c \in Address /\ c \in Nat
        BY <2>1, <2>6, ObjectFacts
      <4>3. c < om_page_end(s)
        BY <2>6, <4>2, UnitAndPage
      <4>4. om_page_start(r) <= h /\ h \in Nat
        BY <2>1, ObjectFacts, UnitAndPage
      <4>5. om_page_end(s) \in Nat /\ om_page_start(r) \in Nat
        BY <2>1, <2>6, <3>1, PageNumbers
      <4> HIDE DEF c, r
      <4>6. c <= h
        BY <4>1, <4>2, <4>3, <4>4, <4>5
      <4> QED BY <4>6 DEF c
    <3> HIDE DEF r
    <3> QED BY <2>6, <3>1, <3>2, <3>3
  <2>8. free \in Nat
    BY <2>1, PagesOfTheHeap DEF TypeOK
  <2> HIDE DEF s
  <2>9. Walk(first[s], free) = {h \in Objects : first[s] <= h /\ h < free}
    BY <2>1, <2>6, <2>8, WalkFromObject
  <2>10. Walk(first[s], free) = Objects
    BY <2>2, <2>7, <2>9
  <2> QED BY <2>2, <2>3, <2>10
<1> QED
  BY <1>1, WalkInvariant, PTL

\* Where a pointer of an object in use is, and what covers its page.
LEMMA LiveSlot ==
  ASSUME IInv, WalkInv, NEW u \in LiveSlots
  PROVE  LET p == om_page_id_for_address(u)
         IN  /\ u \in Nat /\ p \in Page /\ used[p] # 0 /\ state[p] # "free"
             /\ om_page_start(p) <= u /\ u < om_page_start(p) + used[p]
             /\ u < om_page_end(p) /\ u < free
             /\ covering[p] \in Objects /\ om_page_start(p) \in Body(memory, covering[p])
             /\ \E b \in Objects : u \in object_slots(b) /\ covering[p] <= b /\ b <= u
<1> DEFINE p == om_page_id_for_address(u)
<1>1. TypeOK
  BY DEF IInv
<1>2. PICK o \in live : u \in object_slots(o.start)
  BY DEF LiveSlots
<1>3. PICK b \in Objects : b = o.start
  BY DEF WalkInv, LiveListed
<1>4. u \in object_slots(b)
  BY <1>2, <1>3
<1>5. b \in Nat /\ memory[b].units \in Nat \ {0} /\ b \in Body(memory, b)
      /\ om_object_words(b) = memory[b].units
  BY <1>1, ObjectFacts
<1>6. u \in Body(memory, b) /\ b <= u
  BY <1>4, <1>5 DEF object_slots, Body
<1>7. /\ p \in Page /\ covering[p] # NULL /\ used[p] # 0
      /\ b < om_page_start(p) => covering[p] = b
  BY <1>1, <1>6, CoveredFromBefore
<1>8. u \in FilledUnits
  BY <1>6 DEF WalkInv, TiledInv
<1>9. /\ u \in Nat /\ om_page_start(p) <= u /\ u < om_page_start(p) + used[p] /\ u < free
      /\ u \in Address
  BY <1>1, <1>8, FilledIn DEF WalkInv
<1>10. u < om_page_end(p)
  BY <1>9, UnitAndPage
<1> HIDE DEF p
<1>11. /\ covering[p] \in Objects /\ om_page_start(p) \in Body(memory, covering[p])
       /\ state[p] # "free"
  BY <1>7 DEF WalkInv, TablesInv
<1>12. covering[p] <= b
  <2>1. /\ covering[p] \in Nat /\ covering[p] <= om_page_start(p) /\ om_page_start(p) \in Nat
    BY <1>1, <1>7, <1>11, ObjectFacts, PageNumbers DEF Body
  <2> QED BY <1>5, <1>7, <2>1
<1> QED
  BY <1>4, <1>6, <1>7, <1>9, <1>10, <1>11, <1>12 DEF p

\* Page by page, a checkpoint converts every pointer of every object in use,
\* those of an object that a page shares with the one before it included
\* (checkpoint_page_pointers_to_offsets, from the covering object on).
THEOREM CheckpointTheorem ==
  ASSUME ~ReleasesCurrentPage
  PROVE  Spec => []CheckpointConvertsAll
<1>1. IInv /\ WalkInv => CheckpointConvertsAll
  <2> SUFFICES ASSUME IInv, WalkInv, NEW p \in ImagePage, NEW u \in LiveSlots,
                      om_page_id_for_address(u) = p
               PROVE  state[p] # "free" /\ u \in checkpoint_page_pointers_to_offsets(p)
    BY DEF CheckpointConvertsAll
  <2>1. /\ u \in Nat /\ p \in Page /\ state[p] # "free"
        /\ om_page_start(p) <= u /\ u < om_page_end(p) /\ u < free
        /\ covering[p] \in Objects
        /\ \E b \in Objects : u \in object_slots(b) /\ covering[p] <= b /\ b <= u
    BY LiveSlot
  <2>2. TypeOK
    BY DEF IInv
  <2> DEFINE end == checkpoint_page_end(p)
  <2>3. end \in Nat /\ u < end
    BY <2>1, <2>2, PageNumbers DEF checkpoint_page_end
  <2>4. checkpoint_page_pointers_to_offsets(p)
          = {v \in UNION {object_slots(a) : a \in Walk(covering[p], end)} :
               v >= om_page_start(p) /\ v < end}
    BY DEF checkpoint_page_pointers_to_offsets
  <2> HIDE DEF end
  <2>5. PICK b \in Objects : u \in object_slots(b) /\ covering[p] <= b /\ b <= u
    BY <2>1
  <2>6. b \in Nat /\ om_page_start(p) \in Nat
    BY <2>1, <2>2, ObjectFacts, PageNumbers
  <2>7. b < end /\ u >= om_page_start(p)
    BY <2>1, <2>3, <2>5, <2>6
  <2>8. b \in Walk(covering[p], end)
    BY <2>1, <2>2, <2>3, <2>5, <2>7, WalkFromObject
  <2> QED BY <2>1, <2>3, <2>4, <2>5, <2>7, <2>8
<1> QED
  BY <1>1, WalkInvariant, PTL


-----------------------------------------------------------------------------
(* Loading an image. *)

\* The pages of an image are pages of the heap.
LEMMA ImagePages ==
  ASSUME TypeOK
  PROVE  ImagePage \subseteq Page
<1> SUFFICES ASSUME NEW p \in ImagePage PROVE p \in Page
  OBVIOUS
<1>1. p \in Int
  <2>1. checkpoint_page_count \in Int
    <3>1. free \in Nat /\ HeapStart \in Nat /\ OM_PAGE_UNITS \in Nat \ {0}
      BY PagesOfTheHeap, PageAssumption DEF TypeOK
    <3> QED BY <3>1 DEF checkpoint_page_count
  <2> QED BY <2>1 DEF ImagePage
<1>2. p \in Nat /\ om_page_start(p) < free
  BY <1>1, PagesOfTheImage
<1>3. om_page_start(p) \in Nat /\ HeapStart <= om_page_start(p) /\ OM_PAGE_UNITS \in Nat \ {0}
  BY <1>2, PageAssumption DEF om_page_start, HeapStart
<1>4. free \in Nat /\ free <= HeapEnd /\ HeapEnd \in Nat /\ HeapStart \in Nat
  BY PagesOfTheHeap DEF TypeOK
<1>5. om_page_start(p) \in Address
  BY <1>2, <1>3, <1>4 DEF Address
<1>6. om_page_start(p) < om_page_end(p)
  BY <1>3 DEF om_page_end
<1> DEFINE a == om_page_start(p)
<1>7. a \in Int /\ a >= HeapStart /\ om_page_start(p) <= a
  BY <1>3, <1>4
<1>8. om_page_id_for_address(a) = p
  <2> HIDE DEF a
  <2>1. a < om_page_end(p)
    BY <1>6 DEF a
  <2> QED BY <1>1, <1>7, <2>1, PageIsUnique
<1> QED
  BY <1>5, <1>8, UnitAndPage

\* In a loaded image, too, every step leads into the heap or ends the walk, the
\* wrapped entry of a free page included.
LEMMA LoadedNextInHeap ==
  ASSUME TypeOK, NEW b \in Address
  PROVE  LoadedNext(b) \in Address \cup {NULL}
<1> DEFINE next  == b + om_object_words(b)
           p     == om_page_id_for_address(next)
           later == {q \in ImagePage : q > p /\ page_object_offset_in_heap(first[q]) # 0}
           entry == page_object_offset_in_heap(first[Smallest(later)])
<1>1. LoadedNext(b) = IF next >= free THEN NULL
                      ELSE IF next - om_page_start(p) < used[p] THEN next
                      ELSE IF later = {} \/ entry - 1 >= free - HeapStart THEN NULL
                      ELSE HeapStart + entry - 1
  BY DEF LoadedNext
<1>2. om_object_words(b) \in Nat
  <2>1. memory[b] \in Header \cup {Slot}
    BY DEF TypeOK
  <2>2. memory[b] # Slot => memory[b].units \in Nat
    BY <2>1, UnitsAssumption DEF Header
  <2> QED BY <2>2 DEF om_object_words
<1>3. b \in Nat /\ HeapStart <= b /\ free \in Nat /\ free <= HeapEnd /\ HeapEnd \in Nat /\ HeapStart \in Nat
  BY UnitAndPage, PagesOfTheHeap DEF TypeOK
<1>4. ~ (next >= free) => next \in Address
  BY <1>2, <1>3 DEF Address
<1>5. later # {} /\ ~ (entry - 1 >= free - HeapStart) => HeapStart + entry - 1 \in Address
  <2> SUFFICES ASSUME later # {}, ~ (entry - 1 >= free - HeapStart)
               PROVE  HeapStart + entry - 1 \in Address
    OBVIOUS
  <2>1. later \in SUBSET Nat
    BY ImagePages, PagesOfTheHeap DEF Page
  <2> DEFINE s == Smallest(later)
  <2>2. s \in later
    <3> HIDE DEF later
    <3> QED BY <2>1, SmallestOfPages
  <2> HIDE DEF s
  <2>3. s \in Page /\ entry # 0
    BY <2>2, ImagePages DEF s
  <2>4. first[s] \in Address \cup {NULL}
    BY <2>3 DEF TypeOK
  <2>5. first[s] \in Int
    <3>1. \A x \in Address \cup {NULL} : x \in Int
      BY PagesOfTheHeap DEF NULL
    <3> QED BY <2>4, <3>1, Zenon
  <2>6. entry \in Nat
    <3>1. entry = (first[s] - HeapStart + 1) % AddressSpace
      BY DEF page_object_offset_in_heap, s
    <3>2. AddressSpace \in Nat /\ AddressSpace > 0
      BY <1>3, SpaceAssumption
    <3> HIDE DEF entry
    <3> QED BY <1>3, <2>5, <3>1, <3>2
  <2> HIDE DEF entry
  <2> QED BY <1>3, <2>3, <2>6 DEF Address
<1> HIDE DEF next, later, entry
<1> QED
  BY <1>1, <1>4, <1>5

IsLoadedWalk(f, limit) ==
  f = [b \in Address \cup {NULL} |->
         IF b = NULL \/ b >= limit THEN {} ELSE {b} \cup f[LoadedNext(b)]]

(* The recursion of the loader's walk has a solution, whatever the limit is.     *)
LEMMA LoadedWalkSolved ==
  ASSUME TypeOK, NEW limit \in Nat
  PROVE  \E f : IsLoadedWalk(f, limit)
<1> DEFINE S == Address \cup {NULL}
           stop == {b \in S : b = NULL \/ b >= limit}
           g == [b \in S |-> LoadedNext(b)]
<1>1. \A b \in S \ stop : g[b] \in S
  <2> SUFFICES ASSUME NEW b \in Address PROVE LoadedNext(b) \in S
    OBVIOUS
  <2> QED BY LoadedNextInHeap
<1>2. PICK h : Follows(h, S, stop, g)
  <2> HIDE DEF S, stop, g
  <2> QED BY <1>1, WalkExists
<1>3. IsLoadedWalk(h, limit)
  <2>1. \A b \in S : /\ b \in stop <=> (b = NULL \/ b >= limit)
                     /\ g[b] = LoadedNext(b)
    OBVIOUS
  <2> HIDE DEF stop, g
  <2> QED BY <1>2, <2>1 DEF IsLoadedWalk, Follows
<1> QED
  BY <1>3

\* Behind an object whose end is filled, both walks go to that end.
LEMMA FilledNext ==
  ASSUME TypeOK, WalkInv, NEW b \in Objects, b + memory[b].units \in FilledUnits
  PROVE  /\ om_next_object(b) = b + memory[b].units
         /\ LoadedNext(b) = b + memory[b].units
<1> DEFINE next == b + memory[b].units
           p == om_page_id_for_address(next)
<1>1. next < free /\ next \in Nat /\ free \in Nat
  BY FilledIn, PagesOfTheHeap DEF WalkInv, TypeOK
<1>2. next - om_page_start(p) < used[p]
  BY DEF FilledUnits
<1>3. b + om_object_words(b) = next
  BY ObjectFacts
<1>4. ~ (next >= free)
  <2> HIDE DEF next
  <2> QED BY <1>1
<1> QED
  BY <1>2, <1>3, <1>4 DEF om_next_object, LoadedNext

\* The loader's walk of a page reaches every object from the one that covers the
\* start of the page to its last.
LEMMA LoadedWalkOfPage ==
  ASSUME TypeOK, WalkInv, NEW p \in Page, covering[p] \in Objects,
         om_page_start(p) \in Body(memory, covering[p]),
         NEW limit \in Nat, limit <= om_page_start(p) + used[p], limit <= free,
         NEW f, IsLoadedWalk(f, limit)
  PROVE  \A h \in Objects : covering[p] <= h /\ h < limit => h \in f[covering[p]]
<1> DEFINE a == covering[p]
           Rest(b) == {h \in Objects : b <= h /\ h < limit}
           T == {b \in Objects : a <= b /\ ~ (Rest(b) \subseteq f[b])}
<1>1. \A b \in Objects : b \in Address /\ b \in Nat /\ b <= HeapEnd /\ b # NULL
  <2> TAKE b \in Objects
  <2>1. b \in Address /\ b \in Nat
    BY ObjectFacts
  <2>2. b < HeapEnd /\ HeapEnd \in Nat /\ b # 0
    BY <2>1, UnitAndPage, PagesOfTheHeap
  <2> QED BY <2>1, <2>2 DEF NULL
<1>2. \A b \in Address \cup {NULL} :
        f[b] = IF b = NULL \/ b >= limit THEN {} ELSE {b} \cup f[LoadedNext(b)]
  BY DEF IsLoadedWalk
<1>3. /\ om_page_start(p) \in Nat /\ used[p] \in 0..OM_PAGE_UNITS /\ used[p] \in Nat /\ free \in Nat
      /\ OM_PAGE_UNITS \in Nat /\ om_page_end(p) = om_page_start(p) + OM_PAGE_UNITS
      /\ HeapEnd \in Nat /\ free <= HeapEnd /\ HeapStart \in Nat /\ p \in Int
  BY PageNumbers
<1>4. a \in Objects /\ a \in Nat /\ memory[a].units \in Nat
      /\ a <= om_page_start(p) /\ om_page_start(p) < a + memory[a].units
  <2>1. a \in Nat /\ memory[a].units \in Nat
    BY ObjectFacts
  <2> QED BY <1>3, <2>1 DEF Body
<1> HIDE DEF a
<1>5. T = {}
  <2> SUFFICES ASSUME T # {} PROVE FALSE
    OBVIOUS
  <2>1. T \in SUBSET (0..HeapEnd) /\ HeapEnd \in Nat
    BY <1>1, PagesOfTheHeap
  <2>2. PICK m \in T : \A k \in T : k <= m
    <3> HIDE DEF T
    <3> QED BY <2>1, NatMaximum
  <2>3. m \in Objects /\ m \in Address /\ m \in Nat /\ m # NULL /\ a <= m
        /\ ~ (Rest(m) \subseteq f[m])
    BY <1>1
  <2>4. PICK x \in Objects : m <= x /\ x < limit /\ x \notin f[m]
    BY <2>3
  <2>5. x \in Nat
    BY <1>1
  <2>6. ~ (m >= limit)
    BY <2>3, <2>4, <2>5
  <2>7. f[m] = {m} \cup f[LoadedNext(m)]
    BY <1>2, <2>3, <2>6
  <2>8. m < x
    BY <2>3, <2>4, <2>5, <2>7
  <2> DEFINE c == om_next_object(m)
             next == m + memory[m].units
  <2>9. c \in Objects /\ m < c /\ c <= x /\ c \in Nat
    <3>1. \/ c = NULL /\ \A h \in Objects : h <= m
          \/ c \in Objects /\ m < c /\ \A h \in Objects : h <= m \/ c <= h
      BY <2>3, NextIsNext
    <3> HIDE DEF c
    <3>2. ~ (x <= m)
      BY <2>3, <2>5, <2>8
    <3> QED BY <1>1, <2>4, <3>1, <3>2
  <2>10. memory[m].units \in Nat \ {0} /\ next \in Nat /\ m < next
    <3>1. memory[m].units \in Nat \ {0}
      BY <2>3, ObjectFacts
    <3> QED BY <2>3, <3>1
  <2> HIDE DEF c
  <2>11. ASSUME NEW k \in Objects, NEW l \in Objects, k < l PROVE k + memory[k].units <= l
    <3>1. k \in Nat /\ l \in Nat /\ memory[k].units \in Nat /\ memory[l] # Slot
      BY <1>1, ObjectFacts
    <3> SUFFICES ASSUME l < k + memory[k].units PROVE FALSE
      BY <3>1
    <3>2. l \in Body(memory, k) /\ l # k
      BY <2>11, <3>1 DEF Body
    <3> QED BY <3>1, <3>2 DEF WalkInv, TiledInv
  <2>12. next <= c
    BY <2>3, <2>9, <2>11
  <2>13. om_page_start(p) < next
    <3>1. CASE a = m
      BY <1>4, <3>1
    <3>2. CASE a < m
      <4>1. a + memory[a].units <= m
        BY <1>4, <2>3, <2>11, <3>2
      <4> HIDE DEF next
      <4> QED BY <1>3, <1>4, <2>3, <2>10, <4>1
    <3> QED BY <1>4, <2>3, <3>1, <3>2
  <2> HIDE DEF next
  <2>14. next < limit
    BY <2>4, <2>5, <2>9, <2>10, <2>12
  <2>15. next \in Address /\ om_page_start(p) <= next /\ next < om_page_end(p)
         /\ next < om_page_start(p) + used[p] /\ next \in Int /\ next >= HeapStart
    <3>1. HeapStart <= m
      BY <2>3, UnitAndPage
    <3> QED BY <1>3, <2>3, <2>10, <2>13, <2>14, <3>1 DEF Address
  <2>16. om_page_id_for_address(next) = p
    BY <1>3, <2>15, PageIsUnique
  <2>17. next \in FilledUnits
    BY <2>15, <2>16, FilledOf
  <2>18. c = next /\ LoadedNext(m) = c
    BY <2>3, <2>17, FilledNext DEF next, c
  <2>19. c \notin T
    BY <2>2, <2>3, <2>9
  <2>20. Rest(c) \subseteq f[c]
    BY <1>4, <2>3, <2>9, <2>19
  <2>21. x \in f[c]
    BY <2>4, <2>9, <2>20
  <2> QED BY <2>4, <2>7, <2>18, <2>21
<1> QED
  BY <1>4, <1>5 DEF a

\* The pass over a whole image converts every pointer of every object in use,
\* and loading converts all of them back, although the two take different ways
\* over gaps, continuations and released pages
\* (image_live_pointers_to_offsets_paged, image_offsets_to_live_pointers_paged).
THEOREM RoundTripTheorem ==
  ASSUME ~ReleasesCurrentPage
  PROVE  Spec => []ImageRoundTrip
<1>1. IInv /\ WalkInv => ImageRoundTrip
  <2> SUFFICES ASSUME IInv, WalkInv, NEW u \in LiveSlots
               PROVE  /\ u \in image_live_pointers_to_offsets_paged
                      /\ u \in image_offsets_to_live_pointers_paged
    BY DEF ImageRoundTrip
  <2> DEFINE p == om_page_id_for_address(u)
  <2>1. /\ u \in Nat /\ p \in Page
        /\ om_page_start(p) <= u /\ u < om_page_start(p) + used[p] /\ u < free
        /\ covering[p] \in Objects /\ om_page_start(p) \in Body(memory, covering[p])
        /\ \E b \in Objects : u \in object_slots(b) /\ covering[p] <= b /\ b <= u
    BY LiveSlot
  <2> HIDE DEF p
  <2>2. TypeOK
    BY DEF IInv
  <2>3. om_page_start(p) \in Nat /\ used[p] \in Nat /\ free \in Nat /\ p \in Nat
    BY <2>1, <2>2, PageNumbers
  <2>4. PICK b \in Objects : u \in object_slots(b) /\ covering[p] <= b /\ b <= u
    BY <2>1
  <2>5. b \in Nat
    BY <2>2, ObjectFacts
  <2>6. u \in image_live_pointers_to_offsets_paged
    <3> DEFINE limit == om_page_start(p) + used[p]
    <3>1. limit \in Nat /\ b < limit
      BY <2>1, <2>3, <2>4, <2>5
    <3> HIDE DEF limit
    <3>2. b \in Walk(covering[p], limit)
      BY <2>1, <2>2, <2>4, <3>1, WalkFromObject
    <3> QED BY <2>1, <2>4, <3>2 DEF image_live_pointers_to_offsets_paged, limit
  <2>7. u \in image_offsets_to_live_pointers_paged
    <3> DEFINE lim(q) == IF om_page_start(q) + used[q] < free THEN om_page_start(q) + used[q]
                         ELSE free
               W(q) == CHOOSE f : IsLoadedWalk(f, lim(q))
    <3>1. image_offsets_to_live_pointers_paged
            = UNION {UNION {object_slots(a) : a \in W(q)[covering[q]]} : q \in ImagePage}
      BY DEF image_offsets_to_live_pointers_paged, IsLoadedWalk
    <3>2. lim(p) \in Nat /\ lim(p) <= om_page_start(p) + used[p] /\ lim(p) <= free /\ b < lim(p)
      BY <2>1, <2>3, <2>4, <2>5
    <3> HIDE DEF lim
    <3>3. IsLoadedWalk(W(p), lim(p))
      BY <2>2, <3>2, LoadedWalkSolved
    <3>4. PICK f : f = W(p)
      OBVIOUS
    <3>5. b \in f[covering[p]]
      BY <2>1, <2>2, <2>4, <3>2, <3>3, <3>4, LoadedWalkOfPage
    <3>6. p \in ImagePage
      <4>1. p \in Int /\ om_page_start(p) < free
        BY <2>1, <2>3
      <4> QED BY <2>2, <2>3, <4>1, PagesOfTheImage
    <3> HIDE DEF W
    <3> QED BY <2>4, <3>1, <3>4, <3>5, <3>6
  <2> QED BY <2>6, <2>7
<1> QED
  BY <1>1, WalkInvariant, PTL


=============================================================================
