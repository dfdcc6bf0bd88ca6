--------------------------- MODULE CompilerProofs ---------------------------
(***************************************************************************)
(* The bootstrap compiler: what holds of its class loader (ClassLoader)    *)
(* for every set of files, every host and every size of the object memory, *)
(* and of the slots it gives to variables (BlockScopes) for nests of any   *)
(* depth.                                                                  *)
(***************************************************************************)
EXTENDS ClassLoader, BlockScopes, InductionLemmas, SequenceTheorems

-----------------------------------------------------------------------------
(* The parts of the invariant. *)

\* The names are strings; the provers do not know that these two are.
Name == STRING \cup {"Object", "Class"}

Association == [key : Name, value : Nat]
Image == [room : Nat, symbols : SUBSET Name, capacity : Nat,
          globals : Seq(Nat), assocs : Seq(Association)]

\* The dictionary is whole: every entry is an association of its own name, with
\* an interned key and one of the first n classes as its value.
Whole(im, n) ==
  \A j \in DOMAIN im.globals :
    /\ im.globals[j] \in DOMAIN im.assocs
    /\ im.assocs[im.globals[j]].value \in 1 .. n
    /\ im.assocs[im.globals[j]].key \in im.symbols

\* No two entries have the same name.
Unique(im) ==
  \A i, j \in DOMAIN im.globals :
    im.assocs[im.globals[i]].key = im.assocs[im.globals[j]].key => i = j

\* An image whose symbols fit the table, and whose dictionary fits its array.
Fits(im) ==
  /\ IsFiniteSet(im.symbols) /\ Cardinality(im.symbols) <= MaxSymbols
  /\ Len(im.globals) <= im.capacity

ImageOK(im, n) == im \in Image /\ Fits(im) /\ Whole(im, n) /\ Unique(im)

Result == [status : {"ok", "failed", "crashed"}, image : Image, refs : Seq(Nat)]

\* What an operation has made of an image that had the associations g in its
\* dictionary: they are still there, and so are the references it compiled.
ResultOK(r, n, g) ==
  /\ r \in Result /\ ImageOK(r.image, n)
  /\ ToSet(r.refs) \subseteq ToSet(r.image.globals)
  /\ g \subseteq ToSet(r.image.globals)

-----------------------------------------------------------------------------
(* Small facts. *)

\* An image is its five parts.
LEMMA ImageParts ==
  ASSUME NEW im \in Image
  PROVE  /\ im.room \in Nat /\ im.symbols \in SUBSET Name /\ im.capacity \in Nat
         /\ im.globals \in Seq(Nat) /\ im.assocs \in Seq(Association)
         /\ im = [room |-> im.room, symbols |-> im.symbols, capacity |-> im.capacity,
                  globals |-> im.globals, assocs |-> im.assocs]
BY DEF Image

\* The parts of what a class definition leaves.
LEMMA ResultParts ==
  ASSUME NEW r \in Result
  PROVE  /\ r.status \in {"ok", "failed", "crashed"} /\ r.image \in Image /\ r.refs \in Seq(Nat)
         /\ r = [status |-> r.status, image |-> r.image, refs |-> r.refs]
BY DEF Result

\* The smallest element of a set of numbers is one of them.
LEMMA MinIsElement ==
  ASSUME NEW S \in SUBSET Nat, S # {}
  PROVE  Min(S) \in S /\ \A k \in S : Min(S) <= k
BY NatMinimum DEF Min

\* The place of a name is 0, or that of an association with the name.
LEMMA PlaceOfName ==
  ASSUME NEW im \in Image, NEW name
  PROVE  /\ PlaceOf(im, name) = 0 =>
              \A j \in DOMAIN im.globals : im.assocs[im.globals[j]].key # name
         /\ PlaceOf(im, name) # 0 =>
              /\ PlaceOf(im, name) \in DOMAIN im.globals
              /\ im.assocs[im.globals[PlaceOf(im, name)]].key = name
<1> DEFINE I == {i \in 1 .. Len(im.globals) : im.assocs[im.globals[i]].key = name}
<1>1. im.globals \in Seq(Nat)
  BY ImageParts
<1>2. I \in SUBSET Nat /\ \A i \in I : i # 0
  BY <1>1
<1>3. PlaceOf(im, name) = IF I # {} THEN Min(I) ELSE 0
  BY DEF PlaceOf, SelectInSeq
<1>4. DOMAIN im.globals = 1 .. Len(im.globals)
  BY <1>1
<1>5. CASE I = {}
  BY <1>3, <1>4, <1>5
<1>6. CASE I # {}
  <2>1. Min(I) \in I
    BY <1>2, <1>6, MinIsElement
  <2> QED
    BY <1>2, <1>3, <1>4, <1>6, <2>1
<1> QED
  BY <1>5, <1>6

\* A sequence and what it contains.
LEMMA AppendedSet ==
  ASSUME NEW S, NEW s \in Seq(S), NEW x \in S
  PROVE  /\ Append(s, x) \in Seq(S)
         /\ ToSet(Append(s, x)) = ToSet(s) \cup {x}
         /\ DOMAIN Append(s, x) = 1 .. Len(s) + 1
         /\ Len(Append(s, x)) = Len(s) + 1
         /\ \A i \in DOMAIN s : Append(s, x)[i] = s[i]
         /\ Append(s, x)[Len(s) + 1] = x
<1>1. /\ Append(s, x) \in Seq(S) /\ Len(Append(s, x)) = Len(s) + 1
      /\ \A i \in 1 .. Len(s) : Append(s, x)[i] = s[i]
      /\ Append(s, x)[Len(s) + 1] = x
  BY AppendProperties
<1>2. Len(s) \in Nat /\ DOMAIN s = 1 .. Len(s) /\ DOMAIN Append(s, x) = 1 .. Len(s) + 1
  BY <1>1
<1> DEFINE t == Append(s, x)
<1> HIDE DEF t
<1>3. ToSet(t) = ToSet(s) \cup {x}
  <2>1. ToSet(t) \subseteq ToSet(s) \cup {x}
    <3> SUFFICES ASSUME NEW i \in 1 .. Len(s) + 1 PROVE t[i] \in ToSet(s) \cup {x}
      BY <1>2 DEF ToSet, t
    <3>1. CASE i = Len(s) + 1
      BY <1>1, <3>1 DEF t
    <3>2. CASE i \in 1 .. Len(s)
      BY <1>1, <1>2, <3>2 DEF t, ToSet
    <3> QED
      BY <1>2, <3>1, <3>2
  <2>2. ToSet(s) \cup {x} \subseteq ToSet(t)
    <3>1. \A i \in 1 .. Len(s) : s[i] \in ToSet(t)
      <4> TAKE i \in 1 .. Len(s)
      <4>1. i \in 1 .. Len(s) + 1 /\ t[i] = s[i]
        BY <1>1, <1>2 DEF t
      <4> QED
        BY <1>2, <4>1 DEF ToSet, t
    <3>2. x \in ToSet(t)
      <4>1. Len(s) + 1 \in 1 .. Len(s) + 1 /\ t[Len(s) + 1] = x
        BY <1>1, <1>2 DEF t
      <4> QED
        BY <1>2, <4>1 DEF ToSet, t
    <3> QED
      BY <1>2, <3>1, <3>2 DEF ToSet
  <2> QED
    BY <2>1, <2>2
<1> QED
  BY <1>1, <1>2, <1>3 DEF t

\* The same for numbers, in one formula.
LEMMA AppendedNumber ==
  \A s \in Seq(Nat), x \in Nat :
    /\ Append(s, x) \in Seq(Nat)
    /\ ToSet(Append(s, x)) = ToSet(s) \cup {x}
    /\ DOMAIN Append(s, x) = 1 .. Len(s) + 1
    /\ Len(Append(s, x)) = Len(s) + 1
    /\ \A i \in DOMAIN s : Append(s, x)[i] = s[i]
    /\ Append(s, x)[Len(s) + 1] = x
BY AppendedSet

-----------------------------------------------------------------------------
(* The operations on the image. *)

\* The dictionary of one image is that of another.
SameDictionary(a, b) == a.image.globals = b.image.globals /\ a.image.assocs = b.image.assocs

\* An image with other room, symbols and capacity and the same dictionary is as
\* good, if it has all the symbols and the capacity that the dictionary needs.
LEMMA OtherRoom ==
  ASSUME NEW n, NEW g, NEW r, ResultOK(r, n, g), NEW s \in Result,
         SameDictionary(s, r), s.refs = r.refs,
         r.image.symbols \subseteq s.image.symbols, Fits(s.image)
  PROVE  ResultOK(s, n, g)
<1> DEFINE a == r.image
           b == s.image
<1>1. /\ Whole(a, n) /\ Unique(a)
      /\ ToSet(r.refs) \subseteq ToSet(a.globals) /\ g \subseteq ToSet(a.globals)
  BY DEF ResultOK, ImageOK
<1>2. b \in Image /\ Fits(b)
  BY DEF Result
<1>3. b.globals = a.globals /\ b.assocs = a.assocs /\ a.symbols \subseteq b.symbols
  BY DEF SameDictionary
<1> HIDE DEF a, b
<1>4. Whole(b, n)
  BY <1>1, <1>3 DEF Whole
<1>5. Unique(b)
  BY <1>1, <1>3 DEF Unique
<1>6. ToSet(s.refs) \subseteq ToSet(b.globals) /\ g \subseteq ToSet(b.globals)
  BY <1>1, <1>3
<1> QED
  BY <1>2, <1>4, <1>5, <1>6 DEF ResultOK, ImageOK, b

\* Allocating changes the room and the status.
LEMMA AllocateOK ==
  ASSUME NEW n, NEW g, NEW r, ResultOK(r, n, g),
         NEW k \in Nat, NEW otherwise \in {"failed", "crashed"}
  PROVE  LET s == Allocate(r, k, otherwise)
         IN  /\ ResultOK(s, n, g) /\ SameDictionary(s, r)
             /\ s.image.symbols = r.image.symbols /\ s.image.capacity = r.image.capacity
             /\ s.refs = r.refs
             /\ s.status = "ok" => r.status = "ok"
<1> DEFINE s == Allocate(r, k, otherwise)
           im == r.image
<1>1. r \in Result /\ im \in Image /\ Fits(im)
  BY DEF ResultOK, ImageOK, Result
<1>2. im.room \in Nat
  BY <1>1 DEF Image
<1>3. \/ s = r
      \/ /\ r.status = "ok"
         /\ \E room \in Nat, st \in {"ok", "failed", "crashed"} :
              s = [status |-> st, refs |-> r.refs,
                   image |-> [room |-> room, symbols |-> im.symbols, capacity |-> im.capacity,
                              globals |-> im.globals, assocs |-> im.assocs]]
  <2>1. CASE r.status # "ok"
    BY <2>1 DEF Allocate
  <2>2. CASE r.status = "ok" /\ im.room >= k
    <3>1. s = [r EXCEPT !.image.room = im.room - k]
      BY <2>2 DEF Allocate
    <3>2. im.room - k \in Nat
      BY <1>2, <2>2
    <3>3. s = [status |-> r.status, refs |-> r.refs,
               image |-> [room |-> im.room - k, symbols |-> im.symbols, capacity |-> im.capacity,
                          globals |-> im.globals, assocs |-> im.assocs]]
      <4> HIDE DEF s
      <4> QED BY <1>1, <3>1 DEF Result, Image
    <3> QED
      BY <2>2, <3>2, <3>3
  <2>3. CASE r.status = "ok" /\ ~ (im.room >= k)
    <3>1. s = [r EXCEPT !.status = otherwise, !.image.room = 0]
      BY <2>3 DEF Allocate
    <3>3. s = [status |-> otherwise, refs |-> r.refs,
               image |-> [room |-> 0, symbols |-> im.symbols, capacity |-> im.capacity,
                          globals |-> im.globals, assocs |-> im.assocs]]
      <4> HIDE DEF s
      <4> QED BY <1>1, <3>1 DEF Result, Image
    <3> QED
      BY <2>3, <3>3
  <2> QED
    BY <2>1, <2>2, <2>3
<1>4. CASE s = r
  BY <1>4 DEF SameDictionary
<1>5. ASSUME r.status = "ok", NEW room \in Nat, NEW st \in {"ok", "failed", "crashed"},
             s = [status |-> st, refs |-> r.refs,
                   image |-> [room |-> room, symbols |-> im.symbols, capacity |-> im.capacity,
                              globals |-> im.globals, assocs |-> im.assocs]]
      PROVE  /\ ResultOK(s, n, g) /\ SameDictionary(s, r)
             /\ s.image.symbols = r.image.symbols /\ s.image.capacity = r.image.capacity
             /\ s.refs = r.refs
             /\ s.status = "ok" => r.status = "ok"
  <2> HIDE DEF s
  <2>1. /\ SameDictionary(s, r) /\ s.refs = r.refs
        /\ s.image.symbols = im.symbols /\ s.image.capacity = im.capacity
    BY <1>5 DEF SameDictionary
  <2>2. s \in Result
    BY <1>1, <1>5 DEF Result, Image
  <2>3. Fits(s.image)
    BY <1>1, <2>1 DEF Fits, SameDictionary
  <2>4. ResultOK(s, n, g)
    BY <2>1, <2>2, <2>3, OtherRoom
  <2> QED
    BY <1>5, <2>1, <2>4
<1> QED
  BY <1>3, <1>4, <1>5

\* Interning keeps the symbols within the table, and interns the name.
LEMMA InternOK ==
  ASSUME NEW n, NEW g, NEW r, ResultOK(r, n, g), NEW name \in Name
  PROVE  LET s == intern_cstring_symbol(r, name)
         IN  /\ ResultOK(s, n, g)
             /\ s.status = "ok" => name \in s.image.symbols
<1> DEFINE s == intern_cstring_symbol(r, name)
           a == Checked(r, 1)
<1>1. /\ ResultOK(a, n, g) /\ SameDictionary(a, r)
      /\ a.image.symbols = r.image.symbols /\ a.refs = r.refs
  BY AllocateOK DEF Checked
<1>2. CASE r.status # "ok" \/ name \in r.image.symbols
  BY <1>2 DEF intern_cstring_symbol
<1>3. CASE ~ (r.status # "ok" \/ name \in r.image.symbols)
  <2>1. s = IF a.status = "ok"
            THEN IF Cardinality(a.image.symbols) >= MaxSymbols THEN [a EXCEPT !.status = "failed"]
                 ELSE [a EXCEPT !.image.symbols = a.image.symbols \cup {name}]
            ELSE a
    BY <1>3 DEF intern_cstring_symbol, Then
  <2> HIDE DEF a, s
  <2>2. a \in Result /\ a.image \in Image /\ Fits(a.image)
    BY <1>1 DEF ResultOK, ImageOK, Result
  <2>3. CASE a.status # "ok"
    BY <1>1, <2>1, <2>3 DEF s
  <2>4. CASE a.status = "ok" /\ Cardinality(a.image.symbols) >= MaxSymbols
    <3>1. s = [a EXCEPT !.status = "failed"]
      BY <2>1, <2>4
    <3>2. s \in Result /\ s.status = "failed" /\ s.image = a.image /\ s.refs = a.refs
      BY <2>2, <3>1 DEF Result
    <3>3. ResultOK(s, n, g)
      BY <1>1, <2>2, <3>2, OtherRoom DEF SameDictionary
    <3> QED
      BY <3>2, <3>3 DEF s
  <2>5. CASE a.status = "ok" /\ ~ (Cardinality(a.image.symbols) >= MaxSymbols)
    <3>1. s = [a EXCEPT !.image.symbols = a.image.symbols \cup {name}]
      BY <2>1, <2>5
    <3>2. /\ s \in Result /\ SameDictionary(s, a) /\ s.refs = a.refs
          /\ s.image.symbols = a.image.symbols \cup {name}
          /\ s.image.capacity = a.image.capacity
      BY <2>2, <3>1 DEF Result, Image, SameDictionary
    <3>3. Fits(s.image)
      <4>1. IsFiniteSet(a.image.symbols) /\ Cardinality(a.image.symbols) \in Nat /\ MaxSymbols \in Nat
        BY <2>2, LoaderAssumption, FS_CardinalityType DEF Fits
      <4>2. name \notin a.image.symbols
        BY <1>1, <1>3
      <4>3. IsFiniteSet(s.image.symbols) /\ Cardinality(s.image.symbols) = Cardinality(a.image.symbols) + 1
        BY <3>2, <4>1, <4>2, FS_AddElement
      <4>4. Cardinality(s.image.symbols) <= MaxSymbols
        BY <2>5, <4>1, <4>3
      <4> QED
        BY <2>2, <3>2, <4>3, <4>4 DEF Fits, SameDictionary
    <3>4. ResultOK(s, n, g)
      BY <1>1, <3>2, <3>3, OtherRoom
    <3> QED
      BY <3>2, <3>4 DEF s
  <2> QED
    BY <2>3, <2>4, <2>5 DEF s
<1> QED
  BY <1>2, <1>3

\* A larger array is as good.
LEMMA OtherCapacity ==
  ASSUME NEW n, NEW g, NEW a, ResultOK(a, n, g),
         NEW capacity \in Nat, capacity >= Len(a.image.globals),
         NEW s, s = [a EXCEPT !.image.capacity = capacity]
  PROVE  /\ ResultOK(s, n, g) /\ SameDictionary(s, a)
         /\ s.image.symbols = a.image.symbols /\ s.image.capacity = capacity
         /\ s.status = a.status
<1>1. a \in Result /\ a.image \in Image /\ Fits(a.image)
  BY DEF ResultOK, ImageOK, Result
<1>2. /\ s \in Result /\ SameDictionary(s, a) /\ s.refs = a.refs
      /\ s.image.symbols = a.image.symbols /\ s.image.capacity = capacity
      /\ s.status = a.status
  BY <1>1 DEF Result, Image, SameDictionary
<1>3. Fits(s.image)
  BY <1>1, <1>2 DEF Fits, SameDictionary
<1>4. ResultOK(s, n, g)
  BY <1>2, <1>3, OtherRoom
<1> QED
  BY <1>2, <1>4

\* The dictionary has an array.
LEMMA EnsureOK ==
  ASSUME NEW n, NEW g, NEW r, ResultOK(r, n, g)
  PROVE  LET s == EnsureArray(r)
         IN  /\ ResultOK(s, n, g) /\ s.image.symbols = r.image.symbols
             /\ s.status = "ok" => r.status = "ok" /\ s.image.capacity # 0
<1> DEFINE s == EnsureArray(r)
           a == Checked(r, 1)
<1>1. /\ ResultOK(a, n, g) /\ SameDictionary(a, r)
      /\ a.image.symbols = r.image.symbols /\ a.image.capacity = r.image.capacity
      /\ a.status = "ok" => r.status = "ok"
  BY AllocateOK DEF Checked
<1>2. CASE r.image.capacity # 0
  BY <1>2 DEF EnsureArray
<1>3. CASE r.image.capacity = 0
  <2>1. s = IF a.status = "ok" THEN [a EXCEPT !.image.capacity = InitialCapacity] ELSE a
    BY <1>3 DEF EnsureArray, Then
  <2> HIDE DEF a, s
  <2>2. a.image \in Image /\ Fits(a.image)
    BY <1>1 DEF ResultOK, ImageOK
  <2>3. InitialCapacity \in Nat /\ InitialCapacity # 0
    BY LoaderAssumption
  <2>4. InitialCapacity >= Len(a.image.globals)
    <3>1. Len(a.image.globals) \in Nat /\ Len(a.image.globals) <= 0
      BY <1>1, <1>3, <2>2 DEF Fits, Image
    <3> QED BY <2>3, <3>1
  <2>5. CASE a.status # "ok"
    BY <1>1, <2>1, <2>5 DEF s
  <2>6. CASE a.status = "ok"
    <3>1. PICK size \in Nat : size = InitialCapacity
      BY <2>3
    <3>2. PICK b : b = a
      OBVIOUS
    <3>3. /\ ResultOK(b, n, g) /\ Len(b.image.globals) \in Nat /\ size >= Len(b.image.globals)
          /\ s = [b EXCEPT !.image.capacity = size]
      BY <1>1, <2>1, <2>2, <2>4, <2>6, <3>1, <3>2 DEF Image
    <3>4. /\ ResultOK(s, n, g)
          /\ s.image.symbols = b.image.symbols /\ s.image.capacity = size
          /\ s.status = b.status
      <4>1. ResultOK(s, n, g)
        BY <3>3, OtherCapacity
      <4>2. s.image.symbols = b.image.symbols /\ s.image.capacity = size
        BY <3>3 DEF ResultOK, Result, Image
      <4>3. s.status = b.status
        BY <3>3, OtherCapacity
      <4> QED BY <4>1, <4>2, <4>3
    <3> QED
      BY <1>1, <2>3, <3>1, <3>2, <3>4 DEF s
  <2> QED
    BY <2>5, <2>6
<1> QED
  BY <1>2, <1>3

\* The array has a free place.
LEMMA GrowOK ==
  ASSUME NEW n, NEW g, NEW r, ResultOK(r, n, g), r.image.capacity # 0
  PROVE  LET s == GrowArray(r)
         IN  /\ ResultOK(s, n, g) /\ SameDictionary(s, r)
             /\ s.image.symbols = r.image.symbols
             /\ s.status = "ok" => r.status = "ok" /\ Len(s.image.globals) < s.image.capacity
<1> DEFINE s == GrowArray(r)
           a == Checked(r, 1)
<1>1. /\ ResultOK(a, n, g) /\ SameDictionary(a, r)
      /\ a.image.symbols = r.image.symbols /\ a.image.capacity = r.image.capacity
      /\ a.status = "ok" => r.status = "ok"
  BY AllocateOK DEF Checked
<1>2. CASE Len(r.image.globals) < r.image.capacity
  BY <1>2 DEF GrowArray, SameDictionary
<1>3. CASE ~ (Len(r.image.globals) < r.image.capacity)
  <2> DEFINE twice == 2 * a.image.capacity
  <2>1. s = IF a.status = "ok" THEN [a EXCEPT !.image.capacity = twice] ELSE a
    BY <1>3 DEF GrowArray, Then
  <2> HIDE DEF a, s
  <2>2. a.image \in Image /\ Fits(a.image)
    BY <1>1 DEF ResultOK, ImageOK
  <2>3. /\ Len(a.image.globals) \in Nat /\ twice \in Nat
        /\ twice > Len(a.image.globals)
    <3>1. Len(a.image.globals) \in Nat /\ a.image.capacity \in Nat
          /\ Len(a.image.globals) <= a.image.capacity /\ a.image.capacity # 0
      BY <1>1, <2>2 DEF Fits, Image
    <3> QED BY <3>1
  <2> HIDE DEF twice
  <2>5. CASE a.status # "ok"
    BY <1>1, <2>1, <2>5 DEF s
  <2>6. CASE a.status = "ok"
    <3>1. s = [a EXCEPT !.image.capacity = twice]
      BY <2>1, <2>6
    <3>2. /\ ResultOK(s, n, g) /\ SameDictionary(s, a)
          /\ s.image.symbols = a.image.symbols /\ s.image.capacity = twice
          /\ s.status = a.status
      BY <1>1, <2>3, <3>1, OtherCapacity
    <3> QED
      BY <1>1, <2>3, <3>2 DEF s, SameDictionary
  <2> QED
    BY <2>5, <2>6
<1> QED
  BY <1>2, <1>3

\* A new association for a name that has none.
LEMMA AddOK ==
  ASSUME NEW n \in Nat, NEW g, NEW r, ResultOK(r, n, g),
         Len(r.image.globals) < r.image.capacity,
         NEW name \in Name, name \in r.image.symbols, PlaceOf(r.image, name) = 0,
         NEW value \in 1 .. n,
         NEW a, a = Len(r.image.assocs) + 1,
         NEW s, s = [r EXCEPT !.image.assocs = Append(@, [key |-> name, value |-> value]),
                              !.image.globals = Append(@, a), !.refs = Append(@, a)]
  PROVE  ResultOK(s, n, g)
<1> DEFINE im == r.image
           pair == [key |-> name, value |-> value]
           globals == Append(im.globals, a)
           assocs == Append(im.assocs, pair)
           refs == Append(r.refs, a)
           jm == [room |-> im.room, symbols |-> im.symbols, capacity |-> im.capacity,
                  globals |-> globals, assocs |-> assocs]
<1>1. /\ r \in Result /\ im \in Image /\ Fits(im) /\ Whole(im, n) /\ Unique(im)
      /\ ToSet(r.refs) \subseteq ToSet(im.globals) /\ g \subseteq ToSet(im.globals)
  BY DEF ResultOK, ImageOK
<1>2. /\ im.room \in Nat /\ im.symbols \in SUBSET Name /\ im.capacity \in Nat
      /\ im.globals \in Seq(Nat) /\ im.assocs \in Seq(Association)
      /\ r.refs \in Seq(Nat) /\ r.status \in {"ok", "failed", "crashed"}
  BY <1>1 DEF Image, Result
<1>3. s = [status |-> r.status, image |-> jm, refs |-> refs]
  BY <1>1 DEF Result, Image
<1>4. pair \in Association /\ pair.key = name /\ pair.value = value
  BY DEF Association
<1>5. a \in Nat /\ a \notin DOMAIN im.assocs
  BY <1>2
<1> HIDE DEF pair
<1>6. /\ globals \in Seq(Nat) /\ ToSet(globals) = ToSet(im.globals) \cup {a}
      /\ DOMAIN globals = 1 .. Len(im.globals) + 1 /\ Len(globals) = Len(im.globals) + 1
      /\ \A i \in DOMAIN im.globals : globals[i] = im.globals[i]
      /\ globals[Len(im.globals) + 1] = a
  BY <1>2, <1>5, AppendedNumber, ZenonT(30)
<1>7. /\ assocs \in Seq(Association)
      /\ DOMAIN assocs = 1 .. Len(im.assocs) + 1
      /\ \A i \in DOMAIN im.assocs : assocs[i] = im.assocs[i]
      /\ assocs[a] = pair
  BY <1>2, <1>4, AppendedSet
<1>8. refs \in Seq(Nat) /\ ToSet(refs) = ToSet(r.refs) \cup {a}
  BY <1>2, <1>5, AppendedNumber, Zenon
<1>9. /\ DOMAIN im.globals = 1 .. Len(im.globals) /\ Len(im.globals) \in Nat
      /\ DOMAIN im.assocs = 1 .. Len(im.assocs) /\ Len(im.assocs) \in Nat
  BY <1>2
<1>10. a \in DOMAIN assocs
  BY <1>7, <1>9
<1>11. \A j \in DOMAIN im.globals : im.globals[j] \in DOMAIN im.assocs /\ im.globals[j] \in DOMAIN assocs
  <2>1. \A j \in DOMAIN im.globals : im.globals[j] \in DOMAIN im.assocs
    BY <1>1 DEF Whole
  <2>2. DOMAIN im.assocs \subseteq DOMAIN assocs
    BY <1>7, <1>9
  <2> QED BY <2>1, <2>2
<1> DEFINE N == Len(im.globals) + 1
<1>12. \A j \in DOMAIN globals : j = N \/ j \in DOMAIN im.globals
  BY <1>6, <1>9
<1>13. N \notin DOMAIN im.globals /\ globals[N] = a
  BY <1>6, <1>9
<1>14. \A j \in DOMAIN im.globals : im.assocs[im.globals[j]].key # name
  BY <1>1, PlaceOfName
<1>15. /\ jm.globals = globals /\ jm.assocs = assocs /\ jm.symbols = im.symbols
       /\ jm.capacity = im.capacity /\ jm \in Image
  BY <1>2, <1>6, <1>7 DEF Image
<1> HIDE DEF im, globals, assocs, refs, jm, N
<1>16. Whole(jm, n)
  <2> SUFFICES ASSUME NEW j \in DOMAIN globals
               PROVE  /\ globals[j] \in DOMAIN assocs
                      /\ assocs[globals[j]].value \in 1 .. n
                      /\ assocs[globals[j]].key \in im.symbols
    BY <1>15 DEF Whole
  <2>1. CASE j = N
    BY <1>4, <1>7, <1>10, <1>13, <2>1 DEF im
  <2>2. CASE j \in DOMAIN im.globals
    <3>1. globals[j] = im.globals[j] /\ assocs[globals[j]] = im.assocs[im.globals[j]]
      BY <1>6, <1>7, <1>11, <2>2
    <3> QED
      BY <1>1, <1>11, <2>2, <3>1 DEF Whole
  <2> QED
    BY <1>12, <2>1, <2>2
<1>17. Unique(jm)
  <2>1. \A j \in DOMAIN im.globals :
          globals[j] = im.globals[j] /\ assocs[globals[j]] = im.assocs[im.globals[j]]
    BY <1>6, <1>7, <1>11
  <2>2. assocs[globals[N]].key = name
    BY <1>4, <1>7, <1>13
  <2> SUFFICES ASSUME NEW i \in DOMAIN globals, NEW j \in DOMAIN globals,
                      assocs[globals[i]].key = assocs[globals[j]].key
               PROVE  i = j
    BY <1>15 DEF Unique
  <2>3. CASE i \in DOMAIN im.globals /\ j \in DOMAIN im.globals
    BY <1>1, <2>1, <2>3 DEF Unique
  <2>4. CASE i = N /\ j \in DOMAIN im.globals
    BY <1>14, <2>1, <2>2, <2>4
  <2>5. CASE j = N /\ i \in DOMAIN im.globals
    BY <1>14, <2>1, <2>2, <2>5
  <2> QED
    BY <1>12, <2>3, <2>4, <2>5
<1>18. Fits(jm)
  <2>1. Len(im.globals) < im.capacity
    BY DEF im
  <2> QED
    BY <1>1, <1>2, <1>6, <1>9, <1>15, <2>1 DEF Fits
<1>19. /\ s.image = jm /\ s.refs = refs /\ s \in Result
  <2> DEFINE t == [status |-> r.status, image |-> jm, refs |-> refs]
  <2>1. t \in Result /\ t.image = jm /\ t.refs = refs
    BY <1>2, <1>8, <1>15 DEF Result
  <2> QED
    BY <1>3, <2>1, Zenon
<1> QED
  BY <1>1, <1>6, <1>8, <1>15, <1>16, <1>17, <1>18, <1>19 DEF ResultOK, ImageOK

\* The association of a name that has one gets another value.
LEMMA UpdateOK ==
  ASSUME NEW n \in Nat, NEW g, NEW r, ResultOK(r, n, g),
         NEW name, PlaceOf(r.image, name) # 0, NEW value \in 1 .. n,
         NEW a, a = r.image.globals[PlaceOf(r.image, name)],
         NEW s, s = [r EXCEPT !.image.assocs[a].value = value, !.refs = Append(@, a)]
  PROVE  ResultOK(s, n, g)
<1> DEFINE im == r.image
           old == im.assocs[a]
           assocs == [im.assocs EXCEPT ![a] = [key |-> old.key, value |-> value]]
           refs == Append(r.refs, a)
           jm == [room |-> im.room, symbols |-> im.symbols, capacity |-> im.capacity,
                  globals |-> im.globals, assocs |-> assocs]
<1>1. /\ r \in Result /\ im \in Image /\ Fits(im) /\ Whole(im, n) /\ Unique(im)
      /\ ToSet(r.refs) \subseteq ToSet(im.globals) /\ g \subseteq ToSet(im.globals)
  BY DEF ResultOK, ImageOK
<1>2. /\ im.room \in Nat /\ im.symbols \in SUBSET Name /\ im.capacity \in Nat
      /\ im.globals \in Seq(Nat) /\ im.assocs \in Seq(Association)
      /\ r.refs \in Seq(Nat) /\ r.status \in {"ok", "failed", "crashed"}
  BY <1>1 DEF Image, Result
<1>3. PlaceOf(im, name) \in DOMAIN im.globals
  BY <1>1, PlaceOfName
<1>4. a \in DOMAIN im.assocs /\ a \in ToSet(im.globals) /\ a \in Nat
  <2>1. a \in DOMAIN im.assocs
    BY <1>1, <1>3 DEF Whole
  <2>2. a \in ToSet(im.globals)
    BY <1>3 DEF ToSet
  <2>3. a \in Nat
    BY <1>2, <1>3
  <2> QED BY <2>1, <2>2, <2>3
<1>5. old \in Association /\ old = [key |-> old.key, value |-> old.value] /\ old.key \in Name
  <2>1. old \in Association
    BY <1>2, <1>4
  <2> QED BY <2>1 DEF Association
<1>6. [old EXCEPT !.value = value] = [key |-> old.key, value |-> value]
  <2> HIDE DEF old
  <2> QED BY <1>5
<1>7. s = [status |-> r.status, image |-> jm, refs |-> refs]
  <2>1. s = [r EXCEPT !.image = [im EXCEPT !.assocs = [im.assocs EXCEPT ![a] = [old EXCEPT !.value = value]]],
                      !.refs = refs]
    OBVIOUS
  <2>2. s = [r EXCEPT !.image = [im EXCEPT !.assocs = assocs], !.refs = refs]
    BY <1>6, <2>1, Zenon
  <2> HIDE DEF assocs, refs
  <2> QED BY <1>1, <2>2 DEF Result, Image
<1>8. /\ assocs \in Seq(Association) /\ DOMAIN assocs = DOMAIN im.assocs
      /\ \A k \in DOMAIN im.assocs : k # a => assocs[k] = im.assocs[k]
      /\ assocs[a] = [key |-> old.key, value |-> value]
  <2>1. [key |-> old.key, value |-> value] \in Association
    <3> HIDE DEF old
    <3> QED BY <1>5 DEF Association
  <2> HIDE DEF old
  <2> QED BY <1>2, <1>4, <2>1
<1>9. refs \in Seq(Nat) /\ ToSet(refs) = ToSet(r.refs) \cup {a}
  BY <1>2, <1>4, AppendedSet, SMTT(30)
<1>10. \A k \in DOMAIN im.assocs : assocs[k].key = im.assocs[k].key
  <2> SUFFICES ASSUME NEW k \in DOMAIN im.assocs PROVE assocs[k].key = im.assocs[k].key
    OBVIOUS
  <2>1. CASE k = a
    BY <1>8, <2>1
  <2>2. CASE k # a
    BY <1>8, <2>2
  <2> QED BY <2>1, <2>2
<1>11. \A k \in DOMAIN im.assocs : assocs[k].value = value \/ assocs[k] = im.assocs[k]
  BY <1>8
<1>12. /\ jm.globals = im.globals /\ jm.assocs = assocs /\ jm.symbols = im.symbols
       /\ jm.capacity = im.capacity /\ jm \in Image
  BY <1>2, <1>8 DEF Image
<1> HIDE DEF im, assocs, refs, jm, old
<1>13. \A j \in DOMAIN im.globals : im.globals[j] \in DOMAIN im.assocs
  BY <1>1 DEF Whole
<1>14. Whole(jm, n)
  <2> SUFFICES ASSUME NEW j \in DOMAIN im.globals
               PROVE  /\ im.globals[j] \in DOMAIN assocs
                      /\ assocs[im.globals[j]].value \in 1 .. n
                      /\ assocs[im.globals[j]].key \in im.symbols
    BY <1>12 DEF Whole
  <2>1. /\ im.globals[j] \in DOMAIN im.assocs
        /\ im.assocs[im.globals[j]].value \in 1 .. n
        /\ im.assocs[im.globals[j]].key \in im.symbols
    BY <1>1 DEF Whole
  <2> QED
    BY <1>8, <1>10, <1>11, <2>1
<1>15. Unique(jm)
  BY <1>1, <1>10, <1>12, <1>13 DEF Unique
<1>16. Fits(jm)
  BY <1>1, <1>12 DEF Fits
<1>17. s.image = jm /\ s.refs = refs /\ s \in Result
  <2> DEFINE t == [status |-> r.status, image |-> jm, refs |-> refs]
  <2>1. t \in Result /\ t.image = jm /\ t.refs = refs
    BY <1>2, <1>9, <1>12 DEF Result
  <2> QED
    BY <1>7, <2>1, Zenon
<1> QED
  BY <1>1, <1>4, <1>9, <1>12, <1>14, <1>15, <1>16, <1>17 DEF ResultOK, ImageOK

\* bc_global_association_oop keeps the dictionary whole and its names unique:
\* an association is added only for a name that has none.
LEMMA AssociationOK ==
  ASSUME NEW n \in Nat, NEW g, NEW r, ResultOK(r, n, g),
         NEW name \in Name, NEW value \in 1 .. n
  PROVE  ResultOK(bc_global_association_oop(r, name, value), n, g)
<1>1. PICK i : i = intern_cstring_symbol(r, name)
  OBVIOUS
<1>2. ResultOK(i, n, g) /\ (i.status = "ok" => name \in i.image.symbols)
  BY <1>1, InternOK
<1>3. PICK e : e = Then(i, EnsureArray)
  OBVIOUS
<1>4. /\ ResultOK(e, n, g)
      /\ e.status = "ok" => name \in e.image.symbols /\ e.image.capacity # 0
  BY <1>2, <1>3, EnsureOK DEF Then
<1>5. PICK w : w = GrowArray(e)
  OBVIOUS
<1>6. PICK p : p = Checked(w, 1)
  OBVIOUS
<1> DEFINE a == e.image.globals[PlaceOf(e.image, name)]
           b == Len(p.image.assocs) + 1
<1>7. bc_global_association_oop(r, name, value)
        = IF e.status = "ok"
          THEN IF PlaceOf(e.image, name) # 0
               THEN [e EXCEPT !.image.assocs[a].value = value, !.refs = Append(@, a)]
               ELSE IF p.status = "ok"
               THEN [p EXCEPT !.image.assocs = Append(@, [key |-> name, value |-> value]),
                              !.image.globals = Append(@, b), !.refs = Append(@, b)]
               ELSE p
          ELSE e
  BY <1>1, <1>3, <1>5, <1>6 DEF bc_global_association_oop, Then
<1>8. CASE e.status # "ok"
  BY <1>4, <1>7, <1>8
<1>9. CASE e.status = "ok" /\ PlaceOf(e.image, name) # 0
  <2> DEFINE t == [e EXCEPT !.image.assocs[a].value = value, !.refs = Append(@, a)]
  <2>1. ResultOK(t, n, g)
    BY <1>4, <1>9, UpdateOK
  <2>2. bc_global_association_oop(r, name, value) = t
    BY <1>7, <1>9, Zenon
  <2> QED
    BY <2>1, <2>2, Zenon
<1>10. CASE e.status = "ok" /\ ~ (PlaceOf(e.image, name) # 0)
  <2>1. /\ ResultOK(w, n, g) /\ SameDictionary(w, e) /\ w.image.symbols = e.image.symbols
        /\ w.status = "ok" => Len(w.image.globals) < w.image.capacity
    BY <1>4, <1>5, <1>10, GrowOK
  <2>2. /\ ResultOK(p, n, g) /\ SameDictionary(p, w) /\ p.image.symbols = w.image.symbols
        /\ p.image.capacity = w.image.capacity /\ (p.status = "ok" => w.status = "ok")
    <3> DEFINE q == Checked(w, 1)
    <3>1. /\ ResultOK(q, n, g) /\ SameDictionary(q, w) /\ q.image.symbols = w.image.symbols
          /\ q.image.capacity = w.image.capacity /\ (q.status = "ok" => w.status = "ok")
      BY <2>1, AllocateOK DEF Checked
    <3> QED
      BY <1>6, <3>1, Zenon
  <2>3. PlaceOf(p.image, name) = 0
    <3>1. p.image.globals = e.image.globals /\ p.image.assocs = e.image.assocs
      BY <2>1, <2>2 DEF SameDictionary
    <3> QED
      BY <1>10, <3>1 DEF PlaceOf
  <2>4. CASE p.status # "ok"
    BY <1>7, <1>10, <2>2, <2>4, Zenon
  <2>5. CASE p.status = "ok"
    <3> DEFINE t == [p EXCEPT !.image.assocs = Append(@, [key |-> name, value |-> value]),
                              !.image.globals = Append(@, b), !.refs = Append(@, b)]
    <3>1. name \in p.image.symbols /\ Len(p.image.globals) < p.image.capacity
      BY <1>4, <1>10, <2>1, <2>2, <2>5 DEF SameDictionary
    <3>2. ResultOK(t, n, g)
      BY <2>2, <2>3, <3>1, AddOK
    <3>3. bc_global_association_oop(r, name, value) = t
      BY <1>7, <1>10, <2>5, Zenon
    <3> QED
      BY <3>2, <3>3, Zenon
  <2> QED
    BY <2>4, <2>5
<1> QED
  BY <1>8, <1>9, <1>10

-----------------------------------------------------------------------------
(* Names and literals. *)

\* Bindings of names to the first n classes.
Bound(bindings, n) == \A name \in DOMAIN bindings : bindings[name] \in 1 .. n

\* A lookup in the dictionary answers nothing or one of the classes, and one of
\* the classes for a name that the dictionary has.
LEMMA GlobalLookup ==
  ASSUME NEW n \in Nat, NEW im, ImageOK(im, n), NEW name
  PROVE  /\ bc_lookup_smalltalk_global(im, name) \in 0 .. n
         /\ \A j \in DOMAIN im.globals :
              im.assocs[im.globals[j]].key = name => bc_lookup_smalltalk_global(im, name) \in 1 .. n
<1> DEFINE j == PlaceOf(im, name)
<1>1. im \in Image /\ Whole(im, n)
  BY DEF ImageOK
<1>2. bc_lookup_smalltalk_global(im, name)
        = IF name \notin im.symbols \/ j = 0 THEN 0 ELSE im.assocs[im.globals[j]].value
  BY DEF bc_lookup_smalltalk_global, Nil
<1>3. j # 0 => j \in DOMAIN im.globals
  BY <1>1, PlaceOfName
<1>4. j # 0 => im.assocs[im.globals[j]].value \in 1 .. n
  BY <1>1, <1>3 DEF Whole
<1>5. \A k \in DOMAIN im.globals :
        im.assocs[im.globals[k]].key = name => j # 0 /\ name \in im.symbols
  BY <1>1, PlaceOfName DEF Whole
<1> HIDE DEF j
<1> QED
  BY <1>2, <1>4, <1>5

\* So does a lookup that asks the bindings of the host first.
LEMMA ClassLookup ==
  ASSUME NEW n \in Nat, NEW im, ImageOK(im, n), NEW bindings, Bound(bindings, n), NEW name
  PROVE  bc_lookup_class_named(bindings, im, name) \in 0 .. n
<1>1. bc_lookup_smalltalk_global(im, name) \in 0 .. n
  BY GlobalLookup
<1>2. name \in DOMAIN bindings => bindings[name] \in 0 .. n
  BY DEF Bound
<1> QED
  BY <1>1, <1>2 DEF bc_lookup_class_named

\* The literal of a class reference.
LEMMA LiteralOK ==
  ASSUME NEW n \in Nat, NEW g, NEW r, ResultOK(r, n, g), Bound(active, n), NEW name \in Name
  PROVE  ResultOK(bc_literal_token_to_oop(r, name), n, g)
<1> DEFINE c == bc_lookup_class_named(active, r.image, name)
<1>1. c \in 0 .. n
  BY ClassLookup DEF ResultOK
<1>2. bc_literal_token_to_oop(r, name)
        = IF r.status # "ok" THEN r
          ELSE IF c = 0 THEN [r EXCEPT !.status = "failed"]
          ELSE bc_global_association_oop(r, name, c)
  BY DEF bc_literal_token_to_oop, Nil
<1> HIDE DEF c
<1>3. ResultOK([r EXCEPT !.status = "failed"], n, g)
  <2> DEFINE t == [r EXCEPT !.status = "failed"]
  <2>1. r \in Result
    BY DEF ResultOK
  <2>2. t \in Result /\ t.image = r.image /\ t.refs = r.refs
    BY <2>1 DEF Result
  <2> HIDE DEF t
  <2>3. ResultOK(t, n, g)
    BY <2>2 DEF ResultOK
  <2> QED
    BY <2>3 DEF t
<1>4. CASE c = 0
  BY <1>2, <1>3, <1>4
<1>5. CASE c # 0
  <2>1. c \in 1 .. n
    BY <1>1, <1>5
  <2>2. ResultOK(bc_global_association_oop(r, name, c), n, g)
    BY <2>1, AssociationOK
  <2> QED
    BY <1>2, <1>5, <2>2
<1> QED
  BY <1>4, <1>5

-----------------------------------------------------------------------------
(* Folding over a sequence: FoldLeft is a recursive function on the sets of *)
(* the places.                                                             *)

\* The largest element of a set of numbers up to n.
LEMMA MaxIsElement ==
  ASSUME NEW n \in Nat, NEW S \in SUBSET (1 .. n), S # {}
  PROVE  /\ Max(S) \in S /\ \A k \in S : k <= Max(S)
         /\ n \in S => Max(S) = n
<1>1. S \in SUBSET (0 .. n)
  OBVIOUS
<1>2. \E m \in S : \A k \in S : m >= k
  BY <1>1, NatMaximum
<1>3. Max(S) \in S /\ \A k \in S : Max(S) >= k
  BY <1>2, Zenon DEF Max
<1>4. Max(S) \in 1 .. n
  BY <1>3
<1> QED
  BY <1>3, <1>4

\* The two operators that the loader folds with.
AddLiteral(uses, target, literals, name) ==
  IF cg_inst_var_index(uses, target, name) >= 0 \/ Contains(literals, name)
  THEN literals ELSE Append(literals, name)

FoldStep(kind, uses, target, r, name) ==
  IF kind = "literal" THEN bc_literal_token_to_oop(r, name) ELSE AddLiteral(uses, target, r, name)

\* The recursive function.
IsFold(f, N, kind, uses, target, base, seq) ==
  f = [s \in SUBSET (1 .. N) |->
         IF s = {} THEN base
         ELSE FoldStep(kind, uses, target, f[s \ {Max(s)}], seq[Max(s)])]

\* It exists: a step asks only for the fold over fewer places.
LEMMA FoldExists ==
  ASSUME NEW N \in Nat, NEW kind, NEW uses, NEW target, NEW base, NEW seq
  PROVE  \E f : IsFold(f, N, kind, uses, target, base, seq)
<1> DEFINE op(r, k) == FoldStep(kind, uses, target, r, seq[k])
           Eq(f, m) == f = [s \in SUBSET (1 .. m) |->
                              IF s = {} THEN base ELSE op(f[s \ {Max(s)}], Max(s))]
           P(m) == \E f : Eq(f, m)
<1> HIDE DEF op
<1>1. P(0)
  <2> DEFINE f == [s \in SUBSET (1 .. 0) |-> base]
  <2>1. 1 .. 0 = {}
    OBVIOUS
  <2>2. \A s \in SUBSET (1 .. 0) : s = {}
    BY <2>1
  <2>3. Eq(f, 0)
    BY <2>2
  <2> QED
    BY <2>3
<1>2. ASSUME NEW m \in Nat, P(m)
      PROVE  P(m + 1)
  <2>1. PICK g : Eq(g, m)
    BY <1>2
  <2> DEFINE f == [s \in SUBSET (1 .. m + 1) |->
                     IF m + 1 \in s THEN op(g[s \ {m + 1}], m + 1) ELSE g[s]]
  <2>2. ASSUME NEW s \in SUBSET (1 .. m + 1)
        PROVE  f[s] = IF s = {} THEN base ELSE op(f[s \ {Max(s)}], Max(s))
    <3>1. CASE m + 1 \in s
      <4>1. Max(s) = m + 1
        BY <3>1, MaxIsElement
      <4>2. s \ {m + 1} \in SUBSET (1 .. m + 1) /\ m + 1 \notin s \ {m + 1}
        OBVIOUS
      <4>3. f[s \ {m + 1}] = g[s \ {m + 1}]
        BY <4>2
      <4>4. f[s] = op(g[s \ {m + 1}], m + 1)
        BY <3>1
      <4> HIDE DEF f
      <4> QED
        BY <3>1, <4>1, <4>3, <4>4
    <3>2. CASE m + 1 \notin s
      <4>1. s \in SUBSET (1 .. m)
        BY <3>2
      <4>2. f[s] = g[s]
        BY <3>2
      <4>3. g[s] = IF s = {} THEN base ELSE op(g[s \ {Max(s)}], Max(s))
        BY <2>1, <4>1
      <4>4. s \ {Max(s)} \in SUBSET (1 .. m + 1) /\ m + 1 \notin s \ {Max(s)}
        BY <3>2
      <4>5. f[s \ {Max(s)}] = g[s \ {Max(s)}]
        BY <4>4
      <4> HIDE DEF f
      <4> QED
        BY <4>2, <4>3, <4>5
    <3> QED
      BY <3>1, <3>2
  <2>3. Eq(f, m + 1)
    <3>1. f = [s \in SUBSET (1 .. m + 1) |-> f[s]]
      OBVIOUS
    <3> HIDE DEF f
    <3> QED
      BY <2>2, <3>1
  <2> QED
    BY <2>3
<1>3. P(N)
  <2> HIDE DEF P
  <2> DEFINE S == {m \in Nat : P(m)}
  <2>1. 0 \in S /\ \A m \in Nat : m \in S => m + 1 \in S
    BY <1>1, <1>2
  <2> HIDE DEF S
  <2>2. N \in S
    BY <2>1, NatSetInduction
  <2> QED
    BY <2>2 DEF S
<1> QED
  BY <1>3 DEF op, IsFold

\* A fold stays in a set that its base is in and that its steps do not leave.
LEMMA FoldTyped ==
  ASSUME NEW N \in Nat, NEW kind, NEW uses, NEW target, NEW base, NEW seq,
         NEW T, base \in T,
         \A r \in T, k \in 1 .. N : FoldStep(kind, uses, target, r, seq[k]) \in T,
         NEW f, IsFold(f, N, kind, uses, target, base, seq)
  PROVE  f[1 .. N] \in T
<1> DEFINE Q == {m \in Nat : \A s \in SUBSET (1 .. N) : s \subseteq 1 .. m => f[s] \in T}
<1>1. \A s \in SUBSET (1 .. N) :
        f[s] = IF s = {} THEN base
               ELSE FoldStep(kind, uses, target, f[s \ {Max(s)}], seq[Max(s)])
  BY DEF IsFold
<1>2. 0 \in Q
  <2>1. ASSUME NEW s \in SUBSET (1 .. N), s \subseteq 1 .. 0 PROVE f[s] \in T
    <3>1. s = {}
      BY <2>1
    <3> QED BY <1>1, <3>1
  <2> QED BY <2>1
<1>3. ASSUME NEW m \in Nat, m \in Q PROVE m + 1 \in Q
  <2>1. ASSUME NEW s \in SUBSET (1 .. N), s \subseteq 1 .. m + 1 PROVE f[s] \in T
    <3>1. CASE s = {}
      BY <1>1, <3>1
    <3>2. CASE s # {}
      <4>1. Max(s) \in s /\ \A k \in s : k <= Max(s)
        BY <3>2, MaxIsElement
      <4>2. s \ {Max(s)} \in SUBSET (1 .. N) /\ Max(s) \in 1 .. N
        BY <4>1
      <4> DEFINE x == Max(s)
      <4> HIDE DEF x
      <4>3. s \ {x} \subseteq 1 .. m
        <5>1. x \in s /\ x \in 1 .. m + 1 /\ \A k \in s : k <= x
          BY <2>1, <4>1 DEF x
        <5> SUFFICES ASSUME NEW k \in s, k # x PROVE k \in 1 .. m
          OBVIOUS
        <5>2. k \in 1 .. m + 1 /\ k <= x
          BY <2>1, <5>1
        <5> QED
          BY <5>1, <5>2
      <4>4. f[s \ {x}] \in T
        BY <1>3, <4>2, <4>3 DEF x
      <4>5. f[s] = FoldStep(kind, uses, target, f[s \ {x}], seq[x])
        BY <1>1, <3>2 DEF x
      <4>6. x \in 1 .. N
        BY <4>2 DEF x
      <4> QED
        BY <4>4, <4>5, <4>6
    <3> QED BY <3>1, <3>2
  <2>2. m + 1 \in Nat
    OBVIOUS
  <2> QED BY <2>1, <2>2, Zenon
<1> HIDE DEF Q
<1>4. N \in Q
  BY <1>2, <1>3, NatSetInduction
<1>5. 1 .. N \in SUBSET (1 .. N)
  OBVIOUS
<1> QED
  BY <1>4, <1>5 DEF Q

\* The literals of a method: the image is as good with them as without.
LEMMA LiteralsOK ==
  ASSUME NEW n \in Nat, NEW g, NEW base, ResultOK(base, n, g), Bound(active, n),
         NEW refs \in Seq(STRING)
  PROVE  ResultOK(FoldLeft(bc_literal_token_to_oop, base, refs), n, g)
<1> DEFINE N == Len(refs)
           T == {r \in Result : ResultOK(r, n, g)}
           Eq(f) == IsFold(f, N, "literal", <<>>, 0, base, refs)
<1>1. N \in Nat /\ DOMAIN refs = 1 .. N
  OBVIOUS
<1>2. FoldLeft(bc_literal_token_to_oop, base, refs) = (CHOOSE f : Eq(f))[1 .. N]
  BY <1>1 DEF FoldLeft, MapThenFoldSet, FoldStep, IsFold
<1>3. base \in T
  BY DEF ResultOK
<1>4. ASSUME NEW r \in T, NEW k \in 1 .. N PROVE FoldStep("literal", <<>>, 0, r, refs[k]) \in T
  <2>1. refs[k] \in Name
    BY <1>1 DEF Name
  <2>2. ResultOK(bc_literal_token_to_oop(r, refs[k]), n, g)
    BY <2>1, LiteralOK
  <2> QED
    BY <2>2 DEF ResultOK, FoldStep
<1> HIDE DEF T, N
<1>5. \E f : Eq(f)
  BY <1>1, FoldExists
<1>6. PICK f : f = (CHOOSE h : Eq(h))
  OBVIOUS
<1>7. Eq(f)
  <2> HIDE DEF Eq
  <2> QED BY <1>5, <1>6
<1>8. f[1 .. N] \in T
  BY <1>1, <1>3, <1>4, <1>7, FoldTyped
<1>9. FoldLeft(bc_literal_token_to_oop, base, refs) \in T
  <2> HIDE DEF Eq
  <2> QED BY <1>2, <1>6, <1>8
<1> QED
  BY <1>9 DEF T

\* The names that become literals are among the names a method uses.
LEMMA ClassRefsTyped ==
  ASSUME NEW uses \in Seq(STRING), NEW target
  PROVE  ClassRefs(uses, target) \in Seq(STRING)
<1> DEFINE N == Len(uses)
           Eq(f) == IsFold(f, N, "name", uses, target, <<>>, uses)
<1>1. N \in Nat /\ DOMAIN uses = 1 .. N
  OBVIOUS
<1>2. ClassRefs(uses, target) = (CHOOSE f : Eq(f))[1 .. N]
  BY <1>1 DEF ClassRefs, FoldLeft, MapThenFoldSet, FoldStep, AddLiteral, IsFold
<1>3. <<>> \in Seq(STRING)
  OBVIOUS
<1>4. ASSUME NEW r \in Seq(STRING), NEW k \in 1 .. N
      PROVE  FoldStep("name", uses, target, r, uses[k]) \in Seq(STRING)
  <2>1. uses[k] \in STRING
    BY <1>1
  <2>2. Append(r, uses[k]) \in Seq(STRING)
    BY <2>1
  <2> QED
    BY <2>2 DEF FoldStep, AddLiteral
<1> HIDE DEF N
<1>5. \E f : Eq(f)
  BY <1>1, FoldExists
<1>6. PICK f : f = (CHOOSE h : Eq(h))
  OBVIOUS
<1>7. Eq(f)
  <2> HIDE DEF Eq
  <2> QED BY <1>5, <1>6
<1>8. f[1 .. N] \in Seq(STRING)
  BY <1>1, <1>3, <1>4, <1>7, FoldTyped
<1> QED
  <2> HIDE DEF Eq
  <2> QED BY <1>2, <1>6, <1>8

\* A compiled method: literals, source text, bytecodes.
LEMMA MaterializeOK ==
  ASSUME NEW n \in Nat, NEW g, NEW r, ResultOK(r, n, g), Bound(active, n),
         NEW refs \in Seq(STRING)
  PROVE  ResultOK(bc_materialize_compiled_method(r, refs), n, g)
<1>1. ResultOK(Unchecked(r, 1), n, g)
  BY AllocateOK DEF Unchecked
<1>2. ResultOK(bc_build_literal_array(r, refs), n, g)
  <2>1. PICK u : u = Unchecked(r, 1)
    OBVIOUS
  <2>2. ResultOK(u, n, g)
    BY <1>1, <2>1
  <2>3. ResultOK(FoldLeft(bc_literal_token_to_oop, u, refs), n, g)
    BY <2>2, LiteralsOK
  <2>4. bc_build_literal_array(r, refs)
          = IF refs = <<>> THEN r ELSE FoldLeft(bc_literal_token_to_oop, u, refs)
    BY <2>1 DEF bc_build_literal_array
  <2> QED
    BY <2>3, <2>4
<1>3. PICK l : l = bc_build_literal_array(r, refs)
  OBVIOUS
<1>4. PICK t : t = Checked(l, 1)
  OBVIOUS
<1>5. ResultOK(t, n, g)
  <2>1. ResultOK(Checked(l, 1), n, g)
    BY <1>2, <1>3, AllocateOK DEF Checked
  <2> QED BY <1>4, <2>1
<1>6. ResultOK(Unchecked(t, 2), n, g)
  BY <1>5, AllocateOK DEF Unchecked
<1> QED
  BY <1>3, <1>4, <1>6 DEF bc_materialize_compiled_method

-----------------------------------------------------------------------------
(* The chunks of a file. *)

\* A method, and what stands for a text that is none: its header is bad.
MethodText == [kind : {"method"}, sel : STRING, uses : Seq(STRING),
               header : {"ok", "long", "bad"}, body : {"ok", "bad"}]
NoMethodText == [kind |-> "method", sel |-> "none", uses |-> <<>>, header |-> "bad", body |-> "ok"]
Chunk(segs) == [at : Headers(segs), method : {AsMethod(segs[k]) : k \in 1 .. Len(segs)}]

\* One step of the parser.
ParseStep(segs, from, p) ==
  LET n == Len(segs)
      k == p[1]
  IN  IF k = n THEN [ok |-> TRUE, chunks |-> <<>>]
      ELSE IF p[2] # NoHeader /\ segs[k].kind # "blank"
      THEN LET rest == from[<<k + 1, p[2]>>]
           IN  [rest EXCEPT !.chunks = <<[at |-> p[2], method |-> AsMethod(segs[k])]>> \o @]
      ELSE IF k + 1 = n THEN [ok |-> FALSE, chunks |-> <<>>]
      ELSE IF segs[k + 1].kind = "header"
      THEN from[<<k + 2, [class |-> segs[k + 1].class, side |-> segs[k + 1].side]>>]
      ELSE from[<<k + 2, p[2]>>]

IsParser(from, segs) ==
  from = [p \in (1 .. Len(segs)) \X Headers(segs) |-> ParseStep(segs, from, p)]

\* The classes and sides of the headers; a chunk's text is a method or none.
LEMMA SegmentTypes ==
  ASSUME NEW segs \in Seq(Segment)
  PROVE  /\ NoHeader \in Headers(segs)
         /\ \A k \in 1 .. Len(segs) :
              /\ segs[k].kind = "header" =>
                   [class |-> segs[k].class, side |-> segs[k].side] \in Headers(segs)
              /\ AsMethod(segs[k]) \in MethodText \cup {NoMethodText}
<1>1. \A k \in 1 .. Len(segs) : AsMethod(segs[k]) \in MethodText \cup {NoMethodText}
  <2> SUFFICES ASSUME NEW k \in 1 .. Len(segs)
               PROVE  AsMethod(segs[k]) \in MethodText \cup {NoMethodText}
    OBVIOUS
  <2>1. segs[k] \in Segment
    OBVIOUS
  <2>2. CASE segs[k].kind = "method"
    BY <2>1, <2>2 DEF Segment, AsMethod, MethodText
  <2>3. CASE segs[k].kind # "method"
    BY <2>3 DEF AsMethod, NoMethodText
  <2> QED BY <2>2, <2>3
<1>2. DOMAIN segs = 1 .. Len(segs)
  OBVIOUS
<1> QED
  BY <1>1, <1>2 DEF Headers

\* Where the parser goes on.
LEMMA ParseGoesOn ==
  ASSUME NEW segs \in Seq(Segment), NEW p \in (1 .. Len(segs)) \X Headers(segs),
         NEW f, NEW h,
         \A q \in (1 .. Len(segs)) \X Headers(segs) : q[1] > p[1] => f[q] = h[q]
  PROVE  ParseStep(segs, f, p) = ParseStep(segs, h, p)
<1> DEFINE n == Len(segs)
           k == p[1]
<1>1. n \in Nat /\ k \in 1 .. n /\ p[2] \in Headers(segs)
  OBVIOUS
<1> DEFINE D == (1 .. n) \X Headers(segs)
<1>2. \A q \in D : q[1] > k => f[q] = h[q]
  OBVIOUS
<1>3. \A i \in 1 .. n, a \in Headers(segs) : i > k => f[<<i, a>>] = h[<<i, a>>]
  <2> SUFFICES ASSUME NEW i \in 1 .. n, NEW a \in Headers(segs), i > k
               PROVE  f[<<i, a>>] = h[<<i, a>>]
    OBVIOUS
  <2>1. <<i, a>> \in D /\ <<i, a>>[1] = i
    OBVIOUS
  <2> HIDE DEF D, k
  <2> QED BY <1>2, <2>1
<1>4. k # n => f[<<k + 1, p[2]>>] = h[<<k + 1, p[2]>>]
  <2> HIDE DEF n, k
  <2>1. k # n => k + 1 \in 1 .. n /\ k + 1 > k
    BY <1>1
  <2> QED BY <1>1, <1>3, <2>1
<1>5. k # n /\ k + 1 # n =>
        /\ f[<<k + 2, p[2]>>] = h[<<k + 2, p[2]>>]
        /\ segs[k + 1].kind = "header" =>
             f[<<k + 2, [class |-> segs[k + 1].class, side |-> segs[k + 1].side]>>]
               = h[<<k + 2, [class |-> segs[k + 1].class, side |-> segs[k + 1].side]>>]
  <2>1. \A j \in 1 .. n : segs[j].kind = "header" =>
          [class |-> segs[j].class, side |-> segs[j].side] \in Headers(segs)
    BY SegmentTypes
  <2>2. k # n /\ k + 1 # n => k + 1 \in 1 .. n /\ k + 2 \in 1 .. n /\ k + 2 > k
    <3> HIDE DEF n, k
    <3> QED BY <1>1
  <2> HIDE DEF n, k
  <2> QED BY <1>1, <1>3, <2>1, <2>2
<1> QED
  <2> HIDE DEF k, n
  <2> QED BY <1>4, <1>5 DEF ParseStep, k, n


\* The parser exists: it goes on behind the segment it has looked at.
LEMMA ParserExists ==
  ASSUME NEW segs \in Seq(Segment)
  PROVE  \E f : IsParser(f, segs)
<1> DEFINE n == Len(segs)
           D == (1 .. n) \X Headers(segs)
           Eq(f, m) == \A p \in D : p[1] + m > n => f[p] = ParseStep(segs, f, p)
           P(m) == \E f : f = [p \in D |-> f[p]] /\ Eq(f, m)
<1>0. n \in Nat
  OBVIOUS
<1>1. P(0)
  <2> DEFINE f == [p \in D |-> 0]
  <2>1. \A p \in D : ~ (p[1] + 0 > n)
    OBVIOUS
  <2>2. Eq(f, 0)
    <3> HIDE DEF f, D
    <3> QED BY <2>1
  <2>3. f = [p \in D |-> f[p]]
    OBVIOUS
  <2> HIDE DEF f, D, Eq
  <2> QED
    BY <2>2, <2>3
<1>2. ASSUME NEW m \in Nat, P(m)
      PROVE  P(m + 1)
  <2>1. PICK h : h = [p \in D |-> h[p]] /\ Eq(h, m)
    BY <1>2
  <2> DEFINE f == [p \in D |-> IF p[1] + m > n THEN h[p] ELSE ParseStep(segs, h, p)]
  <2>2. \A p \in D : p[1] + m > n => f[p] = h[p]
    <3> HIDE DEF D
    <3> QED OBVIOUS
  <2>3. \A p \in D : ~ (p[1] + m > n) => f[p] = ParseStep(segs, h, p)
    <3> HIDE DEF D
    <3> QED OBVIOUS
  <2>4. f = [p \in D |-> f[p]]
    OBVIOUS
  <2> HIDE DEF f
  <2>5. ASSUME NEW p \in D, p[1] + (m + 1) > n
        PROVE  f[p] = ParseStep(segs, f, p)
    <3>1. p[1] \in 1 .. n
      OBVIOUS
    <3>2. \A q \in D : q[1] > p[1] => q[1] + m > n
      <4> SUFFICES ASSUME NEW q \in D, q[1] > p[1] PROVE q[1] + m > n
        OBVIOUS
      <4>1. q[1] \in 1 .. n
        OBVIOUS
      <4> HIDE DEF n, D
      <4> QED BY <1>0, <2>5, <3>1, <4>1
    <3>3. \A q \in D : q[1] > p[1] => f[q] = h[q]
      <4> HIDE DEF D
      <4> QED BY <2>2, <3>2
    <3>4. ParseStep(segs, f, p) = ParseStep(segs, h, p)
      BY <3>3, ParseGoesOn
    <3>5. f[p] = ParseStep(segs, h, p)
      <4>1. CASE p[1] + m > n
        <5> HIDE DEF D
        <5> QED BY <2>1, <2>2, <4>1
      <4>2. CASE ~ (p[1] + m > n)
        <5> HIDE DEF D
        <5> QED BY <2>3, <4>2
      <4> QED BY <4>1, <4>2
    <3> QED
      BY <3>4, <3>5
  <2> HIDE DEF D
  <2> QED
    BY <2>4, <2>5
<1>3. P(n)
  <2> HIDE DEF P, n
  <2> DEFINE S == {m \in Nat : P(m)}
  <2>1. 0 \in S /\ \A m \in Nat : m \in S => m + 1 \in S
    BY <1>1, <1>2
  <2> HIDE DEF S
  <2>2. n \in S
    BY <1>0, <2>1, NatSetInduction
  <2> QED
    BY <2>2 DEF S
<1>4. PICK f : f = [p \in D |-> f[p]] /\ Eq(f, n)
  BY <1>3
<1>5. \A p \in D : p[1] + n > n
  <2> TAKE p \in D
  <2>1. p[1] \in 1 .. n
    OBVIOUS
  <2> HIDE DEF n
  <2> QED BY <1>0, <2>1
<1>6. \A p \in D : f[p] = ParseStep(segs, f, p)
  <2> HIDE DEF D
  <2> QED BY <1>4, <1>5
<1>7. f = [p \in D |-> ParseStep(segs, f, p)]
  <2> HIDE DEF D
  <2> QED BY <1>4, <1>6
<1> QED
  BY <1>7 DEF IsParser

\* What a parse answers: a record with a sequence of chunks.
Parsed(r, segs) == r = [ok |-> r.ok, chunks |-> r.chunks] /\ r.chunks \in Seq(Chunk(segs))

\* The chunks of a file are methods, each under one of the file's headers.
LEMMA ChunksTyped ==
  ASSUME NEW segs \in Seq(Segment), segs # <<>>
  PROVE  bc_parse_method_chunks(segs).chunks \in Seq(Chunk(segs))
<1> DEFINE n == Len(segs)
           H == Headers(segs)
           D == (1 .. n) \X H
<1>1. PICK f : f = CHOOSE from : IsParser(from, segs)
  OBVIOUS
<1>2. IsParser(f, segs)
  BY <1>1, ParserExists
<1>3. \A p \in D : f[p] = ParseStep(segs, f, p)
  BY <1>2 DEF IsParser
<1>4. n \in Nat /\ n # 0
  OBVIOUS
<1> DEFINE Q == {m \in Nat : \A p \in D : p[1] + m > n => Parsed(f[p], segs)}
<1>5. 0 \in Q
  <2>1. \A p \in D : ~ (p[1] + 0 > n)
    OBVIOUS
  <2> HIDE DEF D
  <2> QED BY <2>1
<1>6. ASSUME NEW m \in Nat, m \in Q PROVE m + 1 \in Q
  <2>1. ASSUME NEW p \in D, p[1] + (m + 1) > n PROVE Parsed(f[p], segs)
    <3> DEFINE k == p[1]
               h == p[2]
    <3>1. k \in 1 .. n /\ h \in H
      OBVIOUS
    <3>2. \A i \in 1 .. n, a \in H : i > k => Parsed(f[<<i, a>>], segs)
      <4> SUFFICES ASSUME NEW i \in 1 .. n, NEW a \in H, i > k PROVE Parsed(f[<<i, a>>], segs)
        OBVIOUS
      <4>1. <<i, a>> \in D /\ <<i, a>>[1] = i
        OBVIOUS
      <4>2. i + m > n
        <5> HIDE DEF n
        <5> QED BY <1>4, <2>1, <3>1
      <4> HIDE DEF D
      <4> QED BY <1>6, <4>1, <4>2
    <3>3. f[p] = ParseStep(segs, f, p)
      BY <1>3
    <3>4. \A j \in 1 .. n :
            /\ segs[j].kind = "header" => [class |-> segs[j].class, side |-> segs[j].side] \in H
            /\ AsMethod(segs[j]) \in MethodText \cup {NoMethodText}
      BY SegmentTypes
    <3>5. k = n \/ (k + 1 \in 1 .. n /\ k + 1 > k)
      <4> HIDE DEF n, k
      <4> QED BY <1>4, <3>1
    <3>6. k = n \/ k + 1 = n \/ (k + 2 \in 1 .. n /\ k + 2 > k)
      <4> HIDE DEF n, k
      <4> QED BY <1>4, <3>1
    <3> HIDE DEF n, H, k, h
    <3>7. Parsed([ok |-> TRUE, chunks |-> <<>>], segs) /\ Parsed([ok |-> FALSE, chunks |-> <<>>], segs)
      BY DEF Parsed
    <3>8. CASE k = n
      BY <3>3, <3>7, <3>8 DEF ParseStep, n, k
    <3>9. CASE k # n /\ h # NoHeader /\ segs[k].kind # "blank"
      <4>1. PICK rest : rest = f[<<k + 1, h>>]
        OBVIOUS
      <4>2. Parsed(rest, segs)
        BY <3>1, <3>2, <3>5, <3>9, <4>1
      <4>3. PICK c : c = [at |-> h, method |-> AsMethod(segs[k])]
        OBVIOUS
      <4>4. c \in Chunk(segs)
        BY <3>1, <4>3 DEF Chunk, H, n
      <4>5. f[p] = [rest EXCEPT !.chunks = <<c>> \o rest.chunks]
        BY <3>3, <3>9, <4>1, <4>3 DEF ParseStep, n, k, h
      <4>6. <<c>> \o rest.chunks \in Seq(Chunk(segs))
        BY <4>2, <4>4 DEF Parsed
      <4>7. f[p] = [ok |-> rest.ok, chunks |-> <<c>> \o rest.chunks]
        <5>1. PICK a, b : rest = [ok |-> a, chunks |-> b]
          BY <4>2 DEF Parsed
        <5> QED BY <4>5, <5>1
      <4> QED
        BY <4>6, <4>7 DEF Parsed
    <3>10. CASE k # n /\ ~ (h # NoHeader /\ segs[k].kind # "blank")
      <4>1. CASE k + 1 = n
        BY <3>3, <3>7, <3>10, <4>1 DEF ParseStep, n, k, h
      <4>2. CASE k + 1 # n /\ segs[k + 1].kind = "header"
        <5> DEFINE a == [class |-> segs[k + 1].class, side |-> segs[k + 1].side]
        <5>1. a \in H
          BY <3>4, <3>5, <3>10, <4>2
        <5>2. f[p] = f[<<k + 2, a>>]
          BY <3>3, <3>10, <4>2 DEF ParseStep, n, k, h
        <5> HIDE DEF a
        <5> QED BY <3>2, <3>6, <3>10, <4>2, <5>1, <5>2
      <4>3. CASE k + 1 # n /\ segs[k + 1].kind # "header"
        <5>1. f[p] = f[<<k + 2, h>>]
          BY <3>3, <3>10, <4>3 DEF ParseStep, n, k, h
        <5> QED BY <3>1, <3>2, <3>6, <3>10, <4>3, <5>1
      <4> QED BY <4>1, <4>2, <4>3
    <3> QED
      BY <3>8, <3>9, <3>10
  <2>2. m + 1 \in Nat
    OBVIOUS
  <2> HIDE DEF D
  <2> QED BY <2>1, <2>2, Zenon
<1>7. n \in Q
  <2> HIDE DEF Q
  <2> QED BY <1>4, <1>5, <1>6, NatSetInduction
<1>8. Parsed(f[<<1, NoHeader>>], segs)
  <2>1. <<1, NoHeader>> \in D /\ <<1, NoHeader>>[1] + n > n
    BY <1>4, SegmentTypes
  <2> HIDE DEF D
  <2> QED BY <1>7, <2>1
<1>9. bc_parse_method_chunks(segs)
        = LET all == f[<<1, NoHeader>>]
          IN  IF all.ok /\ Len(all.chunks) <= MaxChunks THEN all ELSE [ok |-> FALSE, chunks |-> <<>>]
  BY <1>1 DEF bc_parse_method_chunks, IsParser, ParseStep
<1>10. <<>> \in Seq(Chunk(segs))
  OBVIOUS
<1> HIDE DEF n, H, D, Q
<1> QED
  BY <1>8, <1>9, <1>10 DEF Parsed

-----------------------------------------------------------------------------
(* The inductive invariant. *)

IsSequence(s) == \E S : s \in Seq(S)

\* A class among the first n, after c - 1 others: its superclass is older, and
\* its methods refer to nothing but the associations g.
ClassOK(k, c, n, g) ==
  /\ k = [super |-> k.super, meta |-> k.meta, ivars |-> k.ivars, size |-> k.size,
          format |-> k.format, dict |-> k.dict]
  /\ k.super \in 0 .. c - 1 /\ k.meta \in 1 .. n /\ k.size \in Nat
  /\ IsSequence(k.dict)
  /\ \A j \in DOMAIN k.dict : k.dict[j].method.refs \subseteq g

ClassesOK(cs, g) ==
  /\ IsSequence(cs) /\ Len(cs) >= 2
  /\ \A c \in DOMAIN cs : ClassOK(cs[c], c, Len(cs), g)

FileOK(f) ==
  /\ f.decls \in Seq(Declaration)
  /\ f.segs \in Seq(Segment) /\ f.segs # <<>>

\* A call that is under way has a file, and a place in it.
CallOK(k, n) ==
  /\ k = [stage |-> k.stage, kind |-> k.kind, file |-> k.file, bound |-> k.bound,
          saved |-> k.saved, step |-> k.step, answer |-> k.answer]
  /\ k.stage \in {"idle", "define", "parse", "install", "answered", "failed", "crashed"}
  /\ k.stage \in {"define", "parse", "install"} => FileOK(k.file) /\ k.step \in Nat \ {0}
  /\ k.stage = "define" => k.step \in 1 .. Len(k.file.decls)
  /\ Bound(k.bound, n) /\ Bound(k.saved, n)
  /\ k.answer \in 0 .. n

IInv ==
  /\ ClassesOK(classes, ToSet(image.globals))
  /\ ImageOK(image, Len(classes))
  /\ Bound(active, Len(classes))
  /\ CallOK(call, Len(classes))
  /\ made \subseteq Calls

\* Two more elements.
LEMMA TwoMore ==
  ASSUME NEW cs, IsSequence(cs), NEW x, NEW y
  PROVE  LET t == cs \o <<x, y>>
         IN  /\ IsSequence(t) /\ Len(cs) \in Nat /\ Len(t) = Len(cs) + 2
             /\ DOMAIN cs = 1 .. Len(cs) /\ DOMAIN t = 1 .. Len(cs) + 2
             /\ \A i \in 1 .. Len(cs) : t[i] = cs[i]
             /\ t[Len(cs) + 1] = x /\ t[Len(cs) + 2] = y
<1>1. PICK S : cs \in Seq(S)
  BY DEF IsSequence
<1>2. PICK R : R = S \cup {x, y}
  OBVIOUS
<1>3. PICK u : u = <<x, y>>
  OBVIOUS
<1>4. cs \in Seq(R) /\ u \in Seq(R) /\ Len(u) = 2 /\ u[1] = x /\ u[2] = y
  BY <1>1, <1>2, <1>3
<1>5. PICK n \in Nat : n = Len(cs)
  BY <1>1
<1> DEFINE t == cs \o u
<1>6. /\ t \in Seq(R) /\ Len(t) = n + 2
      /\ \A i \in 1 .. n + 2 : t[i] = IF i <= n THEN cs[i] ELSE u[i - n]
  <2>1. /\ cs \o u \in Seq(R) /\ Len(cs \o u) = Len(cs) + Len(u)
        /\ \A i \in 1 .. Len(cs) + Len(u) :
             (cs \o u)[i] = IF i <= Len(cs) THEN cs[i] ELSE u[i - Len(cs)]
    BY <1>4, ConcatProperties, Zenon
  <2> QED BY <1>4, <1>5, <2>1
<1> HIDE DEF t
<1>7. DOMAIN t = 1 .. n + 2 /\ DOMAIN cs = 1 .. n
  BY <1>1, <1>5, <1>6
<1>8. (n + 1) - n = 1 /\ (n + 2) - n = 2 /\ n + 1 \in 1 .. n + 2 /\ n + 2 \in 1 .. n + 2
      /\ ~ (n + 1 <= n) /\ ~ (n + 2 <= n)
      /\ \A i \in 1 .. n : i \in 1 .. n + 2 /\ i <= n
  OBVIOUS
<1>9. t[n + 1] = x /\ t[n + 2] = y /\ \A i \in 1 .. n : t[i] = cs[i]
  BY <1>4, <1>6, <1>8
<1>10. IsSequence(t)
  BY <1>6 DEF IsSequence
<1>11. cs \o <<x, y>> = t
  BY <1>3 DEF t
<1> QED
  BY <1>5, <1>6, <1>7, <1>9, <1>10, <1>11

\* More classes, and more associations, are no harm to a class.
LEMMA ClassMore ==
  ASSUME NEW k, NEW c, NEW n \in Nat, NEW m \in Nat, n <= m, NEW g, NEW h, g \subseteq h,
         ClassOK(k, c, n, g)
  PROVE  ClassOK(k, c, m, h)
<1>1. k.meta \in 1 .. m
  BY DEF ClassOK
<1> QED
  BY <1>1 DEF ClassOK

\* A class without methods.
LEMMA NewClassOK ==
  ASSUME NEW c, NEW super \in 0 .. c - 1, NEW n \in Nat, NEW meta \in 1 .. n,
         NEW size \in Nat, NEW ivars, NEW format, NEW g
  PROVE  ClassOK(NewClass(super, meta, ivars, size, format), c, n, g)
<1> DEFINE k == NewClass(super, meta, ivars, size, format)
<1>1. /\ k = [super |-> k.super, meta |-> k.meta, ivars |-> k.ivars, size |-> k.size,
              format |-> k.format, dict |-> k.dict]
      /\ k.super = super /\ k.meta = meta /\ k.size = size /\ k.dict = <<>>
  BY DEF NewClass
<1>2. <<>> \in Seq(Nat) /\ DOMAIN <<>> = {}
  OBVIOUS
<1> HIDE DEF k
<1>3. IsSequence(k.dict) /\ \A j \in DOMAIN k.dict : k.dict[j].method.refs \subseteq g
  BY <1>1, <1>2 DEF IsSequence
<1> QED
  BY <1>1, <1>3 DEF ClassOK, k

\* A new class, with its metaclass, behind the others.
LEMMA DefinedClasses ==
  ASSUME NEW cs, NEW g, ClassesOK(cs, g), NEW h, g \subseteq h,
         NEW super \in 0 .. Len(cs), NEW size \in Nat, NEW ivars, NEW format,
         NEW above \in 1 .. Len(cs)
  PROVE  /\ ClassesOK(cs \o <<NewClass(above, Class, <<>>, 0, "fields"),
                              NewClass(super, Len(cs) + 1, ivars, size, format)>>, h)
         /\ Len(cs \o <<NewClass(above, Class, <<>>, 0, "fields"),
                        NewClass(super, Len(cs) + 1, ivars, size, format)>>) = Len(cs) + 2
<1>1. PICK x : x = NewClass(above, Class, <<>>, 0, "fields")
  OBVIOUS
<1>2. PICK y : y = NewClass(super, Len(cs) + 1, ivars, size, format)
  OBVIOUS
<1> DEFINE t == cs \o <<x, y>>
<1> HIDE DEF t
<1>4. PICK n : n = Len(cs)
  OBVIOUS
<1>5. /\ IsSequence(t) /\ n \in Nat /\ Len(t) = n + 2
      /\ DOMAIN cs = 1 .. n /\ DOMAIN t = 1 .. n + 2
      /\ \A i \in 1 .. n : t[i] = cs[i]
      /\ t[n + 1] = x /\ t[n + 2] = y
  <2>1. IsSequence(cs)
    BY DEF ClassesOK
  <2>2. /\ IsSequence(t) /\ Len(cs) \in Nat /\ Len(t) = Len(cs) + 2
        /\ DOMAIN cs = 1 .. Len(cs) /\ DOMAIN t = 1 .. Len(cs) + 2
        /\ \A i \in 1 .. Len(cs) : t[i] = cs[i]
        /\ t[Len(cs) + 1] = x /\ t[Len(cs) + 2] = y
    BY <2>1, TwoMore DEF t
  <2> QED BY <1>4, <2>2
<1>6. n >= 2
  BY <1>4 DEF ClassesOK
<1>7. ClassOK(x, n + 1, n + 2, h)
  <2>1. above \in 0 .. (n + 1) - 1 /\ Class \in 1 .. n + 2 /\ n + 2 \in Nat /\ 0 \in Nat
    BY <1>4, <1>5, <1>6 DEF Class
  <2> QED BY <1>1, <2>1, NewClassOK
<1>8. ClassOK(y, n + 2, n + 2, h)
  <2>1. super \in 0 .. (n + 2) - 1 /\ n + 1 \in 1 .. n + 2 /\ n + 2 \in Nat
    BY <1>4, <1>5, <1>6
  <2>2. y = NewClass(super, n + 1, ivars, size, format)
    BY <1>2, <1>4
  <2> QED BY <2>1, <2>2, NewClassOK
<1>9. \A c \in 1 .. n : ClassOK(t[c], c, n + 2, h)
  <2> TAKE c \in 1 .. n
  <2>1. ClassOK(cs[c], c, n, g)
    BY <1>4, <1>5 DEF ClassesOK
  <2>2. n + 2 \in Nat /\ n <= n + 2
    BY <1>5
  <2>3. ClassOK(cs[c], c, n + 2, h)
    BY <1>5, <2>1, <2>2, ClassMore
  <2> QED BY <1>5, <2>3
<1>10. \A c \in 1 .. n + 2 : c \in 1 .. n \/ c = n + 1 \/ c = n + 2
  BY <1>5
<1>11. \A c \in 1 .. n + 2 : ClassOK(t[c], c, n + 2, h)
  BY <1>5, <1>7, <1>8, <1>9, <1>10
<1>12. n + 2 >= 2
  BY <1>5
<1>13. ClassesOK(t, h)
  BY <1>5, <1>11, <1>12 DEF ClassesOK
<1> QED
  BY <1>1, <1>2, <1>4, <1>5, <1>13 DEF t

\* A method behind the others of a class.
Installed(cs, c, sel, method) == [cs EXCEPT ![c].dict = bc_append_method_dict(@, sel, method)]

\* The classes are as good with it, if its references are in the dictionary.
LEMMA InstalledClasses ==
  ASSUME NEW cs, NEW g, ClassesOK(cs, g), NEW h, g \subseteq h,
         NEW c \in DOMAIN cs, NEW sel, NEW method, method.refs \subseteq h
  PROVE  /\ ClassesOK(Installed(cs, c, sel, method), h)
         /\ Len(Installed(cs, c, sel, method)) = Len(cs)
<1>1. PICK S : cs \in Seq(S)
  BY DEF ClassesOK, IsSequence
<1>2. PICK n \in Nat : n = Len(cs)
  BY <1>1
<1>3. DOMAIN cs = 1 .. n
  BY <1>1, <1>2
<1>4. PICK k : k = cs[c]
  OBVIOUS
<1>5. ClassOK(k, c, n, g)
  BY <1>2, <1>4 DEF ClassesOK
<1>6. PICK pair : pair = [sel |-> sel, method |-> method]
  OBVIOUS
<1>7. PICK R : k.dict \in Seq(R)
  BY <1>5 DEF ClassOK, IsSequence
<1>8. PICK Q : Q = R \cup {pair}
  OBVIOUS
<1>9. k.dict \in Seq(Q) /\ pair \in Q
  BY <1>7, <1>8
<1>10. PICK dict : dict = Append(k.dict, pair)
  OBVIOUS
<1>11. /\ dict \in Seq(Q) /\ DOMAIN dict = 1 .. Len(k.dict) + 1
       /\ \A i \in DOMAIN k.dict : dict[i] = k.dict[i]
       /\ dict[Len(k.dict) + 1] = pair
       /\ DOMAIN k.dict = 1 .. Len(k.dict) /\ Len(k.dict) \in Nat
  BY <1>9, <1>10, AppendedSet
<1>12. \A j \in DOMAIN dict : dict[j].method.refs \subseteq h
  <2> TAKE j \in DOMAIN dict
  <2>1. j \in DOMAIN k.dict \/ j = Len(k.dict) + 1
    BY <1>11
  <2>2. CASE j \in DOMAIN k.dict
    BY <1>5, <1>11, <2>2 DEF ClassOK
  <2>3. CASE j = Len(k.dict) + 1
    BY <1>6, <1>11, <2>3
  <2> QED BY <2>1, <2>2, <2>3
<1>13. PICK l : l = [super |-> k.super, meta |-> k.meta, ivars |-> k.ivars, size |-> k.size,
                     format |-> k.format, dict |-> dict]
  OBVIOUS
<1>14. ClassOK(l, c, n, h)
  <2>1. IsSequence(dict)
    BY <1>11 DEF IsSequence
  <2> QED BY <1>5, <1>12, <1>13, <2>1 DEF ClassOK
<1>15. PICK t : t = [cs EXCEPT ![c] = l]
  OBVIOUS
<1>16. Installed(cs, c, sel, method) = t
  <2>1. [k EXCEPT !.dict = dict] = l
    <3>1. k = [super |-> k.super, meta |-> k.meta, ivars |-> k.ivars, size |-> k.size,
               format |-> k.format, dict |-> k.dict]
      BY <1>5 DEF ClassOK
    <3> QED BY <1>13, <3>1
  <2>2. [cs EXCEPT ![c].dict = bc_append_method_dict(@, sel, method)]
          = [cs EXCEPT ![c] = [k EXCEPT !.dict = dict]]
    BY <1>4, <1>6, <1>10 DEF bc_append_method_dict
  <2> QED BY <1>15, <2>1, <2>2, Zenon DEF Installed
<1>17. t \in Seq(S \cup {l}) /\ Len(t) = n /\ DOMAIN t = 1 .. n
  BY <1>1, <1>2, <1>15
<1>18. \A i \in 1 .. n : t[i] = IF i = c THEN l ELSE cs[i]
  BY <1>3, <1>15
<1>19. \A i \in 1 .. n : ClassOK(t[i], i, n, h)
  <2> TAKE i \in 1 .. n
  <2>1. CASE i = c
    BY <1>14, <1>18, <2>1
  <2>2. CASE i # c
    <3>1. ClassOK(cs[i], i, n, g)
      BY <1>2, <1>3 DEF ClassesOK
    <3>2. ClassOK(cs[i], i, n, h)
      BY <3>1, ClassMore
    <3> QED BY <1>18, <2>2, <3>2
  <2> QED BY <2>1, <2>2
<1>20. IsSequence(t) /\ n >= 2
  BY <1>2, <1>17 DEF IsSequence, ClassesOK
<1>21. ClassesOK(t, h)
  BY <1>17, <1>19, <1>20 DEF ClassesOK
<1> QED
  BY <1>2, <1>16, <1>17, <1>21

\* An image is as good with more classes.
LEMMA ImageMore ==
  ASSUME NEW n \in Nat, NEW m \in Nat, n <= m, NEW im, ImageOK(im, n)
  PROVE  ImageOK(im, m)
<1>1. \A v : v \in 1 .. n => v \in 1 .. m
  OBVIOUS
<1> QED
  BY <1>1 DEF ImageOK, Whole

\* Bindings of the first n classes are bindings of the first m.
LEMMA BoundMore ==
  ASSUME NEW n \in Nat, NEW m \in Nat, n <= m, NEW bindings, Bound(bindings, n)
  PROVE  Bound(bindings, m)
<1>1. \A v : v \in 1 .. n => v \in 1 .. m
  OBVIOUS
<1> QED
  BY <1>1 DEF Bound

\* Where the operations start from.
LEMMA StartOK ==
  ASSUME NEW n \in Nat, NEW im, ImageOK(im, n)
  PROVE  ResultOK(Start(im), n, ToSet(im.globals))
<1> DEFINE s == Start(im)
<1>1. s = [status |-> "ok", image |-> im, refs |-> <<>>]
  BY DEF Start
<1>2. <<>> \in Seq(Nat) /\ ToSet(<<>>) = {}
  BY DEF ToSet
<1>3. s \in Result /\ s.image = im /\ s.refs = <<>>
  BY <1>1, <1>2 DEF Result, ImageOK
<1> HIDE DEF s
<1> QED
  BY <1>2, <1>3 DEF ResultOK, s

\* The registered names, each once.
LEMMA RegisteredNames ==
  \E N \in Nat : /\ N = Cardinality(Registered)
                 /\ SetToSeq(Registered) \in [1 .. N -> Registered]
                 /\ \A i, j \in 1 .. N :
                      SetToSeq(Registered)[i] = SetToSeq(Registered)[j] => i = j
<1> DEFINE N == Cardinality(Registered)
           Good(f) == f \in [1 .. N -> Registered] /\ IsInjective(f)
<1>1. IsFiniteSet(Registered)
  <2>1. IsFiniteSet({"Object"}) /\ IsFiniteSet({"Class"})
    BY FS_Singleton
  <2>2. IsFiniteSet({"Object"} \cup {"Class"})
    BY <2>1, FS_Union
  <2>3. Registered \subseteq {"Object"} \cup {"Class"}
    BY LoaderAssumption
  <2> QED BY <2>2, <2>3, FS_Subset
<1>2. N \in Nat /\ ExistsBijection(1 .. N, Registered)
  BY <1>1, FS_CardinalityType
<1>3. PICK f : f \in Bijection(1 .. N, Registered)
  BY <1>2 DEF ExistsBijection
<1>4. Good(f)
  BY <1>3 DEF Bijection, Injection, Surjection, IsInjective
<1>5. PICK s : s = SetToSeq(Registered)
  OBVIOUS
<1>6. s = CHOOSE h : h \in [1 .. N -> Registered] /\ IsInjective(h)
  BY <1>5 DEF SetToSeq
<1>7. Good(s)
  BY <1>4, <1>6
<1> HIDE DEF N
<1>8. \A i, j \in 1 .. N : s[i] = s[j] => i = j
  BY <1>7 DEF IsInjective
<1> QED
  BY <1>2, <1>5, <1>7, <1>8 DEF N

\* The invariant holds at first.
LEMMA InitOK == Init => IInv
<1> SUFFICES ASSUME Init PROVE IInv
  OBVIOUS
<1>1. ClassesOK(classes, ToSet(image.globals))
  <2>1. PICK o : o = NewClass(Nil, Class, <<>>, 0, "fields")
    OBVIOUS
  <2>2. PICK k : k = NewClass(Nil, Class, <<>>, 5, "fields")
    OBVIOUS
  <2>3. classes = <<o, k>>
    BY <2>1, <2>2 DEF Init, Kernel
  <2>4. Nil \in 0 .. 1 - 1 /\ Nil \in 0 .. 2 - 1 /\ Class \in 1 .. 2
    BY DEF Nil, Class
  <2>5. ClassOK(o, 1, 2, ToSet(image.globals)) /\ ClassOK(k, 2, 2, ToSet(image.globals))
    BY <2>1, <2>2, <2>4, NewClassOK
  <2>6. classes \in Seq({o, k}) /\ Len(classes) = 2 /\ DOMAIN classes = 1 .. 2
        /\ classes[1] = o /\ classes[2] = k
    BY <2>3
  <2>7. \A c \in 1 .. 2 : c = 1 \/ c = 2
    OBVIOUS
  <2>8. IsSequence(classes)
    BY <2>6 DEF IsSequence
  <2> QED BY <2>5, <2>6, <2>7, <2>8 DEF ClassesOK
<1>2. Len(classes) = 2
  BY DEF Init, Kernel
<1>3. ImageOK(image, 2)
  <2>1. PICK names : names = SetToSeq(Registered)
    OBVIOUS
  <2>2. PICK N \in Nat : /\ N = Cardinality(Registered) /\ names \in [1 .. N -> Registered]
                         /\ \A i, j \in 1 .. N : names[i] = names[j] => i = j
    BY <2>1, RegisteredNames
  <2>3. DOMAIN names = 1 .. N
    BY <2>2
  <2> DEFINE globals == [j \in 1 .. N |-> j]
             assocs == [j \in 1 .. N |-> [key |-> names[j], value |-> KernelClass(names[j])]]
             capacity == IF Registered = {} THEN 0 ELSE InitialCapacity
  <2>4. PICK room \in Rooms :
          image = [room |-> room, symbols |-> Registered, capacity |-> capacity,
                   globals |-> globals, assocs |-> assocs]
    BY <2>1, <2>3 DEF Init
  <2>5. globals \in Seq(Nat) /\ Len(globals) = N /\ \A j \in 1 .. N : globals[j] = j
    BY <2>2
  <2>6. \A j \in 1 .. N : names[j] \in Name /\ names[j] \in Registered
    BY <2>2, LoaderAssumption DEF Name
  <2>7. \A x : KernelClass(x) \in 1 .. 2
    BY DEF KernelClass, Object, Class
  <2>8. \A j \in 1 .. N :
          /\ assocs[j] \in Association
          /\ assocs[j].key = names[j] /\ assocs[j].value \in 1 .. 2
    <3> TAKE j \in 1 .. N
    <3>1. PICK v : v = KernelClass(names[j])
      OBVIOUS
    <3>2. v \in 1 .. 2 /\ v \in Nat
      BY <2>7, <3>1
    <3>3. assocs[j] = [key |-> names[j], value |-> v]
      BY <3>1
    <3> QED BY <2>6, <3>2, <3>3 DEF Association
  <2>9. assocs \in Seq(Association) /\ DOMAIN assocs = 1 .. N
    <3>1. assocs \in [1 .. N -> Association]
      <4>1. assocs = [j \in 1 .. N |-> assocs[j]]
        OBVIOUS
      <4> HIDE DEF assocs
      <4> QED BY <2>8, <4>1
    <3> HIDE DEF assocs
    <3> QED BY <2>2, <3>1
  <2>10. capacity \in Nat /\ N <= capacity
    <3>1. CASE Registered = {}
      BY <2>2, <3>1, FS_EmptySet
    <3>2. CASE Registered # {}
      BY <2>2, <3>2, LoaderAssumption
    <3> QED BY <3>1, <3>2
  <2>11. room \in Nat /\ Registered \in SUBSET Name
    BY LoaderAssumption DEF Name
  <2> HIDE DEF globals, assocs, capacity
  <2>12. /\ image \in Image /\ image.globals = globals /\ image.assocs = assocs
         /\ image.symbols = Registered /\ image.capacity = capacity
    BY <2>4, <2>5, <2>9, <2>10, <2>11 DEF Image
  <2>13. Fits(image)
    <3>1. IsFiniteSet(Registered)
      <4>1. IsFiniteSet({"Object"}) /\ IsFiniteSet({"Class"})
        BY FS_Singleton
      <4>2. IsFiniteSet({"Object"} \cup {"Class"})
        BY <4>1, FS_Union
      <4>3. Registered \subseteq {"Object"} \cup {"Class"}
        BY LoaderAssumption
      <4> QED BY <4>2, <4>3, FS_Subset
    <3> QED BY <2>5, <2>10, <2>12, <3>1, LoaderAssumption DEF Fits
  <2>14. DOMAIN globals = 1 .. N
    BY <2>5 DEF globals
  <2>15. Whole(image, 2)
    BY <2>5, <2>6, <2>8, <2>9, <2>12, <2>14 DEF Whole
  <2>16. Unique(image)
    BY <2>2, <2>5, <2>8, <2>12, <2>14 DEF Unique
  <2> QED BY <2>12, <2>13, <2>15, <2>16 DEF ImageOK
<1>4. Bound(active, 2) /\ Bound(NoBindings, 2)
  BY DEF Init, Bound, NoBindings
<1>5. CallOK(call, 2)
  <2>1. call = Idle
    BY DEF Init
  <2> QED BY <1>4, <2>1 DEF CallOK, Idle, Nil
<1>6. made \subseteq Calls
  BY DEF Init
<1> QED
  BY <1>1, <1>2, <1>3, <1>4, <1>5, <1>6 DEF IInv

-----------------------------------------------------------------------------
(* Every step keeps the invariant. *)

\* The bindings of a call are classes.
LEMMA BindingsOK ==
  ASSUME IInv
  PROVE  Bound(CollectBindings, Len(classes)) /\ Len(classes) \in Nat /\ Len(classes) >= 2
<1>1. PICK n : n = Len(classes)
  OBVIOUS
<1>2. n \in Nat /\ n >= 2
  BY <1>1 DEF IInv, ClassesOK, IsSequence
<1>3. ImageOK(image, n)
  BY <1>1 DEF IInv
<1>4. CASE Snapshot
  <2> DEFINE keys == {image.assocs[image.globals[j]].key : j \in DOMAIN image.globals}
  <2>1. CollectBindings = [k \in keys |-> bc_lookup_smalltalk_global(image, k)]
    BY <1>4 DEF CollectBindings
  <2>2. \A k \in keys : bc_lookup_smalltalk_global(image, k) \in 1 .. n
    BY <1>2, <1>3, GlobalLookup
  <2> HIDE DEF keys
  <2>3. Bound(CollectBindings, n)
    BY <2>1, <2>2 DEF Bound
  <2> QED BY <1>1, <1>2, <2>3
<1>5. CASE ~ Snapshot
  <2>1. CollectBindings = HostBindings
    BY <1>5 DEF CollectBindings
  <2>2. \A k \in DOMAIN HostBindings : HostBindings[k] \in 1 .. n
    <3> TAKE k \in DOMAIN HostBindings
    <3>1. HostBindings[k] \in {1, 2}
      BY HostAssumption DEF Object, Class
    <3> QED BY <1>2, <3>1
  <2>3. Bound(CollectBindings, n)
    BY <2>1, <2>2 DEF Bound
  <2> QED BY <1>1, <1>2, <2>3
<1> QED
  BY <1>4, <1>5

\* The class a declaration describes is one of the classes, or none.
LEMMA AttachedOK ==
  ASSUME IInv, NEW bound, Bound(bound, Len(classes)), NEW d
  PROVE  bc_attach_class_from_source(d, bound) \in 0 .. Len(classes)
<1>1. PICK n \in Nat : n = Len(classes)
  BY BindingsOK
<1>2. ImageOK(image, n) /\ Bound(bound, n)
  BY <1>1 DEF IInv
<1>3. bc_lookup_class_named(bound, image, d.name) \in 0 .. n
  BY <1>2, ClassLookup
<1> QED
  BY <1>1, <1>3 DEF bc_attach_class_from_source, Nil

\* Steps that leave the image alone.
SameImage == UNCHANGED <<classes, image>>

\* Starting a call.
LEMMA LoadStep ==
  ASSUME IInv, NEW c \in Calls, Load(c[1], c[2])
  PROVE  IInv'
<1>1. PICK bound : bound = CollectBindings
  OBVIOUS
<1>2. PICK f : f = c[2]
  OBVIOUS
<1>3. PICK kind : kind = c[1]
  OBVIOUS
<1> DEFINE decl == bc_parse_class_declaration(f)
           attached == IF decl # <<>> THEN bc_attach_class_from_source(decl[1], bound) ELSE Nil
           answer == IF kind = "existing" THEN attached ELSE Nil
           stage == CASE ~f.readable -> "failed"
                      [] kind = "class" -> IF decl # <<>> THEN "define" ELSE "failed"
                      [] kind = "classes" -> IF f.decls # <<>> THEN "define" ELSE "failed"
                      [] kind = "existing" -> IF attached # Nil THEN "parse" ELSE "failed"
                      [] OTHER -> "parse"
<1>4. PICK n \in Nat : n = Len(classes)
  BY BindingsOK
<1>5. Bound(bound, n) /\ Bound(active, n)
  BY <1>1, <1>4, BindingsOK DEF IInv
<1>6. answer \in 0 .. n
  <2>1. bc_attach_class_from_source(decl[1], bound) \in 0 .. n
    BY <1>4, <1>5, AttachedOK
  <2> QED BY <2>1 DEF Nil
<1>7. call' = [stage |-> stage, kind |-> kind, file |-> f, bound |-> bound,
               saved |-> active, step |-> 1, answer |-> answer]
  BY <1>1, <1>2, <1>3 DEF Load
<1>8. FileOK(f)
  BY <1>2, FilesAssumption DEF FileOK
<1>9. stage \in {"define", "parse", "failed"} /\ (stage = "define" => f.decls # <<>>)
  BY DEF bc_parse_class_declaration
<1>10. f.decls # <<>> => 1 \in 1 .. Len(f.decls)
  <2>1. f.decls \in Seq(Declaration)
    BY <1>8 DEF FileOK
  <2> QED BY <2>1
<1>11. UNCHANGED <<classes, image, active>> /\ made' = made \cup {<<kind, f>>} /\ <<kind, f>> \in Calls
  BY <1>2, <1>3 DEF Load
<1> HIDE DEF decl, attached, answer, stage
<1>12. CallOK(call', n)
  BY <1>5, <1>6, <1>7, <1>8, <1>9, <1>10 DEF CallOK
<1>13. Len(classes') = n
  BY <1>4, <1>11
<1>14. CallOK(call', Len(classes'))
  BY <1>12, <1>13
<1> QED
  BY <1>11, <1>14 DEF IInv

\* The end of a call, and its answer, leave the bindings and the place alone.
LEMMA EndedCall ==
  ASSUME NEW k, NEW n, CallOK(k, n), NEW stage,
         stage \in {"idle", "answered", "failed", "crashed"}
           \/ (stage = "install" /\ k.stage = "parse")
  PROVE  CallOK([k EXCEPT !.stage = stage], n)
<1>1. PICK l : l = [k EXCEPT !.stage = stage]
  OBVIOUS
<1>2. k = [stage |-> k.stage, kind |-> k.kind, file |-> k.file, bound |-> k.bound,
           saved |-> k.saved, step |-> k.step, answer |-> k.answer]
  BY DEF CallOK
<1>3. l = [stage |-> stage, kind |-> k.kind, file |-> k.file, bound |-> k.bound,
           saved |-> k.saved, step |-> k.step, answer |-> k.answer]
  BY <1>1, <1>2
<1>4. CallOK(l, n)
  BY <1>3 DEF CallOK
<1> QED
  BY <1>1, <1>4

\* Parsing the chunks.
LEMMA ParseOK ==
  ASSUME IInv, Parse
  PROVE  IInv'
<1>1. PICK stage \in {"install", "failed"} : call' = [call EXCEPT !.stage = stage]
  BY DEF Parse, End
<1>2. CallOK(call', Len(classes))
  <2>1. CallOK(call, Len(classes)) /\ call.stage = "parse"
    BY DEF IInv, Parse
  <2> QED BY <1>1, <2>1, EndedCall
<1>3. active' = active \/ active' = call.bound
  BY DEF Parse
<1>4. Bound(active', Len(classes))
  BY <1>3 DEF IInv, CallOK
<1>5. UNCHANGED <<classes, image, made>>
  BY DEF Parse
<1> QED
  BY <1>2, <1>4, <1>5 DEF IInv

\* A refused method, and the answer.
LEMMA RefuseOK ==
  ASSUME IInv, Refuse \/ Answer
  PROVE  IInv'
<1>1. PICK stage \in {"answered", "failed"} : call' = [call EXCEPT !.stage = stage]
  BY DEF Refuse, Answer, End
<1>2. CallOK(call', Len(classes))
  <2>1. CallOK(call, Len(classes))
    BY DEF IInv
  <2> QED BY <1>1, <2>1, EndedCall
<1>3. active' = active \/ active' = call.saved
  BY DEF Refuse, Answer, Restore
<1>4. Bound(active', Len(classes))
  BY <1>3 DEF IInv, CallOK
<1>5. UNCHANGED <<classes, image, made>>
  BY DEF Refuse, Answer
<1> QED
  BY <1>2, <1>4, <1>5 DEF IInv

\* A call is as good with more classes.
LEMMA CallMore ==
  ASSUME NEW n \in Nat, NEW m \in Nat, n <= m, NEW k, CallOK(k, n)
  PROVE  CallOK(k, m)
<1>1. k.answer \in 0 .. m
  BY DEF CallOK
<1>2. Bound(k.bound, m) /\ Bound(k.saved, m)
  BY BoundMore DEF CallOK
<1> QED
  BY <1>1, <1>2 DEF CallOK

\* What bc_define_class has made: a class and its metaclass, or none, and an
\* image that is good for them.
LEMMA DefinedOK ==
  ASSUME IInv, NEW d \in Declaration, NEW super \in 0 .. Len(classes)
  PROVE  LET r == bc_define_class(d, super)
         IN  /\ ClassesOK(r.classes, ToSet(r.result.image.globals))
             /\ ImageOK(r.result.image, Len(r.classes))
             /\ Len(r.classes) = Len(classes) \/ Len(r.classes) = Len(classes) + 2
<1>1. PICK n \in Nat : n = Len(classes)
  BY BindingsOK
<1>2. PICK cs : cs = classes
  OBVIOUS
<1>3. PICK g : g = ToSet(image.globals)
  OBVIOUS
<1>4. ClassesOK(cs, g) /\ ImageOK(image, n) /\ n + 2 \in Nat /\ n <= n + 2
  BY <1>1, <1>2, <1>3 DEF IInv
<1>5. PICK b : b = Checked(Start(image), ObjectsOf(d))
  OBVIOUS
<1>6. ObjectsOf(d) \in Nat
  <2>1. d.ivars \in Seq(STRING)
    BY DEF Declaration
  <2> QED BY <2>1 DEF ObjectsOf
<1>7. ASSUME NEW m \in Nat, ImageOK(image, m)
      PROVE  ResultOK(b, m, g)
  <2>1. PICK s : s = Start(image)
    OBVIOUS
  <2>2. ResultOK(s, m, g)
    BY <1>3, <1>7, <2>1, StartOK
  <2>3. ResultOK(Checked(s, ObjectsOf(d)), m, g)
    BY <1>6, <2>2, AllocateOK DEF Checked
  <2> QED BY <1>5, <2>1, <2>3
<1>8. PICK r : r = bc_define_class(d, super)
  OBVIOUS
<1> DEFINE above == IF super = Nil THEN Class ELSE classes[super].meta
           size == (IF super = Nil THEN 0 ELSE classes[super].size) + Len(d.ivars)
           meta == NewClass(above, Class, <<>>, 0, "fields")
           klass == NewClass(super, Len(classes) + 1, d.ivars, size, d.format)
<1>9. r = [result |-> Then(b, LAMBDA s : bc_global_association_oop(s, d.name, Len(classes) + 2)),
           classes |-> IF b.status = "ok" THEN classes \o <<meta, klass>> ELSE classes]
  BY <1>5, <1>8 DEF bc_define_class
<1>10. CASE b.status # "ok"
  <2>1. r.result = b /\ r.classes = classes
    BY <1>9, <1>10 DEF Then
  <2>2. ResultOK(b, n, g)
    BY <1>4, <1>7
  <2>3. ImageOK(b.image, n) /\ g \subseteq ToSet(b.image.globals)
    BY <2>2 DEF ResultOK
  <2>4. ClassesOK(cs, ToSet(b.image.globals))
    <3>1. \A c \in DOMAIN cs : ClassOK(cs[c], c, Len(cs), ToSet(b.image.globals))
      <4> TAKE c \in DOMAIN cs
      <4>1. ClassOK(cs[c], c, n, g)
        BY <1>1, <1>2, <1>4 DEF ClassesOK
      <4>2. n <= n
        OBVIOUS
      <4> QED BY <1>1, <1>2, <2>3, <4>1, <4>2, ClassMore
    <3> QED BY <1>4, <3>1 DEF ClassesOK
  <2> QED BY <1>1, <1>2, <1>8, <2>1, <2>3, <2>4
<1>11. CASE b.status = "ok"
  <2>1. /\ r.result = bc_global_association_oop(b, d.name, Len(classes) + 2)
        /\ r.classes = classes \o <<meta, klass>>
    BY <1>9, <1>11 DEF Then
  <2>2. ResultOK(b, n + 2, g)
    <3>1. ImageOK(image, n + 2)
      BY <1>4, ImageMore
    <3> QED BY <1>4, <1>7, <3>1
  <2>3. d.name \in Name /\ n + 2 \in 1 .. n + 2
    BY DEF Declaration, Name
  <2>4. ResultOK(r.result, n + 2, g)
    <3>1. ResultOK(bc_global_association_oop(b, d.name, n + 2), n + 2, g)
      BY <1>4, <2>2, <2>3, AssociationOK
    <3> QED BY <1>1, <2>1, <3>1
  <2>5. ImageOK(r.result.image, n + 2) /\ g \subseteq ToSet(r.result.image.globals)
    BY <2>4 DEF ResultOK
  <2>6. above \in 1 .. n /\ size \in Nat
    <3>1. d.ivars \in Seq(STRING)
      BY DEF Declaration
    <3>2. CASE super = Nil
      BY <1>1, <3>1, <3>2, BindingsOK DEF Class, Nil
    <3>3. CASE super # Nil
      <4>1. super \in DOMAIN cs
        <5>1. super \in 1 .. n
          BY <1>1, <3>3 DEF Nil
        <5>2. DOMAIN cs = 1 .. n
          BY <1>1, <1>2, <1>4 DEF ClassesOK, IsSequence
        <5> QED BY <5>1, <5>2
      <4>2. ClassOK(cs[super], super, n, g)
        BY <1>1, <1>2, <1>4, <4>1 DEF ClassesOK
      <4>3. cs[super].meta \in 1 .. n /\ cs[super].size \in Nat
        BY <4>2 DEF ClassOK
      <4> QED BY <1>2, <3>1, <3>3, <4>3
    <3> QED BY <3>2, <3>3
  <2> HIDE DEF above, size
  <2>7. /\ ClassesOK(r.classes, ToSet(r.result.image.globals))
        /\ Len(r.classes) = n + 2
    <3>1. PICK h : h = ToSet(r.result.image.globals)
      OBVIOUS
    <3>2. g \subseteq h /\ super \in 0 .. Len(cs) /\ above \in 1 .. Len(cs) /\ size \in Nat
      BY <1>1, <1>2, <2>5, <2>6, <3>1
    <3>3. PICK ivars : ivars = d.ivars
      OBVIOUS
    <3>4. PICK format : format = d.format
      OBVIOUS
    <3>5. /\ ClassesOK(cs \o <<NewClass(above, Class, <<>>, 0, "fields"),
                               NewClass(super, Len(cs) + 1, ivars, size, format)>>, h)
          /\ Len(cs \o <<NewClass(above, Class, <<>>, 0, "fields"),
                         NewClass(super, Len(cs) + 1, ivars, size, format)>>) = Len(cs) + 2
      BY <1>4, <3>2, DefinedClasses
    <3> QED BY <1>1, <1>2, <2>1, <3>1, <3>3, <3>4, <3>5
  <2> QED BY <1>1, <1>8, <2>5, <2>7
<1> QED
  BY <1>10, <1>11

\* A declaration.
LEMMA DefineOK ==
  ASSUME IInv, Define
  PROVE  IInv'
<1>1. PICK n \in Nat : n = Len(classes)
  BY BindingsOK
<1>2. PICK d : d = call.file.decls[call.step]
  OBVIOUS
<1>3. PICK super : super = SuperclassOf(d, call.bound)
  OBVIOUS
<1>4. /\ ImageOK(image, n) /\ CallOK(call, n) /\ Bound(active, n) /\ made \subseteq Calls
      /\ call.stage = "define"
  BY <1>1 DEF IInv, Define
<1>5. d \in Declaration
  BY <1>2, <1>4 DEF CallOK, FileOK
<1>6. super \in 0 .. n
  <2>1. bc_lookup_class_named(call.bound, image, d.super) \in 0 .. n
    BY <1>4, ClassLookup DEF CallOK
  <2> QED BY <1>3, <2>1 DEF SuperclassOf, Nil
<1>7. PICK r : r = bc_define_class(d, super)
  OBVIOUS
<1>8. /\ ClassesOK(r.classes, ToSet(r.result.image.globals))
      /\ ImageOK(r.result.image, Len(r.classes))
      /\ Len(r.classes) = n \/ Len(r.classes) = n + 2
  BY <1>1, <1>5, <1>6, <1>7, DefinedOK
<1>9. UNCHANGED <<active, made>>
  BY DEF Define
<1>10. CASE call' = [call EXCEPT !.stage = "failed"] /\ UNCHANGED <<classes, image>>
  <2>1. CallOK(call', n)
    BY <1>4, <1>10, EndedCall
  <2> QED BY <1>1, <1>9, <1>10, <2>1 DEF IInv
<1>11. CASE classes' = r.classes /\ image' = r.result.image
            /\ call' = [call EXCEPT !.stage = "failed"]
  <2>1. PICK m \in Nat : m = Len(classes') /\ n <= m
    BY <1>8, <1>11
  <2>2. CallOK(call', n)
    BY <1>4, <1>11, EndedCall
  <2>3. CallOK(call', m) /\ Bound(active, m)
    BY <1>4, <2>1, <2>2, CallMore, BoundMore
  <2> QED BY <1>4, <1>8, <1>9, <1>11, <2>1, <2>3 DEF IInv
<1>12. ASSUME NEW stage, NEW step,
              stage = IF call.step = Len(call.file.decls) THEN "parse" ELSE "define",
              step = IF call.step = Len(call.file.decls) THEN 1 ELSE call.step + 1,
              classes' = r.classes, image' = r.result.image,
              call' = [call EXCEPT !.stage = stage, !.step = step, !.answer = Len(r.classes)]
       PROVE  IInv'
  <2>1. PICK m \in Nat : m = Len(classes') /\ n <= m
    BY <1>8, <1>12
  <2>2. Bound(active, m) /\ CallOK(call, m)
    BY <1>4, <2>1, CallMore, BoundMore
  <2>3. call = [stage |-> call.stage, kind |-> call.kind, file |-> call.file, bound |-> call.bound,
                saved |-> call.saved, step |-> call.step, answer |-> call.answer]
    BY <1>4 DEF CallOK
  <2>4. call' = [stage |-> stage, kind |-> call.kind, file |-> call.file, bound |-> call.bound,
                 saved |-> call.saved, step |-> step, answer |-> m]
    BY <1>12, <2>1, <2>3
  <2>5. FileOK(call.file) /\ call.step \in 1 .. Len(call.file.decls)
    BY <1>4 DEF CallOK
  <2>6. PICK l \in Nat : l = Len(call.file.decls)
    BY <2>5 DEF FileOK
  <2>7. stage \in {"parse", "define"} /\ step \in Nat \ {0} /\ (stage = "define" => step \in 1 .. l)
    BY <1>12, <2>5, <2>6
  <2>8. CallOK(call', m)
    BY <2>2, <2>4, <2>5, <2>6, <2>7 DEF CallOK
  <2> QED BY <1>4, <1>8, <1>9, <1>12, <2>1, <2>2, <2>8 DEF IInv
<1>13. \/ call' = [call EXCEPT !.stage = "failed"] /\ UNCHANGED <<classes, image>>
       \/ classes' = r.classes /\ image' = r.result.image /\ call' = [call EXCEPT !.stage = "failed"]
       \/ /\ classes' = r.classes /\ image' = r.result.image
          /\ call' = [call EXCEPT
                        !.stage = IF call.step = Len(call.file.decls) THEN "parse" ELSE "define",
                        !.step = IF call.step = Len(call.file.decls) THEN 1 ELSE call.step + 1,
                        !.answer = Len(r.classes)]
  BY <1>2, <1>3, <1>7, Zenon DEF Define, End
<1> QED
  BY <1>10, <1>11, <1>12, <1>13

\* A chunk's method is the text of a segment.
LEMMA ChunkOK ==
  ASSUME IInv, call.stage = "install", call.step <= Len(Chunks)
  PROVE  /\ \E k \in 1 .. Len(call.file.segs) : Chunks[call.step].method = AsMethod(call.file.segs[k])
         /\ Chunks[call.step].method \in MethodText \cup {NoMethodText}
<1>1. FileOK(call.file) /\ call.step \in Nat \ {0}
  BY DEF IInv, CallOK
<1>2. PICK segs : segs = call.file.segs
  OBVIOUS
<1>3. PICK chunks : chunks = Chunks
  OBVIOUS
<1>4. chunks \in Seq(Chunk(segs))
  <2>1. segs \in Seq(Segment) /\ segs # <<>>
    BY <1>1, <1>2 DEF FileOK
  <2>2. bc_parse_method_chunks(segs).chunks \in Seq(Chunk(segs))
    BY <2>1, ChunksTyped
  <2> QED BY <1>2, <1>3, <2>2 DEF Chunks
<1>5. chunks[call.step] \in Chunk(segs)
  BY <1>1, <1>3, <1>4
<1>6. PICK k \in 1 .. Len(segs) : chunks[call.step].method = AsMethod(segs[k])
  BY <1>5 DEF Chunk
<1>7. AsMethod(segs[k]) \in MethodText \cup {NoMethodText}
  BY <1>1, <1>2, SegmentTypes DEF FileOK
<1> QED
  BY <1>2, <1>3, <1>6, <1>7

\* The class a method is installed in is one of the classes.
LEMMA TargetOK ==
  ASSUME IInv, call.stage = "install", NEW chunk, NEW c,
         c = bc_lookup_class_named(call.bound, image, chunk.at.class), c # Nil
  PROVE  bc_target_class_for_method(c, chunk) \in 1 .. Len(classes)
<1>1. PICK n \in Nat : n = Len(classes)
  BY BindingsOK
<1>2. ImageOK(image, n) /\ Bound(call.bound, n) /\ DOMAIN classes = 1 .. n
  BY <1>1 DEF IInv, CallOK, ClassesOK, IsSequence
<1>3. c \in 0 .. n
  <2>1. bc_lookup_class_named(call.bound, image, chunk.at.class) \in 0 .. n
    BY <1>2, ClassLookup
  <2> QED BY <2>1
<1>4. c \in 1 .. n
  BY <1>3 DEF Nil
<1>5. classes[c].meta \in 1 .. n
  BY <1>1, <1>2, <1>4 DEF IInv, ClassesOK, ClassOK
<1> QED
  BY <1>1, <1>4, <1>5 DEF bc_target_class_for_method

\* A method is installed, or its installation fails for want of space.
LEMMA InstallOK ==
  ASSUME IInv, Install
  PROVE  IInv'
<1>1. PICK n \in Nat : n = Len(classes)
  BY BindingsOK
<1>2. PICK chunk : chunk = Chunks[call.step]
  OBVIOUS
<1>3. PICK m : m = chunk.method
  OBVIOUS
<1>4. PICK c : c = bc_lookup_class_named(call.bound, image, chunk.at.class)
  OBVIOUS
<1>5. PICK target : target = bc_target_class_for_method(c, chunk)
  OBVIOUS
<1>6. PICK against : against = IF call.kind = "compiled" THEN Nil ELSE target
  OBVIOUS
<1>7. PICK refs : refs = ClassRefs(m.uses, against)
  OBVIOUS
<1>8. PICK i : i = intern_cstring_symbol(Start(image), m.sel)
  OBVIOUS
<1>9. PICK compiled : compiled = bc_materialize_compiled_method(i, refs)
  OBVIOUS
<1>10. PICK done : done = Unchecked(compiled, 1)
  OBVIOUS
<1>11. PICK method : method = [text |-> m, fields |-> Fields(m.uses, against), refs |-> ToSet(done.refs)]
  OBVIOUS
<1>12. PICK g : g = ToSet(image.globals)
  OBVIOUS
<1>13. /\ ClassesOK(classes, g) /\ ImageOK(image, n) /\ CallOK(call, n) /\ Bound(active, n)
       /\ made \subseteq Calls
  BY <1>1, <1>12 DEF IInv
<1>14. /\ call.stage = "install" /\ call.step <= Len(Chunks) /\ c # Nil
       /\ m.header = "ok" /\ image' = done.image /\ UNCHANGED made
  BY <1>2, <1>3, <1>4, <1>5, <1>6, <1>7, <1>8, <1>9, <1>10 DEF Install
<1>15. \/ /\ done.status = "ok"
          /\ classes' = [classes EXCEPT ![target].dict = bc_append_method_dict(@, m.sel, method)]
          /\ call' = [call EXCEPT !.step = @ + 1]
          /\ UNCHANGED active
       \/ /\ done.status # "ok"
          /\ call' = [call EXCEPT !.stage = done.status]
          /\ active' = call.saved \/ active' = active
          /\ UNCHANGED classes
  BY <1>2, <1>3, <1>4, <1>5, <1>6, <1>7, <1>8, <1>9, <1>10, <1>11, Zenon DEF Install, End, Restore
<1>16. m \in MethodText
  <2>1. m \in MethodText \cup {NoMethodText}
    BY <1>2, <1>3, <1>14, ChunkOK
  <2> QED BY <1>14, <2>1 DEF NoMethodText
<1>17. m.sel \in Name /\ m.uses \in Seq(STRING)
  BY <1>16 DEF MethodText, Name
<1>18. refs \in Seq(STRING)
  BY <1>7, <1>17, ClassRefsTyped
<1>19. ResultOK(done, n, g)
  <2>1. PICK s : s = Start(image)
    OBVIOUS
  <2>2. ResultOK(s, n, g)
    BY <1>12, <1>13, <2>1, StartOK
  <2>3. PICK name \in Name : name = m.sel
    BY <1>17
  <2>4. ResultOK(intern_cstring_symbol(s, name), n, g)
    BY <2>2, InternOK
  <2>5. ResultOK(i, n, g)
    BY <1>8, <2>1, <2>3, <2>4
  <2>6. ResultOK(compiled, n, g)
    <3>1. ResultOK(bc_materialize_compiled_method(i, refs), n, g)
      BY <1>13, <1>18, <2>5, MaterializeOK
    <3> QED BY <1>9, <3>1
  <2>7. ResultOK(Unchecked(compiled, 1), n, g)
    BY <2>6, AllocateOK DEF Unchecked
  <2> QED BY <1>10, <2>7
<1>20. /\ ImageOK(done.image, n) /\ g \subseteq ToSet(done.image.globals)
       /\ ToSet(done.refs) \subseteq ToSet(done.image.globals)
       /\ done.status \in {"ok", "failed", "crashed"}
  BY <1>19 DEF ResultOK, Result
<1>21. PICK h : h = ToSet(done.image.globals)
  OBVIOUS
<1>22. DOMAIN classes = 1 .. n
  BY <1>1, <1>13 DEF ClassesOK, IsSequence
<1>23. target \in DOMAIN classes
  BY <1>1, <1>4, <1>5, <1>14, <1>22, TargetOK
<1>24. CASE /\ done.status = "ok"
            /\ classes' = [classes EXCEPT ![target].dict = bc_append_method_dict(@, m.sel, method)]
            /\ call' = [call EXCEPT !.step = @ + 1]
            /\ UNCHANGED active
  <2>1. method.refs \subseteq h
    BY <1>11, <1>20, <1>21
  <2>2. PICK sel : sel = m.sel
    OBVIOUS
  <2>3. PICK cs : cs = classes
    OBVIOUS
  <2>4. PICK t : t = Installed(cs, target, sel, method)
    OBVIOUS
  <2>5. ClassesOK(t, h) /\ Len(t) = Len(cs)
    <3>1. ClassesOK(cs, g) /\ g \subseteq h /\ target \in DOMAIN cs
      BY <1>13, <1>20, <1>21, <1>23, <2>3
    <3> QED BY <2>1, <2>4, <3>1, InstalledClasses
  <2>6. classes' = t
    BY <1>24, <2>2, <2>3, <2>4, Zenon DEF Installed
  <2>7. CallOK(call', n)
    <3>1. call = [stage |-> call.stage, kind |-> call.kind, file |-> call.file, bound |-> call.bound,
                  saved |-> call.saved, step |-> call.step, answer |-> call.answer]
      BY <1>13 DEF CallOK
    <3>2. call' = [stage |-> call.stage, kind |-> call.kind, file |-> call.file, bound |-> call.bound,
                   saved |-> call.saved, step |-> call.step + 1, answer |-> call.answer]
      BY <1>24, <3>1
    <3>3. call.step \in Nat \ {0}
      BY <1>13, <1>14 DEF CallOK
    <3>4. call.step + 1 \in Nat \ {0}
      BY <3>3
    <3> QED BY <1>13, <1>14, <3>2, <3>4 DEF CallOK
  <2>8. image' = done.image /\ Len(classes') = n /\ ClassesOK(classes', ToSet(image'.globals))
    BY <1>1, <1>14, <1>21, <2>3, <2>5, <2>6
  <2> QED BY <1>13, <1>14, <1>20, <1>24, <2>7, <2>8 DEF IInv
<1>25. CASE /\ done.status # "ok"
            /\ call' = [call EXCEPT !.stage = done.status]
            /\ active' = call.saved \/ active' = active
            /\ UNCHANGED classes
  <2>1. CallOK(call', n)
    BY <1>13, <1>20, <1>25, EndedCall
  <2>2. Bound(active', n)
    BY <1>13, <1>25 DEF CallOK
  <2>3. ClassesOK(classes, h)
    <3>1. \A k \in DOMAIN classes : ClassOK(classes[k], k, n, h)
      <4> TAKE k \in DOMAIN classes
      <4>1. ClassOK(classes[k], k, n, g)
        BY <1>1, <1>13 DEF ClassesOK
      <4>2. n <= n /\ g \subseteq h
        BY <1>20, <1>21
      <4> QED BY <4>1, <4>2, ClassMore
    <3> QED BY <1>1, <1>13, <3>1 DEF ClassesOK
  <2> QED BY <1>1, <1>13, <1>14, <1>20, <1>21, <1>25, <2>1, <2>2, <2>3 DEF IInv
<1> QED
  BY <1>15, <1>24, <1>25

\* The inductive invariant of the loader: classes are built to the end before
\* they are named, every association and every reference a method holds is in
\* the dictionary and stays there, and a call in progress has a file and a place.
THEOREM Invariant == Spec => []IInv
<1>1. Init => IInv
  BY InitOK
<1>2. IInv /\ [Next]_vars => IInv'
  <2> SUFFICES ASSUME IInv, [Next]_vars PROVE IInv'
    OBVIOUS
  <2>1. CASE UNCHANGED vars
    BY <2>1 DEF vars, IInv
  <2>2. ASSUME NEW c \in Calls, Load(c[1], c[2]) PROVE IInv'
    BY <2>2, LoadStep
  <2>3. CASE Define
    BY <2>3, DefineOK
  <2>4. CASE Parse
    BY <2>4, ParseOK
  <2>5. CASE Refuse
    BY <2>5, RefuseOK
  <2>6. CASE Install
    BY <2>6, InstallOK
  <2>7. CASE Answer
    BY <2>7, RefuseOK
  <2>8. CASE Stop
    BY <2>1, <2>8 DEF Stop
  <2> QED
    BY <2>1, <2>2, <2>3, <2>4, <2>5, <2>6, <2>7, <2>8 DEF Next
<1> QED
  BY <1>1, <1>2, PTL DEF Spec

\* TypeOK: superclasses are older than their subclasses, the symbols fit the
\* table and the dictionary its array, bindings name classes.
THEOREM TypeTheorem == Spec => []TypeOK
<1>1. IInv => TypeOK
  <2> SUFFICES ASSUME IInv PROVE TypeOK
    OBVIOUS
  <2>1. PICK n \in Nat : n = Len(classes)
    BY BindingsOK
  <2>2. DOMAIN classes = 1 .. n
    BY <2>1 DEF IInv, ClassesOK, IsSequence
  <2>3. \A c \in DOMAIN classes :
          /\ classes[c].super \in 0 .. c - 1
          /\ classes[c].meta \in DOMAIN classes
          /\ classes[c].size \in Nat
    BY <2>1, <2>2 DEF IInv, ClassesOK, ClassOK
  <2>4. ImageOK(image, n) /\ Bound(active, n) /\ CallOK(call, n) /\ made \subseteq Calls
    BY <2>1 DEF IInv
  <2>5. /\ image.room \in Nat /\ Len(image.globals) <= image.capacity
        /\ Cardinality(image.symbols) <= MaxSymbols
    BY <2>4 DEF ImageOK, Image, Fits
  <2>6. ToSet(image.globals) \subseteq DOMAIN image.assocs
    BY <2>4 DEF ImageOK, Whole, ToSet
  <2>7. \A k \in DOMAIN active : active[k] \in DOMAIN classes
    BY <2>2, <2>4 DEF Bound
  <2>8. /\ call.stage \in {"idle", "define", "parse", "install", "answered", "failed", "crashed"}
        /\ call.answer \in 0 .. n
    BY <2>4 DEF CallOK
  <2> QED
    BY <2>1, <2>3, <2>4, <2>5, <2>6, <2>7, <2>8 DEF TypeOK
<1> QED
  BY <1>1, Invariant, PTL

\* GlobalsAreWhole: however much space there is, and wherever a load fails, the
\* dictionary names only classes that were built to the end.
THEOREM GlobalsTheorem == Spec => []GlobalsAreWhole
<1>1. IInv => GlobalsAreWhole
  <2> SUFFICES ASSUME IInv PROVE GlobalsAreWhole
    OBVIOUS
  <2>1. PICK n \in Nat : n = Len(classes)
    BY BindingsOK
  <2>2. DOMAIN classes = 1 .. n
    BY <2>1 DEF IInv, ClassesOK, IsSequence
  <2>3. Whole(image, n)
    BY <2>1 DEF IInv, ImageOK
  <2> QED
    BY <2>2, <2>3 DEF Whole, GlobalsAreWhole
<1> QED
  BY <1>1, Invariant, PTL

\* ReferencesFollowGlobals: for any number of loads, a name has one association,
\* and every reference in a method is an association of the dictionary.
THEOREM ReferencesTheorem == Spec => []ReferencesFollowGlobals
<1>1. IInv => ReferencesFollowGlobals
  <2> SUFFICES ASSUME IInv PROVE ReferencesFollowGlobals
    OBVIOUS
  <2>1. Unique(image)
    BY DEF IInv, ImageOK
  <2>2. \A c \in DOMAIN classes : \A j \in DOMAIN classes[c].dict :
          classes[c].dict[j].method.refs \subseteq ToSet(image.globals)
    BY DEF IInv, ClassesOK, ClassOK
  <2>3. \A m \in Methods : m.refs \subseteq ToSet(image.globals)
    BY <2>2 DEF Methods
  <2> QED
    BY <2>1, <2>3 DEF Unique, ReferencesFollowGlobals
<1> QED
  BY <1>1, Invariant, PTL

-----------------------------------------------------------------------------
(* What a class has from its superclasses. *)

\* A recursion along superclasses: z at nil, and at a class F of the class and of
\* what its superclass has.
Heritage(f, n, cs, z, F) ==
  f = [d \in 0 .. n |-> IF d = Nil THEN z ELSE F[<<d, f[cs[d].super]>>]]

\* Superclasses are older.
Older(cs, n) == \A c \in 1 .. n : cs[c].super \in 0 .. c - 1

\* Such a recursion has a solution, with values in V.
LEMMA HeritageExists ==
  ASSUME NEW n \in Nat, NEW cs, Older(cs, n), NEW V, NEW z \in V, NEW F,
         \A c \in 1 .. n, x \in V : F[<<c, x>>] \in V
  PROVE  \E f \in [0 .. n -> V] : Heritage(f, n, cs, z, F)
<1> DEFINE Solved(m) == \E f \in [0 .. m -> V] : Heritage(f, m, cs, z, F)
           S == {m \in Nat : m <= n => Solved(m)}
<1>1. 0 \in S
  <2>1. PICK f : f = [d \in 0 .. 0 |-> z]
    OBVIOUS
  <2>2. f \in [0 .. 0 -> V]
    BY <2>1
  <2>3. f = [d \in 0 .. 0 |-> IF d = Nil THEN z ELSE F[<<d, f[cs[d].super]>>]]
    <3>1. \A d \in 0 .. 0 : d = Nil
      BY DEF Nil
    <3> QED BY <2>1, <3>1
  <2>4. Solved(0)
    BY <2>2, <2>3 DEF Heritage
  <2> HIDE DEF Solved
  <2> QED BY <2>4
<1>2. ASSUME NEW m \in Nat, m \in S PROVE m + 1 \in S
  <2> SUFFICES ASSUME m + 1 <= n PROVE Solved(m + 1)
    <3> HIDE DEF Solved
    <3> QED OBVIOUS
  <2>1. Solved(m)
    <3>1. m <= n
      OBVIOUS
    <3> HIDE DEF Solved
    <3> QED BY <1>2, <3>1
  <2>2. PICK f \in [0 .. m -> V] : Heritage(f, m, cs, z, F)
    BY <2>1
  <2>3. cs[m + 1].super \in 0 .. m
    <3>1. m + 1 \in 1 .. n /\ (m + 1) - 1 = m
      OBVIOUS
    <3> QED BY <3>1 DEF Older
  <2>4. PICK v \in V : v = F[<<m + 1, f[cs[m + 1].super]>>]
    <3>1. m + 1 \in 1 .. n /\ f[cs[m + 1].super] \in V
      BY <2>2, <2>3
    <3> QED BY <3>1
  <2>5. PICK h : h = [d \in 0 .. (m + 1) |-> IF d = m + 1 THEN v ELSE f[d]]
    OBVIOUS
  <2>6. h \in [0 .. (m + 1) -> V] /\ h[m + 1] = v /\ \A d \in 0 .. m : h[d] = f[d]
    BY <2>2, <2>5
  <2>7. ASSUME NEW d \in 0 .. (m + 1)
        PROVE  h[d] = IF d = Nil THEN z ELSE F[<<d, h[cs[d].super]>>]
    <3>1. CASE d = m + 1
      <4>1. d # Nil /\ h[cs[d].super] = f[cs[d].super]
        BY <2>3, <2>6, <3>1 DEF Nil
      <4> QED BY <2>4, <2>6, <3>1, <4>1
    <3>2. CASE d # m + 1
      <4>1. d \in 0 .. m
        BY <3>2
      <4>2. f[d] = IF d = Nil THEN z ELSE F[<<d, f[cs[d].super]>>]
        BY <2>2, <4>1 DEF Heritage
      <4>3. d # Nil => cs[d].super \in 0 .. m
        <5>1. d # Nil => d \in 1 .. n
          BY <4>1 DEF Nil
        <5>2. d # Nil => cs[d].super \in 0 .. d - 1
          BY <5>1 DEF Older
        <5> QED BY <4>1, <5>2
      <4> QED BY <2>6, <4>1, <4>2, <4>3
    <3> QED BY <3>1, <3>2
  <2>8. h = [d \in 0 .. (m + 1) |-> h[d]]
    BY <2>6
  <2>9. Heritage(h, m + 1, cs, z, F)
    BY <2>7, <2>8 DEF Heritage
  <2> QED BY <2>6, <2>9
<1> HIDE DEF S, Solved
<1>3. Nat \subseteq S
  BY <1>1, <1>2, NatSetInduction
<1>4. Solved(n)
  BY <1>3 DEF S
<1> QED
  BY <1>4 DEF Solved

\* What holds at nil, and is handed on from each class to its subclasses, holds
\* of all.
LEMMA HeritageInduction ==
  ASSUME NEW n \in Nat, NEW cs, Older(cs, n), NEW V, 0 \in V,
         \A c \in 1 .. n : cs[c].super \in V => c \in V
  PROVE  \A c \in 0 .. n : c \in V
<1> DEFINE S == {k \in Nat : \A c \in 0 .. n : c <= k => c \in V}
<1>1. 0 \in S
  <2>1. \A c \in 0 .. n : c <= 0 => c = 0
    OBVIOUS
  <2> QED BY <2>1
<1>2. ASSUME NEW k \in Nat, k \in S PROVE k + 1 \in S
  <2> SUFFICES ASSUME NEW c \in 0 .. n, c <= k + 1 PROVE c \in V
    OBVIOUS
  <2>1. CASE c = 0
    BY <2>1
  <2>2. CASE c # 0
    <3>1. c \in 1 .. n
      BY <2>2
    <3>2. cs[c].super \in 0 .. c - 1
      BY <3>1 DEF Older
    <3>3. PICK s \in 0 .. n : s = cs[c].super /\ s <= k
      BY <3>1, <3>2
    <3>4. s \in V
      BY <1>2, <3>3
    <3> QED BY <3>1, <3>3, <3>4
  <2> QED BY <2>1, <2>2
<1> HIDE DEF S
<1>3. Nat \subseteq S
  BY <1>1, <1>2, NatSetInduction
<1>4. n \in S
  BY <1>3
<1> QED
  BY <1>4 DEF S

\* Classes whose superclasses are older, with variables that have names.
Shaped(cs) ==
  /\ Len(cs) \in Nat
  /\ Older(cs, Len(cs))
  /\ \A c \in 1 .. Len(cs) : cs[c].ivars \in Seq(STRING)

\* The recursions of Layout and of the number of variables.
IsLayout(f, cs) ==
  f = [d \in 0 .. Len(cs) |-> IF d = Nil THEN <<>> ELSE f[cs[d].super] \o cs[d].ivars]

IsTotal(f, cs) ==
  f = [d \in 0 .. Len(cs) |-> IF d = Nil THEN 0 ELSE f[cs[d].super] + Len(cs[d].ivars)]

\* The layout of a class among the classes cs.
LayoutOf(cs, c) == LET all == CHOOSE f : IsLayout(f, cs) IN all[c]

\* A class adds its variables to those it inherits.
LEMMA LayoutSteps ==
  ASSUME NEW cs, Shaped(cs)
  PROVE  /\ LayoutOf(cs, 0) = <<>>
         /\ \A c \in 1 .. Len(cs) : LayoutOf(cs, c) = LayoutOf(cs, cs[c].super) \o cs[c].ivars
<1>1. PICK n \in Nat : n = Len(cs)
  BY DEF Shaped
<1>2. Older(cs, n) /\ \A c \in 1 .. n : cs[c].ivars \in Seq(STRING)
  BY <1>1 DEF Shaped
<1>3. PICK V : V = Seq(STRING)
  OBVIOUS
<1>4. PICK F : F = [p \in (1 .. n) \X V |-> p[2] \o cs[p[1]].ivars]
  OBVIOUS
<1>5. ASSUME NEW c \in 1 .. n, NEW x \in V
      PROVE  F[<<c, x>>] = x \o cs[c].ivars /\ F[<<c, x>>] \in V
  <2>1. F[<<c, x>>] = x \o cs[c].ivars
    BY <1>4
  <2>2. cs[c].ivars \in Seq(STRING)
    BY <1>2
  <2> QED BY <1>3, <2>1, <2>2
<1>6. <<>> \in V
  BY <1>3
<1>7. PICK f \in [0 .. n -> V] : Heritage(f, n, cs, <<>>, F)
  BY <1>2, <1>5, <1>6, HeritageExists
<1>8. ASSUME NEW d \in 0 .. n
      PROVE  f[d] = IF d = Nil THEN <<>> ELSE f[cs[d].super] \o cs[d].ivars
  <2>1. f[d] = IF d = Nil THEN <<>> ELSE F[<<d, f[cs[d].super]>>]
    BY <1>7 DEF Heritage
  <2>2. CASE d = Nil
    BY <2>1, <2>2
  <2>3. CASE d # Nil
    <3>1. d \in 1 .. n
      BY <2>3 DEF Nil
    <3>2. cs[d].super \in 0 .. n
      <4>1. cs[d].super \in 0 .. d - 1
        BY <1>2, <3>1 DEF Older
      <4> QED BY <3>1, <4>1
    <3>3. f[cs[d].super] \in V
      BY <1>7, <3>2
    <3> QED BY <1>5, <2>1, <2>3, <3>1, <3>3
  <2> QED BY <2>2, <2>3
<1>9. IsLayout(f, cs)
  <2>1. f = [d \in 0 .. n |-> f[d]]
    BY <1>7
  <2> QED BY <1>1, <1>8, <2>1 DEF IsLayout
<1>10. PICK all : all = CHOOSE g : IsLayout(g, cs)
  OBVIOUS
<1>11. IsLayout(all, cs)
  BY <1>9, <1>10
<1>12. \A c : LayoutOf(cs, c) = all[c]
  BY <1>10 DEF LayoutOf
<1>13. \A d \in 0 .. n : all[d] = IF d = Nil THEN <<>> ELSE all[cs[d].super] \o cs[d].ivars
  BY <1>1, <1>11 DEF IsLayout
<1>14. 0 \in 0 .. n /\ \A d \in 1 .. n : d \in 0 .. n /\ d # 0
  OBVIOUS
<1> QED
  BY <1>1, <1>12, <1>13, <1>14 DEF Nil

\* A layout is a sequence of names.
LEMMA LayoutTyped ==
  ASSUME NEW cs, Shaped(cs)
  PROVE  \A c \in 0 .. Len(cs) : LayoutOf(cs, c) \in Seq(STRING)
<1>1. PICK n \in Nat : n = Len(cs)
  BY DEF Shaped
<1> DEFINE V == {c \in 0 .. n : LayoutOf(cs, c) \in Seq(STRING)}
<1>2. 0 \in V
  <2>1. LayoutOf(cs, 0) = <<>>
    BY LayoutSteps
  <2>2. <<>> \in Seq(STRING) /\ 0 \in 0 .. n
    OBVIOUS
  <2> QED BY <2>1, <2>2
<1>3. ASSUME NEW c \in 1 .. n, cs[c].super \in V PROVE c \in V
  <2>1. PICK x \in Seq(STRING) : x = LayoutOf(cs, cs[c].super)
    BY <1>3
  <2>2. PICK y \in Seq(STRING) : y = cs[c].ivars
    BY <1>1 DEF Shaped
  <2>3. LayoutOf(cs, c) = x \o y
    BY <1>1, <2>1, <2>2, LayoutSteps
  <2>4. x \o y \in Seq(STRING) /\ c \in 0 .. n
    OBVIOUS
  <2> QED BY <2>3, <2>4
<1>4. Older(cs, n)
  BY <1>1 DEF Shaped
<1>5. \A c \in 0 .. n : c \in V
  <2> HIDE DEF V
  <2> QED BY <1>2, <1>3, <1>4, HeritageInduction
<1> QED
  BY <1>1, <1>5

\* Classes that are added, and methods, do not change a layout.
LEMMA LayoutStays ==
  ASSUME NEW cs, Shaped(cs), NEW cs2, Shaped(cs2), Len(cs) <= Len(cs2),
         \A c \in 1 .. Len(cs) : cs2[c].super = cs[c].super /\ cs2[c].ivars = cs[c].ivars
  PROVE  \A c \in 0 .. Len(cs) : LayoutOf(cs2, c) = LayoutOf(cs, c)
<1>1. PICK n \in Nat : n = Len(cs)
  BY DEF Shaped
<1> DEFINE V == {c \in 0 .. n : LayoutOf(cs2, c) = LayoutOf(cs, c)}
<1>2. 0 \in V
  <2>1. LayoutOf(cs, 0) = <<>>
    BY LayoutSteps
  <2>2. LayoutOf(cs2, 0) = <<>>
    BY LayoutSteps
  <2>3. 0 \in 0 .. n
    OBVIOUS
  <2> QED BY <2>1, <2>2, <2>3
<1>3. ASSUME NEW c \in 1 .. n, cs[c].super \in V PROVE c \in V
  <2>1. c \in 1 .. Len(cs2)
    BY <1>1 DEF Shaped
  <2>2. LayoutOf(cs, c) = LayoutOf(cs, cs[c].super) \o cs[c].ivars
    BY <1>1, LayoutSteps
  <2>3. LayoutOf(cs2, c) = LayoutOf(cs2, cs2[c].super) \o cs2[c].ivars
    BY <2>1, LayoutSteps
  <2>4. LayoutOf(cs2, cs[c].super) = LayoutOf(cs, cs[c].super)
    BY <1>3
  <2>5. cs2[c].super = cs[c].super /\ cs2[c].ivars = cs[c].ivars /\ c \in 0 .. n
    BY <1>1
  <2> QED BY <2>2, <2>3, <2>4, <2>5
<1>4. Older(cs, n)
  BY <1>1 DEF Shaped
<1>5. \A c \in 0 .. n : c \in V
  <2> HIDE DEF V
  <2> QED BY <1>2, <1>3, <1>4, HeritageInduction
<1> QED
  BY <1>1, <1>5

\* A class has as many variables as its layout.
LEMMA TotalIsLength ==
  ASSUME Shaped(classes)
  PROVE  \A c \in 0 .. Len(classes) :
           bc_class_total_inst_var_count(c) = Len(LayoutOf(classes, c))
<1>1. PICK n \in Nat : n = Len(classes)
  BY DEF Shaped
<1>2. PICK cs : cs = classes
  OBVIOUS
<1>3. Shaped(cs) /\ n = Len(cs)
  BY <1>1, <1>2
<1>4. PICK f : f = [d \in 0 .. n |-> Len(LayoutOf(cs, d))]
  OBVIOUS
<1>5. ASSUME NEW d \in 0 .. n
      PROVE  f[d] = IF d = Nil THEN 0 ELSE f[cs[d].super] + Len(cs[d].ivars)
  <2>1. CASE d = Nil
    <3>1. LayoutOf(cs, 0) = <<>>
      BY <1>3, LayoutSteps
    <3>2. f[d] = Len(<<>>)
      BY <1>4, <2>1, <3>1 DEF Nil
    <3>3. Len(<<>>) = 0
      OBVIOUS
    <3> QED BY <2>1, <3>2, <3>3
  <2>2. CASE d # Nil
    <3>1. d \in 1 .. n
      BY <2>2 DEF Nil
    <3>2. PICK s \in 0 .. n : s = cs[d].super
      <4>1. cs[d].super \in 0 .. d - 1
        BY <1>3, <3>1 DEF Shaped, Older
      <4> QED BY <3>1, <4>1
    <3>3. PICK x \in Seq(STRING) : x = LayoutOf(cs, s)
      BY <1>3, LayoutTyped
    <3>4. PICK y \in Seq(STRING) : y = cs[d].ivars
      BY <1>3, <3>1 DEF Shaped
    <3>5. LayoutOf(cs, d) = x \o y
      BY <1>3, <3>1, <3>2, <3>3, <3>4, LayoutSteps
    <3>6. Len(x \o y) = Len(x) + Len(y)
      OBVIOUS
    <3> QED BY <1>4, <2>2, <3>1, <3>2, <3>3, <3>4, <3>5, <3>6
  <2> QED BY <2>1, <2>2
<1>6. IsTotal(f, cs)
  <2>1. f = [d \in 0 .. n |-> f[d]]
    BY <1>4
  <2> QED BY <1>3, <1>5, <2>1 DEF IsTotal
<1>7. PICK total : total = CHOOSE g : IsTotal(g, cs)
  OBVIOUS
<1>8. IsTotal(total, cs)
  BY <1>6, <1>7
<1>9. \A c : bc_class_total_inst_var_count(c) = total[c]
  BY <1>2, <1>7 DEF bc_class_total_inst_var_count, IsTotal
<1>10. \A d \in 0 .. n : total[d] = IF d = Nil THEN 0 ELSE total[cs[d].super] + Len(cs[d].ivars)
  BY <1>3, <1>8 DEF IsTotal
<1> DEFINE V == {c \in 0 .. n : total[c] = f[c]}
<1>11. 0 \in V
  BY <1>5, <1>10 DEF Nil
<1>12. ASSUME NEW c \in 1 .. n, cs[c].super \in V PROVE c \in V
  <2>1. c \in 0 .. n /\ c # Nil
    BY DEF Nil
  <2> QED BY <1>5, <1>10, <1>12, <2>1
<1>13. Older(cs, n)
  BY <1>3 DEF Shaped
<1>14. \A c \in 0 .. n : c \in V
  <2> HIDE DEF V
  <2> QED BY <1>11, <1>12, <1>13, HeritageInduction
<1> QED
  BY <1>1, <1>2, <1>4, <1>9, <1>14

\* The place of a variable among those a class adds; 0 if it is none of them.
OwnPlace(s, name) == SelectInSeq(s, LAMBDA v : v = name)

\* It is the place of that name.
LEMMA OwnPlaceHolds ==
  ASSUME NEW s \in Seq(STRING), NEW name
  PROVE  /\ OwnPlace(s, name) \in 0 .. Len(s)
         /\ OwnPlace(s, name) # 0 => s[OwnPlace(s, name)] = name
<1> DEFINE I == {i \in 1 .. Len(s) : s[i] = name}
<1>1. I \in SUBSET Nat
  OBVIOUS
<1>2. OwnPlace(s, name) = IF I # {} THEN Min(I) ELSE 0
  BY DEF OwnPlace, SelectInSeq
<1>3. CASE I = {}
  BY <1>2, <1>3
<1>4. CASE I # {}
  <2>1. Min(I) \in I
    BY <1>1, <1>4, MinIsElement
  <2>2. PICK i \in 1 .. Len(s) : i = Min(I) /\ s[i] = name
    BY <2>1
  <2> HIDE DEF I
  <2> QED BY <1>2, <1>4, <2>2
<1> QED
  BY <1>3, <1>4

\* The slot of a variable, if its class has it, is the place of its name.
SlotHolds(cs, c, slot, name) ==
  /\ slot \in 0 .. Len(LayoutOf(cs, c)) - 1
  /\ LayoutOf(cs, c)[slot + 1] = name

\* A subclass keeps the slots of its superclass.
LEMMA SlotInherited ==
  ASSUME NEW cs, Shaped(cs), NEW c \in 1 .. Len(cs), NEW slot, NEW name,
         SlotHolds(cs, cs[c].super, slot, name)
  PROVE  SlotHolds(cs, c, slot, name)
<1>1. PICK n \in Nat : n = Len(cs)
  BY DEF Shaped
<1>2. PICK s \in 0 .. n : s = cs[c].super
  <2>1. cs[c].super \in 0 .. c - 1
    BY <1>1 DEF Shaped, Older
  <2> QED BY <1>1, <2>1
<1>3. PICK x \in Seq(STRING) : x = LayoutOf(cs, s)
  BY <1>1, LayoutTyped
<1>4. PICK y \in Seq(STRING) : y = cs[c].ivars
  BY <1>1 DEF Shaped
<1>5. LayoutOf(cs, c) = x \o y
  BY <1>1, <1>2, <1>3, <1>4, LayoutSteps
<1>6. slot \in 0 .. Len(x) - 1 /\ x[slot + 1] = name
  BY <1>2, <1>3 DEF SlotHolds
<1>7. Len(x \o y) = Len(x) + Len(y) /\ (x \o y)[slot + 1] = x[slot + 1]
  BY <1>6
<1>8. slot \in 0 .. Len(x \o y) - 1
  BY <1>6, <1>7
<1> QED
  BY <1>5, <1>6, <1>7, <1>8 DEF SlotHolds

\* A variable that a class adds lies behind the inherited ones.
LEMMA SlotOwn ==
  ASSUME NEW cs, Shaped(cs), NEW c \in 1 .. Len(cs), NEW name, NEW own,
         own = OwnPlace(cs[c].ivars, name), own # 0
  PROVE  SlotHolds(cs, c, Len(LayoutOf(cs, cs[c].super)) + own - 1, name)
<1>1. PICK n \in Nat : n = Len(cs)
  BY DEF Shaped
<1>2. PICK s \in 0 .. n : s = cs[c].super
  <2>1. cs[c].super \in 0 .. c - 1
    BY <1>1 DEF Shaped, Older
  <2> QED BY <1>1, <2>1
<1>3. PICK x \in Seq(STRING) : x = LayoutOf(cs, s)
  BY <1>1, LayoutTyped
<1>4. PICK y \in Seq(STRING) : y = cs[c].ivars
  BY <1>1 DEF Shaped
<1>5. LayoutOf(cs, c) = x \o y
  BY <1>1, <1>2, <1>3, <1>4, LayoutSteps
<1>6. own \in 1 .. Len(y) /\ y[own] = name
  <2>1. own \in 0 .. Len(y) /\ (own # 0 => y[own] = name)
    BY <1>4, OwnPlaceHolds
  <2> QED BY <2>1
<1>7. PICK l \in Nat : l = Len(x)
  OBVIOUS
<1>8. /\ (l + own - 1) + 1 = l + own /\ l + own - 1 \in 0 .. (l + Len(y)) - 1
      /\ Len(x \o y) = l + Len(y) /\ (x \o y)[l + own] = y[own]
  BY <1>6, <1>7
<1> QED
  BY <1>2, <1>3, <1>5, <1>6, <1>7, <1>8 DEF SlotHolds

\* The recursion of bc_class_inst_var_index.
IsIndex(f, name) ==
  f = [d \in 0 .. Len(classes) |->
         IF d = Nil THEN -1
         ELSE LET inherited == f[classes[d].super]
                  own == SelectInSeq(classes[d].ivars, LAMBDA v : v = name)
              IN  IF inherited >= 0 THEN inherited
                  ELSE IF own = 0 THEN -1
                  ELSE bc_class_total_inst_var_count(classes[d].super) + own - 1]

\* One step of it.
IndexStep(cs, d, inherited, name) ==
  IF inherited >= 0 THEN inherited
  ELSE IF OwnPlace(cs[d].ivars, name) = 0 THEN -1
  ELSE Len(LayoutOf(cs, cs[d].super)) + OwnPlace(cs[d].ivars, name) - 1

\* bc_class_inst_var_index answers -1, or the slot of the variable.
LEMMA IndexHolds ==
  ASSUME Shaped(classes), NEW name
  PROVE  \A c \in 0 .. Len(classes) :
           /\ bc_class_inst_var_index(c, name) \in Int
           /\ bc_class_inst_var_index(c, name) >= 0 =>
                SlotHolds(classes, c, bc_class_inst_var_index(c, name), name)
<1>1. PICK n \in Nat : n = Len(classes)
  BY DEF Shaped
<1>2. PICK cs : cs = classes
  OBVIOUS
<1>3. Shaped(cs) /\ n = Len(cs)
  BY <1>1, <1>2
<1>4. ASSUME NEW d \in 1 .. n
      PROVE  /\ cs[d].super \in 0 .. n
             /\ bc_class_total_inst_var_count(cs[d].super) = Len(LayoutOf(cs, cs[d].super))
             /\ \A x \in Int : IndexStep(cs, d, x, name) \in Int
  <2>1. PICK s \in 0 .. n : s = cs[d].super
    <3>1. cs[d].super \in 0 .. d - 1
      BY <1>3 DEF Shaped, Older
    <3> QED BY <3>1
  <2>2. bc_class_total_inst_var_count(s) = Len(LayoutOf(cs, s))
    BY <1>1, <1>2, TotalIsLength
  <2>3. PICK l \in Nat : l = Len(LayoutOf(cs, s))
    <3>1. LayoutOf(cs, s) \in Seq(STRING)
      BY <1>3, LayoutTyped
    <3> QED BY <3>1
  <2>4. PICK own \in Nat : own = OwnPlace(cs[d].ivars, name)
    <3>1. cs[d].ivars \in Seq(STRING)
      BY <1>3 DEF Shaped
    <3>2. OwnPlace(cs[d].ivars, name) \in 0 .. Len(cs[d].ivars)
      BY <3>1, OwnPlaceHolds
    <3> QED BY <3>1, <3>2
  <2>5. \A x \in Int : IndexStep(cs, d, x, name) \in Int
    BY <2>1, <2>3, <2>4 DEF IndexStep
  <2> QED BY <2>1, <2>2, <2>5
<1>5. ASSUME NEW f PROVE IsIndex(f, name) <=>
        f = [d \in 0 .. n |-> IF d = Nil THEN -1 ELSE IndexStep(cs, d, f[cs[d].super], name)]
  <2> DEFINE A(d) == LET inherited == f[classes[d].super]
                         own == SelectInSeq(classes[d].ivars, LAMBDA v : v = name)
                     IN  IF inherited >= 0 THEN inherited
                         ELSE IF own = 0 THEN -1
                         ELSE bc_class_total_inst_var_count(classes[d].super) + own - 1
             B(d) == IndexStep(cs, d, f[cs[d].super], name)
  <2>1. ASSUME NEW d \in 1 .. n PROVE A(d) = B(d)
    <3>1. PICK t : t = bc_class_total_inst_var_count(cs[d].super)
      OBVIOUS
    <3>2. t = Len(LayoutOf(cs, cs[d].super))
      BY <1>4, <3>1
    <3>3. PICK own : own = OwnPlace(cs[d].ivars, name)
      OBVIOUS
    <3>4. PICK x : x = f[cs[d].super]
      OBVIOUS
    <3>5. A(d) = IF x >= 0 THEN x ELSE IF own = 0 THEN -1 ELSE t + own - 1
      BY <1>2, <3>1, <3>3, <3>4, Zenon DEF OwnPlace
    <3>6. B(d) = IF x >= 0 THEN x ELSE IF own = 0 THEN -1 ELSE t + own - 1
      BY <3>2, <3>3, <3>4, Zenon DEF IndexStep
    <3> HIDE DEF A, B
    <3> QED BY <3>5, <3>6
  <2>2. \A d \in 0 .. n : d = Nil \/ d \in 1 .. n
    BY DEF Nil
  <2>3. IsIndex(f, name) <=> f = [d \in 0 .. n |-> IF d = Nil THEN -1 ELSE A(d)]
    BY <1>1, Zenon DEF IsIndex
  <2> HIDE DEF A, B
  <2>4. [d \in 0 .. n |-> IF d = Nil THEN -1 ELSE A(d)] = [d \in 0 .. n |-> IF d = Nil THEN -1 ELSE B(d)]
    BY <2>1, <2>2
  <2>5. IsIndex(f, name) <=> f = [d \in 0 .. n |-> IF d = Nil THEN -1 ELSE B(d)]
    BY <2>3, <2>4
  <2> QED BY <2>5 DEF B
<1>6. \E f : IsIndex(f, name)
  <2>1. PICK F : F = [p \in (1 .. n) \X Int |-> IndexStep(cs, p[1], p[2], name)]
    OBVIOUS
  <2>2. ASSUME NEW c \in 1 .. n, NEW x \in Int
        PROVE  F[<<c, x>>] = IndexStep(cs, c, x, name) /\ F[<<c, x>>] \in Int
    <3>1. F[<<c, x>>] = IndexStep(cs, c, x, name)
      BY <2>1
    <3> QED BY <1>4, <3>1
  <2>3. Older(cs, n) /\ -1 \in Int
    BY <1>3 DEF Shaped
  <2>4. PICK f \in [0 .. n -> Int] : Heritage(f, n, cs, -1, F)
    BY <2>2, <2>3, HeritageExists
  <2>5. ASSUME NEW d \in 0 .. n
        PROVE  f[d] = IF d = Nil THEN -1 ELSE IndexStep(cs, d, f[cs[d].super], name)
    <3>1. f[d] = IF d = Nil THEN -1 ELSE F[<<d, f[cs[d].super]>>]
      BY <2>4 DEF Heritage
    <3>2. CASE d = Nil
      BY <3>1, <3>2
    <3>3. CASE d # Nil
      <4>1. d \in 1 .. n
        BY <3>3 DEF Nil
      <4>2. f[cs[d].super] \in Int
        BY <1>4, <2>4, <4>1
      <4> QED BY <2>2, <3>1, <3>3, <4>1, <4>2
    <3> QED BY <3>2, <3>3
  <2>6. f = [d \in 0 .. n |-> IF d = Nil THEN -1 ELSE IndexStep(cs, d, f[cs[d].super], name)]
    BY <2>4, <2>5
  <2> QED BY <1>5, <2>6
<1>7. PICK index : index = CHOOSE f : IsIndex(f, name)
  OBVIOUS
<1>8. IsIndex(index, name)
  BY <1>6, <1>7
<1>9. \A c : bc_class_inst_var_index(c, name) = index[c]
  BY <1>7, Zenon DEF bc_class_inst_var_index, IsIndex
<1>10. \A d \in 0 .. n : index[d] = IF d = Nil THEN -1 ELSE IndexStep(cs, d, index[cs[d].super], name)
  <2>1. index = [d \in 0 .. n |-> IF d = Nil THEN -1 ELSE IndexStep(cs, d, index[cs[d].super], name)]
    BY <1>5, <1>8
  <2> QED BY <2>1
<1> DEFINE V == {c \in 0 .. n : index[c] \in Int /\ (index[c] >= 0 => SlotHolds(cs, c, index[c], name))}
<1>11. 0 \in V
  <2>1. 0 \in 0 .. n
    OBVIOUS
  <2>2. index[0] = -1
    BY <1>10, <2>1 DEF Nil
  <2> QED BY <2>1, <2>2
<1>12. ASSUME NEW c \in 1 .. n, cs[c].super \in V PROVE c \in V
  <2>1. c \in 0 .. n /\ c # Nil
    BY DEF Nil
  <2>2. PICK x \in Int : x = index[cs[c].super] /\ (x >= 0 => SlotHolds(cs, cs[c].super, x, name))
    BY <1>12
  <2>3. PICK i : i = index[c]
    OBVIOUS
  <2>4. i = IndexStep(cs, c, x, name)
    BY <1>10, <2>1, <2>2, <2>3
  <2>5. i \in Int
    BY <1>4, <2>4
  <2>6. ASSUME i >= 0 PROVE SlotHolds(cs, c, i, name)
    <3>1. CASE x >= 0
      <4>1. i = x
        BY <2>4, <3>1 DEF IndexStep
      <4> QED BY <1>3, <2>2, <3>1, <4>1, SlotInherited
    <3>2. CASE ~(x >= 0)
      <4>1. PICK own : own = OwnPlace(cs[c].ivars, name)
        OBVIOUS
      <4>2. own # 0 /\ i = Len(LayoutOf(cs, cs[c].super)) + own - 1
        BY <2>4, <2>6, <3>2, <4>1 DEF IndexStep
      <4> QED BY <1>3, <4>1, <4>2, SlotOwn
    <3> QED BY <3>1, <3>2
  <2> QED BY <2>1, <2>3, <2>5, <2>6
<1>13. Older(cs, n)
  BY <1>3 DEF Shaped
<1>14. \A c \in 0 .. n : c \in V
  <2> HIDE DEF V
  <2> QED BY <1>11, <1>12, <1>13, HeritageInduction
<1> QED
  BY <1>1, <1>2, <1>9, <1>14

\* The variables a method of a class uses are in their slots.
FieldsHold(cs, c, method) == \A field \in method.fields : SlotHolds(cs, c, field.slot, field.name)

\* So it is with every method of a class.
MethodsHold(cs, c) ==
  IsSequence(cs[c].dict) /\ \A j \in DOMAIN cs[c].dict : FieldsHold(cs, c, cs[c].dict[j].method)

\* The recursion of class_lookup.
IsLookup(f, cs, sel) ==
  f = [d \in 0 .. Len(cs) |->
         IF d = Nil THEN NoMethod
         ELSE LET j == md_lookup(cs[d].dict, sel)
              IN  IF j # 0 THEN cs[d].dict[j].method ELSE f[cs[d].super]]

\* A method that is found in a dictionary is one of its methods.
LEMMA FoundInDict ==
  ASSUME NEW dict, IsSequence(dict), NEW sel, md_lookup(dict, sel) # 0
  PROVE  md_lookup(dict, sel) \in DOMAIN dict
<1>1. PICK S : dict \in Seq(S)
  BY DEF IsSequence
<1> DEFINE I == {i \in 1 .. Len(dict) : dict[i].sel = sel}
<1>2. I \in SUBSET Nat
  BY <1>1
<1>3. md_lookup(dict, sel) = IF I # {} THEN Min(I) ELSE 0
  BY DEF md_lookup, SelectInSeq
<1>4. I # {}
  BY <1>3
<1>5. Min(I) \in I
  BY <1>2, <1>4, MinIsElement
<1>6. Min(I) \in 1 .. Len(dict)
  BY <1>5
<1> HIDE DEF I
<1> QED
  BY <1>1, <1>3, <1>4, <1>6

\* Whatever method an instance of a class runs, the variables it uses are in
\* their slots there.
LEMMA LookupHolds ==
  ASSUME Shaped(classes), \A c \in 1 .. Len(classes) : MethodsHold(classes, c), NEW sel
  PROVE  \A c \in 0 .. Len(classes) : FieldsHold(classes, c, class_lookup(c, sel))
<1>1. PICK n \in Nat : n = Len(classes)
  BY DEF Shaped
<1>2. PICK cs : cs = classes
  OBVIOUS
<1>3. Shaped(cs) /\ n = Len(cs) /\ \A c \in 1 .. n : MethodsHold(cs, c)
  BY <1>1, <1>2
<1>4. Older(cs, n)
  BY <1>3 DEF Shaped
<1> DEFINE Step(d, x) == IF md_lookup(cs[d].dict, sel) # 0
                         THEN cs[d].dict[md_lookup(cs[d].dict, sel)].method ELSE x
<1>5. PICK M : M = {NoMethod} \cup UNION {{cs[d].dict[j].method : j \in DOMAIN cs[d].dict} : d \in 1 .. n}
  OBVIOUS
<1>6. ASSUME NEW d \in 1 .. n, NEW x \in M PROVE Step(d, x) \in M
  <2>1. PICK j : j = md_lookup(cs[d].dict, sel)
    OBVIOUS
  <2>2. CASE j = 0
    BY <1>6, <2>1, <2>2
  <2>3. CASE j # 0
    <3>1. IsSequence(cs[d].dict)
      BY <1>3 DEF MethodsHold
    <3>2. j \in DOMAIN cs[d].dict
      BY <2>1, <2>3, <3>1, FoundInDict
    <3> QED BY <1>5, <2>1, <2>3, <3>2
  <2> QED BY <2>2, <2>3
<1>7. PICK F : F = [p \in (1 .. n) \X M |-> Step(p[1], p[2])]
  OBVIOUS
<1>8. NoMethod \in M
  BY <1>5
<1> HIDE DEF Step
<1>9. ASSUME NEW d \in 1 .. n, NEW x \in M PROVE F[<<d, x>>] = Step(d, x) /\ F[<<d, x>>] \in M
  BY <1>6, <1>7
<1>10. PICK f \in [0 .. n -> M] : Heritage(f, n, cs, NoMethod, F)
  BY <1>4, <1>8, <1>9, HeritageExists
<1>11. ASSUME NEW d \in 0 .. n
       PROVE  f[d] = IF d = Nil THEN NoMethod ELSE Step(d, f[cs[d].super])
  <2>1. f[d] = IF d = Nil THEN NoMethod ELSE F[<<d, f[cs[d].super]>>]
    BY <1>10 DEF Heritage
  <2>2. CASE d = Nil
    BY <2>1, <2>2
  <2>3. CASE d # Nil
    <3>1. d \in 1 .. n
      BY <2>3 DEF Nil
    <3>2. cs[d].super \in 0 .. d - 1
      BY <1>4, <3>1 DEF Older
    <3>3. cs[d].super \in 0 .. n
      BY <3>1, <3>2
    <3>4. f[cs[d].super] \in M
      BY <1>10, <3>3
    <3> QED BY <1>9, <2>1, <2>3, <3>1, <3>4
  <2> QED BY <2>2, <2>3
<1>12. ASSUME NEW g
       PROVE  IsLookup(g, cs, sel) <=>
                g = [d \in 0 .. n |-> IF d = Nil THEN NoMethod ELSE Step(d, g[cs[d].super])]
  BY <1>3, Zenon DEF IsLookup, Step
<1>13. \E g : IsLookup(g, cs, sel)
  <2>1. f = [d \in 0 .. n |-> IF d = Nil THEN NoMethod ELSE Step(d, f[cs[d].super])]
    BY <1>10, <1>11
  <2> QED BY <1>12, <2>1
<1>14. PICK found : found = CHOOSE g : IsLookup(g, cs, sel)
  OBVIOUS
<1>15. IsLookup(found, cs, sel)
  BY <1>13, <1>14
<1>16. \A c : class_lookup(c, sel) = found[c]
  BY <1>2, <1>14, Zenon DEF class_lookup, IsLookup
<1>17. \A d \in 0 .. n : found[d] = IF d = Nil THEN NoMethod ELSE Step(d, found[cs[d].super])
  <2>1. found = [d \in 0 .. n |-> IF d = Nil THEN NoMethod ELSE Step(d, found[cs[d].super])]
    BY <1>12, <1>15
  <2> QED BY <2>1
<1> DEFINE V == {c \in 0 .. n : FieldsHold(cs, c, found[c])}
<1>18. 0 \in V
  <2>1. 0 \in 0 .. n
    OBVIOUS
  <2>2. found[0] = NoMethod
    BY <1>17, <2>1 DEF Nil
  <2>3. FieldsHold(cs, 0, NoMethod)
    BY DEF FieldsHold, NoMethod
  <2> QED BY <2>1, <2>2, <2>3
<1>19. ASSUME NEW c \in 1 .. n, cs[c].super \in V PROVE c \in V
  <2>1. c \in 0 .. n /\ c # Nil
    BY DEF Nil
  <2>2. found[c] = Step(c, found[cs[c].super])
    BY <1>17, <2>1
  <2>3. PICK j : j = md_lookup(cs[c].dict, sel)
    OBVIOUS
  <2>4. CASE j # 0
    <3>1. MethodsHold(cs, c)
      BY <1>3
    <3>2. j \in DOMAIN cs[c].dict
      BY <2>3, <2>4, <3>1, FoundInDict DEF MethodsHold
    <3>3. found[c] = cs[c].dict[j].method
      BY <2>2, <2>3, <2>4 DEF Step
    <3> QED BY <2>1, <3>1, <3>2, <3>3 DEF MethodsHold
  <2>5. CASE j = 0
    <3>1. found[c] = found[cs[c].super]
      BY <2>2, <2>3, <2>5 DEF Step
    <3>2. FieldsHold(cs, cs[c].super, found[c])
      BY <1>19, <3>1
    <3>3. FieldsHold(cs, c, found[c])
      BY <1>3, <3>2, SlotInherited DEF FieldsHold
    <3> QED BY <2>1, <3>3
  <2> QED BY <2>4, <2>5
<1>20. \A c \in 0 .. n : c \in V
  <2> HIDE DEF V
  <2> QED BY <1>4, <1>18, <1>19, HeritageInduction
<1> QED
  BY <1>1, <1>2, <1>16, <1>20

-----------------------------------------------------------------------------
(* The layouts of classes as a part of the inductive invariant. *)

\* A class has room for its variables, its metaclass has none, and its methods
\* use variables in their slots.
LaidOut(cs, c) ==
  /\ Len(LayoutOf(cs, c)) <= cs[c].size
  /\ LayoutOf(cs, cs[c].meta) = <<>>
  /\ MethodsHold(cs, c)

ClassesLaidOut(cs) ==
  /\ Shaped(cs)
  /\ LayoutOf(cs, Class) = <<>>
  /\ \A c \in 1 .. Len(cs) : LaidOut(cs, c)

\* A call in progress is one of the host's.
CallKnown == call.stage \in {"define", "parse", "install"} => <<call.kind, call.file>> \in Calls

LInv == IInv /\ ClassesLaidOut(classes) /\ CallKnown

\* A method compiled before its class is known numbers its variables by first
\* use (bc_compile_method_chunks has no class to look at): the loads in which
\* such methods mention no names.
CompiledWithoutNames ==
  \A c \in Calls : c[1] = "compiled" =>
    \A k \in DOMAIN c[2].segs : c[2].segs[k].kind = "method" => c[2].segs[k].uses = <<>>

\* FieldsMatchLayout follows.
LEMMA LaidOutMatches ==
  ASSUME LInv
  PROVE  FieldsMatchLayout
<1>1. PICK n \in Nat : n = Len(classes)
  BY DEF LInv, ClassesLaidOut, Shaped
<1>2. DOMAIN classes = 1 .. n
  BY <1>1 DEF LInv, IInv, ClassesOK, IsSequence
<1>3. \A c : Layout(c) = LayoutOf(classes, c)
  BY Zenon DEF Layout, LayoutOf, IsLayout
<1>4. SUFFICES ASSUME NEW c \in 1 .. n, NEW sel, NEW field \in class_lookup(c, sel).fields
               PROVE  /\ field.slot < classes[c].size
                      /\ field.slot < Len(Layout(c))
                      /\ Layout(c)[field.slot + 1] = field.name
  BY <1>2 DEF FieldsMatchLayout
<1>5. FieldsHold(classes, c, class_lookup(c, sel))
  <2>1. Shaped(classes) /\ \A d \in 1 .. Len(classes) : MethodsHold(classes, d)
    BY DEF LInv, ClassesLaidOut, LaidOut
  <2>2. \A d \in 0 .. Len(classes) : FieldsHold(classes, d, class_lookup(d, sel))
    BY <2>1, LookupHolds
  <2>3. c \in 0 .. Len(classes)
    BY <1>1
  <2> QED BY <2>2, <2>3
<1>6. SlotHolds(classes, c, field.slot, field.name)
  BY <1>4, <1>5 DEF FieldsHold
<1>7. PICK l \in Nat : l = Len(LayoutOf(classes, c))
  <2>1. LayoutOf(classes, c) \in Seq(STRING)
    <3>1. c \in 0 .. Len(classes)
      BY <1>1
    <3> QED BY <3>1, LayoutTyped DEF LInv, ClassesLaidOut
  <2> QED BY <2>1
<1>8. l <= classes[c].size /\ classes[c].size \in Nat
  BY <1>1, <1>2, <1>7 DEF LInv, ClassesLaidOut, LaidOut, IInv, ClassesOK, ClassOK
<1>9. field.slot \in 0 .. l - 1 /\ LayoutOf(classes, c)[field.slot + 1] = field.name
  BY <1>6, <1>7 DEF SlotHolds
<1>10. PICK size \in Nat : size = classes[c].size
  BY <1>8
<1>11. field.slot < size
  BY <1>8, <1>9, <1>10
<1> QED
  BY <1>3, <1>7, <1>9, <1>10, <1>11

\* A class is laid out among other classes as it was, if it and the layouts are
\* the same.
LEMMA LaidOutStays ==
  ASSUME NEW cs, NEW cs2, NEW c, LaidOut(cs, c),
         cs2[c].size = cs[c].size, cs2[c].meta = cs[c].meta,
         LayoutOf(cs2, c) = LayoutOf(cs, c),
         LayoutOf(cs2, cs[c].meta) = LayoutOf(cs, cs[c].meta)
  PROVE  /\ Len(LayoutOf(cs2, c)) <= cs2[c].size
         /\ LayoutOf(cs2, cs2[c].meta) = <<>>
         /\ \A method : FieldsHold(cs, c, method) => FieldsHold(cs2, c, method)
         /\ cs2[c].dict = cs[c].dict => LaidOut(cs2, c)
<1>1. Len(LayoutOf(cs2, c)) <= cs2[c].size /\ LayoutOf(cs2, cs2[c].meta) = <<>>
  BY DEF LaidOut
<1>2. \A method : FieldsHold(cs, c, method) => FieldsHold(cs2, c, method)
  BY DEF FieldsHold, SlotHolds
<1>3. ASSUME cs2[c].dict = cs[c].dict PROVE MethodsHold(cs2, c)
  <2>1. IsSequence(cs[c].dict) /\ \A j \in DOMAIN cs[c].dict : FieldsHold(cs, c, cs[c].dict[j].method)
    BY DEF LaidOut, MethodsHold
  <2> QED BY <1>2, <1>3, <2>1 DEF MethodsHold
<1> QED
  BY <1>1, <1>2, <1>3 DEF LaidOut

\* The kernel: two classes without variables.
LEMMA KernelLaidOut == ClassesLaidOut(Kernel)
<1>1. PICK x : x = NewClass(Nil, Class, <<>>, 0, "fields")
  OBVIOUS
<1>2. PICK y : y = NewClass(Nil, Class, <<>>, 5, "fields")
  OBVIOUS
<1>3. PICK cs : cs = <<x, y>>
  OBVIOUS
<1>4. cs = Kernel
  BY <1>1, <1>2, <1>3 DEF Kernel
<1>5. Len(cs) = 2 /\ cs[1] = x /\ cs[2] = y
  BY <1>3
<1>6. /\ x.super = 0 /\ x.meta = 2 /\ x.ivars = <<>> /\ x.size = 0 /\ x.dict = <<>>
      /\ y.super = 0 /\ y.meta = 2 /\ y.ivars = <<>> /\ y.size = 5 /\ y.dict = <<>>
  BY <1>1, <1>2 DEF NewClass, Nil, Class
<1>7. \A c \in 1 .. 2 : cs[c].super = 0 /\ cs[c].meta = 2 /\ cs[c].ivars = <<>>
                          /\ cs[c].size \in Nat /\ cs[c].dict = <<>>
  <2>1. \A c \in 1 .. 2 : c = 1 \/ c = 2
    OBVIOUS
  <2> QED BY <1>5, <1>6, <2>1
<1>8. Shaped(cs)
  <2>1. Older(cs, 2)
    BY <1>7 DEF Older
  <2>2. <<>> \in Seq(STRING)
    OBVIOUS
  <2>3. \A c \in 1 .. 2 : cs[c].ivars \in Seq(STRING)
    BY <1>7, <2>2
  <2>4. Len(cs) \in Nat /\ Older(cs, Len(cs))
    BY <1>5, <2>1
  <2> QED BY <1>5, <2>3, <2>4 DEF Shaped
<1>9. \A c \in 1 .. 2 : LayoutOf(cs, c) = <<>>
  <2> TAKE c \in 1 .. 2
  <2>1. LayoutOf(cs, 0) = <<>>
    BY <1>8, LayoutSteps
  <2>2. LayoutOf(cs, c) = LayoutOf(cs, cs[c].super) \o cs[c].ivars
    BY <1>5, <1>8, LayoutSteps
  <2>3. <<>> \o <<>> = <<>>
    OBVIOUS
  <2> QED BY <1>7, <2>1, <2>2, <2>3
<1>10. \A c \in 1 .. 2 : LaidOut(cs, c)
  <2> TAKE c \in 1 .. 2
  <2>1. Len(<<>>) = 0 /\ <<>> \in Seq(Nat) /\ DOMAIN <<>> = {} /\ 2 \in 1 .. 2
    OBVIOUS
  <2>2. MethodsHold(cs, c)
    BY <1>7, <2>1 DEF MethodsHold, IsSequence
  <2>3. PICK size \in Nat : size = cs[c].size
    BY <1>7
  <2>4. Len(LayoutOf(cs, c)) <= size
    BY <1>9, <2>1
  <2>5. LayoutOf(cs, cs[c].meta) = <<>>
    BY <1>7, <1>9, <2>1
  <2> QED BY <2>2, <2>3, <2>4, <2>5 DEF LaidOut
<1>11. LayoutOf(cs, Class) = <<>>
  BY <1>9 DEF Class
<1>12. ClassesLaidOut(cs)
  BY <1>5, <1>8, <1>10, <1>11 DEF ClassesLaidOut
<1> QED
  BY <1>4, <1>12

\* A new class and its metaclass.
LEMMA DefinedLaidOut ==
  ASSUME NEW cs, NEW g, ClassesOK(cs, g), ClassesLaidOut(cs),
         NEW super \in 0 .. Len(cs), NEW ivars \in Seq(STRING), NEW format, NEW above, NEW size,
         above = IF super = Nil THEN Class ELSE cs[super].meta,
         size = (IF super = Nil THEN 0 ELSE cs[super].size) + Len(ivars)
  PROVE  ClassesLaidOut(cs \o <<NewClass(above, Class, <<>>, 0, "fields"),
                                NewClass(super, Len(cs) + 1, ivars, size, format)>>)
<1>1. PICK x : x = NewClass(above, Class, <<>>, 0, "fields")
  OBVIOUS
<1>2. PICK y : y = NewClass(super, Len(cs) + 1, ivars, size, format)
  OBVIOUS
<1> DEFINE t == cs \o <<x, y>>
<1> HIDE DEF t
<1>3. PICK n \in Nat : n = Len(cs)
  BY DEF ClassesLaidOut, Shaped
<1>4. /\ Len(t) = n + 2
      /\ \A i \in 1 .. n : t[i] = cs[i]
      /\ t[n + 1] = x /\ t[n + 2] = y
  <2>1. IsSequence(cs)
    BY DEF ClassesOK
  <2>2. /\ Len(t) = Len(cs) + 2
        /\ \A i \in 1 .. Len(cs) : t[i] = cs[i]
        /\ t[Len(cs) + 1] = x /\ t[Len(cs) + 2] = y
    BY <2>1, TwoMore DEF t
  <2> QED BY <1>3, <2>2
<1>5. n >= 2 /\ \A c \in 1 .. n : ClassOK(cs[c], c, n, g)
  <2>1. DOMAIN cs = 1 .. n
    BY <1>3 DEF ClassesOK, IsSequence
  <2> QED BY <1>3, <2>1 DEF ClassesOK
<1>6. \A c \in 1 .. n : cs[c].super \in 0 .. c - 1 /\ cs[c].meta \in 1 .. n /\ cs[c].size \in Nat
  BY <1>5 DEF ClassOK
<1>7. above \in 1 .. n /\ LayoutOf(cs, above) = <<>>
  <2>1. CASE super = Nil
    BY <1>5, <2>1 DEF Class, ClassesLaidOut
  <2>2. CASE super # Nil
    <3>1. super \in 1 .. n
      BY <1>3, <2>2 DEF Nil
    <3> QED BY <1>3, <1>6, <2>2, <3>1 DEF ClassesLaidOut, LaidOut
  <2> QED BY <2>1, <2>2
<1>8. /\ x.super = above /\ x.meta = 2 /\ x.ivars = <<>> /\ x.size = 0 /\ x.dict = <<>>
      /\ y.super = super /\ y.meta = n + 1 /\ y.ivars = ivars /\ y.size = size /\ y.dict = <<>>
  BY <1>1, <1>2, <1>3 DEF NewClass, Class
<1>9. \A c \in 1 .. n + 2 : c \in 1 .. n \/ c = n + 1 \/ c = n + 2
  OBVIOUS
<1>10. Shaped(t)
  <2>1. Older(t, n + 2)
    <3> SUFFICES ASSUME NEW c \in 1 .. n + 2 PROVE t[c].super \in 0 .. c - 1
      BY DEF Older
    <3>1. CASE c \in 1 .. n
      BY <1>4, <1>6, <3>1
    <3>2. CASE c = n + 1
      BY <1>4, <1>7, <1>8, <3>2
    <3>3. CASE c = n + 2
      BY <1>3, <1>4, <1>8, <3>3
    <3> QED BY <1>9, <3>1, <3>2, <3>3
  <2>2. \A c \in 1 .. n + 2 : t[c].ivars \in Seq(STRING)
    <3> TAKE c \in 1 .. n + 2
    <3>1. CASE c \in 1 .. n
      BY <1>3, <1>4, <3>1 DEF ClassesLaidOut, Shaped
    <3>2. CASE c = n + 1
      <4>1. <<>> \in Seq(STRING)
        OBVIOUS
      <4> QED BY <1>4, <1>8, <3>2, <4>1
    <3>3. CASE c = n + 2
      BY <1>4, <1>8, <3>3
    <3> QED BY <1>9, <3>1, <3>2, <3>3
  <2> QED BY <1>4, <2>1, <2>2 DEF Shaped
<1>11. \A c \in 0 .. n : LayoutOf(t, c) = LayoutOf(cs, c)
  <2>1. Shaped(cs) /\ Len(cs) <= Len(t)
    BY <1>3, <1>4 DEF ClassesLaidOut
  <2>2. \A c \in 1 .. Len(cs) : t[c].super = cs[c].super /\ t[c].ivars = cs[c].ivars
    BY <1>3, <1>4
  <2> QED BY <1>3, <1>10, <2>1, <2>2, LayoutStays
<1>12. n + 1 \in 1 .. Len(t) /\ n + 2 \in 1 .. Len(t)
  BY <1>4
<1>13. LayoutOf(t, n + 1) = <<>>
  <2>0. \A c \in 1 .. Len(t) : LayoutOf(t, c) = LayoutOf(t, t[c].super) \o t[c].ivars
    BY <1>10, LayoutSteps
  <2>1. LayoutOf(t, n + 1) = LayoutOf(t, above) \o <<>>
    BY <1>4, <1>8, <1>12, <2>0
  <2>2. LayoutOf(t, above) = <<>>
    BY <1>7, <1>11
  <2>3. <<>> \o <<>> = <<>>
    OBVIOUS
  <2> QED BY <2>1, <2>2, <2>3
<1>14. PICK s \in Seq(STRING) : s = LayoutOf(cs, super)
  <2>1. LayoutOf(cs, super) \in Seq(STRING)
    BY LayoutTyped DEF ClassesLaidOut
  <2> QED BY <2>1
<1>15. LayoutOf(t, n + 2) = s \o ivars
  <2>1. LayoutOf(t, n + 2) = LayoutOf(t, super) \o ivars
    BY <1>4, <1>8, <1>10, <1>12, LayoutSteps
  <2> QED BY <1>3, <1>11, <1>14, <2>1
<1>16. Len(s \o ivars) <= size
  <2>1. PICK room \in Nat : room = (IF super = Nil THEN 0 ELSE cs[super].size) /\ Len(s) <= room
    <3>1. CASE super = Nil
      <4>1. LayoutOf(cs, 0) = <<>>
        BY LayoutSteps DEF ClassesLaidOut
      <4>2. Len(s) = 0
        BY <1>14, <3>1, <4>1 DEF Nil
      <4> QED BY <3>1, <4>2
    <3>2. CASE super # Nil
      <4>1. super \in 1 .. n
        BY <1>3, <3>2 DEF Nil
      <4>2. cs[super].size \in Nat /\ Len(LayoutOf(cs, super)) <= cs[super].size
        BY <1>3, <1>6, <4>1 DEF ClassesLaidOut, LaidOut
      <4> QED BY <1>14, <3>2, <4>2
    <3> QED BY <3>1, <3>2
  <2>2. size = room + Len(ivars) /\ Len(s \o ivars) = Len(s) + Len(ivars)
    BY <2>1
  <2> QED BY <2>1, <2>2
<1>17. \A c \in 1 .. n : LaidOut(t, c)
  <2> TAKE c \in 1 .. n
  <2>1. LaidOut(cs, c)
    BY <1>3 DEF ClassesLaidOut
  <2>2. c \in 0 .. n /\ cs[c].meta \in 0 .. n
    BY <1>6
  <2>3. t[c].size = cs[c].size /\ t[c].meta = cs[c].meta /\ t[c].dict = cs[c].dict
    BY <1>4
  <2>4. LayoutOf(t, c) = LayoutOf(cs, c) /\ LayoutOf(t, cs[c].meta) = LayoutOf(cs, cs[c].meta)
    BY <1>11, <2>2
  <2> QED BY <2>1, <2>3, <2>4, LaidOutStays
<1>18. LayoutOf(t, Class) = <<>>
  <2>1. Class \in 0 .. n
    BY <1>5 DEF Class
  <2> QED BY <1>11, <2>1 DEF ClassesLaidOut
<1>19. \A c \in {n + 1, n + 2} : MethodsHold(t, c)
  <2>1. <<>> \in Seq(Nat) /\ DOMAIN <<>> = {}
    OBVIOUS
  <2>2. \A c \in {n + 1, n + 2} : t[c].dict = <<>>
    BY <1>4, <1>8
  <2> QED BY <2>1, <2>2 DEF MethodsHold, IsSequence
<1>20. LaidOut(t, n + 1)
  <2>1. Len(<<>>) = 0 /\ Len(<<>>) <= 0
    OBVIOUS
  <2>2. t[n + 1].size = 0 /\ t[n + 1].meta = Class
    BY <1>4, <1>8 DEF Class
  <2> QED BY <1>13, <1>18, <1>19, <2>1, <2>2 DEF LaidOut
<1>21. LaidOut(t, n + 2)
  <2>1. t[n + 2].size = size /\ t[n + 2].meta = n + 1
    BY <1>4, <1>8
  <2> QED BY <1>13, <1>15, <1>16, <1>19, <2>1 DEF LaidOut
<1>22. ClassesLaidOut(t)
  <2>1. \A c \in 1 .. n + 2 : LaidOut(t, c)
    BY <1>9, <1>17, <1>20, <1>21
  <2> QED BY <1>4, <1>10, <1>18, <2>1 DEF ClassesLaidOut
<1> QED
  BY <1>1, <1>2, <1>22 DEF t

\* A method whose variables are in their slots, behind the others of its class.
LEMMA InstalledLaidOut ==
  ASSUME NEW cs, NEW g, ClassesOK(cs, g), ClassesLaidOut(cs), NEW c \in 1 .. Len(cs),
         NEW sel, NEW method, FieldsHold(cs, c, method)
  PROVE  ClassesLaidOut(Installed(cs, c, sel, method))
<1>1. PICK n \in Nat : n = Len(cs)
  BY DEF ClassesLaidOut, Shaped
<1>2. PICK S : cs \in Seq(S)
  BY DEF ClassesOK, IsSequence
<1>3. DOMAIN cs = 1 .. n
  BY <1>1, <1>2
<1>4. PICK k : k = cs[c]
  OBVIOUS
<1>5. ClassOK(k, c, n, g)
  BY <1>1, <1>3, <1>4 DEF ClassesOK
<1>6. PICK pair : pair = [sel |-> sel, method |-> method]
  OBVIOUS
<1>7. PICK R : k.dict \in Seq(R)
  BY <1>5 DEF ClassOK, IsSequence
<1>8. PICK Q : Q = R \cup {pair}
  OBVIOUS
<1>9. k.dict \in Seq(Q) /\ pair \in Q
  BY <1>7, <1>8
<1>10. PICK dict : dict = Append(k.dict, pair)
  OBVIOUS
<1>11. /\ dict \in Seq(Q) /\ DOMAIN dict = 1 .. Len(k.dict) + 1
       /\ \A i \in DOMAIN k.dict : dict[i] = k.dict[i]
       /\ dict[Len(k.dict) + 1] = pair
       /\ DOMAIN k.dict = 1 .. Len(k.dict) /\ Len(k.dict) \in Nat
  BY <1>9, <1>10, AppendedSet
<1>12. PICK l : l = [super |-> k.super, meta |-> k.meta, ivars |-> k.ivars, size |-> k.size,
                     format |-> k.format, dict |-> dict]
  OBVIOUS
<1>13. PICK t : t = [cs EXCEPT ![c] = l]
  OBVIOUS
<1>14. Installed(cs, c, sel, method) = t
  <2>1. [k EXCEPT !.dict = dict] = l
    <3>1. k = [super |-> k.super, meta |-> k.meta, ivars |-> k.ivars, size |-> k.size,
               format |-> k.format, dict |-> k.dict]
      BY <1>5 DEF ClassOK
    <3> QED BY <1>12, <3>1
  <2>2. [cs EXCEPT ![c].dict = bc_append_method_dict(@, sel, method)]
          = [cs EXCEPT ![c] = [k EXCEPT !.dict = dict]]
    BY <1>4, <1>6, <1>10 DEF bc_append_method_dict
  <2> QED BY <1>13, <2>1, <2>2, Zenon DEF Installed
<1>15. Len(t) = n /\ \A i \in 1 .. n : t[i] = IF i = c THEN l ELSE cs[i]
  BY <1>1, <1>2, <1>3, <1>13
<1>16. \A i \in 1 .. n : /\ t[i].super = cs[i].super /\ t[i].ivars = cs[i].ivars
                          /\ t[i].size = cs[i].size /\ t[i].meta = cs[i].meta
                          /\ t[i].dict = IF i = c THEN dict ELSE cs[i].dict
  <2> TAKE i \in 1 .. n
  <2>1. CASE i = c
    BY <1>4, <1>12, <1>15, <2>1
  <2>2. CASE i # c
    BY <1>15, <2>2
  <2> QED BY <2>1, <2>2
<1>17. Shaped(t)
  <2>1. Older(cs, n) /\ \A i \in 1 .. n : cs[i].ivars \in Seq(STRING)
    BY <1>1 DEF ClassesLaidOut, Shaped
  <2>2. Older(t, n)
    BY <1>16, <2>1 DEF Older
  <2>3. Len(t) \in Nat /\ Older(t, Len(t))
    BY <1>15, <2>2
  <2>4. \A i \in 1 .. n : t[i].ivars \in Seq(STRING)
    BY <1>16, <2>1
  <2> QED BY <1>15, <2>3, <2>4 DEF Shaped
<1>18. \A i \in 0 .. n : LayoutOf(t, i) = LayoutOf(cs, i)
  <2>1. Shaped(cs) /\ Len(cs) <= Len(t)
    BY <1>1, <1>15 DEF ClassesLaidOut
  <2>2. \A i \in 1 .. Len(cs) : t[i].super = cs[i].super /\ t[i].ivars = cs[i].ivars
    BY <1>1, <1>16
  <2> QED BY <1>1, <1>17, <2>1, <2>2, LayoutStays
<1>19. \A i \in 1 .. n : LaidOut(t, i)
  <2> TAKE i \in 1 .. n
  <2>1. LaidOut(cs, i)
    BY <1>1 DEF ClassesLaidOut
  <2>2. ClassOK(cs[i], i, n, g)
    BY <1>1, <1>3 DEF ClassesOK
  <2>3. i \in 0 .. n /\ cs[i].meta \in 0 .. n
    BY <2>2 DEF ClassOK
  <2>4. LayoutOf(t, i) = LayoutOf(cs, i) /\ LayoutOf(t, cs[i].meta) = LayoutOf(cs, cs[i].meta)
    BY <1>18, <2>3
  <2>5. /\ Len(LayoutOf(t, i)) <= t[i].size
        /\ LayoutOf(t, t[i].meta) = <<>>
        /\ \A m : FieldsHold(cs, i, m) => FieldsHold(t, i, m)
        /\ t[i].dict = cs[i].dict => LaidOut(t, i)
    BY <1>16, <2>1, <2>4, LaidOutStays
  <2>6. CASE i # c
    BY <1>16, <2>5, <2>6
  <2>7. CASE i = c
    <3>1. t[i].dict = dict
      BY <1>16, <2>7
    <3>2. ASSUME NEW j \in DOMAIN dict PROVE FieldsHold(t, i, dict[j].method)
      <4>1. j \in DOMAIN k.dict \/ j = Len(k.dict) + 1
        BY <1>11
      <4>2. CASE j \in DOMAIN k.dict
        <5>1. FieldsHold(cs, i, k.dict[j].method)
          BY <1>4, <2>1, <2>7, <4>2 DEF LaidOut, MethodsHold
        <5> QED BY <1>11, <2>5, <4>2, <5>1
      <4>3. CASE j = Len(k.dict) + 1
        <5>1. dict[j].method = method
          BY <1>6, <1>11, <4>3
        <5> QED BY <2>5, <2>7, <5>1
      <4> QED BY <4>1, <4>2, <4>3
    <3>3. IsSequence(dict)
      BY <1>11 DEF IsSequence
    <3>4. MethodsHold(t, i)
      BY <3>1, <3>2, <3>3 DEF MethodsHold
    <3> QED BY <2>5, <3>4 DEF LaidOut
  <2> QED BY <2>6, <2>7
<1>20. LayoutOf(t, Class) = <<>>
  <2>1. Class \in 0 .. n
    BY <1>1 DEF ClassesOK, Class
  <2> QED BY <1>18, <2>1 DEF ClassesLaidOut
<1>21. ClassesLaidOut(t)
  BY <1>15, <1>17, <1>19, <1>20 DEF ClassesLaidOut
<1> QED
  BY <1>14, <1>21

\* What is compiled for a class uses its variables in their slots.
LEMMA FieldsCompiled ==
  ASSUME Shaped(classes), NEW target \in 1 .. Len(classes), NEW uses, NEW field \in Fields(uses, target)
  PROVE  SlotHolds(classes, target, field.slot, field.name)
<1>1. PICK name : field = [name |-> name, slot |-> cg_inst_var_index(uses, target, name)]
                    /\ cg_inst_var_index(uses, target, name) >= 0
  BY DEF Fields
<1>2. target # Nil /\ target \in 0 .. Len(classes)
  BY DEF Nil, Shaped
<1>3. cg_inst_var_index(uses, target, name) = bc_class_inst_var_index(target, name)
  BY <1>2 DEF cg_inst_var_index
<1>4. PICK i : i = bc_class_inst_var_index(target, name)
  OBVIOUS
<1>5. i >= 0 => SlotHolds(classes, target, i, name)
  BY <1>2, <1>4, IndexHolds
<1>6. field.name = name /\ field.slot = i /\ i >= 0
  BY <1>1, <1>3, <1>4
<1> QED
  BY <1>5, <1>6

\* A method is installed.
LEMMA InstallLaysOut ==
  ASSUME LInv, CompiledWithoutNames, Install
  PROVE  ClassesLaidOut(classes')
<1>1. PICK n \in Nat : n = Len(classes)
  BY BindingsOK DEF LInv
<1>2. PICK chunk : chunk = Chunks[call.step]
  OBVIOUS
<1>3. PICK m : m = chunk.method
  OBVIOUS
<1>4. PICK c : c = bc_lookup_class_named(call.bound, image, chunk.at.class)
  OBVIOUS
<1>5. PICK target : target = bc_target_class_for_method(c, chunk)
  OBVIOUS
<1>6. PICK against : against = IF call.kind = "compiled" THEN Nil ELSE target
  OBVIOUS
<1>7. /\ call.stage = "install" /\ call.step <= Len(Chunks) /\ c # Nil /\ m.header = "ok"
      /\ UNCHANGED classes \/
         \E refs : classes' = [classes EXCEPT ![target].dict =
                     bc_append_method_dict(@, m.sel, [text |-> m, fields |-> Fields(m.uses, against),
                                                      refs |-> refs])]
  BY <1>2, <1>3, <1>4, <1>5, <1>6, Zenon DEF Install
<1>8. CASE UNCHANGED classes
  BY <1>8 DEF LInv
<1>9. ASSUME NEW refs,
             classes' = [classes EXCEPT ![target].dict =
                     bc_append_method_dict(@, m.sel, [text |-> m, fields |-> Fields(m.uses, against),
                                                      refs |-> refs])]
      PROVE  ClassesLaidOut(classes')
  <2>1. PICK cs : cs = classes
    OBVIOUS
  <2>2. PICK method : method = [text |-> m, fields |-> Fields(m.uses, against), refs |-> refs]
    OBVIOUS
  <2>3. PICK sel : sel = m.sel
    OBVIOUS
  <2>4. classes' = Installed(cs, target, sel, method)
    BY <1>9, <2>1, <2>2, <2>3, Zenon DEF Installed
  <2>5. target \in 1 .. n
    BY <1>1, <1>4, <1>5, <1>7, TargetOK DEF LInv
  <2>6. FieldsHold(cs, target, method)
    <3>1. CASE call.kind # "compiled"
      <4>1. against = target
        BY <1>6, <3>1
      <4>2. \A field \in Fields(m.uses, target) : SlotHolds(classes, target, field.slot, field.name)
        BY <1>1, <2>5, FieldsCompiled DEF LInv, ClassesLaidOut
      <4> QED BY <2>1, <2>2, <4>1, <4>2 DEF FieldsHold
    <3>2. CASE call.kind = "compiled"
      <4>1. PICK f : f = call.file
        OBVIOUS
      <4>2. PICK k \in 1 .. Len(f.segs) : m = AsMethod(f.segs[k])
        BY <1>2, <1>3, <1>7, <4>1, ChunkOK DEF LInv
      <4>3. <<"compiled", f>> \in Calls
        BY <1>7, <3>2, <4>1 DEF LInv, CallKnown
      <4>4. k \in DOMAIN f.segs
        <5>1. f.segs \in Seq(Segment)
          BY <1>7, <4>1 DEF LInv, IInv, CallOK, FileOK
        <5> QED BY <5>1
      <4>5. m.uses = <<>>
        <5>1. CASE f.segs[k].kind = "method"
          <6>1. \A a \in Calls : a[1] = "compiled" =>
                  \A i \in DOMAIN a[2].segs : a[2].segs[i].kind = "method" => a[2].segs[i].uses = <<>>
            BY DEF CompiledWithoutNames
          <6>2. PICK a \in Calls : a = <<"compiled", f>>
            BY <4>3
          <6>3. a[1] = "compiled" /\ a[2] = f
            BY <6>2
          <6>4. f.segs[k].uses = <<>>
            BY <4>4, <5>1, <6>1, <6>3
          <6> QED BY <4>2, <5>1, <6>4 DEF AsMethod
        <5>2. CASE f.segs[k].kind # "method"
          BY <4>2, <5>2 DEF AsMethod
        <5> QED BY <5>1, <5>2
      <4>6. Fields(<<>>, against) = {}
        <5>1. ToSet(<<>>) = {}
          BY DEF ToSet
        <5> QED BY <5>1 DEF Fields
      <4> QED BY <2>2, <4>5, <4>6 DEF FieldsHold
    <3> QED BY <3>1, <3>2
  <2>7. PICK g : ClassesOK(cs, g) /\ ClassesLaidOut(cs)
    BY <2>1 DEF LInv, IInv
  <2> QED BY <1>1, <2>1, <2>4, <2>5, <2>6, <2>7, InstalledLaidOut
<1> QED
  BY <1>7, <1>8, <1>9

\* A declaration adds a class with a layout of its own.
LEMMA DefineLaysOut ==
  ASSUME LInv, Define
  PROVE  ClassesLaidOut(classes')
<1>1. PICK n \in Nat : n = Len(classes)
  BY BindingsOK DEF LInv
<1>2. PICK d : d = call.file.decls[call.step]
  OBVIOUS
<1>3. PICK super : super = SuperclassOf(d, call.bound)
  OBVIOUS
<1>4. ImageOK(image, n) /\ CallOK(call, n) /\ call.stage = "define"
  BY <1>1 DEF LInv, IInv, Define
<1>5. d \in Declaration
  BY <1>2, <1>4 DEF CallOK, FileOK
<1>6. super \in 0 .. n
  <2>1. bc_lookup_class_named(call.bound, image, d.super) \in 0 .. n
    BY <1>4, ClassLookup DEF CallOK
  <2> QED BY <1>3, <2>1 DEF SuperclassOf, Nil
<1>7. PICK above : above = IF super = Nil THEN Class ELSE classes[super].meta
  OBVIOUS
<1>8. PICK size : size = (IF super = Nil THEN 0 ELSE classes[super].size) + Len(d.ivars)
  OBVIOUS
<1>9. \/ UNCHANGED classes
      \/ classes' = classes \o <<NewClass(above, Class, <<>>, 0, "fields"),
                                 NewClass(super, Len(classes) + 1, d.ivars, size, d.format)>>
  <2>1. classes' = classes \/ classes' = bc_define_class(d, super).classes
    BY <1>2, <1>3, Zenon DEF Define
  <2>2. \/ bc_define_class(d, super).classes = classes
        \/ bc_define_class(d, super).classes
             = classes \o <<NewClass(above, Class, <<>>, 0, "fields"),
                            NewClass(super, Len(classes) + 1, d.ivars, size, d.format)>>
    BY <1>7, <1>8 DEF bc_define_class
  <2> QED BY <2>1, <2>2
<1>10. CASE UNCHANGED classes
  BY <1>10 DEF LInv
<1>11. CASE classes' = classes \o <<NewClass(above, Class, <<>>, 0, "fields"),
                                    NewClass(super, Len(classes) + 1, d.ivars, size, d.format)>>
  <2>1. PICK cs : cs = classes
    OBVIOUS
  <2>2. PICK ivars \in Seq(STRING) : ivars = d.ivars
    BY <1>5 DEF Declaration
  <2>3. PICK format : format = d.format
    OBVIOUS
  <2>4. PICK g : ClassesOK(cs, g) /\ ClassesLaidOut(cs)
    BY <2>1 DEF LInv, IInv
  <2>5. /\ above = IF super = Nil THEN Class ELSE cs[super].meta
        /\ size = (IF super = Nil THEN 0 ELSE cs[super].size) + Len(ivars)
        /\ super \in 0 .. Len(cs)
    BY <1>1, <1>6, <1>7, <1>8, <2>1, <2>2
  <2>6. ClassesLaidOut(cs \o <<NewClass(above, Class, <<>>, 0, "fields"),
                               NewClass(super, Len(cs) + 1, ivars, size, format)>>)
    BY <2>4, <2>5, DefinedLaidOut
  <2> QED BY <1>11, <2>1, <2>2, <2>3, <2>6
<1> QED
  BY <1>9, <1>10, <1>11

\* A call that goes on, or ends, is the call the host made.
LEMMA CallKnownStep ==
  ASSUME IInv, CallKnown, [Next]_vars
  PROVE  CallKnown'
<1>1. CASE UNCHANGED vars \/ Stop
  BY <1>1 DEF vars, Stop, CallKnown
<1>2. ASSUME NEW c \in Calls, Load(c[1], c[2]) PROVE CallKnown'
  <2>1. <<c[1], c[2]>> \in Calls /\ call'.kind = c[1] /\ call'.file = c[2]
    BY <1>2, Zenon DEF Load
  <2> QED BY <2>1 DEF CallKnown
<1>3. call = [stage |-> call.stage, kind |-> call.kind, file |-> call.file, bound |-> call.bound,
              saved |-> call.saved, step |-> call.step, answer |-> call.answer]
  BY DEF IInv, CallOK
<1>4. ASSUME NEW stage, call.stage \in {"define", "parse", "install"},
             call' = [call EXCEPT !.stage = stage]
      PROVE  CallKnown'
  <2>1. call'.kind = call.kind /\ call'.file = call.file
    BY <1>3, <1>4
  <2> QED BY <1>4, <2>1 DEF CallKnown
<1>5. CASE Define
  <2>1. call.stage = "define"
    BY <1>5 DEF Define
  <2>2. PICK defined : defined = bc_define_class(call.file.decls[call.step],
                                                 SuperclassOf(call.file.decls[call.step], call.bound))
    OBVIOUS
  <2>3. \/ call' = [call EXCEPT !.stage = "failed"]
        \/ call' = [call EXCEPT
                      !.stage = IF call.step = Len(call.file.decls) THEN "parse" ELSE "define",
                      !.step = IF call.step = Len(call.file.decls) THEN 1 ELSE call.step + 1,
                      !.answer = Len(defined.classes)]
    BY <1>5, <2>2, Zenon DEF Define, End
  <2>4. call'.kind = call.kind /\ call'.file = call.file
    BY <1>3, <2>3
  <2> QED BY <2>1, <2>4 DEF CallKnown
<1>6. CASE Parse \/ Refuse \/ Answer
  <2>1. call.stage \in {"parse", "install"} /\ \E stage : call' = [call EXCEPT !.stage = stage]
    BY <1>6, Zenon DEF Parse, Refuse, Answer, End
  <2> QED BY <1>4, <2>1
<1>7. CASE Install
  <2>1. call.stage = "install"
    BY <1>7 DEF Install
  <2>2. (\E stage : call' = [call EXCEPT !.stage = stage]) \/ call' = [call EXCEPT !.step = @ + 1]
    BY <1>7, Zenon DEF Install, End
  <2>3. call' = [call EXCEPT !.step = @ + 1] => call'.kind = call.kind /\ call'.file = call.file
    BY <1>3
  <2> QED BY <1>4, <2>1, <2>2, <2>3 DEF CallKnown
<1> QED
  BY <1>1, <1>2, <1>5, <1>6, <1>7, Zenon DEF Next

\* The layouts in the inductive invariant: a class has room for its variables, a
\* metaclass has none, and every method was compiled against the layout of its
\* class (bc_class_inst_var_index).
THEOREM LayoutInvariant == ASSUME CompiledWithoutNames PROVE Spec => []LInv
<1>1. Init => LInv
  <2> SUFFICES ASSUME Init PROVE LInv
    OBVIOUS
  <2>1. classes = Kernel /\ call.stage = "idle"
    BY DEF Init, Idle
  <2>2. ClassesLaidOut(classes) /\ CallKnown
    BY <2>1, KernelLaidOut DEF CallKnown
  <2> QED BY <2>2, InitOK DEF LInv
<1>2. LInv /\ IInv' /\ [Next]_vars => LInv'
  <2> SUFFICES ASSUME LInv, IInv', [Next]_vars PROVE LInv'
    OBVIOUS
  <2>1. CallKnown'
    BY CallKnownStep DEF LInv
  <2>2. ClassesLaidOut(classes')
    <3>1. CASE UNCHANGED classes
      BY <3>1 DEF LInv
    <3>2. CASE Define
      BY <3>2, DefineLaysOut
    <3>3. CASE Install
      BY <3>3, InstallLaysOut
    <3>4. UNCHANGED vars => UNCHANGED classes
      BY DEF vars
    <3>5. (\E c \in Calls : Load(c[1], c[2])) \/ Parse \/ Refuse \/ Answer => UNCHANGED classes
      BY Zenon DEF Load, Parse, Refuse, Answer
    <3>6. Stop => UNCHANGED classes
      BY <3>4 DEF Stop
    <3> QED BY <3>1, <3>2, <3>3, <3>4, <3>5, <3>6, Zenon DEF Next
  <2> QED BY <2>1, <2>2 DEF LInv
<1> QED
  BY <1>1, <1>2, Invariant, PTL DEF Spec

\* FieldsMatchLayout: for any files, in any order, with failures and full
\* memories anywhere, an inherited method finds in the slot compiled for a
\* variable the variable of that name, unless it was compiled before its class
\* was known.
THEOREM FieldsTheorem == ASSUME CompiledWithoutNames PROVE Spec => []FieldsMatchLayout
<1>1. LInv => FieldsMatchLayout
  BY LaidOutMatches
<1> QED
  BY <1>1, LayoutInvariant, PTL

-----------------------------------------------------------------------------
(* The slots of variables in nested blocks. *)


\* Every activation builds a frame of the right size (ScopesInit, Enter).
LEMMA ScopesTypeInit == ScopesInit => ScopesTypeOK
<1> SUFFICES ASSUME ScopesInit PROVE ScopesTypeOK
  OBVIOUS
<1>1. PICK a \in 0 .. MaxArgs, t \in 0 .. MaxTemps :
        /\ scopes = <<[args |-> a, temps |-> t, offset |-> 0]>>
        /\ copied = 0
        /\ words = [s \in 0 .. t - 1 |-> Temp(1, s)]
  BY DEF ScopesInit
<1>2. a \in Nat /\ t \in Nat
  BY ScopesAssumption
<1>3. scopes \in Seq(Scope) /\ Depth = 1 /\ Current = [args |-> a, temps |-> t, offset |-> 0]
  BY <1>1, <1>2 DEF Scope, Depth, Current
<1>4. words \in [0 .. t - 1 -> Variables]
  BY <1>1, <1>2 DEF Temp, Variables
<1> QED
  BY <1>1, <1>2, <1>3, <1>4 DEF ScopesTypeOK, NumTemps

\* What entering a block does, with the numbers the compiler and the machine use
\* spelled out.
LEMMA EnterFacts ==
  ASSUME ScopesTypeOK, NEW a \in BlockArgs, NEW t \in 0 .. MaxTemps, Enter(a, t)
  PROVE  /\ a \in Nat /\ t \in Nat
         /\ Depth \in Nat \ {0} /\ Current \in Scope
         /\ CopiedCount = Current.args + Current.temps + copied
         /\ CopiedCount \in Nat
         /\ Depth' = Depth + 1
         /\ scopes' \in Seq(Scope)
         /\ \A k \in 1 .. Depth : scopes'[k] = scopes[k]
         /\ Current' = [args |-> a, temps |-> t,
                        offset |-> Current.offset + Current.args + Current.temps]
         /\ copied' = CopiedCount
         /\ words' = [s \in 0 .. (CopiedCount + t) - 1 |->
                        IF s < CopiedCount THEN CopiedWord(s) ELSE Temp(Depth + 1, s - CopiedCount)]
<1>1. a \in Nat /\ t \in Nat
  BY ScopesAssumption
<1>2. Depth \in Nat \ {0} /\ Current \in Scope
  BY DEF ScopesTypeOK, Depth, Current
<1>3. CopiedCount = Current.args + Current.temps + copied /\ CopiedCount \in Nat
  BY <1>2 DEF ScopesTypeOK, CopiedCount, NumTemps, Scope
<1> DEFINE new == [args |-> a, temps |-> t, offset |-> Current.offset + Current.args + Current.temps]
<1>4. new \in Scope
  BY <1>1, <1>2 DEF Scope
<1>5. scopes' = Append(scopes, new)
  BY DEF Enter, cg_compile_and_store_block
<1>6. scopes \in Seq(Scope)
  BY DEF ScopesTypeOK
<1> HIDE DEF new
<1>7. /\ scopes' \in Seq(Scope) /\ Len(scopes') = Len(scopes) + 1
      /\ \A k \in 1 .. Len(scopes) : scopes'[k] = scopes[k]
      /\ scopes'[Len(scopes) + 1] = new
  BY <1>4, <1>5, <1>6
<1>8. Depth' = Depth + 1 /\ Current' = new
  BY <1>7 DEF Depth, Current
<1>9. \A k \in 1 .. Depth : scopes'[k] = scopes[k]
  BY <1>7 DEF Depth
<1>10. copied' = CopiedCount
       /\ words' = [s \in 0 .. (CopiedCount + t) - 1 |->
                      IF s < CopiedCount THEN CopiedWord(s) ELSE Temp(Depth + 1, s - CopiedCount)]
  BY DEF Enter, activate_block_call
<1> QED
  BY <1>1, <1>2, <1>3, <1>7, <1>8, <1>9, <1>10 DEF new

\* A block's frame has a word for everything copied and for its own temporaries.
LEMMA ScopesTypeStep == ScopesTypeOK /\ [ScopesNext]_scopesVars => ScopesTypeOK'
<1> SUFFICES ASSUME ScopesTypeOK, [ScopesNext]_scopesVars PROVE ScopesTypeOK'
  OBVIOUS
<1>1. ASSUME NEW a \in BlockArgs, NEW t \in 0 .. MaxTemps, Enter(a, t) PROVE ScopesTypeOK'
  <2> USE <1>1
  <2>1. Current' \in Scope /\ NumTemps' = CopiedCount + t
    BY EnterFacts DEF NumTemps, Scope
  <2>2. ASSUME NEW s \in 0 .. CopiedCount - 1 PROVE CopiedWord(s) \in Variables
    <3>1. CASE s < Current.args
      BY <2>2, <3>1, EnterFacts DEF CopiedWord, Arg, Variables, Scope
    <3>2. CASE ~(s < Current.args)
      <4>1. s - Current.args \in 0 .. NumTemps - 1
        <5>1. Current.args \in Nat /\ NumTemps \in Nat /\ CopiedCount = Current.args + NumTemps
          <6>1. Current \in Scope /\ copied \in Nat
            BY EnterFacts DEF ScopesTypeOK
          <6> QED
            BY <6>1 DEF NumTemps, Scope, CopiedCount
        <5> QED
          BY <2>2, <3>2, <5>1
      <4> QED
        BY <3>2, <4>1 DEF CopiedWord, ScopesTypeOK
    <3> QED
      BY <3>1, <3>2
  <2>3. ASSUME NEW s \in CopiedCount .. (CopiedCount + t) - 1 PROVE Temp(Depth + 1, s - CopiedCount) \in Variables
    BY <2>3, EnterFacts DEF Temp, Variables
  <2>4. words' \in [0 .. (CopiedCount + t) - 1 -> Variables]
    BY <2>2, <2>3, EnterFacts
  <2> QED
    BY <2>1, <2>4, EnterFacts DEF ScopesTypeOK
<1>2. CASE UNCHANGED scopesVars
  BY <1>2 DEF scopesVars, ScopesTypeOK, Depth, NumTemps, Current
<1> QED
  BY <1>1, <1>2 DEF ScopesNext

\* The frames of a nest of blocks have the shape the type invariant describes
\* (activate_method, activate_block_call).
THEOREM ScopesTypeTheorem == ScopesSpec => []ScopesTypeOK
  BY ScopesTypeInit, ScopesTypeStep, PTL DEF ScopesSpec

\* Both sides add the same three numbers when a block is entered.
LEMMA OffsetStep == ScopesTypeOK /\ OffsetIsCopied /\ [ScopesNext]_scopesVars => OffsetIsCopied'
<1> SUFFICES ASSUME ScopesTypeOK, OffsetIsCopied, [ScopesNext]_scopesVars PROVE OffsetIsCopied'
  OBVIOUS
<1>1. ASSUME NEW a \in BlockArgs, NEW t \in 0 .. MaxTemps, Enter(a, t) PROVE OffsetIsCopied'
  BY <1>1, EnterFacts DEF OffsetIsCopied, Scope, ScopesTypeOK
<1>2. CASE UNCHANGED scopesVars
  BY <1>2 DEF scopesVars, OffsetIsCopied, Current, Depth
<1> QED
  BY <1>1, <1>2 DEF ScopesNext

\* A method copies nothing and begins at slot 0.
LEMMA OffsetInit == ScopesInit => OffsetIsCopied
  BY DEF ScopesInit, OffsetIsCopied, Current, Depth

\* At every depth the compiler's closure_offset (cg_compile_and_store_block) is
\* the number of words BC_PUSH_CLOSURE copies into the block.
THEOREM OffsetsTheorem == ScopesSpec => []OffsetIsCopied
  BY ScopesTypeInit, ScopesTypeStep, OffsetInit, OffsetStep, PTL DEF ScopesSpec

-----------------------------------------------------------------------------
\* What a nest whose blocks take no arguments adds: only the method has
\* arguments, and its variables begin at slot 0.
MethodArgsOnly ==
  /\ Depth = 1 => Current.offset = 0
  /\ Depth > 1 => Current.args = 0

\* The inductive invariant of such a nest.
PlainInv == ScopesTypeOK /\ OffsetIsCopied /\ MethodArgsOnly /\ SlotsAgree

\* A method's temporaries are the words of its frame (cg_local_temp_slot).
LEMMA PlainInit == ScopesInit => PlainInv
<1> SUFFICES ASSUME ScopesInit PROVE MethodArgsOnly /\ SlotsAgree
  BY ScopesTypeInit, OffsetInit DEF PlainInv
<1>1. PICK a \in 0 .. MaxArgs, t \in 0 .. MaxTemps :
        /\ scopes = <<[args |-> a, temps |-> t, offset |-> 0]>>
        /\ words = [s \in 0 .. t - 1 |-> Temp(1, s)]
  BY DEF ScopesInit
<1>2. Depth = 1 /\ Current = [args |-> a, temps |-> t, offset |-> 0]
  BY <1>1 DEF Depth, Current
<1>3. \A i \in 0 .. t - 1 : Holds(cg_local_temp_slot(i), Temp(1, i))
  BY <1>1, <1>2 DEF Holds, cg_local_temp_slot
<1> QED
  BY <1>2, <1>3 DEF MethodArgsOnly, SlotsAgree

\* Entering a block without arguments keeps every variable in the slot the
\* compiler gives it there: the own temporaries follow the copied words, the
\* scope left behind becomes an outer one, and the scopes around it keep their
\* slots (cg_outer_temp_slot, cg_outer_arg_slot, BC_PUSH_CLOSURE).
LEMMA SlotsEnter ==
  ASSUME PlainInv, NEW t \in 0 .. MaxTemps, 0 \in BlockArgs, Enter(0, t)
  PROVE  SlotsAgree'
<1> ScopesTypeOK /\ OffsetIsCopied /\ MethodArgsOnly /\ SlotsAgree
  BY DEF PlainInv
<1>1. /\ t \in Nat
      /\ Depth \in Nat \ {0} /\ Current \in Scope
      /\ CopiedCount = Current.args + Current.temps + copied
      /\ CopiedCount \in Nat
      /\ Depth' = Depth + 1
      /\ \A k \in 1 .. Depth : scopes'[k] = scopes[k]
      /\ Current' = [args |-> 0, temps |-> t,
                     offset |-> Current.offset + Current.args + Current.temps]
      /\ words' = [s \in 0 .. (CopiedCount + t) - 1 |->
                     IF s < CopiedCount THEN CopiedWord(s) ELSE Temp(Depth + 1, s - CopiedCount)]
  BY EnterFacts
<1>2. Current.args \in Nat /\ Current.temps \in Nat /\ Current.offset \in Nat
      /\ copied = Current.offset /\ CopiedCount = Current.args + Current.temps + Current.offset
  BY <1>1 DEF Scope, OffsetIsCopied
<1>3. scopes[Depth] = Current /\ DOMAIN words = 0 .. (Current.temps + copied) - 1
  <2>1. words \in [0 .. NumTemps - 1 -> Variables]
    BY DEF ScopesTypeOK
  <2>2. DOMAIN words = 0 .. NumTemps - 1
    BY <2>1
  <2> QED
    BY <2>2 DEF Current, NumTemps
<1>5. ASSUME NEW i \in 0 .. t - 1
      PROVE  Holds(cg_local_temp_slot(i), Temp(Depth, i))'
  <2>1. cg_local_temp_slot(i)' = CopiedCount + i
    BY <1>1, <1>2, SMTT(30) DEF cg_local_temp_slot
  <2>2. CopiedCount + i \in 0 .. (CopiedCount + t) - 1 /\ ~(CopiedCount + i < CopiedCount)
        /\ (CopiedCount + i) - CopiedCount = i
    BY <1>1
  <2>3. words'[CopiedCount + i] = Temp(Depth + 1, i)
    BY <1>1, <2>2
  <2> QED
    BY <1>1, <2>1, <2>2, <2>3 DEF Holds, Temp
<1>6. ASSUME NEW i \in 0 .. Current.temps - 1
      PROVE  CopiedWord(Current.offset + Current.args + i) = Temp(Depth, i)
  <2>1. CopiedWord(Current.offset + Current.args + i) = words[Current.offset + i]
    <3>1. ~(Current.offset + Current.args + i < Current.args)
          /\ (Current.offset + Current.args + i) - Current.args = Current.offset + i
      BY <1>2
    <3> QED
      BY <3>1 DEF CopiedWord
  <2>2. cg_local_temp_slot(i) = Current.offset + i
    <3>1. CASE Depth = 1
      BY <3>1, <1>2 DEF cg_local_temp_slot, MethodArgsOnly
    <3>2. CASE Depth > 1
      BY <3>2, <1>2 DEF cg_local_temp_slot, MethodArgsOnly
    <3> QED
      BY <1>1, <3>1, <3>2
  <2>3. words[Current.offset + i] = Temp(Depth, i)
    BY <2>2 DEF SlotsAgree, Holds
  <2> QED
    BY <2>1, <2>3
<1>7. ASSUME NEW i \in 0 .. Current.args - 1
      PROVE  CopiedWord(Current.offset + i) = Arg(Depth, i)
  <2>1. Depth = 1
    BY <1>1, <1>2 DEF MethodArgsOnly
  <2>2. Current.offset + i = i /\ i < Current.args
    BY <1>2, <2>1 DEF MethodArgsOnly
  <2> QED
    BY <2>2 DEF CopiedWord
<1>8. ASSUME NEW s, NEW v, Depth > 1, Holds(s, v)
      PROVE  s \in 0 .. CopiedCount - 1 /\ CopiedWord(s) = v
  <2>1. Current.args = 0 /\ s \in 0 .. CopiedCount - 1 /\ words[s] = v
    BY <1>1, <1>2, <1>3, <1>8 DEF MethodArgsOnly, Holds
  <2>2. ~(s < Current.args) /\ s - Current.args = s
    BY <1>1, <2>1
  <2> QED
    BY <2>1, <2>2 DEF CopiedWord
<1>9. ASSUME NEW k \in 1 .. Depth, NEW i \in 0 .. scopes[k].temps - 1
      PROVE  Holds(cg_outer_temp_slot(k, i), Temp(k, i))'
  <2>1. cg_outer_temp_slot(k, i)' = cg_outer_temp_slot(k, i)
    BY <1>1 DEF cg_outer_temp_slot
  <2>2. cg_outer_temp_slot(k, i) \in 0 .. CopiedCount - 1
        /\ CopiedWord(cg_outer_temp_slot(k, i)) = Temp(k, i)
    <3>1. CASE k = Depth
      <4>1. cg_outer_temp_slot(k, i) = Current.offset + Current.args + i
        BY <3>1, <1>3 DEF cg_outer_temp_slot
      <4>2. i \in 0 .. Current.temps - 1
        BY <3>1, <1>3
      <4>3. Current.offset + Current.args + i \in 0 .. CopiedCount - 1
        BY <1>2, <4>2
      <4> QED
        BY <3>1, <4>1, <4>2, <4>3, <1>6
    <3>2. CASE k # Depth
      <4>1. k \in 1 .. Depth - 1 /\ Depth > 1
        BY <1>1, <3>2
      <4>2. Holds(cg_outer_temp_slot(k, i), Temp(k, i))
        BY <4>1 DEF SlotsAgree
      <4> QED
        BY <4>1, <4>2, <1>8
    <3> QED
      BY <3>1, <3>2
  <2>3. words'[cg_outer_temp_slot(k, i)] = Temp(k, i)
    BY <1>1, <2>2
  <2> QED
    BY <1>1, <2>1, <2>2, <2>3 DEF Holds
<1>10. ASSUME NEW k \in 1 .. Depth, NEW i \in 0 .. scopes[k].args - 1
       PROVE  Holds(cg_outer_arg_slot(k, i), Arg(k, i))'
  <2>1. cg_outer_arg_slot(k, i)' = cg_outer_arg_slot(k, i)
    BY <1>1 DEF cg_outer_arg_slot
  <2>2. cg_outer_arg_slot(k, i) \in 0 .. CopiedCount - 1
        /\ CopiedWord(cg_outer_arg_slot(k, i)) = Arg(k, i)
    <3>1. CASE k = Depth
      <4>1. cg_outer_arg_slot(k, i) = Current.offset + i
        BY <3>1, <1>3 DEF cg_outer_arg_slot
      <4>2. i \in 0 .. Current.args - 1
        BY <3>1, <1>3
      <4>3. Current.offset + i \in 0 .. CopiedCount - 1
        BY <1>2, <4>2
      <4> QED
        BY <3>1, <4>1, <4>2, <4>3, <1>7
    <3>2. CASE k # Depth
      <4>1. k \in 1 .. Depth - 1 /\ Depth > 1
        BY <1>1, <3>2
      <4>2. Holds(cg_outer_arg_slot(k, i), Arg(k, i))
        BY <4>1 DEF SlotsAgree
      <4> QED
        BY <4>1, <4>2, <1>8
    <3> QED
      BY <3>1, <3>2
  <2>3. words'[cg_outer_arg_slot(k, i)] = Arg(k, i)
    BY <1>1, <2>2
  <2> QED
    BY <1>1, <2>1, <2>2, <2>3 DEF Holds
<1>11. Current'.temps = t /\ 1 .. Depth' - 1 = 1 .. Depth
  BY <1>1
<1>12. \A k \in 1 .. Depth : scopes'[k].temps = scopes[k].temps /\ scopes'[k].args = scopes[k].args
  BY <1>1
<1> QED
  BY <1>5, <1>9, <1>10, <1>11, <1>12 DEF SlotsAgree

\* The nests the theorem speaks of satisfy the invariant as long as they are plain.
MethodFromZero == Depth = 1 => Current.offset = 0
NestInv == ScopesTypeOK /\ OffsetIsCopied /\ MethodFromZero /\ PlainNestsAgree

\* In a plain nest only the method has arguments.
LEMMA PlainArgs == ScopesTypeOK /\ MethodFromZero /\ Plain => MethodArgsOnly
<1> SUFFICES ASSUME ScopesTypeOK, MethodFromZero, Plain PROVE Depth > 1 => Current.args = 0
  BY DEF MethodFromZero, MethodArgsOnly
<1>1. Depth \in Nat
  BY DEF ScopesTypeOK, Depth
<1> QED
  BY <1>1 DEF Plain, Current

\* Every step keeps the invariant: a block with arguments makes the nest one the
\* invariant does not speak of, and one without finds the slots as SlotsEnter says.
LEMMA NestStep == NestInv /\ [ScopesNext]_scopesVars => NestInv'
<1> SUFFICES ASSUME NestInv, [ScopesNext]_scopesVars PROVE NestInv'
  OBVIOUS
<1>1. ScopesTypeOK' /\ OffsetIsCopied'
  BY ScopesTypeStep, OffsetStep DEF NestInv
<1>2. ASSUME NEW a \in BlockArgs, NEW t \in 0 .. MaxTemps, Enter(a, t), Plain'
      PROVE  SlotsAgree'
  <2>1. /\ Depth \in Nat \ {0}
        /\ Depth' = Depth + 1
        /\ Current'.args = a
        /\ \A k \in 1 .. Depth : scopes'[k] = scopes[k]
    BY <1>2, EnterFacts DEF NestInv
  <2>2. a = 0
    BY <1>2, <2>1 DEF Plain, Current
  <2>3. Plain
    BY <1>2, <2>1 DEF Plain
  <2>4. PlainInv
    BY <2>3, PlainArgs DEF NestInv, PlainNestsAgree, PlainInv
  <2> QED
    BY <1>2, <2>2, <2>4, SlotsEnter
<1>3. ASSUME UNCHANGED scopesVars, Plain' PROVE SlotsAgree'
  <2>1. scopes' = scopes /\ copied' = copied /\ words' = words
    BY <1>3 DEF scopesVars
  <2>2. Depth' = Depth /\ Current' = Current
    BY <2>1 DEF Depth, Current
  <2>3. SlotsAgree
    BY <1>3, <2>1, <2>2 DEF NestInv, PlainNestsAgree, Plain
  <2>4. \A i \in 0 .. Current.temps - 1 : Holds(cg_local_temp_slot(i), Temp(Depth, i))'
    BY <2>1, <2>2, <2>3 DEF SlotsAgree, Holds, cg_local_temp_slot
  <2>5. ASSUME NEW k \in 1 .. Depth - 1
        PROVE  /\ \A i \in 0 .. scopes[k].temps - 1 : Holds(cg_outer_temp_slot(k, i), Temp(k, i))'
               /\ \A i \in 0 .. scopes[k].args - 1 : Holds(cg_outer_arg_slot(k, i), Arg(k, i))'
    BY <2>1, <2>3, <2>5 DEF SlotsAgree, Holds, cg_outer_temp_slot, cg_outer_arg_slot
  <2> QED
    BY <2>1, <2>2, <2>4, <2>5 DEF SlotsAgree
<1>4. MethodFromZero'
  <2>1. ASSUME NEW a \in BlockArgs, NEW t \in 0 .. MaxTemps, Enter(a, t) PROVE Depth' # 1
    BY <2>1, EnterFacts DEF NestInv
  <2>2. ASSUME UNCHANGED scopesVars PROVE MethodFromZero'
    BY <2>2 DEF scopesVars, NestInv, MethodFromZero, Depth, Current
  <2> QED
    BY <2>1, <2>2 DEF ScopesNext, MethodFromZero
<1> QED
  BY <1>1, <1>2, <1>3, <1>4 DEF ScopesNext, NestInv, PlainNestsAgree

\* In a nest whose blocks take no arguments, of any depth, the compiled code reads
\* and writes the variable its source names (cg_local_temp_slot,
\* cg_outer_temp_slot and cg_outer_arg_slot against BC_PUSH_CLOSURE and
\* activate_block_call).
THEOREM SlotsTheorem == ScopesSpec => []PlainNestsAgree
<1>1. ScopesInit => NestInv
  BY PlainInit DEF PlainInv, MethodArgsOnly, MethodFromZero, NestInv, PlainNestsAgree
<1>2. NestInv /\ [ScopesNext]_scopesVars => NestInv'
  BY NestStep
<1>3. NestInv => PlainNestsAgree
  BY DEF NestInv
<1> QED
  BY <1>1, <1>2, <1>3, PTL DEF ScopesSpec

=============================================================================
