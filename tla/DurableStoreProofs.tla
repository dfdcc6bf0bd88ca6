------------------------- MODULE DurableStoreProofs -------------------------
(***************************************************************************)
(* Proofs about DurableStore for heaps of any size with any layout of      *)
(* pages, journals of any length and any number of crashes.                *)
(***************************************************************************)
EXTENDS DurableStore, InductionLemmas, SequenceTheorems

DiskTriple == [object : Object, value : OnDisk]

-----------------------------------------------------------------------------
(* The values of fields, and their conversions. *)

LEMMA Objects == HeapSize \in Nat /\ MaxPending \in Nat /\ Object \subseteq Nat \ {0}
BY SizeAssumption DEF Object

\* A pointer goes to the file as an offset and comes back as the same pointer.
LEMMA Conversions ==
  ASSUME NEW w \in Live, NEW used \in Nat
  PROVE  /\ encode_durable_log_value(w) \in OnDisk
         /\ IsObject(w) => w.object \in Object
         /\ (IsObject(w) => w.object <= used) =>
              decode_durable_log_value(encode_durable_log_value(w), used) = w
<1>1. CASE w \in [small : SmallInt]
  <2>1. ~IsObject(w) /\ ~IsOffset(w)
    BY <1>1 DEF IsObject, IsOffset
  <2> QED
    BY <1>1, <2>1 DEF encode_durable_log_value, decode_durable_log_value, OnDisk
<1>2. CASE w \in [object : Object]
  <2>1. IsObject(w) /\ w.object \in Object
    BY <1>2 DEF IsObject
  <2>2. w = [object |-> w.object]
    BY <1>2
  <2> DEFINE d == [offset |-> w.object]
  <2>3. d \in [offset : Object] /\ IsOffset(d) /\ d.offset = w.object
    BY <2>1 DEF IsOffset
  <2> HIDE DEF d
  <2>4. encode_durable_log_value(w) = d
    BY <2>1 DEF encode_durable_log_value, d
  <2>5. w.object <= used => decode_durable_log_value(d, used) = w
    BY <2>2, <2>3 DEF decode_durable_log_value
  <2> QED
    BY <2>1, <2>3, <2>4, <2>5 DEF OnDisk
<1> QED
  BY <1>1, <1>2 DEF Live

\* The triples of a transaction, as they go to the journal.
LEMMA EncodedTriples ==
  ASSUME NEW entries \in Seq(Triple)
  PROVE  /\ Encoded(entries) \in Seq(DiskTriple)
         /\ Len(Encoded(entries)) = Len(entries)
         /\ \A i \in 1 .. Len(entries) :
              /\ Encoded(entries)[i].object = entries[i].object
              /\ Encoded(entries)[i].value = encode_durable_log_value(entries[i].value)
<1>1. ASSUME NEW i \in 1 .. Len(entries)
      PROVE  /\ [entries[i] EXCEPT !.value = encode_durable_log_value(@)] \in DiskTriple
             /\ [entries[i] EXCEPT !.value = encode_durable_log_value(@)].object = entries[i].object
             /\ [entries[i] EXCEPT !.value = encode_durable_log_value(@)].value
                  = encode_durable_log_value(entries[i].value)
  <2>1. entries[i] \in Triple
    OBVIOUS
  <2>2. entries[i].object \in Object /\ entries[i].value \in Live
    BY <2>1 DEF Triple
  <2>3. encode_durable_log_value(entries[i].value) \in OnDisk
    BY <2>2, Conversions
  <2> QED
    BY <2>1, <2>2, <2>3 DEF DiskTriple, Triple
<1>2. DOMAIN entries = 1 .. Len(entries)
  OBVIOUS
<1>3. Encoded(entries) = [i \in 1 .. Len(entries) |->
                            [entries[i] EXCEPT !.value = encode_durable_log_value(@)]]
  BY <1>2 DEF Encoded
<1>4. Encoded(entries) \in [1 .. Len(entries) -> DiskTriple]
  BY <1>1, <1>3
<1>5. Encoded(entries) \in Seq(DiskTriple) /\ Len(Encoded(entries)) = Len(entries)
  BY <1>4
<1> QED
  BY <1>1, <1>3, <1>5

\* The youngest triple for an object.
LEMMA YoungestTriple ==
  ASSUME NEW S, NEW entries \in Seq(S), NEW o, Writes(entries, o) # {}
  PROVE  \E i \in 1 .. Len(entries) :
           /\ entries[i].object = o
           /\ \A j \in 1 .. Len(entries) : entries[j].object = o => j <= i
           /\ Youngest(entries, o) = entries[i].value
           /\ i = CHOOSE k \in Writes(entries, o) : \A j \in Writes(entries, o) : j <= k
<1> DEFINE T == Writes(entries, o)
           Last(i) == i \in T /\ \A j \in T : j <= i
           i == CHOOSE k \in T : \A j \in T : j <= k
<1>1. T \in SUBSET (0 .. Len(entries)) /\ T # {} /\ Len(entries) \in Nat
  BY DEF Writes
<1>2. \E k \in T : \A j \in T : j <= k
  <2> HIDE DEF T
  <2> QED
    BY <1>1, NatMaximum
<1>3. Last(i)
  BY <1>2
<1>4. Youngest(entries, o) = entries[i].value
  BY DEF Youngest
<1> HIDE DEF i
<1>5. i \in 1 .. Len(entries) /\ entries[i].object = o
  BY <1>3 DEF Writes
<1>6. ASSUME NEW j \in 1 .. Len(entries), entries[j].object = o
      PROVE  j <= i
  <2>1. j \in T
    BY <1>6 DEF Writes
  <2> QED
    BY <1>3, <2>1
<1>7. i = CHOOSE k \in Writes(entries, o) : \A j \in Writes(entries, o) : j <= k
  BY DEF i
<1> QED
  BY <1>4, <1>5, <1>6, <1>7

\* Writing the entries over a heap keeps its length and the type of its words.
LEMMA OverlayType ==
  ASSUME NEW h \in Seq(Live), NEW entries \in Seq(Triple)
  PROVE  Overlay(h, entries) \in Seq(Live) /\ Len(Overlay(h, entries)) = Len(h)
<1>1. ASSUME NEW o \in 1 .. Len(h)
      PROVE  (IF Writes(entries, o) = {} THEN h[o] ELSE Youngest(entries, o)) \in Live
  <2>1. CASE Writes(entries, o) = {}
    BY <2>1
  <2>2. CASE Writes(entries, o) # {}
    <3>1. PICK i \in 1 .. Len(entries) : Youngest(entries, o) = entries[i].value
      BY <2>2, YoungestTriple
    <3>2. entries[i] \in Triple
      OBVIOUS
    <3>3. entries[i].value \in Live
      BY <3>2 DEF Triple
    <3> QED
      BY <2>2, <3>1, <3>3
  <2> QED
    BY <2>1, <2>2
<1>2. DOMAIN h = 1 .. Len(h)
  OBVIOUS
<1>3. Overlay(h, entries) \in [1 .. Len(h) -> Live]
  BY <1>1, <1>2 DEF Overlay
<1> QED
  BY <1>3

-----------------------------------------------------------------------------
(* The inductive invariant. *)

\* The steps of txn_log_append_fsync and of the install after it.
Committing == {"header", "body", "fsync", "install"}

Within(w, used) == IsObject(w) => w.object <= used

WithinHeap(entries, used) ==
  \A i \in 1 .. Len(entries) :
    entries[i].object <= used /\ Within(entries[i].value, used)

\* The heap of a running machine and the transaction it commits point nowhere
\* outside the heap.
HeapInv ==
  /\ pc # "dead" => Len(heap) \in Object
  /\ \A o \in 1 .. Len(heap) : Within(heap[o], Len(heap))
  /\ IF pc \in Committing THEN WithinHeap(writes, Len(heap)) ELSE writes = <<>>

AckedInv ==
  \A a \in acked : /\ a[1] \in 1 .. synced
                   /\ journal[a[1]] = [entries |-> a[2], part |-> "whole"]

\* How far the append of the frame has come.
AppendInv ==
  /\ pc \in {"body", "fsync", "install"} =>
       /\ Len(journal) > 0
       /\ journal[Len(journal)] =
            [entries |-> Encoded(writes),
             part |-> IF pc = "body" THEN "partial" ELSE "whole"]
  /\ pc \in {"body", "fsync"} => synced < Len(journal)
  /\ pc = "install" => synced = Len(journal) /\ unlinked = {}

\* While the removal of a journal may be undone, no commit has been acknowledged.
RemovalInv == unlinked # {} => acked = {}

\* An image has its name only after it is on disk.
ImageInv ==
  /\ \A img \in {image} \cup replaced : img # NoImage => img.synced
  /\ pc \in {"sync", "rename"} => temp # NoImage
  /\ pc = "rename" => temp.synced
  /\ pc \in {"directory", "clear"} => image # NoImage
  /\ pc = "clear" => replaced = {}

\* What the checkpoint has computed: header and checksums are the live heap's.
CheckpointInv ==
  /\ pc \in {"sync", "rename"} => temp.used = Len(heap) /\ temp.sums = LivePages
  /\ pc \in {"directory", "clear"} => image.used = Len(heap) /\ image.sums = LivePages

\* The frames that are committed: all but the one that is being appended.
Committed ==
  IF pc \in {"body", "fsync", "install"} THEN SubSeq(journal, 1, Len(journal) - 1) ELSE journal

WholeWithin(j, used) ==
  \A i \in 1 .. Len(j) : /\ j[i].part = "whole"
                         /\ \A k \in 1 .. Len(j[i].entries) : j[i].entries[k].object <= used

\* A valid image from which the journal j leads to the heap h.
LeadsTo(img, j, h) ==
  /\ img \in Image
  /\ img.words = img.sums
  /\ img.used = Len(h)
  /\ txn_log_replay(Loaded(img), j) = h

\* While the machine runs and every store since the checkpoint was durable:
\* each image that may be there leads to the heap, and clean pages are the image's.
RunningInv ==
  expected # {} /\ pc # "dead" =>
    /\ expected = IF pc \in Committing THEN {heap, Overlay(heap, writes)} ELSE {heap}
    /\ \A img \in {image} \cup replaced : LeadsTo(img, Committed, heap)
    /\ WholeWithin(Committed, Len(heap))
    /\ synced = IF pc \in {"body", "fsync"} THEN Len(journal) - 1 ELSE Len(journal)
    /\ \A o \in Object : PageOf[o] \notin dirty => image.words[o] = LivePages[o]
    /\ pc \in {"sync", "rename"} => temp.words = LivePages
    /\ pc \in {"directory", "clear"} => image.words = LivePages

\* After a crash: whatever a loss of power leaves of the files answers a heap
\* that is expected.
CrashedInv ==
  expected # {} /\ pc = "dead" =>
    \A j \in Survivors(journal, synced) : \A img \in {image} \cup replaced :
      Restart(img, j) # {} /\ Restart(img, j) \subseteq expected

IInv ==
  /\ TypeOK /\ HeapInv /\ AckedInv /\ AppendInv /\ RemovalInv /\ ImageInv
  /\ CheckpointInv /\ RunningInv /\ CrashedInv

-----------------------------------------------------------------------------
(* The types. *)

\* The number of triples in the journal: the recursive function is a sum.
LEMMA Counting ==
  ASSUME journal \in Seq(Frame)
  PROVE  Logged \in Nat
<1> DEFINE n == Len(journal)
           c(i) == Len(journal[i].entries)
<1>a. n \in Nat
  OBVIOUS
<1>b. \A i \in 1 .. n : c(i) \in Nat
  <2> SUFFICES ASSUME NEW i \in 1 .. n PROVE c(i) \in Nat
    OBVIOUS
  <2>1. journal[i] \in Frame
    OBVIOUS
  <2>2. journal[i].entries \in Seq([object : Object, value : OnDisk])
    BY <2>1 DEF Frame
  <2> QED
    BY <2>2
<1> HIDE DEF n, c
<1> DEFINE Sum(f, m) == f = [i \in 0 .. m |-> IF i = 0 THEN 0 ELSE f[i - 1] + c(i)]
           P(m) == m <= n => \E f : Sum(f, m) /\ f \in [0 .. m -> Nat]
<1>1. P(0)
  <2> DEFINE f == [i \in 0 .. 0 |-> 0]
  <2>1. Sum(f, 0) /\ f \in [0 .. 0 -> Nat]
    OBVIOUS
  <2> QED
    BY <2>1
<1>2. ASSUME NEW m \in Nat, P(m)
      PROVE  P(m + 1)
  <2> SUFFICES ASSUME m + 1 <= n PROVE \E f : Sum(f, m + 1) /\ f \in [0 .. m + 1 -> Nat]
    OBVIOUS
  <2>0. m <= n
    BY <1>a
  <2>1. PICK g : Sum(g, m) /\ g \in [0 .. m -> Nat]
    BY <1>2, <2>0, Zenon
  <2> DEFINE f == [i \in 0 .. m + 1 |-> IF i = m + 1 THEN g[m] + c(m + 1) ELSE g[i]]
  <2>2. f \in [0 .. m + 1 -> Nat]
    BY <1>a, <1>b, <2>0, <2>1
  <2>3. ASSUME NEW i \in 0 .. m + 1
        PROVE  f[i] = IF i = 0 THEN 0 ELSE f[i - 1] + c(i)
    <3>1. CASE i = 0
      BY <2>1, <3>1
    <3>2. CASE i = m + 1
      BY <1>a, <1>b, <2>1, <3>2
    <3>3. CASE i # 0 /\ i # m + 1
      <4>1. i \in 0 .. m /\ i - 1 \in 0 .. m /\ i - 1 # m + 1
        BY <3>3
      <4>2. f[i] = g[i] /\ f[i - 1] = g[i - 1]
        BY <4>1, <3>3
      <4>3. g[i] = g[i - 1] + c(i)
        BY <2>1, <3>3, <4>1
      <4> QED
        BY <3>3, <4>2, <4>3
    <3> QED
      BY <3>1, <3>2, <3>3
  <2>4. Sum(f, m + 1)
    BY <2>3
  <2> QED
    BY <2>2, <2>4
<1>3. P(n)
  <2> HIDE DEF P
  <2> DEFINE S == {m \in Nat : P(m)}
  <2>1. 0 \in S /\ \A m \in Nat : m \in S => m + 1 \in S
    BY <1>1, <1>2
  <2> HIDE DEF S
  <2>2. n \in S
    BY <1>a, <2>1, NatSetInduction
  <2> QED
    BY <2>2 DEF S
<1>4. PICK g : Sum(g, n) /\ g \in [0 .. n -> Nat]
  <2>1. n <= n
    BY <1>a
  <2> QED
    BY <1>3, <2>1, Zenon
<1> DEFINE f == CHOOSE f : Sum(f, n)
<1>5. Sum(f, n)
  BY <1>4
<1>6. f[n] \in Nat
  <2> DEFINE Q == {m \in Nat : m <= n => f[m] \in Nat}
  <2> HIDE DEF f
  <2>1. 0 \in Q
    BY <1>a, <1>5
  <2>2. ASSUME NEW m \in Nat, m \in Q
        PROVE  m + 1 \in Q
    <3> SUFFICES ASSUME m + 1 <= n PROVE f[m + 1] \in Nat
      OBVIOUS
    <3>1. f[m + 1] = f[m] + c(m + 1)
      BY <1>a, <1>5
    <3> QED
      BY <1>a, <1>b, <2>2, <3>1
  <2> HIDE DEF Q
  <2>3. n \in Q
    BY <1>a, <2>1, <2>2, NatSetInduction
  <2> QED
    BY <1>a, <2>3 DEF Q
<1> QED
  BY <1>6 DEF f, n, c, Logged

\* The triples of a transaction that can start (Transactions).
LEMMA TransactionTypes ==
  ASSUME journal \in Seq(Frame), NEW entries \in Transactions,
         Len(heap) \in Object
  PROVE  entries \in Seq(Triple) /\ pc = "idle"
<1>1. pc = "idle"
  BY DEF Transactions
<1>2. Logged \in Nat
  BY Counting
<1>3. MaxStores[Len(heap)] \in Nat
  BY BoundAssumption
<1>4. PICK n \in 1 .. (MaxStores[Len(heap)] - Logged) : entries \in [1 .. n -> Triple]
  BY <1>1 DEF Transactions
<1>5. n \in Nat
  BY <1>2, <1>3
<1> QED
  BY <1>1, <1>4, <1>5

\* A frame of a transaction.
LEMMA FrameType ==
  ASSUME NEW entries \in Seq(Triple), NEW p \in Part
  PROVE  [entries |-> Encoded(entries), part |-> p] \in Frame
BY EncodedTriples DEF Frame, DiskTriple

\* What a loss of power leaves of a journal of which n frames are on disk: the
\* frames before the last one it keeps are as they were, the last one is or has
\* lost a part of its bytes.
LEMMA SurvivingFrames ==
  ASSUME NEW j \in Seq(Frame), NEW n \in 0 .. Len(j), NEW s \in Survivors(j, n)
  PROVE  /\ s \in Seq(Frame) /\ Len(s) \in n .. Len(j)
         /\ \A i \in 1 .. Len(s) : i < Len(s) \/ i <= n => s[i] = j[i]
         /\ \/ s = SubSeq(j, 1, Len(s))
            \/ /\ Len(s) > n
               /\ \E p \in Before(j[Len(s)].part) :
                    s = Append(SubSeq(j, 1, Len(s) - 1), [j[Len(s)] EXCEPT !.part = p])
<1>1. CASE \E m \in n .. Len(j) : s = SubSeq(j, 1, m)
  <2>1. PICK m \in n .. Len(j) : s = SubSeq(j, 1, m)
    BY <1>1
  <2>2. s \in Seq(Frame) /\ Len(s) = m /\ \A i \in 1 .. m : s[i] = j[i]
    BY <2>1
  <2> QED
    BY <2>1, <2>2
<1>2. CASE \E m \in (n + 1) .. Len(j) : \E p \in Before(j[m].part) :
             s = Append(SubSeq(j, 1, m - 1), [j[m] EXCEPT !.part = p])
  <2>0. PICK m \in (n + 1) .. Len(j) : \E p \in Before(j[m].part) :
               s = Append(SubSeq(j, 1, m - 1), [j[m] EXCEPT !.part = p])
    BY <1>2
  <2>1. PICK p \in Before(j[m].part) :
               s = Append(SubSeq(j, 1, m - 1), [j[m] EXCEPT !.part = p])
    BY <2>0
  <2> DEFINE f == [j[m] EXCEPT !.part = p]
             r == SubSeq(j, 1, m - 1)
  <2>2. f \in Frame
    <3>1. j[m] \in Frame
      OBVIOUS
    <3>2. p \in Part
      BY <3>1 DEF Before, Frame, Part
    <3> QED
      BY <3>1, <3>2 DEF Frame
  <2>3. r \in Seq(Frame) /\ Len(r) = m - 1 /\ \A i \in 1 .. m - 1 : r[i] = j[i]
    OBVIOUS
  <2> HIDE DEF f, r
  <2>4. s = Append(r, f)
    BY <2>1 DEF f, r
  <2>5. s \in Seq(Frame) /\ Len(s) = m /\ \A i \in 1 .. m - 1 : s[i] = j[i]
    BY <2>2, <2>3, <2>4
  <2>6. Len(s) = m
    BY <2>5
  <2>7. \E q \in Before(j[Len(s)].part) :
          s = Append(SubSeq(j, 1, Len(s) - 1), [j[Len(s)] EXCEPT !.part = q])
    BY <2>1, <2>6, Zenon
  <2>8. /\ Len(s) > n /\ Len(s) \in n .. Len(j)
        /\ \A i \in 1 .. Len(s) : i < Len(s) \/ i <= n => s[i] = j[i]
    BY <2>5
  <2> QED
    BY <2>5, <2>7, <2>8, Zenon
<1> QED
  BY <1>1, <1>2 DEF Survivors

\* What a power loss may leave of j is s: a part of it that keeps the first n
\* frames, the last one of the others torn.
LeftOf(s, j, n) ==
  /\ Len(s) \in n .. Len(j)
  /\ \/ s = SubSeq(j, 1, Len(s))
     \/ /\ Len(s) > n
        /\ \E p \in Before(j[Len(s)].part) :
             s = Append(SubSeq(j, 1, Len(s) - 1), [j[Len(s)] EXCEPT !.part = p])

\* The same as SurvivingFrames says, for a proof to keep folded.
LEMMA SurvivorIsLeft ==
  ASSUME NEW j \in Seq(Frame), NEW n \in 0 .. Len(j), NEW s \in Survivors(j, n)
  PROVE  LeftOf(s, j, n)
<1>1. /\ Len(s) \in n .. Len(j)
      /\ \/ s = SubSeq(j, 1, Len(s))
         \/ /\ Len(s) > n
            /\ \E p \in Before(j[Len(s)].part) :
                 s = Append(SubSeq(j, 1, Len(s) - 1), [j[Len(s)] EXCEPT !.part = p])
  BY SurvivingFrames
<1> QED
  BY <1>1, Zenon DEF LeftOf

-----------------------------------------------------------------------------

\* The pages a checkpoint writes hold words in their form on disk.
LEMMA LivePagesType ==
  ASSUME heap \in Seq(Live)
  PROVE  LivePages \in Words
<1>1. ASSUME NEW o \in Object
      PROVE  (IF o \in DOMAIN heap THEN encode_durable_log_value(heap[o]) ELSE Blank)
               \in OnDisk \cup {Blank}
  <2>1. CASE o \in DOMAIN heap
    <3>1. heap[o] \in Live
      BY <2>1
    <3>2. encode_durable_log_value(heap[o]) \in OnDisk
      BY <3>1, Conversions
    <3> QED
      BY <2>1, <3>2
  <2>2. CASE o \notin DOMAIN heap
    BY <2>2
  <2> QED
    BY <2>1, <2>2
<1> QED
  BY <1>1 DEF LivePages, Words

\* An image is not the absence of one.
LEMMA ImageIsThere ==
  ASSUME NEW img \in Image
  PROVE  img # NoImage /\ img.used \in Object /\ img.words \in Words /\ img.sums \in Words
         /\ img.synced \in BOOLEAN
<1>1. img.used \in Object /\ img.words \in Words /\ img.sums \in Words /\ img.synced \in BOOLEAN
  BY DEF Image
<1>2. NoImage.used = 0
  BY DEF NoImage
<1>3. img.used # 0
  BY <1>1, Objects
<1> QED
  BY <1>1, <1>2, <1>3, Zenon

\* The temporary file of a checkpoint.
LEMMA CheckpointType ==
  ASSUME TypeOK, Len(heap) \in Object, CheckpointWrite
  PROVE  /\ temp' \in Image /\ temp'.used = Len(heap)
         /\ temp'.sums = LivePages /\ ~temp'.synced
         /\ \A o \in Object :
              temp'.words[o] = IF /\ image_checkpoint_validate(image)
                                  /\ checkpoint_page_count(image.used)
                                       = checkpoint_page_count(Len(heap))
                                  /\ PageOf[o] \notin dirty
                               THEN image.words[o] ELSE LivePages[o]
<1> DEFINE incremental == /\ image_checkpoint_validate(image)
                          /\ checkpoint_page_count(image.used)
                               = checkpoint_page_count(Len(heap))
           w == [o \in Object |-> IF incremental /\ PageOf[o] \notin dirty
                                  THEN image.words[o] ELSE LivePages[o]]
<1>1. temp' = [used |-> Len(heap), words |-> w, sums |-> LivePages, synced |-> FALSE]
  BY DEF CheckpointWrite
<1>2. LivePages \in Words
  BY LivePagesType DEF TypeOK
<1>3. incremental => image.words \in Words
  <2>1. incremental => image \in Image
    BY DEF image_checkpoint_validate, TypeOK
  <2> QED
    BY <2>1, ImageIsThere
<1> HIDE DEF incremental
<1>4. w \in Words
  BY <1>2, <1>3 DEF Words
<1>5. \A o \in Object : w[o] = IF incremental /\ PageOf[o] \notin dirty
                               THEN image.words[o] ELSE LivePages[o]
  OBVIOUS
<1> HIDE DEF w
<1>6. /\ temp' \in Image /\ temp'.used = Len(heap) /\ temp'.words = w
      /\ temp'.sums = LivePages /\ ~temp'.synced
  BY <1>1, <1>2, <1>4 DEF Image
<1> QED
  BY <1>5, <1>6 DEF incremental

\* Every action keeps the types; HeapInv is needed because the header of a
\* checkpoint holds the length of a heap that is not empty.
LEMMA TypePreserved ==
  ASSUME TypeOK, HeapInv, [Next]_vars
  PROVE  TypeOK'
<1>0. /\ journal \in Seq(Frame) /\ heap \in Seq(Live) /\ writes \in Seq(Triple)
      /\ synced \in 0 .. Len(journal) /\ "dead" \in Steps
  BY DEF TypeOK, Steps
<1>a. /\ <<>> \in Seq(Live) /\ <<>> \in Seq(Triple) /\ <<>> \in Seq(Frame)
      /\ Len(<<>>) = 0 /\ 0 \in 0 .. 0
  OBVIOUS
<1>1. ASSUME NEW w \in Live, Alloc(w) PROVE TypeOK'
  <2>1. Append(heap, w) \in Seq(Live)
    BY <1>0
  <2> QED
    BY <1>1, <2>1 DEF Alloc, TypeOK, disk
<1>2. ASSUME NEW w \in Live, NEW o \in Object, Store(o, w) PROVE TypeOK'
  <2>1. [heap EXCEPT ![o] = w] \in Seq(Live)
    BY <1>0, <1>2 DEF Store
  <2>2. PageOf[o] \in Nat
    BY PageOfAssumption
  <2> QED
    BY <1>2, <2>1, <2>2 DEF Store, TypeOK, disk
<1>3. ASSUME NEW entries \in Transactions, Durable(entries) PROVE TypeOK'
  <2>1. entries \in Seq(Triple)
    BY <1>0, <1>3, TransactionTypes DEF Durable, HeapInv
  <2>2. \A h \in expected : Overlay(h, entries) \in Seq(Live)
    BY <2>1, OverlayType DEF TypeOK
  <2> QED
    BY <1>3, <2>1, <2>2 DEF Durable, TypeOK, disk, Steps
<1>4. CASE WriteHeader
  <2> DEFINE f == [entries |-> Encoded(writes), part |-> "partial"]
  <2>1. f \in Frame
    BY <1>0, FrameType DEF Part
  <2>2. journal' = Append(journal, f)
    BY <1>4 DEF WriteHeader
  <2> HIDE DEF f
  <2>3. journal' \in Seq(Frame) /\ Len(journal') = Len(journal) + 1
    BY <1>0, <2>1, <2>2
  <2>4. synced' \in 0 .. Len(journal')
    BY <1>0, <1>4, <2>3 DEF WriteHeader
  <2> QED
    BY <1>4, <2>3, <2>4 DEF WriteHeader, TypeOK, Steps
<1>5. CASE WriteBody
  <2>1. journal' = [journal EXCEPT ![Len(journal)].part = "whole"]
    BY <1>5 DEF WriteBody
  <2>2. journal' \in Seq(Frame) /\ Len(journal') = Len(journal)
    <3>1. \A i \in 1 .. Len(journal) : [journal[i] EXCEPT !.part = "whole"] \in Frame
      <4> SUFFICES ASSUME NEW i \in 1 .. Len(journal)
                   PROVE  [journal[i] EXCEPT !.part = "whole"] \in Frame
        OBVIOUS
      <4>1. journal[i] \in Frame
        BY <1>0
      <4> QED
        BY <4>1 DEF Frame, Part
    <3> DEFINE n == Len(journal)
               f == [journal[n] EXCEPT !.part = "whole"]
    <3>2. journal' = [journal EXCEPT ![n] = f]
      BY <2>1
    <3>3. n \in 1 .. Len(journal) => f \in Frame
      BY <3>1
    <3> HIDE DEF f
    <3>4. n \in Nat /\ n = Len(journal)
      BY <1>0
    <3> HIDE DEF n
    <3>5. journal' \in [1 .. n -> Frame]
      <4>1. DOMAIN journal = 1 .. n /\ \A i \in 1 .. n : journal[i] \in Frame
        BY <1>0, <3>4
      <4>2. \A i \in 1 .. n : journal'[i] \in Frame
        BY <3>2, <3>3, <4>1
      <4>3. journal' = [i \in 1 .. n |-> journal'[i]]
        BY <3>2, <4>1
      <4> QED
        BY <4>2, <4>3
    <3> QED
      BY <3>4, <3>5
  <2>3. synced' \in 0 .. Len(journal')
    BY <1>0, <1>5, <2>2 DEF WriteBody
  <2> QED
    BY <1>5, <2>2, <2>3 DEF WriteBody, TypeOK, Steps
<1>6. CASE Fsync
  <2>1. synced' \in 0 .. Len(journal') /\ journal' = journal
    BY <1>0, <1>6 DEF Fsync
  <2> QED
    BY <1>6, <2>1 DEF Fsync, TypeOK, Steps
<1>7. CASE Install
  <2>1. heap' \in Seq(Live)
    BY <1>0, <1>7, OverlayType DEF Install
  <2>2. Encoded(writes) \in Seq([object : Object, value : OnDisk]) /\ Len(journal) \in Nat
    <3>1. Encoded(writes) \in Seq(DiskTriple) /\ Len(journal) \in Nat
      BY <1>0, EncodedTriples
    <3> QED
      BY <3>1, Zenon DEF DiskTriple
  <2>3. \A i \in DOMAIN writes : PageOf[writes[i].object] \in Nat
    <3> SUFFICES ASSUME NEW i \in DOMAIN writes PROVE PageOf[writes[i].object] \in Nat
      OBVIOUS
    <3>1. writes[i] \in Triple
      BY <1>0
    <3> QED
      BY <3>1, PageOfAssumption DEF Triple
  <2>4. dirty' \subseteq Nat
    BY <1>7, <2>3 DEF Install, TypeOK
  <2>5. acked' \subseteq Nat \X Seq([object : Object, value : OnDisk])
    <3> DEFINE A == Nat \X Seq([object : Object, value : OnDisk])
    <3>1. <<Len(journal), Encoded(writes)>> \in A
      BY <2>2
    <3>2. acked \subseteq A
      BY DEF TypeOK
    <3> HIDE DEF A
    <3>3. acked' \subseteq A
      BY <1>7, <3>1, <3>2 DEF Install
    <3> QED
      BY <3>3 DEF A
  <2>6. expected' \subseteq Seq(Live)
    BY <1>7, <2>1 DEF Install
  <2>7. pc' \in Steps /\ writes' \in Seq(Triple)
    BY <1>7, <1>a DEF Install, Steps
  <2> QED
    BY <1>7, <2>1, <2>4, <2>5, <2>6, <2>7 DEF Install, TypeOK, disk
<1>8. CASE AppendFails
  <2>1. journal' \in Seq(Frame) /\ Len(journal') \in {Len(journal), Len(journal) + 1}
    <3>1. CASE journal' = journal
      BY <1>0, <3>1
    <3>2. CASE \E p \in {"stub", "partial"} :
                 journal' = Append(journal, [entries |-> Encoded(writes), part |-> p])
      <4>1. PICK p \in {"stub", "partial"} :
                   journal' = Append(journal, [entries |-> Encoded(writes), part |-> p])
        BY <3>2
      <4> DEFINE f == [entries |-> Encoded(writes), part |-> p]
      <4>2. f \in Frame
        BY <1>0, FrameType DEF Part
      <4> HIDE DEF f
      <4>3. journal' = Append(journal, f)
        BY <4>1 DEF f
      <4> QED
        BY <1>0, <4>2, <4>3
    <3> QED
      BY <1>8, <3>1, <3>2 DEF AppendFails
  <2>2. /\ heap' = <<>> /\ dirty' = {} /\ writes' = <<>> /\ temp' = NoImage /\ pc' \in Steps
        /\ UNCHANGED <<synced, unlinked, image, replaced, acked, expected>>
    BY <1>0, <1>8 DEF AppendFails, Dies
  <2>3. synced' \in 0 .. Len(journal')
    BY <1>0, <2>1, <2>2
  <2> QED
    BY <1>a, <2>1, <2>2, <2>3 DEF TypeOK
<1>9. CASE CheckpointWrite
  <2>1. temp' \in Image
    BY <1>9, CheckpointType DEF HeapInv, CheckpointWrite
  <2> QED
    BY <1>9, <2>1 DEF CheckpointWrite, TypeOK, Steps, disk
<1>10. CASE CheckpointSync
  <2>1. temp \in Image \cup {NoImage} /\ temp' = [temp EXCEPT !.synced = TRUE]
    BY <1>10 DEF CheckpointSync, TypeOK
  <2>2. temp' \in Image \cup {NoImage}
    BY <2>1 DEF Image, NoImage
  <2> QED
    BY <1>10, <2>2 DEF CheckpointSync, TypeOK, Steps, disk
<1>11. CASE CheckpointRename
  BY <1>11 DEF CheckpointRename, TypeOK, Steps
<1>12. CASE checkpoint_fsync_parent_directory
  BY <1>12 DEF checkpoint_fsync_parent_directory, TypeOK, Steps
<1>13. CASE CheckpointClear
  <2>1. /\ dirty' = {} /\ journal' = <<>> /\ synced' = 0 /\ acked' = {}
        /\ unlinked' \subseteq unlinked \cup {journal} /\ expected' \subseteq {heap}
        /\ pc' \in Steps
    BY <1>13 DEF CheckpointClear, Steps
  <2>2. journal' \in Seq(Frame) /\ synced' \in 0 .. Len(journal')
    BY <1>a, <2>1, Zenon
  <2>3. unlinked' \subseteq Seq(Frame) /\ expected' \subseteq Seq(Live)
    BY <1>0, <2>1 DEF TypeOK
  <2> QED
    BY <1>13, <2>1, <2>2, <2>3 DEF CheckpointClear, TypeOK
<1>14. CASE CheckpointFails
  BY <1>14 DEF CheckpointFails, TypeOK, Steps, disk
<1>15. CASE Kill
  BY <1>a, <1>15 DEF Kill, Dies, TypeOK, Steps, disk
<1>16. CASE PowerLoss
  <2>1. journal' \in Seq(Frame)
    <3>1. CASE journal' \in Survivors(journal, synced)
      BY <1>0, <3>1, SurvivingFrames
    <3>2. CASE journal' \in unlinked
      BY <3>2 DEF TypeOK
    <3> QED
      BY <1>16, <3>1, <3>2 DEF PowerLoss
  <2>2. image' \in Image \cup {NoImage} /\ expected' \subseteq Seq(Live)
    BY <1>16 DEF PowerLoss, TypeOK
  <2>3. synced' \in 0 .. Len(journal')
    BY <1>16, <2>1 DEF PowerLoss
  <2> QED
    BY <1>0, <1>a, <1>16, <2>1, <2>2, <2>3 DEF PowerLoss, Dies, TypeOK
<1>17. CASE Boot
  BY <1>17, InitialHeapAssumption DEF Boot, TypeOK, Steps, disk
<1>18. CASE UNCHANGED vars
  BY <1>18 DEF vars, disk, TypeOK
<1> QED
  BY <1>1, <1>2, <1>3, <1>4, <1>5, <1>6, <1>7, <1>8, <1>9, <1>10, <1>11, <1>12, <1>13,
     <1>14, <1>15, <1>16, <1>17, <1>18 DEF Next

-----------------------------------------------------------------------------
(* The heap, the journal and the images, action by action. *)

LEMMA OverlayWithin ==
  ASSUME NEW h \in Seq(Live), NEW entries \in Seq(Triple), NEW n,
         WithinHeap(entries, n), \A o \in 1 .. Len(h) : Within(h[o], n)
  PROVE  \A o \in 1 .. Len(h) : Within(Overlay(h, entries)[o], n)
<1> SUFFICES ASSUME NEW o \in 1 .. Len(h) PROVE Within(Overlay(h, entries)[o], n)
  OBVIOUS
<1>1. Overlay(h, entries)[o] = IF Writes(entries, o) = {} THEN h[o] ELSE Youngest(entries, o)
  BY DEF Overlay
<1>2. CASE Writes(entries, o) = {}
  BY <1>1, <1>2
<1>3. CASE Writes(entries, o) # {}
  <2>1. PICK i \in 1 .. Len(entries) : Youngest(entries, o) = entries[i].value
    BY <1>3, YoungestTriple
  <2> QED
    BY <1>1, <1>3, <2>1 DEF WithinHeap
<1> QED
  BY <1>2, <1>3

\* No store of the program, alone or in a transaction, takes a pointer out of
\* the heap (Alloc, Store, Durable, Install).
LEMMA HeapPreserved ==
  ASSUME TypeOK, HeapInv, [Next]_vars
  PROVE  HeapInv'
<1>0. /\ heap \in Seq(Live) /\ writes \in Seq(Triple) /\ Len(heap) \in Nat
      /\ Len(<<>>) = 0
      /\ \A o \in 1 .. Len(heap) : Within(heap[o], Len(heap))
      /\ DOMAIN heap = 1 .. Len(heap)
  BY DEF TypeOK, HeapInv
<1>1. ASSUME NEW w \in Live, Alloc(w) PROVE HeapInv'
  <2>1. /\ heap' = Append(heap, w) /\ pc = "idle" /\ pc' = "idle" /\ writes' = writes
        /\ Len(heap) < HeapSize
    BY <1>1 DEF Alloc
  <2>2. /\ Len(heap') = Len(heap) + 1 /\ heap'[Len(heap) + 1] = w
        /\ \A o \in 1 .. Len(heap) : heap'[o] = heap[o]
    BY <1>0, <2>1
  <2>3. IsObject(w) => w.object <= Len(heap) /\ w.object \in Nat
    BY <1>0, <1>1, Conversions, Objects DEF Alloc, Storable
  <2>4. ASSUME NEW o \in 1 .. Len(heap) + 1 PROVE Within(heap'[o], Len(heap) + 1)
    <3>1. CASE o = Len(heap) + 1
      BY <1>0, <2>2, <2>3, <3>1 DEF Within
    <3>2. CASE o # Len(heap) + 1
      <4>1. o \in 1 .. Len(heap) /\ heap[o] \in Live
        BY <1>0, <3>2
      <4>2. IsObject(heap[o]) => heap[o].object \in Nat
        BY <4>1, Conversions, Objects
      <4> QED
        BY <1>0, <2>2, <4>1, <4>2 DEF Within
    <3> QED
      BY <3>1, <3>2
  <2>5. Len(heap') \in Object
    BY <1>0, <2>1, <2>2, Objects DEF Object
  <2> QED
    BY <2>1, <2>2, <2>4, <2>5 DEF HeapInv, Committing
<1>2. ASSUME NEW w \in Live, NEW o \in Object, Store(o, w) PROVE HeapInv'
  <2>1. /\ heap' = [heap EXCEPT ![o] = w] /\ o \in 1 .. Len(heap)
        /\ pc = "idle" /\ pc' = "idle" /\ writes' = writes
    BY <1>0, <1>2 DEF Store
  <2>2. Len(heap') = Len(heap) /\ \A q \in 1 .. Len(heap) : heap'[q] = IF q = o THEN w ELSE heap[q]
    BY <1>0, <2>1
  <2>3. Within(w, Len(heap))
    BY <1>0, <1>2 DEF Store, Storable, Within
  <2> QED
    BY <1>0, <2>1, <2>2, <2>3 DEF HeapInv, Committing
<1>3. ASSUME NEW entries \in Transactions, Durable(entries) PROVE HeapInv'
  <2>1. entries \in Seq(Triple)
    BY <1>3, TransactionTypes DEF Durable, HeapInv, TypeOK
  <2>2. WithinHeap(entries, Len(heap))
    BY <1>0, <1>3, <2>1 DEF Durable, WithinHeap, Within, Storable
  <2> QED
    BY <1>3, <2>2 DEF Durable, HeapInv, Committing
<1>4. CASE WriteHeader
  BY <1>4 DEF WriteHeader, HeapInv, Committing
<1>5. CASE WriteBody
  BY <1>5 DEF WriteBody, HeapInv, Committing
<1>6. CASE Fsync
  BY <1>6 DEF Fsync, HeapInv, Committing
<1>7. CASE Install
  <2>1. pc = "install" /\ pc' = "idle" /\ heap' = Overlay(heap, writes) /\ writes' = <<>>
    BY <1>7 DEF Install
  <2>2. WithinHeap(writes, Len(heap)) /\ Len(heap) \in Object
    BY <2>1 DEF HeapInv, Committing
  <2>3. Len(heap') = Len(heap)
    BY <1>0, <2>1, OverlayType
  <2>4. \A o \in 1 .. Len(heap) : Within(heap'[o], Len(heap))
    BY <1>0, <2>1, <2>2, OverlayWithin
  <2> QED
    BY <2>1, <2>2, <2>3, <2>4 DEF HeapInv, Committing
<1>8. CASE pc' = "dead" /\ heap' = <<>> /\ writes' = <<>>
  BY <1>0, <1>8 DEF HeapInv, Committing
<1>9. CASE CheckpointWrite \/ CheckpointSync \/ CheckpointRename
           \/ checkpoint_fsync_parent_directory \/ CheckpointClear \/ CheckpointFails
  BY <1>9 DEF CheckpointWrite, CheckpointSync, CheckpointRename,
              checkpoint_fsync_parent_directory, CheckpointClear, CheckpointFails,
              HeapInv, Committing
<1>10. CASE Boot
  <2>1. \A o \in 1 .. Len(InitialHeap) : Within(InitialHeap[o], Len(InitialHeap))
    BY InitialHeapAssumption DEF Within
  <2> QED
    BY <1>10, <2>1, InitialHeapAssumption DEF Boot, HeapInv, Committing
<1>11. CASE UNCHANGED vars
  BY <1>11 DEF vars, HeapInv
<1>12. AppendFails \/ Kill \/ PowerLoss => pc' = "dead" /\ heap' = <<>> /\ writes' = <<>>
  BY DEF AppendFails, Kill, PowerLoss, Dies
<1> QED
  BY <1>1, <1>2, <1>3, <1>4, <1>5, <1>6, <1>7, <1>8, <1>9, <1>10, <1>11, <1>12 DEF Next

\* A frame appended to the journal leaves those before it where they are.
LEMMA FrameAppended ==
  ASSUME NEW j \in Seq(Frame), NEW f \in Frame
  PROVE  /\ Append(j, f) \in Seq(Frame) /\ Len(Append(j, f)) = Len(j) + 1
         /\ Append(j, f)[Len(j) + 1] = f
         /\ \A i \in 1 .. Len(j) : Append(j, f)[i] = j[i]
         /\ SubSeq(Append(j, f), 1, Len(j)) = j
OBVIOUS

\* The body completes the last frame.
LEMMA BodyWritten ==
  ASSUME TypeOK, AppendInv, WriteBody
  PROVE  /\ Len(journal) \in Nat \ {0} /\ Len(journal') = Len(journal)
         /\ \A i \in 1 .. Len(journal) - 1 : journal'[i] = journal[i]
         /\ journal'[Len(journal)] = [entries |-> Encoded(writes), part |-> "whole"]
         /\ SubSeq(journal', 1, Len(journal) - 1) = SubSeq(journal, 1, Len(journal) - 1)
<1> DEFINE n == Len(journal)
<1>1. /\ journal \in Seq(Frame) /\ n \in Nat \ {0}
      /\ journal[n] = [entries |-> Encoded(writes), part |-> "partial"]
      /\ journal' = [journal EXCEPT ![n].part = "whole"]
  BY DEF TypeOK, AppendInv, WriteBody
<1> DEFINE f == [journal[n] EXCEPT !.part = "whole"]
<1>2. f = [entries |-> Encoded(writes), part |-> "whole"]
  BY <1>1
<1>3. journal' = [journal EXCEPT ![n] = f]
  BY <1>1
<1> HIDE DEF f
<1>4. DOMAIN journal = 1 .. n
  BY <1>1
<1>5. DOMAIN journal' = 1 .. n /\ journal'[n] = f /\ \A i \in 1 .. n - 1 : journal'[i] = journal[i]
  BY <1>1, <1>3, <1>4
<1>6. Len(journal') = n
  BY <1>1, <1>5
<1>7. SubSeq(journal', 1, n - 1) = [i \in 1 .. n - 1 |-> journal'[i]]
      /\ SubSeq(journal, 1, n - 1) = [i \in 1 .. n - 1 |-> journal[i]]
  BY <1>1, SMTT(30)
<1> QED
  BY <1>1, <1>2, <1>5, <1>6, <1>7

\* What appending a frame does, with the length spelled out.
LEMMA HeaderWritten ==
  ASSUME TypeOK, WriteHeader
  PROVE  /\ Len(journal) \in Nat /\ Len(journal') = Len(journal) + 1
         /\ journal' \in Seq(Frame)
         /\ \A i \in 1 .. Len(journal) : journal'[i] = journal[i]
         /\ journal'[Len(journal) + 1] = [entries |-> Encoded(writes), part |-> "partial"]
         /\ SubSeq(journal', 1, Len(journal)) = journal
<1> DEFINE f == [entries |-> Encoded(writes), part |-> "partial"]
<1>1. f \in Frame /\ journal \in Seq(Frame)
  BY FrameType DEF TypeOK, Part
<1>2. journal' = Append(journal, f)
  BY DEF WriteHeader
<1> HIDE DEF f
<1>3. /\ journal' \in Seq(Frame) /\ Len(journal') = Len(journal) + 1
      /\ journal'[Len(journal) + 1] = f
      /\ \A i \in 1 .. Len(journal) : journal'[i] = journal[i]
      /\ SubSeq(journal', 1, Len(journal)) = journal
  BY <1>1, <1>2, FrameAppended
<1> QED
  BY <1>1, <1>3 DEF f

\* Synced frames that stay keep what is acknowledged.
LEMMA AckedKept ==
  ASSUME AckedInv, acked' = acked, synced \in Nat, synced' \in Nat, synced <= synced',
         \A i \in 1 .. synced : journal'[i] = journal[i]
  PROVE  AckedInv'
<1> SUFFICES ASSUME NEW a \in acked
             PROVE  a[1] \in 1 .. synced' /\ journal'[a[1]] = [entries |-> a[2], part |-> "whole"]
  BY Zenon DEF AckedInv
<1> DEFINE i == a[1]
           f == [entries |-> a[2], part |-> "whole"]
<1>1. i \in 1 .. synced /\ journal[i] = f
  BY DEF AckedInv
<1> HIDE DEF i, f
<1>2. i \in 1 .. synced' /\ journal'[i] = f
  BY <1>1
<1> QED
  BY <1>2 DEF i, f

\* Write-ahead: only a synced frame is acknowledged, and only a checkpoint
\* removes one (txn_log_append_fsync, txn_durable_log_clear).
LEMMA JournalPreserved ==
  ASSUME TypeOK, AckedInv, AppendInv, RemovalInv, [Next]_vars
  PROVE  AckedInv' /\ AppendInv' /\ RemovalInv'
<1>0. /\ journal \in Seq(Frame) /\ writes \in Seq(Triple) /\ Len(journal) \in Nat
      /\ synced \in Nat /\ synced <= Len(journal)
  BY DEF TypeOK
<1>1. ASSUME NEW w \in Live, Alloc(w) PROVE AckedInv' /\ AppendInv' /\ RemovalInv'
  BY <1>1 DEF Alloc, disk, AckedInv, AppendInv, RemovalInv
<1>2. ASSUME NEW w \in Live, NEW o \in Object, Store(o, w)
      PROVE  AckedInv' /\ AppendInv' /\ RemovalInv'
  BY <1>2 DEF Store, disk, AckedInv, AppendInv, RemovalInv
<1>3. ASSUME NEW entries \in Transactions, Durable(entries)
      PROVE  AckedInv' /\ AppendInv' /\ RemovalInv'
  BY <1>3 DEF Durable, disk, AckedInv, AppendInv, RemovalInv
<1>4. CASE WriteHeader
  <2>1. /\ pc' = "body" /\ writes' = writes /\ synced' = synced /\ acked' = acked
        /\ unlinked' = unlinked
    BY <1>4 DEF WriteHeader
  <2>2. AckedInv'
    <3>1. \A i \in 1 .. synced : journal'[i] = journal[i]
      BY <1>0, <1>4, HeaderWritten
    <3> QED
      BY <1>0, <2>1, <3>1, AckedKept
  <2>3. AppendInv'
    <3>1. Len(journal') = Len(journal) + 1 /\ synced' < Len(journal')
          /\ journal'[Len(journal')] = [entries |-> Encoded(writes), part |-> "partial"]
      BY <1>0, <1>4, <2>1, HeaderWritten
    <3>2. Encoded(writes)' = Encoded(writes)
      BY <2>1 DEF Encoded
    <3> QED
      BY <1>0, <2>1, <3>1, <3>2 DEF AppendInv
  <2> QED
    BY <2>1, <2>2, <2>3 DEF RemovalInv
<1>5. CASE WriteBody
  <2>1. /\ pc = "body" /\ pc' = "fsync" /\ writes' = writes /\ synced' = synced
        /\ acked' = acked /\ unlinked' = unlinked
    BY <1>5 DEF WriteBody
  <2>2. synced < Len(journal)
    BY <2>1 DEF AppendInv
  <2>3. AckedInv'
    <3>1. \A i \in 1 .. synced : journal'[i] = journal[i]
      BY <1>0, <1>5, <2>2, BodyWritten
    <3> QED
      BY <1>0, <2>1, <3>1, AckedKept
  <2>4. AppendInv'
    <3>1. Len(journal') = Len(journal) /\ Len(journal) > 0
          /\ journal'[Len(journal')] = [entries |-> Encoded(writes), part |-> "whole"]
      BY <1>0, <1>5, BodyWritten
    <3>2. Encoded(writes)' = Encoded(writes)
      BY <2>1 DEF Encoded
    <3> QED
      BY <2>1, <2>2, <3>1, <3>2 DEF AppendInv
  <2> QED
    BY <2>1, <2>3, <2>4 DEF RemovalInv
<1>6. CASE Fsync
  <2>1. /\ pc = "fsync" /\ pc' = "install" /\ synced' = Len(journal) /\ unlinked' = {}
        /\ journal' = journal /\ acked' = acked /\ writes' = writes
    BY <1>6 DEF Fsync
  <2>2. AckedInv'
    BY <1>0, <2>1, AckedKept
  <2>3. AppendInv'
    BY <2>1 DEF AppendInv, Encoded
  <2> QED
    BY <2>1, <2>2, <2>3 DEF RemovalInv
<1>7. CASE Install
  <2>1. /\ pc = "install" /\ pc' = "idle"
        /\ journal' = journal /\ synced' = synced /\ unlinked' = unlinked
        /\ acked' = acked \cup {<<Len(journal), Encoded(writes)>>}
    BY <1>7 DEF Install, disk
  <2>2. /\ synced = Len(journal) /\ unlinked = {} /\ Len(journal) > 0
        /\ journal[Len(journal)] = [entries |-> Encoded(writes), part |-> "whole"]
    BY <2>1 DEF AppendInv
  <2>3. AckedInv'
    <3> SUFFICES ASSUME NEW a \in acked'
                 PROVE  /\ a[1] \in 1 .. synced'
                        /\ journal'[a[1]] = [entries |-> a[2], part |-> "whole"]
      BY Zenon DEF AckedInv
    <3>1. CASE a \in acked
      BY <2>1, <3>1 DEF AckedInv
    <3>2. CASE a = <<Len(journal), Encoded(writes)>>
      <4>1. a[1] = Len(journal) /\ a[2] = Encoded(writes)
        BY <3>2
      <4>2. Len(journal) \in 1 .. synced
        BY <1>0, <2>2
      <4> QED
        BY <2>1, <2>2, <4>1, <4>2, Zenon
    <3> QED
      BY <2>1, <3>1, <3>2
  <2> QED
    BY <2>1, <2>2, <2>3 DEF RemovalInv, AppendInv
<1>8. CASE AppendFails
  <2>1. /\ pc' = "dead" /\ synced' = synced /\ unlinked' = unlinked /\ acked' = acked
    BY <1>8 DEF AppendFails, Dies
  <2>2. \A i \in 1 .. synced : journal'[i] = journal[i]
    <3>1. CASE journal' = journal
      BY <3>1
    <3>2. CASE \E p \in {"stub", "partial"} :
                 journal' = Append(journal, [entries |-> Encoded(writes), part |-> p])
      <4>1. PICK p \in {"stub", "partial"} :
                   journal' = Append(journal, [entries |-> Encoded(writes), part |-> p])
        BY <3>2
      <4>2. [entries |-> Encoded(writes), part |-> p] \in Frame
        BY <1>0, FrameType DEF Part
      <4>3. \A i \in 1 .. Len(journal) : journal'[i] = journal[i]
        BY <1>0, <4>1, <4>2, FrameAppended
      <4> QED
        BY <1>0, <4>3
    <3> QED
      BY <1>8, <3>1, <3>2 DEF AppendFails
  <2> QED
    BY <2>1, <2>2 DEF AckedInv, AppendInv, RemovalInv
<1>9. CASE CheckpointWrite \/ CheckpointSync \/ CheckpointRename
           \/ checkpoint_fsync_parent_directory \/ CheckpointFails
  BY <1>9 DEF CheckpointWrite, CheckpointSync, CheckpointRename,
              checkpoint_fsync_parent_directory, CheckpointFails, disk,
              AckedInv, AppendInv, RemovalInv
<1>10. CASE CheckpointClear
  BY <1>10 DEF CheckpointClear, AckedInv, AppendInv, RemovalInv
<1>11. CASE Kill \/ Boot
  BY <1>11 DEF Kill, Boot, Dies, disk, AckedInv, AppendInv, RemovalInv
<1>12. CASE PowerLoss
  <2>1. pc' = "dead" /\ synced' = Len(journal') /\ unlinked' = {} /\ acked' = acked
    BY <1>12 DEF PowerLoss, Dies
  <2>2. AckedInv'
    <3>1. CASE journal' \in unlinked
      <4>1. acked = {}
        BY <3>1 DEF RemovalInv
      <4> QED
        BY <2>1, <4>1 DEF AckedInv
    <3>2. CASE journal' \in Survivors(journal, synced)
      <4>1. Len(journal') \in synced .. Len(journal)
            /\ \A i \in 1 .. synced : journal'[i] = journal[i]
        <5>1. synced \in 0 .. Len(journal)
          BY <1>0
        <5>2. /\ Len(journal') \in synced .. Len(journal)
              /\ \A i \in 1 .. Len(journal') : i < Len(journal') \/ i <= synced => journal'[i] = journal[i]
          BY <1>0, <3>2, <5>1, SurvivingFrames
        <5> QED
          BY <1>0, <5>2
      <4> QED
        BY <1>0, <2>1, <4>1, AckedKept
    <3> QED
      BY <1>12, <3>1, <3>2 DEF PowerLoss
  <2> QED
    BY <2>1, <2>2 DEF AppendInv, RemovalInv
<1>13. CASE UNCHANGED vars
  BY <1>13 DEF vars, disk, AckedInv, AppendInv, RemovalInv, Encoded
<1> QED
  BY <1>1, <1>2, <1>3, <1>4, <1>5, <1>6, <1>7, <1>8, <1>9, <1>10, <1>11, <1>12, <1>13
     DEF Next

\* Only a synced file is renamed over the image, and only a synced directory
\* forgets the old one (Image>>checkpointTo:).
LEMMA ImagesPreserved ==
  ASSUME TypeOK, HeapInv, ImageInv, [Next]_vars
  PROVE  ImageInv'
<1>1. CASE UNCHANGED <<image, replaced, temp>> /\ pc' \in {"idle", "header", "body", "fsync", "install"}
  BY <1>1 DEF ImageInv
<1>2. CASE UNCHANGED <<image, replaced>> /\ pc' \in {"idle", "dead"}
  BY <1>2 DEF ImageInv
<1>3. CASE CheckpointWrite
  <2>1. temp' \in Image
    BY <1>3, CheckpointType DEF HeapInv, CheckpointWrite
  <2>2. temp' # NoImage
    BY <2>1, ImageIsThere
  <2> QED
    BY <1>3, <2>2 DEF CheckpointWrite, ImageInv, disk
<1>4. CASE CheckpointSync
  <2>1. temp \in Image /\ temp' = [temp EXCEPT !.synced = TRUE]
    BY <1>4 DEF CheckpointSync, ImageInv, TypeOK
  <2>2. temp' \in Image /\ temp'.synced
    BY <2>1 DEF Image
  <2>3. temp' # NoImage
    BY <2>2, ImageIsThere
  <2> QED
    BY <1>4, <2>2, <2>3 DEF CheckpointSync, ImageInv, disk
<1>5. CASE CheckpointRename
  BY <1>5 DEF CheckpointRename, ImageInv
<1>6. CASE checkpoint_fsync_parent_directory
  BY <1>6 DEF checkpoint_fsync_parent_directory, ImageInv
<1>7. CASE PowerLoss
  <2>1. /\ pc' = "dead" /\ replaced' = {}
        /\ image' \in {image} \cup replaced \cup {NoImage}
    BY <1>7 DEF PowerLoss, Dies
  <2> QED
    BY <2>1 DEF ImageInv
<1>8. CASE UNCHANGED vars
  BY <1>8 DEF vars, disk, ImageInv
<1>9. /\ \A w \in Live : Alloc(w) => UNCHANGED <<image, replaced, temp>> /\ pc' = "idle"
      /\ \A w \in Live, o \in Object : Store(o, w) => UNCHANGED <<image, replaced, temp>> /\ pc' = "idle"
      /\ \A entries : Durable(entries) => UNCHANGED <<image, replaced, temp>> /\ pc' = "header"
  BY DEF Alloc, Store, Durable, disk
<1>10. WriteHeader \/ WriteBody \/ Fsync \/ Install =>
         UNCHANGED <<image, replaced, temp>> /\ pc' \in {"idle", "header", "body", "fsync", "install"}
  BY DEF WriteHeader, WriteBody, Fsync, Install, disk
<1>11. AppendFails \/ CheckpointClear \/ CheckpointFails \/ Kill \/ Boot =>
         UNCHANGED <<image, replaced>> /\ pc' \in {"idle", "dead"}
  BY DEF AppendFails, CheckpointClear, CheckpointFails, Kill, Boot, Dies, disk
<1> QED
  BY <1>1, <1>2, <1>3, <1>4, <1>5, <1>6, <1>7, <1>8, <1>9, <1>10, <1>11 DEF Next

\* A checkpoint runs without a step of the program in between: header and
\* checksums stay those of the live heap.
LEMMA CheckpointPreserved ==
  ASSUME TypeOK, HeapInv, ImageInv, CheckpointInv, [Next]_vars
  PROVE  CheckpointInv'
<1>0. heap' = heap => LivePages' = LivePages
  BY DEF LivePages
<1>1. CASE pc' \in {"idle", "header", "body", "fsync", "install", "dead"}
  BY <1>1 DEF CheckpointInv
<1>2. CASE CheckpointWrite
  <2>1. temp'.used = Len(heap) /\ temp'.sums = LivePages
    BY <1>2, CheckpointType DEF HeapInv, CheckpointWrite
  <2>2. heap' = heap /\ pc' = "sync"
    BY <1>2 DEF CheckpointWrite
  <2> QED
    BY <1>0, <2>1, <2>2 DEF CheckpointInv
<1>3. CASE CheckpointSync
  <2>1. /\ temp' = [temp EXCEPT !.synced = TRUE] /\ heap' = heap /\ pc = "sync" /\ pc' = "rename"
    BY <1>3 DEF CheckpointSync
  <2>2. temp \in Image
    BY <2>1 DEF ImageInv, TypeOK
  <2>3. temp'.used = temp.used /\ temp'.sums = temp.sums
    BY <2>1, <2>2 DEF Image
  <2> QED
    BY <1>0, <2>1, <2>3 DEF CheckpointInv
<1>4. CASE CheckpointRename
  BY <1>0, <1>4 DEF CheckpointRename, CheckpointInv
<1>5. CASE checkpoint_fsync_parent_directory
  BY <1>0, <1>5 DEF checkpoint_fsync_parent_directory, CheckpointInv
<1>6. CASE UNCHANGED vars
  BY <1>0, <1>6 DEF vars, disk, CheckpointInv
<1>7. /\ \A w \in Live : Alloc(w) => pc' = "idle"
      /\ \A w \in Live, o \in Object : Store(o, w) => pc' = "idle"
      /\ \A entries : Durable(entries) => pc' = "header"
  BY DEF Alloc, Store, Durable
<1>8. WriteHeader \/ WriteBody \/ Fsync \/ Install \/ AppendFails \/ CheckpointClear
        \/ CheckpointFails \/ Kill \/ PowerLoss \/ Boot =>
          pc' \in {"idle", "header", "body", "fsync", "install", "dead"}
  BY DEF WriteHeader, WriteBody, Fsync, Install, AppendFails, CheckpointClear, CheckpointFails,
         Kill, PowerLoss, Boot, Dies
<1> QED
  BY <1>1, <1>2, <1>3, <1>4, <1>5, <1>6, <1>7, <1>8 DEF Next

-----------------------------------------------------------------------------
(* Replay (txn_log_replay). *)

\* The frame whose value an object gets.
LastFor(j, o, m) ==
  /\ m \in Replayed(j) /\ Writes(j[m].entries, o) # {}
  /\ \A k \in Replayed(j) : k > m => Writes(j[k].entries, o) = {}

\* The frames replayed are frames of the journal, all of them when none is torn.
LEMMA ReplayedFrames ==
  ASSUME NEW j \in Seq(Frame)
  PROVE  /\ Replayed(j) \subseteq 1 .. Len(j)
         /\ (\A i \in 1 .. Len(j) : j[i].part = "whole") => Replayed(j) = 1 .. Len(j)
<1>1. DOMAIN j = 1 .. Len(j) /\ Len(j) \in Nat
  OBVIOUS
<1> QED
  BY <1>1 DEF Replayed

\* The last frame that holds the object decides; the last triple in it does.
LEMMA ReplayTouched ==
  ASSUME NEW loaded, NEW j \in Seq(Frame), NEW o \in DOMAIN loaded, NEW m, LastFor(j, o, m)
  PROVE  txn_log_replay(loaded, j)[o] =
           decode_durable_log_value(Youngest(j[m].entries, o), Len(loaded))
<1>1. Replayed(j) \subseteq Nat
  BY ReplayedFrames
<1> DEFINE Is(i) == /\ Writes(j[i].entries, o) # {}
                    /\ \A k \in Replayed(j) : k > i => Writes(j[k].entries, o) = {}
           c == CHOOSE i \in Replayed(j) : Is(i)
<1>2. m \in Replayed(j) /\ Is(m)
  BY DEF LastFor
<1>3. c \in Replayed(j) /\ Is(c)
  BY <1>2
<1>4. c = m
  <2> HIDE DEF c
  <2>1. c \in Nat /\ m \in Nat
    BY <1>1, <1>2, <1>3
  <2>2. ~ (m > c)
    BY <1>2, <1>3
  <2>3. ~ (c > m)
    BY <1>2, <1>3
  <2> QED
    BY <2>1, <2>2, <2>3
<1>5. \E i \in Replayed(j) : Writes(j[i].entries, o) # {}
  BY <1>2
<1>6. txn_log_replay(loaded, j)[o] =
        decode_durable_log_value(Youngest(j[c].entries, o), Len(loaded))
  BY <1>5 DEF txn_log_replay
<1> QED
  BY <1>4, <1>6

\* An object that no replayed frame writes keeps the word of the image.
LEMMA ReplayUntouched ==
  ASSUME NEW loaded, NEW j \in Seq(Frame), NEW o \in DOMAIN loaded,
         \A i \in Replayed(j) : Writes(j[i].entries, o) = {}
  PROVE  txn_log_replay(loaded, j)[o] = loaded[o]
BY DEF txn_log_replay

\* No replayed frame writes the object, or one of them is the last to do so.
LEMMA ReplayCases ==
  ASSUME NEW j \in Seq(Frame), NEW o
  PROVE  \/ \A i \in Replayed(j) : Writes(j[i].entries, o) = {}
         \/ \E m : LastFor(j, o, m)
<1> DEFINE T == {i \in Replayed(j) : Writes(j[i].entries, o) # {}}
<1>1. T \in SUBSET (0 .. Len(j)) /\ Len(j) \in Nat /\ T \subseteq Nat
  BY ReplayedFrames
<1>2. CASE T # {}
  <2>1. PICK m \in T : \A k \in T : k <= m
    <3> HIDE DEF T
    <3> QED
      BY <1>1, <1>2, NatMaximum
  <2>2. LastFor(j, o, m)
    <3> SUFFICES ASSUME NEW k \in Replayed(j), k > m PROVE Writes(j[k].entries, o) = {}
      BY <2>1 DEF LastFor
    <3>1. k \in Nat /\ m \in Nat
      BY <1>1, ReplayedFrames
    <3>2. ~ (k <= m)
      BY <3>1
    <3>3. k \notin T
      BY <2>1, <3>2, Zenon
    <3> QED
      BY <3>3
  <2> QED
    BY <2>2
<1> QED
  BY <1>2

\* A replay has the loaded objects, and depends on the loaded heap only where
\* the journal does not name an object.
LEMMA ReplayDomain ==
  ASSUME NEW loaded, NEW j
  PROVE  txn_log_replay(loaded, j) = [o \in DOMAIN loaded |-> txn_log_replay(loaded, j)[o]]
BY DEF txn_log_replay

\* An empty journal replays to the heap it starts from.
LEMMA ReplayOfNothing ==
  ASSUME NEW h \in Seq(Live)
  PROVE  txn_log_replay(h, <<>>) = h
<1>1. <<>> \in Seq(Frame) /\ Len(<<>>) = 0
  OBVIOUS
<1>2. Replayed(<<>>) = {}
  <2>1. DOMAIN <<>> = {}
    OBVIOUS
  <2> QED
    BY <2>1 DEF Replayed
<1>3. \A o \in DOMAIN h : txn_log_replay(h, <<>>)[o] = h[o]
  BY <1>1, <1>2, ReplayUntouched
<1>4. h = [o \in DOMAIN h |-> h[o]]
  OBVIOUS
<1> QED
  BY <1>3, <1>4, ReplayDomain

\* Replaying a journal again changes nothing.
LEMMA ReplayAgain ==
  ASSUME NEW j \in Seq(Frame), NEW loaded, NEW h \in Seq(Live),
         txn_log_replay(loaded, j) = h, DOMAIN loaded = DOMAIN h, Len(loaded) = Len(h)
  PROVE  txn_log_replay(h, j) = h
<1>1. ASSUME NEW o \in DOMAIN h PROVE txn_log_replay(h, j)[o] = h[o]
  <2>1. CASE \A i \in Replayed(j) : Writes(j[i].entries, o) = {}
    BY <2>1, ReplayUntouched
  <2>2. ASSUME NEW m, LastFor(j, o, m) PROVE txn_log_replay(h, j)[o] = h[o]
    <3>1. txn_log_replay(h, j)[o] =
            decode_durable_log_value(Youngest(j[m].entries, o), Len(h))
      BY <2>2, ReplayTouched
    <3>2. txn_log_replay(loaded, j)[o] =
            decode_durable_log_value(Youngest(j[m].entries, o), Len(loaded))
      BY <2>2, ReplayTouched
    <3> QED
      BY <3>1, <3>2
  <2> QED
    BY <2>1, <2>2, ReplayCases
<1>2. h = [o \in DOMAIN h |-> h[o]]
  OBVIOUS
<1> QED
  BY <1>1, <1>2, ReplayDomain

\* Of a journal whose last frame is torn, replay reads the others.
LEMMA ReplayTorn ==
  ASSUME NEW j \in Seq(Frame), NEW f \in Frame, f.part # "whole", NEW loaded,
         \A i \in 1 .. Len(j) : j[i].part = "whole"
  PROVE  /\ Replayed(Append(j, f)) = 1 .. Len(j)
         /\ txn_log_replay(loaded, Append(j, f)) = txn_log_replay(loaded, j)
<1> DEFINE t == Append(j, f)
           n == Len(j)
<1>1. /\ n \in Nat /\ t \in Seq(Frame) /\ Len(t) = n + 1 /\ t[n + 1] = f
      /\ \A i \in 1 .. n : t[i] = j[i]
  BY FrameAppended
<1> HIDE DEF t
<1>2. Replayed(j) = 1 .. n
  BY ReplayedFrames
<1> HIDE DEF n
<1>3. Replayed(t) = 1 .. n
  <2>1. DOMAIN t = 1 .. n + 1
    BY <1>1
  <2>2. ASSUME NEW i \in 1 .. n + 1
        PROVE  (\A k \in 1 .. i : t[k].part = "whole") <=> i \in 1 .. n
    <3>1. CASE i = n + 1
      BY <1>1, <3>1
    <3>2. CASE i # n + 1
      BY <1>1, <3>2 DEF n
    <3> QED
      BY <3>1, <3>2
  <2> QED
    BY <1>1, <2>1, <2>2 DEF Replayed
<1>4. ASSUME NEW o \in DOMAIN loaded
      PROVE  txn_log_replay(loaded, t)[o] = txn_log_replay(loaded, j)[o]
  <2>1. CASE \A i \in Replayed(j) : Writes(j[i].entries, o) = {}
    <3>1. \A i \in Replayed(t) : Writes(t[i].entries, o) = {}
      BY <1>1, <1>2, <1>3, <2>1
    <3>2. txn_log_replay(loaded, t)[o] = loaded[o]
      BY <1>1, <3>1, ReplayUntouched
    <3>3. txn_log_replay(loaded, j)[o] = loaded[o]
      BY <2>1, ReplayUntouched
    <3> QED
      BY <3>2, <3>3
  <2>2. ASSUME NEW m, LastFor(j, o, m)
        PROVE  txn_log_replay(loaded, t)[o] = txn_log_replay(loaded, j)[o]
    <3>1. LastFor(t, o, m) /\ t[m] = j[m]
      BY <1>1, <1>2, <1>3, <2>2 DEF LastFor
    <3>2. txn_log_replay(loaded, t)[o] =
            decode_durable_log_value(Youngest(t[m].entries, o), Len(loaded))
      BY <1>1, <3>1, ReplayTouched
    <3>3. txn_log_replay(loaded, j)[o] =
            decode_durable_log_value(Youngest(j[m].entries, o), Len(loaded))
      BY <2>2, ReplayTouched
    <3> QED
      BY <3>1, <3>2, <3>3
  <2> QED
    BY <2>1, <2>2, ReplayCases
<1>5. txn_log_replay(loaded, t) = txn_log_replay(loaded, j)
  BY <1>4, ReplayDomain
<1> QED
  BY <1>3, <1>5 DEF t, n

\* The youngest triple of a transaction is the youngest in its frame.
LEMMA EncodedYoungest ==
  ASSUME NEW entries \in Seq(Triple), NEW o
  PROVE  /\ Writes(Encoded(entries), o) = Writes(entries, o)
         /\ Writes(entries, o) # {} =>
              \E i \in 1 .. Len(entries) :
                /\ Youngest(entries, o) = entries[i].value
                /\ entries[i].value \in Live
                /\ Youngest(Encoded(entries), o) = encode_durable_log_value(entries[i].value)
<1>1. /\ Encoded(entries) \in Seq(DiskTriple)
      /\ DOMAIN Encoded(entries) = 1 .. Len(entries) /\ DOMAIN entries = 1 .. Len(entries)
      /\ \A i \in 1 .. Len(entries) :
           /\ Encoded(entries)[i].object = entries[i].object
           /\ Encoded(entries)[i].value = encode_durable_log_value(entries[i].value)
  BY EncodedTriples
<1>2. Writes(Encoded(entries), o) = Writes(entries, o)
  BY <1>1 DEF Writes
<1>3. ASSUME Writes(entries, o) # {}
      PROVE  \E i \in 1 .. Len(entries) :
                /\ Youngest(entries, o) = entries[i].value
                /\ entries[i].value \in Live
                /\ Youngest(Encoded(entries), o) = encode_durable_log_value(entries[i].value)
  <2> DEFINE c == CHOOSE k \in Writes(entries, o) : \A j \in Writes(entries, o) : j <= k
  <2>1. PICK i \in 1 .. Len(entries) : Youngest(entries, o) = entries[i].value /\ i = c
    BY <1>3, YoungestTriple
  <2>2. Youngest(Encoded(entries), o) = Encoded(entries)[c].value
    BY <1>2 DEF Youngest
  <2> HIDE DEF c
  <2>3. entries[i] \in Triple
    OBVIOUS
  <2>4. entries[i].value \in Live
    BY <2>3 DEF Triple
  <2> QED
    BY <1>1, <2>1, <2>2, <2>4
<1> QED
  BY <1>2, <1>3

\* A whole frame that is appended is replayed as its transaction.
LEMMA ReplayCommit ==
  ASSUME NEW j \in Seq(Frame), \A i \in 1 .. Len(j) : j[i].part = "whole",
         NEW entries \in Seq(Triple), NEW h \in Seq(Live), WithinHeap(entries, Len(h)),
         NEW loaded, DOMAIN loaded = DOMAIN h, Len(loaded) = Len(h),
         txn_log_replay(loaded, j) = h
  PROVE  txn_log_replay(loaded, Append(j, [entries |-> Encoded(entries), part |-> "whole"]))
           = Overlay(h, entries)
<1> DEFINE f == [entries |-> Encoded(entries), part |-> "whole"]
           t == Append(j, f)
           n == Len(j)
<1>1. f \in Frame /\ f.entries = Encoded(entries) /\ f.part = "whole"
  BY FrameType DEF Part
<1> HIDE DEF f
<1>2. /\ n \in Nat /\ t \in Seq(Frame) /\ Len(t) = n + 1 /\ t[n + 1] = f
      /\ \A i \in 1 .. n : t[i] = j[i]
  BY <1>1, FrameAppended
<1> HIDE DEF t
<1>3. Replayed(j) = 1 .. n
  BY ReplayedFrames
<1> HIDE DEF n
<1>4. Replayed(t) = 1 .. n + 1
  <2>1. \A i \in 1 .. Len(t) : t[i].part = "whole"
    <3> SUFFICES ASSUME NEW i \in 1 .. Len(t) PROVE t[i].part = "whole"
      OBVIOUS
    <3>1. CASE i = n + 1
      BY <1>1, <1>2, <3>1
    <3>2. CASE i # n + 1
      BY <1>2, <3>2 DEF n
    <3> QED
      BY <3>1, <3>2
  <2> QED
    BY <1>2, <2>1, ReplayedFrames
<1>5. ASSUME NEW o \in DOMAIN h
      PROVE  txn_log_replay(loaded, t)[o] = Overlay(h, entries)[o]
  <2>1. Overlay(h, entries)[o] = IF Writes(entries, o) = {} THEN h[o] ELSE Youngest(entries, o)
    BY DEF Overlay
  <2>2. Writes(f.entries, o) = Writes(entries, o)
    BY <1>1, EncodedYoungest
  <2>3. CASE Writes(entries, o) # {}
    <3>1. LastFor(t, o, n + 1)
      BY <1>2, <1>4, <2>2, <2>3 DEF LastFor
    <3>2. txn_log_replay(loaded, t)[o] =
            decode_durable_log_value(Youngest(Encoded(entries), o), Len(h))
      <4>1. txn_log_replay(loaded, t)[o] =
              decode_durable_log_value(Youngest(t[n + 1].entries, o), Len(loaded))
        BY <1>2, <3>1, ReplayTouched
      <4> QED
        BY <1>1, <1>2, <4>1
    <3>3. PICK i \in 1 .. Len(entries) :
                /\ Youngest(entries, o) = entries[i].value
                /\ entries[i].value \in Live
                /\ Youngest(Encoded(entries), o) = encode_durable_log_value(entries[i].value)
      BY <2>3, EncodedYoungest
    <3>4. Within(entries[i].value, Len(h)) /\ Len(h) \in Nat
      BY DEF WithinHeap
    <3>5. decode_durable_log_value(encode_durable_log_value(entries[i].value), Len(h))
            = entries[i].value
      BY <3>3, <3>4, Conversions DEF Within
    <3> QED
      BY <2>1, <2>3, <3>2, <3>3, <3>5
  <2>4. CASE Writes(entries, o) = {}
    <3>1. txn_log_replay(loaded, t)[o] = txn_log_replay(loaded, j)[o]
      <4>1. CASE \A i \in Replayed(j) : Writes(j[i].entries, o) = {}
        <5>1. ASSUME NEW i \in Replayed(t) PROVE Writes(t[i].entries, o) = {}
          <6>1. CASE i = n + 1
            BY <1>1, <1>2, <2>2, <2>4, <6>1
          <6>2. CASE i # n + 1
            <7>1. i \in 1 .. n
              BY <1>2, <1>4, <6>2
            <7>2. t[i] = j[i] /\ Writes(j[i].entries, o) = {}
              BY <1>2, <1>3, <4>1, <7>1
            <7> QED
              BY <7>2
          <6> QED
            BY <6>1, <6>2
        <5>2. txn_log_replay(loaded, t)[o] = loaded[o]
          BY <1>2, <5>1, ReplayUntouched
        <5>3. txn_log_replay(loaded, j)[o] = loaded[o]
          BY <4>1, ReplayUntouched
        <5> QED
          BY <5>2, <5>3
      <4>2. ASSUME NEW m, LastFor(j, o, m)
            PROVE  txn_log_replay(loaded, t)[o] = txn_log_replay(loaded, j)[o]
        <5>1. m \in 1 .. n /\ m \in 1 .. n + 1 /\ t[m] = j[m] /\ Writes(t[m].entries, o) # {}
          <6>1. m \in 1 .. n /\ Writes(j[m].entries, o) # {}
            BY <1>3, <4>2 DEF LastFor
          <6>2. m \in 1 .. n + 1 /\ t[m] = j[m]
            BY <1>2, <6>1
          <6> QED
            BY <6>1, <6>2
        <5>2. ASSUME NEW k \in 1 .. n + 1, k > m PROVE Writes(t[k].entries, o) = {}
          <6>1. CASE k = n + 1
            BY <1>1, <1>2, <2>2, <2>4, <6>1
          <6>2. CASE k # n + 1
            <7>1. k \in 1 .. n
              BY <1>2, <6>2
            <7> QED
              BY <1>2, <1>3, <4>2, <5>2, <7>1 DEF LastFor
          <6> QED
            BY <6>1, <6>2
        <5>3. LastFor(t, o, m)
          BY <1>4, <5>1, <5>2 DEF LastFor
        <5>4. txn_log_replay(loaded, t)[o] =
                decode_durable_log_value(Youngest(t[m].entries, o), Len(loaded))
          BY <1>2, <5>3, ReplayTouched
        <5>5. txn_log_replay(loaded, j)[o] =
                decode_durable_log_value(Youngest(j[m].entries, o), Len(loaded))
          BY <4>2, ReplayTouched
        <5> QED
          BY <5>1, <5>4, <5>5
      <4> QED
        BY <4>1, <4>2, ReplayCases
    <3> QED
      BY <2>1, <2>4, <3>1
  <2> QED
    BY <2>3, <2>4
<1>6. Overlay(h, entries) = [o \in DOMAIN h |-> Overlay(h, entries)[o]]
  BY DEF Overlay
<1>7. txn_log_replay(loaded, t) = [o \in DOMAIN h |-> txn_log_replay(loaded, t)[o]]
  BY ReplayDomain
<1> QED
  BY <1>5, <1>6, <1>7 DEF t, f

\* An image of the live heap is loaded as the heap.
LEMMA LoadedHeap ==
  ASSUME heap \in Seq(Live), Len(heap) \in Object, \A o \in 1 .. Len(heap) : Within(heap[o], Len(heap)),
         NEW img, img.words = LivePages, img.used = Len(heap)
  PROVE  Loaded(img) = heap
<1>1. ASSUME NEW o \in 1 .. Len(heap)
      PROVE  decode_durable_log_value(img.words[o], Len(heap)) = heap[o]
  <2>1. o \in Object /\ heap[o] \in Live /\ Len(heap) \in Nat
    BY Objects DEF Object
  <2>2. img.words[o] = encode_durable_log_value(heap[o])
    BY <2>1 DEF LivePages
  <2> QED
    BY <2>1, <2>2, Conversions DEF Within
<1>2. heap = [o \in 1 .. Len(heap) |-> heap[o]]
  OBVIOUS
<1>3. Loaded(img) = [o \in 1 .. Len(heap) |-> decode_durable_log_value(img.words[o], Len(heap))]
  BY DEF Loaded
<1> QED
  BY <1>1, <1>2, <1>3

\* What is loaded from an image: as many objects as its header says.
LEMMA LoadedSize ==
  ASSUME NEW img, NEW h \in Seq(Live), img.used = Len(h)
  PROVE  DOMAIN Loaded(img) = DOMAIN h /\ Len(Loaded(img)) = Len(h)
<1>1. DOMAIN h = 1 .. Len(h) /\ Len(h) \in Nat
  OBVIOUS
<1>2. Loaded(img) = [o \in 1 .. Len(h) |-> decode_durable_log_value(img.words[o], img.used)]
  BY DEF Loaded
<1> QED
  BY <1>1, <1>2

-----------------------------------------------------------------------------
(* Restart from what is on disk. *)

LEMMA FrameParts ==
  ASSUME NEW j \in Seq(Frame), NEW i \in 1 .. Len(j)
  PROVE  j[i] \in Frame /\ j[i].part \in Part /\ DOMAIN j[i].entries = 1 .. Len(j[i].entries)
<1>1. j[i] \in Frame
  OBVIOUS
<1>2. j[i].part \in Part /\ j[i].entries \in Seq([object : Object, value : OnDisk])
  BY <1>1 DEF Frame
<1> QED
  BY <1>1, <1>2

\* A restart on an image and a whole journal that lead to h answers h.
LEMMA RestartWhole ==
  ASSUME NEW img, NEW j \in Seq(Frame), NEW h, LeadsTo(img, j, h), WholeWithin(j, Len(h))
  PROVE  Restart(img, j) = {h}
<1>1. image_checkpoint_validate(img)
  BY ImageIsThere DEF LeadsTo, image_checkpoint_validate
<1>2. ~ReplayFails(j, img.used)
  <2>1. DOMAIN j = 1 .. Len(j)
    OBVIOUS
  <2>2. \A i \in DOMAIN j : j[i].part # "stub"
    BY <2>1 DEF WholeWithin
  <2>3. ASSUME NEW i \in Replayed(j), NEW k \in DOMAIN j[i].entries
        PROVE  ~ (j[i].entries[k].object > img.used)
    <3>1. i \in 1 .. Len(j)
      BY ReplayedFrames
    <3>2. DOMAIN j[i].entries = 1 .. Len(j[i].entries) /\ j[i] \in Frame
      BY <3>1, FrameParts
    <3>3. j[i].entries[k].object <= Len(h)
      BY <3>1, <3>2 DEF WholeWithin
    <3>4. j[i].entries[k].object \in Nat
      <4>1. j[i].entries \in Seq(DiskTriple)
        BY <3>2, Zenon DEF Frame, DiskTriple
      <4>2. j[i].entries[k] \in DiskTriple
        BY <3>2, <4>1
      <4> QED
        BY <4>2, Objects DEF DiskTriple
    <3>5. img.used = Len(h) /\ img.used \in Nat
      BY ImageIsThere, Objects DEF LeadsTo
    <3> QED
      BY <3>3, <3>4, <3>5
  <2> QED
    BY <2>2, <2>3 DEF ReplayFails
<1> QED
  BY <1>1, <1>2 DEF Restart, LeadsTo

\* A torn frame at the end is as if it were not there.
LEMMA RestartTorn ==
  ASSUME NEW img, NEW j \in Seq(Frame), NEW h, LeadsTo(img, j, h), WholeWithin(j, Len(h)),
         NEW f \in Frame, f.part # "whole"
  PROVE  Restart(img, Append(j, f)) = {h}
<1> DEFINE t == Append(j, f)
           n == Len(j)
<1>1. /\ n \in Nat /\ t \in Seq(Frame) /\ Len(t) = n + 1
      /\ \A i \in 1 .. n : t[i] = j[i]
  BY FrameAppended
<1>2. Replayed(t) = 1 .. n /\ Replayed(j) = 1 .. n
      /\ txn_log_replay(Loaded(img), t) = txn_log_replay(Loaded(img), j)
  BY ReplayTorn, ReplayedFrames DEF WholeWithin
<1> HIDE DEF t
<1>3. Restart(img, j) = {h}
  BY RestartWhole
<1>4. image_checkpoint_validate(img) /\ ~ReplayFails(j, img.used)
  BY <1>3 DEF Restart
<1>5. ~ReplayFails(t, img.used)
  <2>1. DOMAIN t = 1 .. n + 1
    BY <1>1
  <2>2. ASSUME NEW i \in 1 .. n PROVE t[i].part # "stub"
    BY <1>1, <2>2 DEF WholeWithin
  <2>3. \A i \in DOMAIN t : i < Len(t) => t[i].part # "stub"
    <3> SUFFICES ASSUME NEW i \in DOMAIN t, i < Len(t) PROVE t[i].part # "stub"
      OBVIOUS
    <3>1. i \in 1 .. n
      BY <1>1, <2>1
    <3> QED
      BY <2>2, <3>1
  <2>4. \A i \in Replayed(t) : \A k \in DOMAIN t[i].entries : ~ (t[i].entries[k].object > img.used)
    <3> SUFFICES ASSUME NEW i \in 1 .. n
                 PROVE  \A k \in DOMAIN t[i].entries : ~ (t[i].entries[k].object > img.used)
      BY <1>2
    <3>1. t[i] = j[i] /\ i \in Replayed(j)
      BY <1>1, <1>2
    <3> QED
      BY <1>4, <3>1, Zenon DEF ReplayFails
  <2> QED
    BY <2>3, <2>4, Zenon DEF ReplayFails
<1> QED
  BY <1>2, <1>4, <1>5 DEF Restart, LeadsTo, t

\* A frame that became whole is a commit.
LEMMA LeadsToCommit ==
  ASSUME NEW img, NEW j \in Seq(Frame), NEW h \in Seq(Live), LeadsTo(img, j, h),
         WholeWithin(j, Len(h)), NEW entries \in Seq(Triple), WithinHeap(entries, Len(h))
  PROVE  LET t == Append(j, [entries |-> Encoded(entries), part |-> "whole"])
         IN  /\ LeadsTo(img, t, Overlay(h, entries))
             /\ WholeWithin(t, Len(h)) /\ t \in Seq(Frame)
             /\ Len(Overlay(h, entries)) = Len(h)
<1> DEFINE f == [entries |-> Encoded(entries), part |-> "whole"]
           t == Append(j, f)
<1>1. DOMAIN Loaded(img) = DOMAIN h /\ Len(Loaded(img)) = Len(h)
  BY LoadedSize DEF LeadsTo
<1>2. txn_log_replay(Loaded(img), t) = Overlay(h, entries)
  BY <1>1, ReplayCommit DEF LeadsTo, WholeWithin
<1>3. Len(Overlay(h, entries)) = Len(h)
  BY OverlayType
<1>4. f \in Frame /\ f.part = "whole" /\ f.entries = Encoded(entries)
  BY FrameType DEF Part
<1> HIDE DEF f
<1>5. /\ Len(j) \in Nat /\ t \in Seq(Frame) /\ Len(t) = Len(j) + 1 /\ t[Len(j) + 1] = f
      /\ \A i \in 1 .. Len(j) : t[i] = j[i]
  BY <1>4, FrameAppended
<1> HIDE DEF t
<1>6. \A k \in 1 .. Len(f.entries) : f.entries[k].object <= Len(h)
  BY <1>4, EncodedTriples DEF WithinHeap
<1>7. WholeWithin(t, Len(h))
  <2> SUFFICES ASSUME NEW i \in 1 .. Len(t)
               PROVE  /\ t[i].part = "whole"
                      /\ \A k \in 1 .. Len(t[i].entries) : t[i].entries[k].object <= Len(h)
    BY DEF WholeWithin
  <2>1. CASE i = Len(j) + 1
    BY <1>4, <1>5, <1>6, <2>1
  <2>2. CASE i # Len(j) + 1
    <3>1. i \in 1 .. Len(j)
      BY <1>5, <2>2
    <3> QED
      BY <1>5, <3>1 DEF WholeWithin
  <2> QED
    BY <2>1, <2>2
<1> QED
  BY <1>2, <1>3, <1>5, <1>7 DEF LeadsTo, t, f

\* A journal that is on disk survives as it is.
LEMMA SurvivesWhole ==
  ASSUME NEW j \in Seq(Frame), NEW s \in Survivors(j, Len(j))
  PROVE  s = j
<1>1. Len(j) \in Nat /\ Len(j) \in 0 .. Len(j)
  OBVIOUS
<1>2. /\ Len(s) \in Len(j) .. Len(j)
      /\ s = SubSeq(j, 1, Len(s)) \/ Len(s) > Len(j)
  BY <1>1, SurvivingFrames
<1>3. SubSeq(j, 1, Len(j)) = j
  BY SubSeqFull
<1> QED
  BY <1>1, <1>2, <1>3

\* A frame that is not known to be on disk may be gone, torn or whole.
LEMMA SurvivesAppended ==
  ASSUME NEW j \in Seq(Frame), NEW f \in Frame, NEW s \in Survivors(Append(j, f), Len(j))
  PROVE  s = j \/ \E p \in Part : s = Append(j, [f EXCEPT !.part = p])
<1> DEFINE t == Append(j, f)
           n == Len(j)
<1>1. /\ n \in Nat /\ t \in Seq(Frame) /\ Len(t) = n + 1 /\ t[n + 1] = f
      /\ SubSeq(t, 1, n) = j
  BY FrameAppended
<1>2. SubSeq(t, 1, n + 1) = t
  BY <1>1, SubSeqFull
<1> HIDE DEF t
<1>3. s \in Survivors(t, n) /\ n \in 0 .. Len(t)
  BY <1>1 DEF t
<1> HIDE DEF n
<1>4. /\ Len(s) \in n .. n + 1
      /\ \/ s = SubSeq(t, 1, Len(s))
         \/ /\ Len(s) > n
            /\ \E p \in Before(t[Len(s)].part) :
                 s = Append(SubSeq(t, 1, Len(s) - 1), [t[Len(s)] EXCEPT !.part = p])
  <2>1. t \in Seq(Frame) /\ n \in 0 .. Len(t) /\ s \in Survivors(t, n) /\ Len(t) = n + 1
    BY <1>1, <1>3
  <2>2. LeftOf(s, t, n)
    BY <2>1, SurvivorIsLeft
  <2> QED BY <2>1, <2>2, Zenon DEF LeftOf
<1>5. Len(s) = n \/ Len(s) = n + 1
  BY <1>1, <1>4
<1>6. CASE s = SubSeq(t, 1, Len(s))
  <2>1. s = j \/ s = t
    BY <1>1, <1>2, <1>5, <1>6
  <2>2. f.part \in Part /\ [f EXCEPT !.part = f.part] = f
    BY DEF Frame
  <2> QED
    BY <2>1, <2>2 DEF t
<1>7. CASE Len(s) > n /\ \E p \in Before(t[Len(s)].part) :
                 s = Append(SubSeq(t, 1, Len(s) - 1), [t[Len(s)] EXCEPT !.part = p])
  <2>1. Len(s) = n + 1 /\ Len(s) - 1 = n
    <3>1. Len(s) > n
      BY <1>7
    <3> QED
      BY <1>1, <1>5, <3>1
  <2>2. PICK p \in Before(f.part) : s = Append(j, [f EXCEPT !.part = p])
    BY <1>1, <1>7, <2>1
  <2>3. p \in Part
    BY <2>2 DEF Before, Frame, Part
  <2> QED
    BY <2>2, <2>3
<1> QED
  BY <1>4, <1>6, <1>7

\* Whatever is left of a journal with a commit in progress, a restart answers
\* the heap before it or the heap after it.
LEMMA RestartAppended ==
  ASSUME NEW img, NEW j \in Seq(Frame), NEW h \in Seq(Live), LeadsTo(img, j, h),
         WholeWithin(j, Len(h)), NEW entries \in Seq(Triple), WithinHeap(entries, Len(h)),
         NEW q \in Part,
         NEW s \in Survivors(Append(j, [entries |-> Encoded(entries), part |-> q]), Len(j))
  PROVE  Restart(img, s) = {h} \/ Restart(img, s) = {Overlay(h, entries)}
<1> DEFINE f == [entries |-> Encoded(entries), part |-> q]
           g(p) == [entries |-> Encoded(entries), part |-> p]
<1>1. f \in Frame /\ \A p \in Part : g(p) \in Frame /\ [f EXCEPT !.part = p] = g(p) /\ g(p).part = p
  BY FrameType
<1>2. s = j \/ \E p \in Part : s = Append(j, [f EXCEPT !.part = p])
  <2>1. s \in Survivors(Append(j, f), Len(j)) /\ f \in Frame
    BY <1>1
  <2> HIDE DEF f
  <2> QED
    BY <2>1, SurvivesAppended
<1>3. CASE s = j
  BY <1>3, RestartWhole
<1>4. ASSUME NEW p \in Part, s = Append(j, [f EXCEPT !.part = p])
      PROVE  Restart(img, s) = {h} \/ Restart(img, s) = {Overlay(h, entries)}
  <2>1. s = Append(j, g(p)) /\ g(p) \in Frame /\ g(p).part = p
    BY <1>1, <1>4
  <2>2. CASE p = "whole"
    <3>1. s = Append(j, g("whole"))
      BY <2>1, <2>2
    <3>2. LeadsTo(img, s, Overlay(h, entries)) /\ WholeWithin(s, Len(h)) /\ s \in Seq(Frame)
          /\ Len(Overlay(h, entries)) = Len(h)
      BY <3>1, LeadsToCommit
    <3> QED
      BY <3>2, RestartWhole
  <2>3. CASE p # "whole"
    <3> HIDE DEF g
    <3> QED
      BY <2>1, <2>3, RestartTorn
  <2> QED
    BY <2>2, <2>3
<1> QED
  BY <1>2, <1>3, <1>4

-----------------------------------------------------------------------------
(* The restart answers an expected heap. *)

\* The journal of a running machine: the committed frames, and the frame that
\* is being appended.
LEMMA CommittedFrames ==
  ASSUME TypeOK, AppendInv
  PROVE  /\ Committed \in Seq(Frame)
         /\ pc \in {"body", "fsync", "install"} =>
              /\ Len(Committed) = Len(journal) - 1
              /\ \E q \in Part :
                   /\ journal = Append(Committed, [entries |-> Encoded(writes), part |-> q])
                   /\ pc = "install" => q = "whole"
<1>1. journal \in Seq(Frame)
  BY DEF TypeOK
<1>2. CASE pc \notin {"body", "fsync", "install"}
  BY <1>1, <1>2 DEF Committed
<1>3. CASE pc \in {"body", "fsync", "install"}
  <2> DEFINE n == Len(journal)
             r == SubSeq(journal, 1, n - 1)
             q == IF pc = "body" THEN "partial" ELSE "whole"
  <2>1. n \in Nat /\ n > 0 /\ journal[n] = [entries |-> Encoded(writes), part |-> q]
    BY <1>1, <1>3 DEF AppendInv
  <2>2. r \in Seq(Frame) /\ Len(r) = n - 1 /\ \A i \in 1 .. n - 1 : r[i] = journal[i]
    <3>1. \A i \in 1 .. n - 1 : journal[i] \in Frame
      BY <1>1, <2>1
    <3>2. n - 1 \in Nat /\ 1 \in Int /\ n - 1 \in Int
      BY <2>1
    <3> HIDE DEF n
    <3>3. /\ r \in Seq(Frame) /\ Len(r) = IF 1 <= n - 1 THEN (n - 1) - 1 + 1 ELSE 0
          /\ \A i \in 1 .. (n - 1) - 1 + 1 : r[i] = journal[1 + i - 1]
      BY <3>1, <3>2, SubSeqProperties
    <3>4. (n - 1) - 1 + 1 = n - 1 /\ \A i \in 1 .. n - 1 : 1 + i - 1 = i
      BY <3>2
    <3> HIDE DEF r
    <3> QED
      BY <3>2, <3>3, <3>4
  <2>3. journal = Append(r, journal[n])
    <3> HIDE DEF r
    <3>1. journal[n] \in Frame
      BY <1>1, <2>1
    <3> DEFINE f == journal[n]
               t == Append(r, f)
    <3> HIDE DEF f
    <3>2. /\ t \in Seq(Frame) /\ Len(t) = n /\ t[n] = f
          /\ \A i \in 1 .. n - 1 : t[i] = journal[i]
      BY <2>1, <2>2, <3>1 DEF f
    <3> HIDE DEF t
    <3>3. \A i \in 1 .. n : t[i] = journal[i]
      BY <2>1, <3>2 DEF f
    <3>4. t = journal
      BY <1>1, <3>2, <3>3
    <3> QED
      BY <3>4 DEF t, f
  <2>4. Committed = r
    BY <1>3 DEF Committed
  <2>5. q \in Part /\ (pc = "install" => q = "whole")
    BY DEF Part
  <2>6. journal = Append(Committed, [entries |-> Encoded(writes), part |-> q])
    BY <2>1, <2>3, <2>4, Zenon
  <2> HIDE DEF q
  <2> QED
    BY <2>2, <2>4, <2>5, <2>6
<1> QED
  BY <1>2, <1>3

\* A machine that runs could crash at any time: every journal and every image
\* that a loss of power may leave leads to an expected heap.
LEMMA RunningSurvives ==
  ASSUME TypeOK, HeapInv, AppendInv, RunningInv, expected # {}, pc # "dead",
         NEW s \in Survivors(journal, synced), NEW img \in {image} \cup replaced
  PROVE  Restart(img, s) # {} /\ Restart(img, s) \subseteq expected
<1>1. /\ heap \in Seq(Live) /\ writes \in Seq(Triple) /\ journal \in Seq(Frame)
      /\ LeadsTo(img, Committed, heap) /\ WholeWithin(Committed, Len(heap))
      /\ Committed \in Seq(Frame)
  BY CommittedFrames DEF TypeOK, RunningInv
<1>2. CASE pc \notin {"body", "fsync", "install"}
  <2>1. Committed = journal /\ synced = Len(journal)
    BY <1>2 DEF Committed, RunningInv
  <2>2. s = journal
    BY <1>1, <2>1, SurvivesWhole
  <2>3. Restart(img, s) = {heap}
    BY <1>1, <2>1, <2>2, RestartWhole
  <2>4. heap \in expected
    BY DEF RunningInv
  <2> QED
    BY <2>3, <2>4
<1>3. CASE pc \in {"body", "fsync", "install"}
  <2>1. expected = {heap, Overlay(heap, writes)} /\ WithinHeap(writes, Len(heap))
    BY <1>3 DEF RunningInv, HeapInv, Committing
  <2>2. PICK q \in Part :
               /\ journal = Append(Committed, [entries |-> Encoded(writes), part |-> q])
               /\ pc = "install" => q = "whole"
    BY <1>3, CommittedFrames
  <2>3. CASE pc \in {"body", "fsync"}
    <3>1. synced = Len(Committed)
      BY <1>3, <2>3, CommittedFrames DEF RunningInv
    <3>2. s \in Survivors(Append(Committed, [entries |-> Encoded(writes), part |-> q]), Len(Committed))
      BY <2>2, <3>1
    <3>3. Restart(img, s) = {heap} \/ Restart(img, s) = {Overlay(heap, writes)}
      BY <1>1, <2>1, <3>2, RestartAppended
    <3> QED
      BY <2>1, <3>3
  <2>4. CASE pc = "install"
    <3>1. synced = Len(journal)
      BY <2>4 DEF RunningInv
    <3>2. s = journal
      BY <1>1, <3>1, SurvivesWhole
    <3>3. s = Append(Committed, [entries |-> Encoded(writes), part |-> "whole"])
      BY <2>2, <2>4, <3>2
    <3>4. /\ LeadsTo(img, s, Overlay(heap, writes)) /\ WholeWithin(s, Len(heap))
          /\ s \in Seq(Frame) /\ Len(Overlay(heap, writes)) = Len(heap)
      BY <1>1, <2>1, <3>3, LeadsToCommit
    <3>5. Restart(img, s) = {Overlay(heap, writes)}
      BY <3>4, RestartWhole
    <3> QED
      BY <2>1, <3>5
  <2> QED
    BY <1>3, <2>3, <2>4
<1> QED
  BY <1>2, <1>3

\* A journal is one of those that may be left of it.
LEMMA SurvivesItself ==
  ASSUME NEW j \in Seq(Frame), NEW n \in 0 .. Len(j)
  PROVE  j \in Survivors(j, n)
<1>1. Len(j) \in n .. Len(j)
  OBVIOUS
<1>2. SubSeq(j, 1, Len(j)) = j
  BY SubSeqFull
<1> QED
  BY <1>1, <1>2 DEF Survivors

\* The crash itself, and every further loss of power: what is left is one of
\* the things that could be left before (Kill, AppendFails, PowerLoss).
LEMMA CrashedPreserved ==
  ASSUME IInv, [Next]_vars
  PROVE  CrashedInv'
<1>0. /\ TypeOK /\ HeapInv /\ AppendInv /\ ImageInv /\ RunningInv /\ CrashedInv
      /\ journal \in Seq(Frame) /\ synced \in 0 .. Len(journal) /\ writes \in Seq(Triple)
      /\ heap \in Seq(Live)
  BY DEF IInv, TypeOK
<1>1. ASSUME expected # {}, NEW s \in Survivors(journal, synced), NEW img \in {image} \cup replaced
      PROVE  Restart(img, s) # {} /\ Restart(img, s) \subseteq expected
  BY <1>0, <1>1, RunningSurvives DEF CrashedInv
<1>2. CASE pc' # "dead"
  BY <1>2 DEF CrashedInv
<1>3. CASE UNCHANGED <<journal, synced, image, replaced, expected>>
  BY <1>1, <1>3 DEF CrashedInv
<1>4. CASE AppendFails /\ journal' # journal
  <2>1. /\ pc = "header" /\ UNCHANGED <<synced, image, replaced, expected>>
        /\ \E p \in {"stub", "partial"} :
             journal' = Append(journal, [entries |-> Encoded(writes), part |-> p])
    BY <1>4 DEF AppendFails
  <2>2. PICK p \in Part : journal' = Append(journal, [entries |-> Encoded(writes), part |-> p])
    BY <2>1 DEF Part
  <2> SUFFICES ASSUME expected # {}, NEW s \in Survivors(journal', synced),
                      NEW img \in {image} \cup replaced
               PROVE  Restart(img, s) # {} /\ Restart(img, s) \subseteq expected
    BY <2>1 DEF CrashedInv
  <2>3. /\ expected = {heap, Overlay(heap, writes)} /\ synced = Len(journal)
        /\ LeadsTo(img, journal, heap) /\ WholeWithin(journal, Len(heap))
        /\ WithinHeap(writes, Len(heap))
    BY <1>0, <2>1 DEF RunningInv, HeapInv, Committing, Committed
  <2>4. s \in Survivors(Append(journal, [entries |-> Encoded(writes), part |-> p]), Len(journal))
    BY <2>2, <2>3
  <2>5. Restart(img, s) = {heap} \/ Restart(img, s) = {Overlay(heap, writes)}
    BY <1>0, <2>3, <2>4, RestartAppended
  <2> QED
    BY <2>3, <2>5
<1>5. CASE PowerLoss
  <2> SUFFICES ASSUME expected' # {}, NEW s \in Survivors(journal', synced'),
                      NEW img \in {image'} \cup replaced'
               PROVE  Restart(img, s) # {} /\ Restart(img, s) \subseteq expected'
    BY DEF CrashedInv
  <2>1. /\ journal' \in Survivors(journal, synced) /\ expected' = expected
        /\ synced' = Len(journal') /\ replaced' = {}
    BY <1>5 DEF PowerLoss
  <2>2. img \in {image} \cup replaced
    BY <1>0, <1>5, <2>1 DEF PowerLoss, ImageInv
  <2>3. journal' \in Seq(Frame)
    BY <1>0, <2>1, SurvivingFrames
  <2>4. s = journal'
    BY <2>1, <2>3, SurvivesWhole
  <2> QED
    BY <1>1, <2>1, <2>2, <2>4
<1>6. CASE UNCHANGED vars
  BY <1>3, <1>6 DEF vars, disk
<1>7. (AppendFails /\ journal' = journal) \/ Kill => UNCHANGED <<journal, synced, image, replaced, expected>>
  BY DEF AppendFails, Kill, disk
<1>8. /\ \A w \in Live : Alloc(w) => pc' # "dead"
      /\ \A w \in Live, o \in Object : Store(o, w) => pc' # "dead"
      /\ \A entries : Durable(entries) => pc' # "dead"
  BY DEF Alloc, Store, Durable
<1>9. WriteHeader \/ WriteBody \/ Fsync \/ Install \/ CheckpointWrite \/ CheckpointSync
        \/ CheckpointRename \/ checkpoint_fsync_parent_directory \/ CheckpointClear
        \/ CheckpointFails \/ Boot => pc' # "dead"
  BY DEF WriteHeader, WriteBody, Fsync, Install, CheckpointWrite, CheckpointSync,
         CheckpointRename, checkpoint_fsync_parent_directory, CheckpointClear,
         CheckpointFails, Boot
<1> QED
  BY <1>2, <1>3, <1>4, <1>5, <1>6, <1>7, <1>8, <1>9 DEF Next

\* Steps that change neither heap, journal nor images keep what they lead to.
LEMMA RunningKept ==
  ASSUME RunningInv, expected # {}, pc # "dead",
         UNCHANGED <<heap, journal, image, replaced>>,
         pc \in {"body", "fsync", "install"} <=> pc' \in {"body", "fsync", "install"}
  PROVE  /\ Committed' = Committed /\ LivePages' = LivePages
         /\ \A img \in {image'} \cup replaced' : LeadsTo(img, Committed', heap')
         /\ WholeWithin(Committed', Len(heap'))
<1>1. Committed' = Committed /\ LivePages' = LivePages
  BY DEF Committed, LivePages
<1> QED
  BY <1>1 DEF RunningInv

\* The program and the commits of its durable transactions.
LEMMA RunningThroughCommit ==
  ASSUME IInv, NEW entries, Durable(entries) \/ WriteHeader \/ WriteBody \/ Fsync
  PROVE  RunningInv'
<1>0. /\ TypeOK /\ AppendInv /\ RunningInv
      /\ journal \in Seq(Frame)
  BY DEF IInv, TypeOK
<1>1. CASE Durable(entries)
  <2>1. /\ writes' = entries
        /\ pc = "idle" /\ pc' = "header" /\ UNCHANGED <<heap, dirty, journal, synced, image, replaced>>
        /\ expected' = expected \cup {Overlay(h, entries) : h \in expected}
    BY <1>1 DEF Durable, disk
  <2> SUFFICES ASSUME expected # {} PROVE RunningInv'
    BY <2>1 DEF RunningInv
  <2>2. expected = {heap} /\ synced = Len(journal)
    BY <1>0, <2>1 DEF RunningInv, Committing
  <2>3. expected' = {heap, Overlay(heap, writes')}
    BY <2>1, <2>2
  <2>4. /\ LivePages' = LivePages
        /\ \A img \in {image'} \cup replaced' : LeadsTo(img, Committed', heap')
        /\ WholeWithin(Committed', Len(heap'))
    BY <1>0, <2>1, RunningKept
  <2>5. \A o \in Object : PageOf[o] \notin dirty' => image'.words[o] = LivePages'[o]
    BY <1>0, <2>1, <2>4 DEF RunningInv
  <2> QED
    BY <2>1, <2>2, <2>3, <2>4, <2>5 DEF RunningInv, Committing
<1>2. CASE WriteHeader
  <2>1. /\ pc = "header" /\ pc' = "body"
        /\ UNCHANGED <<heap, dirty, writes, synced, image, replaced, expected>>
    BY <1>2 DEF WriteHeader
  <2> SUFFICES ASSUME expected # {} PROVE RunningInv'
    BY <2>1 DEF RunningInv
  <2>2. Committed = journal /\ LivePages' = LivePages /\ synced = Len(journal)
    BY <1>0, <2>1 DEF Committed, LivePages, RunningInv
  <2>3. Len(journal') = Len(journal) + 1 /\ Len(journal') - 1 = Len(journal) /\ Committed' = journal
    <3>1. /\ Len(journal) \in Nat /\ Len(journal') = Len(journal) + 1
          /\ SubSeq(journal', 1, Len(journal)) = journal
      BY <1>0, <1>2, HeaderWritten
    <3> QED
      BY <2>1, <3>1 DEF Committed
  <2> QED
    BY <1>0, <2>1, <2>2, <2>3 DEF RunningInv, Committing
<1>3. CASE WriteBody
  <2>1. /\ pc = "body" /\ pc' = "fsync"
        /\ UNCHANGED <<heap, dirty, writes, synced, image, replaced, expected>>
    BY <1>3 DEF WriteBody
  <2> SUFFICES ASSUME expected # {} PROVE RunningInv'
    BY <2>1 DEF RunningInv
  <2>2. Committed' = Committed /\ LivePages' = LivePages /\ Len(journal') = Len(journal)
    <3>1. /\ Len(journal') = Len(journal)
          /\ SubSeq(journal', 1, Len(journal) - 1) = SubSeq(journal, 1, Len(journal) - 1)
      BY <1>0, <1>3, BodyWritten
    <3> QED
      BY <2>1, <3>1 DEF Committed, LivePages
  <2> QED
    BY <1>0, <2>1, <2>2 DEF RunningInv, Committing
<1>4. CASE Fsync
  <2>1. /\ pc = "fsync" /\ pc' = "install" /\ synced' = Len(journal)
        /\ UNCHANGED <<heap, dirty, writes, journal, image, replaced, expected>>
    BY <1>4 DEF Fsync
  <2> SUFFICES ASSUME expected # {} PROVE RunningInv'
    BY <2>1 DEF RunningInv
  <2>2. Committed' = Committed /\ LivePages' = LivePages
    BY <2>1 DEF Committed, LivePages
  <2> QED
    BY <1>0, <2>1, <2>2 DEF RunningInv, Committing
<1> QED
  BY <1>1, <1>2, <1>3, <1>4

\* The install: the frame is replayed as the transaction is stored, and the
\* pages it touches are marked (mark_dirty_pages_for_txn_log).
LEMMA RunningThroughInstall ==
  ASSUME IInv, Install
  PROVE  RunningInv'
<1>0. /\ TypeOK /\ HeapInv /\ AppendInv /\ RunningInv
      /\ journal \in Seq(Frame) /\ heap \in Seq(Live) /\ writes \in Seq(Triple)
  BY DEF IInv, TypeOK
<1>1. /\ pc = "install" /\ pc' = "idle" /\ heap' = Overlay(heap, writes)
      /\ dirty' = dirty \cup {PageOf[writes[i].object] : i \in DOMAIN writes}
      /\ expected' = IF expected = {} THEN {} ELSE {heap'}
      /\ UNCHANGED <<journal, synced, image, replaced>>
  BY DEF Install, disk
<1> SUFFICES ASSUME expected # {} PROVE RunningInv'
  BY <1>1 DEF RunningInv
<1>2. /\ Committed \in Seq(Frame)
      /\ journal = Append(Committed, [entries |-> Encoded(writes), part |-> "whole"])
  BY <1>0, <1>1, CommittedFrames
<1>3. WithinHeap(writes, Len(heap)) /\ Committed' = journal /\ synced = Len(journal)
  BY <1>0, <1>1 DEF HeapInv, Committing, Committed, RunningInv
<1>4. \A img \in {image} \cup replaced :
        LeadsTo(img, journal, heap') /\ WholeWithin(journal, Len(heap)) /\ Len(heap') = Len(heap)
  <2> SUFFICES ASSUME NEW img \in {image} \cup replaced
               PROVE  LeadsTo(img, journal, heap') /\ WholeWithin(journal, Len(heap))
                      /\ Len(heap') = Len(heap)
    OBVIOUS
  <2>1. LeadsTo(img, Committed, heap) /\ WholeWithin(Committed, Len(heap))
    BY <1>0, <1>1 DEF RunningInv
  <2> QED
    BY <1>0, <1>1, <1>2, <1>3, <2>1, LeadsToCommit
<1>5. ASSUME NEW o \in Object, PageOf[o] \notin dirty'
      PROVE  image'.words[o] = LivePages'[o]
  <2>1. image.words[o] = LivePages[o]
    BY <1>0, <1>1, <1>5 DEF RunningInv
  <2>2. DOMAIN heap' = DOMAIN heap
    BY <1>1 DEF Overlay
  <2>3. o \in DOMAIN heap => heap'[o] = heap[o]
    <3> SUFFICES ASSUME o \in DOMAIN heap PROVE heap'[o] = heap[o]
      OBVIOUS
    <3>1. Writes(writes, o) = {}
      BY <1>1, <1>5 DEF Writes
    <3> QED
      BY <1>1, <3>1 DEF Overlay
  <2>4. LivePages'[o] = LivePages[o]
    BY <2>2, <2>3 DEF LivePages
  <2> QED
    BY <1>1, <2>1, <2>4
<1> QED
  BY <1>1, <1>3, <1>4, <1>5 DEF RunningInv, Committing

\* The checkpoint: dirty pages are written, clean ones copied from an image that
\* holds what they hold; replaying the old journal on the new image changes
\* nothing; when the journal is removed the image alone is the heap.
LEMMA RunningThroughCheckpoint ==
  ASSUME IInv, \/ CheckpointWrite \/ CheckpointSync \/ CheckpointRename
               \/ checkpoint_fsync_parent_directory \/ CheckpointClear \/ CheckpointFails
  PROVE  RunningInv'
<1>0. /\ TypeOK /\ HeapInv /\ ImageInv /\ CheckpointInv /\ RunningInv
      /\ journal \in Seq(Frame) /\ heap \in Seq(Live)
      /\ \A o \in 1 .. Len(heap) : Within(heap[o], Len(heap))
  BY DEF IInv, TypeOK, HeapInv
<1>1. CASE CheckpointWrite
  <2>1. /\ pc = "idle" /\ pc' = "sync"
        /\ UNCHANGED <<heap, dirty, writes, journal, synced, image, replaced, expected>>
    BY <1>1 DEF CheckpointWrite, disk
  <2> SUFFICES ASSUME expected # {} PROVE RunningInv'
    BY <2>1 DEF RunningInv
  <2>2. /\ LivePages' = LivePages
        /\ \A img \in {image'} \cup replaced' : LeadsTo(img, Committed', heap')
        /\ WholeWithin(Committed', Len(heap'))
    BY <1>0, <2>1, RunningKept
  <2>3. \A o \in Object : PageOf[o] \notin dirty => image.words[o] = LivePages[o]
    BY <1>0, <2>1 DEF RunningInv
  <2>4. temp'.words = LivePages
    <3>1. /\ temp' \in Image
          /\ \A o \in Object :
               temp'.words[o] = IF /\ image_checkpoint_validate(image)
                                   /\ checkpoint_page_count(image.used)
                                        = checkpoint_page_count(Len(heap))
                                   /\ PageOf[o] \notin dirty
                                THEN image.words[o] ELSE LivePages[o]
      BY <1>0, <1>1, <2>1, CheckpointType DEF HeapInv
    <3>2. \A o \in Object : temp'.words[o] = LivePages[o]
      BY <2>3, <3>1
    <3>3. temp'.words \in [Object -> OnDisk \cup {Blank}] /\ LivePages \in [Object -> OnDisk \cup {Blank}]
      BY <1>0, <3>1, ImageIsThere, LivePagesType, Zenon DEF Words
    <3> QED
      BY <3>2, <3>3
  <2> QED
    BY <1>0, <2>1, <2>2, <2>3, <2>4 DEF RunningInv, Committing
<1>2. CASE CheckpointSync
  <2>1. /\ pc = "sync" /\ pc' = "rename" /\ temp' = [temp EXCEPT !.synced = TRUE]
        /\ UNCHANGED <<heap, dirty, writes, journal, synced, image, replaced, expected>>
    BY <1>2 DEF CheckpointSync, disk
  <2> SUFFICES ASSUME expected # {} PROVE RunningInv'
    BY <2>1 DEF RunningInv
  <2>2. /\ LivePages' = LivePages
        /\ \A img \in {image'} \cup replaced' : LeadsTo(img, Committed', heap')
        /\ WholeWithin(Committed', Len(heap'))
    BY <1>0, <2>1, RunningKept
  <2>3. temp'.words = temp.words
    <3>1. temp \in Image
      BY <1>0, <2>1 DEF ImageInv, TypeOK
    <3> QED
      BY <2>1, <3>1 DEF Image
  <2> QED
    BY <1>0, <2>1, <2>2, <2>3 DEF RunningInv, Committing
<1>3. CASE CheckpointRename
  <2>1. /\ pc = "rename" /\ pc' = "directory" /\ image' = temp /\ replaced' = replaced \cup {image}
        /\ UNCHANGED <<heap, dirty, writes, journal, synced, expected>>
    BY <1>3 DEF CheckpointRename
  <2> SUFFICES ASSUME expected # {} PROVE RunningInv'
    BY <2>1 DEF RunningInv
  <2>2. Committed = journal /\ Committed' = journal /\ LivePages' = LivePages
    BY <2>1 DEF Committed, LivePages
  <2>3. /\ temp \in Image /\ temp.used = Len(heap) /\ temp.words = LivePages /\ temp.sums = LivePages
    BY <1>0, <2>1 DEF ImageInv, CheckpointInv, RunningInv, TypeOK
  <2>4. Loaded(temp) = heap
    BY <1>0, <2>1, <2>3, LoadedHeap DEF HeapInv
  <2>5. LeadsTo(image, journal, heap) /\ \A img \in {image} \cup replaced : LeadsTo(img, journal, heap)
    BY <1>0, <2>1, <2>2 DEF RunningInv
  <2>6. DOMAIN Loaded(image) = DOMAIN heap /\ Len(Loaded(image)) = Len(heap)
    BY <1>0, <2>5, LoadedSize DEF LeadsTo
  <2>7. txn_log_replay(heap, journal) = heap
    BY <1>0, <2>5, <2>6, ReplayAgain DEF LeadsTo
  <2>8. LeadsTo(temp, journal, heap)
    BY <2>3, <2>4, <2>7 DEF LeadsTo
  <2> QED
    BY <1>0, <2>1, <2>2, <2>3, <2>5, <2>8 DEF RunningInv, Committing
<1>4. CASE checkpoint_fsync_parent_directory
  <2>1. /\ pc = "directory" /\ pc' = "clear" /\ replaced' = {}
        /\ UNCHANGED <<heap, dirty, writes, journal, synced, image, expected>>
    BY <1>4 DEF checkpoint_fsync_parent_directory
  <2>2. Committed' = Committed /\ LivePages' = LivePages
    BY <2>1 DEF Committed, LivePages
  <2> QED
    BY <1>0, <2>1, <2>2 DEF RunningInv, Committing
<1>5. CASE CheckpointClear
  <2>1. /\ pc = "clear" /\ pc' = "idle" /\ dirty' = {} /\ journal' = <<>> /\ synced' = 0
        /\ expected' = IF expected # {} \/ image_checkpoint_validate(image) THEN {heap} ELSE {}
        /\ UNCHANGED <<heap, image, replaced>>
    BY <1>5 DEF CheckpointClear
  <2> SUFFICES ASSUME expected # {} \/ image_checkpoint_validate(image) PROVE RunningInv'
    BY <2>1 DEF RunningInv
  <2>2. /\ image \in Image /\ image.used = Len(heap) /\ image.sums = LivePages /\ replaced = {}
    BY <1>0, <2>1 DEF ImageInv, CheckpointInv, TypeOK
  <2>3. image.words = LivePages
    BY <1>0, <2>1, <2>2 DEF RunningInv, image_checkpoint_validate
  <2>4. Loaded(image) = heap
    BY <1>0, <2>1, <2>2, <2>3, LoadedHeap DEF HeapInv
  <2>5. txn_log_replay(heap, <<>>) = heap
    BY <1>0, ReplayOfNothing
  <2>6. LeadsTo(image, <<>>, heap)
    BY <2>2, <2>3, <2>4, <2>5 DEF LeadsTo
  <2>7. Committed' = <<>> /\ LivePages' = LivePages /\ Len(<<>>) = 0
    BY <2>1 DEF Committed, LivePages
  <2>8. WholeWithin(<<>>, Len(heap))
    BY DEF WholeWithin
  <2> QED
    BY <2>1, <2>2, <2>3, <2>6, <2>7, <2>8 DEF RunningInv, Committing
<1>6. CASE CheckpointFails
  <2>1. /\ pc \in {"sync", "rename", "directory", "clear"} /\ pc' = "idle"
        /\ dirty' = IF pc = "clear" THEN {} ELSE dirty
        /\ UNCHANGED <<heap, writes, journal, synced, image, replaced, expected>>
    BY <1>6 DEF CheckpointFails, disk
  <2> SUFFICES ASSUME expected # {} PROVE RunningInv'
    BY <2>1 DEF RunningInv
  <2>2. /\ LivePages' = LivePages
        /\ \A img \in {image'} \cup replaced' : LeadsTo(img, Committed', heap')
        /\ WholeWithin(Committed', Len(heap'))
    BY <1>0, <2>1, RunningKept
  <2>3. expected = {heap} /\ synced = Len(journal)
    BY <1>0, <2>1 DEF RunningInv, Committing
  <2>4. \A o \in Object : PageOf[o] \notin dirty' => image.words[o] = LivePages[o]
    BY <1>0, <2>1 DEF RunningInv
  <2> QED
    BY <2>1, <2>2, <2>3, <2>4 DEF RunningInv, Committing
<1> QED
  BY <1>1, <1>2, <1>3, <1>4, <1>5, <1>6

\* No step disturbs what holds of the files while the machine runs.
LEMMA RunningPreserved ==
  ASSUME IInv, [Next]_vars
  PROVE  RunningInv'
<1>1. CASE expected' = {} \/ pc' = "dead"
  BY <1>1 DEF RunningInv
<1>2. ASSUME NEW entries \in Transactions, Durable(entries) PROVE RunningInv'
  BY <1>2, RunningThroughCommit
<1>3. CASE WriteHeader \/ WriteBody \/ Fsync
  BY <1>3, RunningThroughCommit
<1>4. CASE Install
  BY <1>4, RunningThroughInstall
<1>5. CASE \/ CheckpointWrite \/ CheckpointSync \/ CheckpointRename
           \/ checkpoint_fsync_parent_directory \/ CheckpointClear \/ CheckpointFails
  BY <1>5, RunningThroughCheckpoint
<1>6. CASE UNCHANGED vars
  BY <1>6 DEF vars, disk, IInv, RunningInv, Committed, LivePages
<1>7. /\ \A w \in Live : Alloc(w) => expected' = {}
      /\ \A w \in Live, o \in Object : Store(o, w) => expected' = {}
      /\ Boot => expected' = {}
      /\ AppendFails \/ Kill \/ PowerLoss => pc' = "dead"
  BY DEF Alloc, Store, Boot, AppendFails, Kill, PowerLoss, Dies
<1> QED
  BY <1>1, <1>2, <1>3, <1>4, <1>5, <1>6, <1>7 DEF Next

-----------------------------------------------------------------------------
(* The theorems. *)

\* The inductive invariant of journal, images and heap.
THEOREM Invariant == Spec => []IInv
<1>1. Init => IInv
  <2> SUFFICES ASSUME Init PROVE IInv
    OBVIOUS
  <2>1. /\ pc = "idle" /\ heap = InitialHeap /\ writes = <<>> /\ journal = <<>> /\ synced = 0
        /\ dirty = {} /\ temp = NoImage /\ unlinked = {} /\ image = NoImage /\ replaced = {}
        /\ acked = {} /\ expected = {}
    BY DEF Init
  <2>2. /\ <<>> \in Seq(Triple) /\ <<>> \in Seq(Frame) /\ Len(<<>>) = 0 /\ 0 \in 0 .. 0
    OBVIOUS
  <2>3. TypeOK
    BY <2>1, <2>2, InitialHeapAssumption DEF TypeOK, Steps
  <2>4. HeapInv
    <3>1. \A o \in 1 .. Len(InitialHeap) : Within(InitialHeap[o], Len(InitialHeap))
      BY InitialHeapAssumption DEF Within
    <3> QED
      BY <2>1, <3>1, InitialHeapAssumption DEF HeapInv, Committing
  <2> QED
    BY <2>1, <2>3, <2>4 DEF IInv, AckedInv, AppendInv, RemovalInv, ImageInv, CheckpointInv,
                            RunningInv, CrashedInv
<1>2. IInv /\ [Next]_vars => IInv'
  <2> SUFFICES ASSUME IInv, [Next]_vars PROVE IInv'
    OBVIOUS
  <2>1. /\ TypeOK /\ HeapInv /\ AckedInv /\ AppendInv /\ RemovalInv /\ ImageInv
        /\ CheckpointInv
    BY DEF IInv
  <2>2. TypeOK' /\ HeapInv'
    BY <2>1, TypePreserved, HeapPreserved
  <2>3. AckedInv' /\ AppendInv' /\ RemovalInv'
    BY <2>1, JournalPreserved
  <2>4. ImageInv' /\ CheckpointInv'
    BY <2>1, ImagesPreserved, CheckpointPreserved
  <2>5. RunningInv' /\ CrashedInv'
    BY RunningPreserved, CrashedPreserved
  <2> QED
    BY <2>2, <2>3, <2>4, <2>5 DEF IInv
<1> QED
  BY <1>1, <1>2, PTL DEF Spec

\* Heap, journal and images keep their types for heaps and journals of any
\* length (all actions of the module).
THEOREM TypeTheorem == Spec => []TypeOK
<1>1. IInv => TypeOK
  BY DEF IInv
<1> QED
  BY <1>1, Invariant, PTL

\* Write-ahead, for any number of commits, crashes and failing calls: a durable
\* commit that was acknowledged is whole and synced in the journal until the
\* checkpoint that follows it is over (txn_log_append_fsync,
\* txn_durable_log_clear).
THEOREM AckedTheorem == Spec => []AckedInJournal
<1>1. IInv => AckedInJournal
  <2> SUFFICES ASSUME IInv, NEW a \in acked
               PROVE  a[1] <= synced /\ journal[a[1]] = [entries |-> a[2], part |-> "whole"]
    BY DEF AckedInJournal
  <2>1. a[1] \in 1 .. synced /\ journal[a[1]] = [entries |-> a[2], part |-> "whole"]
    BY DEF IInv, AckedInv
  <2> QED
    BY <2>1
<1> QED
  BY <1>1, Invariant, PTL

\* Once an image is on disk no step of a checkpoint, no failing call and no
\* crash leaves the machine without a complete one (Image>>checkpointTo:, the
\* rename over the old image after the fsync of the new one).
THEOREM ImageTheorem == Spec => ImageSurvives
<1>1. IInv /\ [Next]_vars => (image # NoImage /\ NoImage \notin replaced => image' # NoImage)
  <2> SUFFICES ASSUME IInv, [Next]_vars, image # NoImage, NoImage \notin replaced
               PROVE  image' # NoImage
    OBVIOUS
  <2>1. /\ image.synced
        /\ pc = "rename" => temp # NoImage
    BY DEF IInv, ImageInv
  <2>2. CASE image' = image
    BY <2>2
  <2>3. CASE CheckpointRename
    BY <2>1, <2>3 DEF CheckpointRename
  <2>4. CASE PowerLoss
    BY <2>1, <2>4 DEF PowerLoss
  <2>5. /\ \A w \in Live : Alloc(w) => image' = image
        /\ \A w \in Live, o \in Object : Store(o, w) => image' = image
        /\ \A entries : Durable(entries) => image' = image
    BY DEF Alloc, Store, Durable, disk
  <2>6. WriteHeader \/ WriteBody \/ Fsync \/ Install \/ AppendFails \/ CheckpointWrite
          \/ CheckpointSync \/ checkpoint_fsync_parent_directory \/ CheckpointClear
          \/ CheckpointFails \/ Kill \/ Boot => image' = image
    BY DEF WriteHeader, WriteBody, Fsync, Install, AppendFails, CheckpointWrite, CheckpointSync,
           checkpoint_fsync_parent_directory, CheckpointClear, CheckpointFails, Kill, Boot, disk
  <2>7. UNCHANGED vars => image' = image
    BY DEF vars, disk
  <2> QED
    BY <2>2, <2>3, <2>4, <2>5, <2>6, <2>7 DEF Next
<1> QED
  BY <1>1, Invariant, PTL DEF Spec, ImageSurvives

\* If every store since a checkpoint was made by durable transactions, then at
\* any time, before and after any sequence of crashes, a restart answers the
\* heap of the last commit, or of the one the crash interrupted as a whole
\* (txn_log_replay after image_checkpoint_load).
THEOREM RestartTheorem == Spec => []RestartAnswersHeap
<1>1. IInv => RestartAnswersHeap
  <2> SUFFICES ASSUME IInv, expected # {}
               PROVE  Restart(image, journal) # {} /\ Restart(image, journal) \subseteq expected
    BY DEF RestartAnswersHeap
  <2>1. journal \in Survivors(journal, synced)
    BY SurvivesItself DEF IInv, TypeOK
  <2>2. TypeOK /\ HeapInv /\ AppendInv /\ RunningInv /\ CrashedInv
    BY DEF IInv
  <2>3. CASE pc # "dead"
    BY <2>1, <2>2, <2>3, RunningSurvives
  <2>4. CASE pc = "dead"
    BY <2>1, <2>2, <2>4 DEF CrashedInv
  <2> QED
    BY <2>3, <2>4
<1> QED
  BY <1>1, Invariant, PTL

=============================================================================
