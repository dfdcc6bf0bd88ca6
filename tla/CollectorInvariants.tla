------------------------ MODULE CollectorInvariants ------------------------
(***************************************************************************)
(* The inductive invariants that the proofs about the collector rest on:   *)
(* BInv of every program, CInv of the references of programs that keep to  *)
(* what the collector roots, and UInv of what a collection copies.         *)
(***************************************************************************)
EXTENDS Collector

-----------------------------------------------------------------------------
(* What holds of every program. *)

Word == 0..(Fixed + 3)
Ids  == 0..(MaxAllocs + 1)

\* An object, a frame and a call whose words are among W.
FieldsIn(W) == {<<>>} \cup [1..1 -> W] \cup [1..2 -> W]
ObjectIn(W) == [id : Ids, class : W, fields : FieldsIn(W), fwd : 0..Fixed]
FrameIn(W)  == [rcv : W \ {Tagged}, args : Seq(W), code : W, ctx : W, ret : W, slots : Seq(W)]
CallIn(W)   == [kind : {"host", "onDo", "ensure", "txn", "cleanup"}, depth : Nat \ {0},
                table : W, ip : W, cleanup : W, result : W]

Heap(W)     == [Words -> ObjectIn(W)]

\* The words the program holds are among W.
HeldIn(W) ==
  /\ frames \in Seq(FrameIn(W)) /\ calls \in Seq(CallIn(W))
  /\ handlers \in Seq([1..3 -> W]) /\ ensures \in Seq([1..2 -> W]) /\ log \in Seq([1..2 -> W])

\* Every frame has its temporaries, every call its frames, and the caller of a
\* block what the primitive that runs it will take from it.
Operated(k) == calls[k].kind \in {"ensure", "txn"}
StacksOK ==
  /\ Len(frames) >= 1 /\ Len(calls) >= 1
  /\ \A f \in 1..Len(frames) : Len(frames[f].slots) >= NumTemps
  /\ calls[1].kind = "host" /\ calls[1].depth = 1
  /\ \A k \in 2..Len(calls) : calls[k].kind # "host"
  /\ \A j, k \in 1..Len(calls) : j < k => calls[j].depth < calls[k].depth
  /\ Level.depth <= Len(frames)
  /\ \A k \in 2..Len(calls) :
       Operated(k) => Len(frames[calls[k].depth - 1].slots) >= NumTemps + 2

\* The objects of a space that begins after lo lie one after the other up to hi.
Space(lo) == (lo + 1)..(lo + SpaceWords)
Tiles(m, lo, hi) ==
  /\ hi \in lo..(lo + SpaceWords)
  /\ lo < hi => m[lo + 1] # NoObj
  /\ \A a \in Space(lo) : m[a] # NoObj =>
       /\ a + Size(m[a]) <= hi + 1
       /\ a + Size(m[a]) <= hi => m[a + Size(m[a])] # NoObj
       /\ \A b \in Space(lo) : m[b] # NoObj /\ a < b => a + Size(m[a]) <= b

HeapOK ==
  /\ mem \in [Words -> ObjectIn(Word)]
  /\ \A a \in Words : mem[a] = NoObj \/ mem[a].id # 0
  /\ from \in {0, SpaceWords}
  /\ Tiles(mem, from, free)

Jobs(W) == [kind : {"none", "new", "closure"}, stage : {"none", "object", "context", "block"},
            tried : BOOLEAN, local : W, size : 0..3]
JobIn(W) ==
  /\ job \in Jobs(W)
  /\ \/ job = NoJob
     \/ job.kind = "new" /\ job.stage = "object" /\ job.size \in 1..3 /\ made < MaxAllocs /\ Operands > 0
     \/ job.kind = "closure" /\ job.stage = "context" /\ job.size = 2 /\ made < MaxAllocs
     \/ job.kind = "closure" /\ job.stage = "block" /\ job.size = 3 /\ made <= MaxAllocs

\* The roots are the words of the order, and strays after them.
Collections == [phase : {"roots", "scan"}, roots : Seq(Word), over : SUBSET Nat, scan : Nat, free : Nat]
Order == CollectOrder(gc.over)
RootsOK ==
  /\ Len(gc.roots) >= Len(Order) /\ (NumTemps = 0 => Len(gc.roots) = Len(Order))
  /\ \A n \in 1..Len(Order) :
       /\ IsPointer(Read(Order[n])) => IsPointer(gc.roots[n])
       /\ gc.phase = "roots" => gc.roots[n] = Read(Order[n])

GcOK ==
  \/ gc = NoGc /\ \A a \in Space(To) : mem[a] = NoObj
  \/ /\ gc \in Collections /\ job # NoJob
     /\ Tiles(mem, To, gc.free)
     /\ gc.scan \in To..gc.free /\ (gc.scan < gc.free => mem[gc.scan + 1] # NoObj)
     /\ gc.phase = "roots" => gc.free = To
     /\ RootsOK

\* The type invariant, made inductive.
BInv ==
  /\ HeapOK /\ HeldIn(Word) /\ StacksOK
  /\ inTxn \in BOOLEAN
  /\ JobIn(Word) /\ GcOK
  /\ made \in 4..(MaxAllocs + 1) /\ collections \in Nat
  /\ outcome \in {"running", "trap", "wild"}

-----------------------------------------------------------------------------
(* What a collection leads to. *)

\* The words of an object.
WordsOf(o) == <<o.class>> \o o.fields

\* The objects of the space after lo, the words that stay, and the references
\* that lead to an object of that space or to what stays.
ObjectsOf(m, lo) == {a \in Space(lo) : m[a] # NoObj}
Staying          == {Tagged} \cup {a \in Words : a > Fixed}
Old              == Staying \cup ObjectsOf(mem, from)
Fresh            == Staying \cup ObjectsOf(mem, To)

\* The from-space objects that lead to a copy, and the words they take.
Leads(m)   == {a \in ObjectsOf(m, from) : m[a].fwd # 0}
Body(m, a) == a..(a + Size(m[a]) - 1)
Taken(m)   == UNION {Body(m, a) : a \in Leads(m)}
MovedIn(m, w) == IF w \in Space(from) /\ m[w].fwd # 0 THEN m[w].fwd ELSE w

\* What leads to a copy leads to a copy of itself, every copy has one object that
\* leads to it, and the copies are as large as what they are copies of.
Linked(m, hi) ==
  /\ \A a \in Leads(m) : m[a].fwd \in ObjectsOf(m, To) /\ m[m[a].fwd].id = m[a].id
  /\ \A b \in ObjectsOf(m, To) : m[b].fwd = 0 /\ \E a \in Leads(m) : m[a].fwd = b
  /\ \A a, c \in Leads(m) : m[a].fwd = m[c].fwd => a = c
  /\ Cardinality(Taken(m)) = hi - To

\* o with nothing but another forwarding address.
Alike(o, p) == p.id = o.id /\ p.class = o.class /\ p.fields = o.fields

\* Every copy made by now is of what leads to it now, and for a word given.
CopyOf(st, i, b) ==
  /\ b > gc.free
  /\ \E a \in ObjectsOf(mem, from) :
       mem[a].fwd = 0 /\ st.mem[a].fwd = b /\ Alike(mem[a], st.mem[b])
  /\ \E j \in 1..i : st.out[j] = b

\* A stray may lead into the from-space, but to no object: it is left as it is.
Missing(w) == w \in Space(from) /\ mem[w] = NoObj
Answers(m, x, w) == x = MovedIn(m, w) /\ (Missing(w) \/ x \in Staying \cup ObjectsOf(m, To))

\* What copying the first i of the words ws comes to.
CopyGood(st, i, ws) ==
  /\ Linked(st.mem, st.free) /\ (st.full = TRUE <=> \E j \in 1..i : Missing(ws[j]))
  /\ \A a \in ObjectsOf(mem, from) :
       Alike(mem[a], st.mem[a]) /\ (mem[a].fwd # 0 => st.mem[a].fwd = mem[a].fwd)
  /\ \A a \in Words : a > Fixed => st.mem[a] = mem[a]
  /\ \A b \in ObjectsOf(st.mem, To) : mem[b] = NoObj => CopyOf(st, i, b)
  /\ \A j \in 1..i : Answers(st.mem, st.out[j], ws[j])

-----------------------------------------------------------------------------
(* Programs that keep to what the collector roots. *)

\* No objects as arguments, no allocation in ensure blocks, no young objects in
\* tenured ones, no calls from methods that move.
PlainPrograms == Uses \subseteq {"calls", "closure"}

\* What runs is the first method alone, which may move, or methods that stay.
Young ==
  /\ Len(frames) = 1 /\ Len(calls) = 1 /\ InSpace(from, Top.code)
  /\ Level.ip = Top.code /\ Top.ret = Tagged
FramesSettle ==
  \A f \in 1..Len(frames) : frames[f].code = Fixed + 2 /\ frames[f].ret = IF f = 1 THEN Tagged ELSE Fixed + 2
CallsSettle == \A k \in 1..Len(calls) : calls[k].ip = Fixed + 2 /\ calls[k].table = Fixed + 3
Settles == FramesSettle /\ CallsSettle
NoArgs == \A f \in 1..Len(frames) : \A i \in 1..Len(frames[f].args) : frames[f].args[i] = Tagged
Locals ==
  \A k \in 1..Len(calls) :
    calls[k].kind \notin {"ensure", "cleanup"} => calls[k].cleanup = Tagged /\ calls[k].result = Tagged
PlainStacks == (Young \/ Settles) /\ NoArgs /\ Locals

PlainJob ==
  job # NoJob =>
    /\ \A k \in 1..Len(calls) : calls[k].kind \notin {"ensure", "cleanup"}
    /\ job.kind = "closure" => job.local = Fixed + 2 /\ Top.code = Fixed + 2

\* What never moves refers to nothing that does.
StayingOK ==
  /\ mem[Tenured].fields = <<Tagged>> /\ mem[Fixed + 2].fields = <<>> /\ mem[Fixed + 3].fields = <<>>
  /\ \A a \in Words : a > Fixed => mem[a].class = Tagged /\ mem[a].fwd = 0
LogOK == \A e \in 1..Len(log) : log[e][1] = Tenured => log[e][2] = Tagged

\* Between collections every word is a reference to an object in its place.
Settled == gc = NoGc => mem \in Heap(Old) /\ \A a \in Words : mem[a].fwd = 0

\* The roots in the order o refer to objects, and then to what became of them; so do
\* the strays after them, unless they lead to no object.
RootsMoved(m, g, o, V) ==
  IF g.phase = "scan"
    THEN /\ \A n \in 1..Len(o) : g.roots[n] = MovedIn(m, Read(o[n])) /\ g.roots[n] \in V
         /\ \A n \in (Len(o) + 1)..Len(g.roots) : g.roots[n] \in V \/ Missing(g.roots[n])
    ELSE \A n \in (Len(o) + 1)..Len(g.roots) : g.roots[n] \in Space(from)

CopyOK ==
  /\ Linked(mem, gc.free)
  /\ \A a \in ObjectsOf(mem, from) : mem[a] \in ObjectIn(Old)
  /\ \A b \in ObjectsOf(mem, To) : mem[b] \in ObjectIn(IF b <= gc.scan THEN Fresh ELSE Old)
  /\ RootsMoved(mem, gc, Order, Fresh)

\* Nothing but a stray that leads to no object is copied in vain.
WildOK ==
  outcome = "wild" <=> gc.phase = "scan" /\ \E n \in (Len(Order) + 1)..Len(gc.roots) : Missing(gc.roots[n])

CInv ==
  /\ HeldIn(Old) /\ PlainStacks /\ PlainJob /\ StayingOK /\ LogOK /\ Settled
  /\ gc # NoGc => CopyOK
  /\ WildOK

-----------------------------------------------------------------------------
(* What is copied is in use. *)

\* b is referred to by an object of the space that lies before it.
Referred(m, lo, b) ==
  \E c \in ObjectsOf(m, lo) : c < b /\ \E i \in 1..Len(WordsOf(m[c])) : WordsOf(m[c])[i] = b

\* There are no more objects than have been made; every copy was made for a root or
\* for a word of a copy scanned before; and nothing else is there when an allocation
\* is tried again: the roots have become references of the program, or strays led
\* to them.
Counted == Cardinality(ObjectsOf(mem, from)) <= made
CopiesUsed ==
  gc.phase = "scan" => \A b \in ObjectsOf(mem, To) :
    (\E n \in 1..Len(gc.roots) : gc.roots[n] = b) \/ Referred(mem, To, b)
ObjectsUsed ==
  gc.phase = "idle" /\ job.tried =>
    /\ kept \subseteq Old
    /\ \A b \in ObjectsOf(mem, from) : (\E l \in Places : Held(l) = b) \/ b \in kept \/ Referred(mem, from, b)
Trapped == outcome = "trap" => gc.phase = "idle" /\ job.tried /\ ~Fits
UInv    == Counted /\ CopiesUsed /\ ObjectsUsed /\ Trapped

=============================================================================
