------------------------------ MODULE Collector ------------------------------
(***************************************************************************)
(* The copying collector (src/arm/gc.s) and the way the interpreter uses   *)
(* it when an allocation fails: the roots it gathers, the copy, what it    *)
(* writes back, and the retry (src/c_vm/interpret.c).                      *)
(*                                                                         *)
(* Addresses count words.  The spaces are 1..SpaceWords and the words      *)
(* after them; what lies beyond both never moves.  An object is one header *)
(* word and its fields, and every tagged value is Tagged.  A frame's       *)
(* temporaries and operands are its slots.  id is history: it names an     *)
(* object whatever its address.                                            *)
(***************************************************************************)
EXTENDS Integers, Sequences, FiniteSets

CONSTANTS
  SpaceWords,     \* GC_SPACE_SIZE, in words
  NumTemps,       \* CM_NUM_TEMPS of every method
  NewFields,      \* how many fields the new objects may have
  CodeMoves,      \* may methods and the class table be in the collected memory
  Uses,           \* what programs do: "calls", "closure"; pass objects as "args",
                  \* allocate within "ensure", keep young objects in "tenured" ones,
                  \* call and make closures in "young" methods
  Watch,          \* the references that collections must not disturb
  MaxSlots, MaxStrays, MaxFrames, MaxLog, MaxAllocs, MaxCollections   \* bounds

ASSUME SpaceAssumption == SpaceWords \in Nat /\ NumTemps \in Nat
ASSUME UsesAssumption ==
  /\ CodeMoves \subseteq BOOLEAN
  /\ Uses \subseteq {"args", "calls", "ensure", "closure", "tenured", "young"}
  /\ Watch \subseteq {"args", "ips", "locals", "tables", "tenured"}
ASSUME BoundsAssumption ==
  /\ {MaxSlots, MaxStrays, MaxFrames, MaxLog, MaxAllocs, MaxCollections} \subseteq Nat
  /\ NewFields \subseteq 0..2
  /\ SpaceWords >= IF TRUE \in CodeMoves THEN 4 ELSE 2   \* what the program starts with fits
  /\ MaxAllocs >= 4

VARIABLES
  mem,        \* the object that begins at each address
  from,       \* where the from-space begins, less one
  free,       \* GC_FROM_FREE less one: the last word in use
  frames,     \* the frames, the running one last
  calls,      \* the active interpret()s, and what primitives hold meanwhile
  handlers,   \* the chain of ExceptionHandlerFrames, innermost last
  ensures,    \* the chain of EnsureFrames, innermost last
  log,        \* the log of the running transaction
  inTxn,
  remembered, \* GC_REMEMBERED
  job,        \* the allocation under way
  gc,         \* the collection under way: phase, roots, frames overscanned, scan, to-free
  made,       \* history: objects so far
  collections,
  kept,       \* history: what the strays of the last collection have become
  outcome     \* "running", "trap" or "wild"

stacks  == <<frames, calls>>
chains  == <<handlers, ensures, log, inTxn>>
memory  == <<mem, from, free>>
history == <<made, collections, kept>>
vars    == <<memory, stacks, chains, remembered, job, gc, history, outcome>>

Tagged  == 0
Fixed   == 2 * SpaceWords
Tenured == Fixed + 1
Code(young)  == IF young THEN 3 ELSE Fixed + 2
Table(young) == IF young THEN 4 ELSE Fixed + 3
Words   == 1..(Fixed + 3)
NoObj   == [id |-> 0, class |-> Tagged, fields |-> <<>>, fwd |-> 0]
Object(id, class, fields) == [id |-> id, class |-> class, fields |-> fields, fwd |-> 0]
Size(o) == 1 + Len(o.fields)

IsPointer(w) == w # Tagged
InSpace(start, p) == p \in (start + 1)..(start + SpaceWords)
To      == SpaceWords - from

Top     == frames[Len(frames)]
Level   == calls[Len(calls)]
NoJob   == [kind |-> "none", stage |-> "none", tried |-> FALSE, local |-> Tagged, size |-> 0]
NoGc    == [phase |-> "idle", roots |-> <<>>, over |-> {}, scan |-> 0, free |-> 0]

\* One method runs on a class, with the class in a slot of its frame.
Started(young) ==
  /\ mem = [a \in Words |->
       CASE a = 1            -> Object(1, Tagged, <<Tagged>>)
         [] a = Code(young)  -> Object(2, Tagged, <<>>)
         [] a = Table(young) -> Object(3, Tagged, <<>>)
         [] a = Tenured      -> Object(4, Tagged, <<Tagged>>)
         [] OTHER            -> NoObj]
  /\ free = IF young THEN 4 ELSE 2
  /\ frames = <<[rcv |-> 1, args |-> <<>>, code |-> Code(young), ctx |-> Tagged, ret |-> Tagged,
                 slots |-> [i \in 1..(NumTemps + 1) |-> IF i = NumTemps + 1 THEN 1 ELSE Tagged]]>>
  /\ calls = <<[kind |-> "host", depth |-> 1, table |-> Table(young), ip |-> Code(young),
                cleanup |-> Tagged, result |-> Tagged]>>

Init ==
  /\ \E young \in CodeMoves : Started(young)
  /\ from = 0
  /\ handlers = <<>> /\ ensures = <<>> /\ log = <<>> /\ inTxn = FALSE
  /\ remembered = <<>>
  /\ job = NoJob /\ gc = NoGc
  /\ made = 4 /\ collections = 0 /\ kept = {}
  /\ outcome = "running"

\* ------------------------------------------------------------------- roots

\* gc_collect_stack_slots lists, for each frame, receiver, method and context,
\* and all words from sp to the temporaries.  The arguments lie between the
\* words of two frames and are not among them.  The code leaves out the words of
\* a frame that are no pointers; here they are listed, and come back as they went.
Loc(k, f, i) == [k |-> k, f |-> f, i |-> i]

FrameLocs(f) ==
  <<Loc("rcv", f, 0), Loc("code", f, 0), Loc("ctx", f, 0)>> \o
  [i \in 1..Len(frames[f].slots) |-> Loc("slot", f, i)]

Read(l) ==
  CASE l.k = "rcv"  -> frames[l.f].rcv
    [] l.k = "code" -> frames[l.f].code
    [] l.k = "ctx"  -> frames[l.f].ctx
    [] l.k = "slot" -> frames[l.f].slots[l.i]
    [] l.k = "arg"  -> frames[l.f].args[l.i]
    [] l.k = "handler" -> handlers[l.f][l.i]
    [] l.k = "ensure"  -> ensures[l.f][l.i]
    [] l.k = "log"     -> log[l.f][l.i]
    [] l.k = "table"   -> calls[l.f].table

\* With temporaries the bounds of both loops over a frame's words are lost:
\* .Lgcss_add_slot loads each word into x24, which holds them.  The first loop
\* goes on, down the stack, until a word is no larger than its index (pointers,
\* frame pointers and many SmallIntegers are larger); the second starts at sp and
\* goes up past the frame if that word is negative.  So the values of the words
\* decide what else is listed, and values of tagged words are not modelled: any
\* frames may have their arguments listed, and any strays may be.
Overscan(over, f) ==
  IF f \in over THEN [i \in 1..Len(frames[f].args) |-> Loc("arg", f, i)] ELSE <<>>

Overscanned == IF NumTemps = 0 THEN {{}} ELSE SUBSET {f \in 1..Len(frames) : frames[f].args # <<>>}

\* A stray is a word that is no reference of the program: a saved ip, or what
\* earlier frames and operands left under sp.  What matters is
\* whether it is an address of the from-space, and there it may be any.
Strays == IF NumTemps = 0 THEN {<<>>} ELSE UNION {[1..n -> {a \in Words : InSpace(from, a)}] : n \in 0..MaxStrays}

StackLocs(over) ==
  LET From[f \in 0..Len(frames)] ==
        IF f = 0 THEN <<>> ELSE FrameLocs(f) \o Overscan(over, f) \o From[f - 1]
  IN From[Len(frames)]

\* Each chain is walked from its innermost element outwards.
ChainLocs(k, chain, width) ==
  [n \in 1..(Len(chain) * width) |->
     Loc(k, Len(chain) - ((n - 1) \div width), ((n - 1) % width) + 1)]

LogLocs(k) ==
  [n \in 1..(Len(log) * 2) |-> Loc(k, ((n + 1) \div 2), ((n - 1) % 2) + 1)]

\* The order of collect_*_roots ...
CollectOrder(over) ==
  StackLocs(over) \o ChainLocs("handler", handlers, 3) \o ChainLocs("ensure", ensures, 2)
  \o LogLocs("log") \o <<Loc("table", Len(calls), 0)>>

\* Mutant: the log is restored before the ensure frames.
RestoreOrderLogFirst ==
  StackLocs(gc.over) \o ChainLocs("handler", handlers, 3) \o LogLocs("log")
  \o ChainLocs("ensure", ensures, 2) \o <<Loc("table", Len(calls), 0)>>

\* ... and of restore_*_roots, which walk the same chains again.
RestoreOrder ==
  StackLocs(gc.over) \o ChainLocs("handler", handlers, 3) \o ChainLocs("ensure", ensures, 2)
  \o LogLocs("log") \o <<Loc("table", Len(calls), 0)>>

\* ------------------------------------------------------------ the collection

\* Mutant: an object is copied again for every reference to it.
CopyAgain(st, w) ==
  IF ~IsPointer(w) \/ ~InSpace(from, w) \/ st.mem[w] = NoObj THEN [st EXCEPT !.out = Append(@, w)]
  ELSE LET o == st.mem[w] IN
    IF st.free + Size(o) > To + SpaceWords
      THEN [st EXCEPT !.out = Append(@, w), !.full = TRUE]
      ELSE [mem  |-> [st.mem EXCEPT ![st.free + 1] = [o EXCEPT !.fwd = 0], ![w].fwd = st.free + 1],
            free |-> st.free + Size(o), out |-> Append(st.out, st.free + 1), full |-> st.full]

\* gc_collect's test of a word and gc_copy_object: the copy is made once, the
\* old object's header leads to it.
gc_copy_object(st, w) ==
  IF ~IsPointer(w) \/ ~InSpace(from, w) THEN [st EXCEPT !.out = Append(@, w)]
  ELSE LET o == st.mem[w] IN
    CASE o.fwd # 0 -> [st EXCEPT !.out = Append(@, o.fwd)]
      [] o.fwd = 0 /\ (o = NoObj \/ st.free + Size(o) > To + SpaceWords) ->
         [st EXCEPT !.out = Append(@, w), !.full = TRUE]
      [] OTHER     ->
         [mem  |-> [st.mem EXCEPT ![st.free + 1] = o, ![w].fwd = st.free + 1],
          free |-> st.free + Size(o), out |-> Append(st.out, st.free + 1), full |-> st.full]

CopyAll(ws) ==
  LET Done[i \in 0..Len(ws)] ==
        IF i = 0 THEN [mem |-> mem, free |-> gc.free, out |-> <<>>, full |-> FALSE]
        ELSE gc_copy_object(Done[i - 1], ws[i])
  IN Done[Len(ws)]

\* collect_and_retry_allocation up to gc_collect.
StartCollection ==
  /\ collections < MaxCollections
  /\ \E over \in Overscanned, strays \in Strays :
       gc' = [phase |-> "roots", over |-> over, scan |-> To, free |-> To,
              roots |-> [i \in 1..Len(CollectOrder(over)) |-> Read(CollectOrder(over)[i])] \o strays]
  /\ collections' = collections + 1

\* gc_collect, phase 1.
CopyRoots ==
  /\ gc.phase = "roots" /\ outcome = "running"
  /\ LET done == CopyAll(gc.roots)
     IN /\ mem' = done.mem
        /\ gc' = [gc EXCEPT !.phase = "scan", !.roots = done.out, !.free = done.free]
        /\ outcome' = IF done.full THEN "wild" ELSE outcome
  /\ UNCHANGED <<from, free, stacks, chains, remembered, job, history>>

\* Cheney's scan of one object: its class, then its fields.
ScanObject ==
  /\ gc.phase = "scan" /\ outcome = "running" /\ gc.scan < gc.free
  /\ LET o    == mem[gc.scan + 1]
         done == CopyAll(<<o.class>> \o o.fields)
     IN /\ mem' = [done.mem EXCEPT ![gc.scan + 1] =
                     [@ EXCEPT !.class = done.out[1], !.fields = Tail(done.out)]]
        /\ gc' = [gc EXCEPT !.scan = @ + Size(o), !.free = done.free]
        /\ outcome' = IF done.full THEN "wild" ELSE outcome
  /\ UNCHANGED <<from, free, stacks, chains, remembered, job, history>>

\* What the roots say is at l now.
Restored(l) ==
  LET at == {n \in 1..Len(RestoreOrder) : RestoreOrder[n] = l}
  IN IF at = {} THEN Read(l) ELSE gc.roots[CHOOSE n \in at : TRUE]

RestoredChain(k, chain) ==
  [f \in 1..Len(chain) |-> [i \in 1..Len(chain[f]) |-> Restored(Loc(k, f, i))]]

\* The roots go back to where they came from, and the ip to the frame's method.
WriteBack ==
  /\ frames' = [f \in 1..Len(frames) |->
       [rcv |-> Restored(Loc("rcv", f, 0)), code |-> Restored(Loc("code", f, 0)),
        ctx |-> Restored(Loc("ctx", f, 0)), ret |-> frames[f].ret,
        args  |-> [i \in 1..Len(frames[f].args) |-> Restored(Loc("arg", f, i))],
        slots |-> [i \in 1..Len(frames[f].slots) |-> Restored(Loc("slot", f, i))]]]
  /\ handlers' = RestoredChain("handler", handlers)
  /\ ensures' = RestoredChain("ensure", ensures)
  /\ log' = RestoredChain("log", log)

\* Mutant: the ip of the running interpret() stays where it was.
RelocatedCallKeepingIp ==
  [Level EXCEPT !.table = Restored(Loc("table", Len(calls), 0))]

RelocatedCall ==
  [Level EXCEPT !.table = Restored(Loc("table", Len(calls), 0)),
                !.ip = Restored(Loc("code", Len(frames), 0))]

\* Mutant: the free pointers are not exchanged.
FreeAfterFlipUnchanged == free

FreeAfterFlip == gc.free

\* The rest of collect_and_retry_allocation: write the roots back, exchange the
\* spaces, relocate the ip of the running frame.
Flip ==
  /\ gc.phase = "scan" /\ outcome = "running" /\ gc.scan >= gc.free
  /\ WriteBack
  /\ calls' = [calls EXCEPT ![Len(calls)] = RelocatedCall]
  /\ mem' = [a \in Words |-> IF InSpace(from, a) THEN NoObj ELSE mem[a]]
  /\ from' = To
  /\ free' = FreeAfterFlip
  /\ gc' = NoGc
  /\ job' = [job EXCEPT !.tried = TRUE]
  /\ kept' = {gc.roots[n] : n \in (Len(RestoreOrder) + 1)..Len(gc.roots)}
  /\ UNCHANGED <<inTxn, remembered, made, collections, outcome>>

\* -------------------------------------------------------------- the program

Idle == outcome = "running" /\ gc.phase = "idle" /\ job = NoJob

Operands == Len(Top.slots) - NumTemps
Op(n)    == Top.slots[Len(Top.slots) - n]          \* sp[n]

\* The running frame with other slots.
WithSlots(ws) == [frames EXCEPT ![Len(frames)].slots = ws]
Pushed(w)     == Append(Top.slots, w)
Popped(n)     == SubSeq(Top.slots, 1, Len(Top.slots) - n)

\* Bound: the slots of all frames together.
Room ==
  LET Used[f \in 0..Len(frames)] == IF f = 0 THEN 0 ELSE Used[f - 1] + Len(frames[f].slots)
  IN Used[Len(frames)] < MaxSlots

Quiet == UNCHANGED <<memory, calls, chains, remembered, job, gc, history, outcome>>

PushWord(w) ==
  /\ Room
  /\ frames' = WithSlots(Pushed(w))
  /\ Quiet

PushTemp == Idle /\ \E i \in 1..NumTemps : PushWord(Top.slots[i])
Duplicate == Idle /\ Operands > 0 /\ PushWord(Op(0))
PushArg  == Idle /\ \E i \in 1..Len(Top.args) : PushWord(Top.args[i])
PushSelf == Idle /\ PushWord(Top.rcv)
PushLiteral == Idle /\ PushWord(Tagged)

Pop ==
  /\ Idle /\ Operands > 0
  /\ frames' = WithSlots(Popped(1))
  /\ Quiet

StoreTemp ==
  /\ Idle /\ Operands > 0 /\ NumTemps > 0
  /\ frames' = WithSlots([Popped(1) EXCEPT ![1] = Op(0)])
  /\ Quiet

\* BC_PUSH_INST_VAR: the newest entry of the log for the field, else the field.
HasField == Len(mem[Top.rcv].fields) > 0
FieldValue ==
  LET entries == {e \in 1..Len(log) : log[e][1] = Top.rcv}
  IN IF inTxn /\ entries # {}
       THEN log[CHOOSE e \in entries : \A d \in entries : d <= e][2]
       ELSE mem[Top.rcv].fields[1]

PushField == Idle /\ HasField /\ PushWord(FieldValue)

\* BC_STORE_INST_VAR with record_write_barrier.
record_write_barrier(w) ==
  remembered' = IF Top.rcv = Tenured /\ InSpace(from, w) THEN Append(remembered, w) ELSE remembered

MayKeep(w) == "tenured" \in Uses \/ Top.rcv # Tenured \/ ~IsPointer(w)
StoreField ==
  /\ Idle /\ HasField /\ Operands > 0 /\ MayKeep(Op(0))
  /\ frames' = WithSlots(Popped(1))
  /\ IF inTxn
       THEN /\ Len(log) < MaxLog
            /\ log' = Append(log, <<Top.rcv, Op(0)>>)
            /\ UNCHANGED <<mem, remembered>>
       ELSE /\ mem' = [mem EXCEPT ![Top.rcv].fields[1] = Op(0)]
            /\ Len(remembered) < MaxLog
            /\ record_write_barrier(Op(0))
            /\ UNCHANGED log
  /\ UNCHANGED <<from, free, calls, handlers, ensures, inTxn, job, gc, history, outcome>>

\* Control enters a frame above the given slots of the running one.
EnterFrame(under, rcv, args, ctx) ==
  /\ Len(frames) < MaxFrames
  /\ frames' = Append(WithSlots(under),
                      [rcv |-> rcv, args |-> args, code |-> Top.code, ctx |-> ctx,
                       ret |-> Level.ip, slots |-> [i \in 1..NumTemps |-> Tagged]])

MayPass(w) == "args" \in Uses \/ ~IsPointer(w)
MayUse(what) == what \in Uses /\ ("young" \in Uses \/ ~InSpace(from, Top.code))
Send ==
  /\ Idle /\ MayUse("calls")
  /\ \/ /\ Operands > 0
        /\ \E r \in {Op(0), Tenured} : IsPointer(r) /\ EnterFrame(Popped(1), r, <<>>, Tagged)
     \/ /\ Operands > 1 /\ IsPointer(Op(1)) /\ MayPass(Op(0))
        /\ EnterFrame(Popped(2), Op(1), <<Op(0)>>, Tagged)
  /\ calls' = [calls EXCEPT ![Len(calls)].ip = Top.code]
  /\ UNCHANGED <<memory, chains, remembered, job, gc, history, outcome>>

\* A primitive runs the block b in an interpret() of its own, with this
\* interpret()'s class table.
InvokeBlock(under, b, kind, cleanup, result, outer) ==
  /\ EnterFrame(under, Top.rcv, <<>>, b)
  /\ calls' = Append(outer, [kind |-> kind, depth |-> Len(frames) + 1, table |-> Level.table,
                             ip |-> Top.code, cleanup |-> cleanup, result |-> result])

OnDo ==
  /\ Idle /\ MayUse("calls") /\ Operands > 2 /\ IsPointer(Op(2))
  /\ handlers' = Append(handlers, <<Op(1), Op(0), Tagged>>)
  /\ InvokeBlock(Popped(3), Op(2), "onDo", Tagged, Tagged, calls)
  /\ UNCHANGED <<memory, ensures, log, inTxn, remembered, job, gc, history, outcome>>

Ensure ==
  /\ Idle /\ MayUse("calls") /\ Operands > 1 /\ IsPointer(Op(1)) /\ IsPointer(Op(0))
  /\ ensures' = Append(ensures, <<Tagged, Tagged>>)
  /\ InvokeBlock(Top.slots, Op(1), "ensure", Op(0), Tagged, calls)
  /\ UNCHANGED <<memory, handlers, log, inTxn, remembered, job, gc, history, outcome>>

Transaction ==
  /\ Idle /\ MayUse("calls") /\ Operands > 1 /\ IsPointer(Op(0)) /\ ~inTxn
  /\ ensures' = Append(ensures, <<Tagged, Tagged>>)
  /\ inTxn' = TRUE
  /\ InvokeBlock(Top.slots, Op(0), "txn", Tagged, Tagged, calls)
  /\ UNCHANGED <<memory, handlers, log, remembered, job, gc, history, outcome>>

\* Return within one interpret().
Caller == frames[Len(frames) - 1]
WithoutTop(drop, ws) ==
  [SubSeq(frames, 1, Len(frames) - 1) EXCEPT ![Len(frames) - 1].slots =
     SubSeq(@, 1, Len(@) - drop) \o ws]

Return ==
  /\ Idle /\ Operands > 0 /\ Len(frames) > Level.depth
  /\ frames' = WithoutTop(0, <<Op(0)>>)
  /\ calls' = [calls EXCEPT ![Len(calls)].ip = Top.ret]
  /\ UNCHANGED <<memory, chains, remembered, job, gc, history, outcome>>

\* txn_commit stores the log into the heap, with no barrier.
Committed ==
  LET After[e \in 0..Len(log)] ==
        IF e = 0 THEN mem ELSE [After[e - 1] EXCEPT ![log[e][1]].fields[1] = log[e][2]]
  IN After[Len(log)]

\* The value of a block is handed to the primitive that ran it, which goes on
\* with what its own interpret() holds.
Outer == SubSeq(calls, 1, Len(calls) - 1)
Answer ==
  /\ Idle /\ Operands > 0 /\ Len(frames) = Level.depth /\ Level.kind # "host"
  /\ handlers' = IF Level.kind = "onDo" THEN SubSeq(handlers, 1, Len(handlers) - 1) ELSE handlers
  /\ ensures' = IF Level.kind \in {"ensure", "txn"} THEN SubSeq(ensures, 1, Len(ensures) - 1) ELSE ensures
  /\ mem' = IF Level.kind = "txn" THEN Committed ELSE mem
  /\ log' = IF Level.kind = "txn" THEN <<>> ELSE log
  /\ inTxn' = (inTxn /\ Level.kind # "txn")
  /\ CASE Level.kind = "ensure" ->
            /\ frames' = Append(WithoutTop(2, <<>>),
                                [Top EXCEPT !.ctx = Level.cleanup,
                                            !.slots = [i \in 1..NumTemps |-> Tagged]])
            /\ calls' = Append(Outer, [Level EXCEPT !.kind = "cleanup", !.cleanup = Tagged,
                                       !.result = Op(0), !.table = Outer[Len(Outer)].table])
       [] Level.kind = "cleanup" -> frames' = WithoutTop(0, <<Level.result>>) /\ calls' = Outer
       [] Level.kind = "onDo"    -> frames' = WithoutTop(0, <<Op(0)>>) /\ calls' = Outer
       [] Level.kind = "txn"     -> frames' = WithoutTop(2, <<Op(0)>>) /\ calls' = Outer
  /\ UNCHANGED <<from, free, remembered, job, gc, history, outcome>>

\* -------------------------------------------------------------- allocation

MayAllocate == "ensure" \in Uses \/ \A k \in 1..Len(calls) : calls[k].kind \notin {"ensure", "cleanup"}
StartJob(kind, stage, size, local) ==
  /\ made < MaxAllocs /\ MayAllocate
  /\ job' = [kind |-> kind, stage |-> stage, tried |-> FALSE, local |-> local, size |-> size]
  /\ UNCHANGED <<memory, stacks, chains, remembered, gc, history, outcome>>

\* basicNew and basicNew: on the class on the stack.
BasicNew ==
  Idle /\ Operands > 0 /\ IsPointer(Op(0)) /\ \E n \in NewFields : StartJob("new", "object", 1 + n, Op(0))

\* BC_PUSH_CLOSURE reads the method of the block before it makes the context.
PushClosure ==
  /\ Idle /\ MayUse("closure") /\ Room
  /\ IF Top.ctx = Tagged THEN StartJob("closure", "context", 2, Top.code)
     ELSE StartJob("closure", "block", 3, Top.code)

Fits == free + job.size <= from + SpaceWords

AllocateObject(class, fields) ==
  /\ mem' = [mem EXCEPT ![free + 1] = Object(made + 1, class, fields)]
  /\ free' = free + job.size
  /\ made' = made + 1
  /\ kept' = {}
  /\ UNCHANGED <<from, calls, chains, remembered, gc, collections, outcome>>

\* Mutant: the class is the one read before the collection.
NewFromOldReceiver ==
  /\ job.kind = "new" /\ gc.phase = "idle" /\ outcome = "running" /\ Fits
  /\ AllocateObject(job.local, [i \in 1..(job.size - 1) |-> Tagged])
  /\ frames' = WithSlots(Append(Popped(1), free + 1))
  /\ job' = NoJob

\* try_allocation_primitive, at once or after a collection, with the receiver
\* read from the stack again.
New ==
  /\ job.kind = "new" /\ gc.phase = "idle" /\ outcome = "running" /\ Fits
  /\ AllocateObject(Op(0), [i \in 1..(job.size - 1) |-> Tagged])
  /\ frames' = WithSlots(Append(Popped(1), free + 1))
  /\ job' = NoJob

NewContext ==
  /\ job.stage = "context" /\ gc.phase = "idle" /\ outcome = "running" /\ Fits
  /\ AllocateObject(Tagged, <<Top.rcv>>)
  /\ frames' = [frames EXCEPT ![Len(frames)].ctx = free + 1]
  /\ job' = [job EXCEPT !.stage = "block", !.tried = FALSE, !.size = 3]

\* Only a collection for the block itself makes BC_PUSH_CLOSURE read again.
NewBlock ==
  /\ job.stage = "block" /\ gc.phase = "idle" /\ outcome = "running" /\ Fits
  /\ AllocateObject(Tagged, <<Top.ctx, IF job.tried THEN Top.code ELSE job.local>>)
  /\ frames' = WithSlots(Pushed(free + 1))
  /\ job' = NoJob

AllocationFails ==
  /\ job # NoJob /\ gc.phase = "idle" /\ outcome = "running" /\ ~Fits /\ ~job.tried
  /\ StartCollection
  /\ UNCHANGED <<memory, stacks, chains, remembered, job, made, kept, outcome>>

\* Mutant: the failure is final without a collection.
OutOfMemoryAtOnce ==
  /\ job # NoJob /\ gc.phase = "idle" /\ outcome = "running" /\ ~Fits
  /\ outcome' = "trap"
  /\ UNCHANGED <<memory, stacks, chains, remembered, job, gc, history>>

\* The allocation fails again.  For a context the code collects once more, and
\* finds nothing more.
OutOfMemory ==
  /\ job # NoJob /\ gc.phase = "idle" /\ outcome = "running" /\ ~Fits /\ job.tried
  /\ outcome' = "trap"
  /\ UNCHANGED <<memory, stacks, chains, remembered, job, gc, history>>

Next ==
  \/ PushTemp \/ Duplicate \/ PushArg \/ PushSelf \/ PushLiteral \/ Pop \/ StoreTemp \/ PushField \/ StoreField
  \/ Send \/ OnDo \/ Ensure \/ Transaction \/ Return \/ Answer
  \/ BasicNew \/ PushClosure \/ New \/ NewContext \/ NewBlock \/ AllocationFails \/ OutOfMemory
  \/ CopyRoots \/ ScanObject \/ Flip

Spec == Init /\ [][Next]_vars

\* -------------------------------------------------------------- properties

\* The references of the program, by place.
Places ==
  (UNION {{Loc("rcv", f, 0), Loc("code", f, 0), Loc("ctx", f, 0)} \cup
         {Loc("slot", f, i) : i \in 1..Len(frames[f].slots)} \cup
         (IF "args" \in Watch THEN {Loc("arg", f, i) : i \in 1..Len(frames[f].args)} ELSE {}) \cup
         (IF "ips" \in Watch THEN {Loc("ret", f, 0)} ELSE {}) : f \in 1..Len(frames)})
  \cup {Loc("handler", f, i) : f \in 1..Len(handlers), i \in 1..3}
  \cup {Loc("ensure", f, i) : f \in 1..Len(ensures), i \in 1..2}
  \cup {Loc("log", f, i) : f \in 1..Len(log), i \in 1..2}
  \cup {Loc("table", f, 0) : f \in IF "tables" \in Watch THEN 1..Len(calls) ELSE {Len(calls)}}
  \cup {Loc("ip", f, 0) : f \in IF "ips" \in Watch THEN 1..Len(calls) ELSE {Len(calls)}}
  \cup (IF "locals" \in Watch THEN {Loc(k, f, 0) : k \in {"cleanup", "result"}, f \in 1..Len(calls)} ELSE {})
  \cup (IF "tenured" \in Watch THEN {Loc("tenured", 0, 1)} ELSE {})

Held(l) ==
  CASE l.k = "ret"     -> frames[l.f].ret
    [] l.k = "ip"      -> calls[l.f].ip
    [] l.k = "cleanup" -> calls[l.f].cleanup
    [] l.k = "result"  -> calls[l.f].result
    [] l.k = "tenured" -> mem[Tenured].fields[1]
    [] OTHER           -> Read(l)

\* An object where it is now, and the words it refers to.
Valid(w) == w > Fixed \/ (mem[w] # NoObj /\ (InSpace(from, w) \/ gc.phase # "idle"))
Now(w)   == IF mem[w].fwd # 0 THEN mem[w].fwd ELSE w
Refs(w)  == <<mem[Now(w)].class>> \o mem[Now(w)].fields
Id(w)    == IF w = Tagged THEN 0 ELSE IF Valid(w) THEN mem[w].id ELSE -1

Closed(w) == {w} \cup IF Valid(w) THEN {Refs(w)[i] : i \in 1..Len(Refs(w))} \ {Tagged} ELSE {}
ReachedFrom(ws) ==
  LET Grow[n \in 0..MaxAllocs] ==
        IF n = 0 THEN ws \ {Tagged} ELSE UNION {Closed(w) : w \in Grow[n - 1]}
  IN Grow[MaxAllocs]
References == {Held(l) : l \in Places}
Reachable  == ReachedFrom(References)

\* The graph of objects as the program sees it.
View ==
  [held  |-> [l \in Places |-> Id(Held(l))],
   graph |-> {<<Id(w), [i \in 1..Len(Refs(w)) |-> Id(Refs(w)[i])]>> : w \in {v \in Reachable : Valid(v)}}]

\* A collection changes nothing the program can see: every reference is to the
\* object it was to, and every field holds what it held, through the copy of
\* the roots, the scan and the exchange of the spaces.
CollectionsInvisible == [][gc.phase # "idle" => View' = View]_vars

\* No reference of the program, and no field it can reach, holds an address
\* from before the last collection.
NoStaleReference == \A w \in Reachable : Valid(w)

\* gc_copy_object finds an object and room for its copy wherever it is sent, unless
\* it is sent by a stray to where no object is (README, deviation 17): if it fails,
\* one of the strays is such a word.
CopiesSucceed ==
  outcome = "wild" => \E n \in (Len(RestoreOrder) + 1)..Len(gc.roots) : mem[gc.roots[n]] = NoObj

\* An allocation fails for good only if the objects that the program can reach, or
\* that strays lead to, leave no room: no other garbage survives a collection.
OutOfMemoryIsReal ==
  outcome = "trap" =>
    LET found == ReachedFrom(References \cup kept)
        Total[n \in 0..SpaceWords] ==
          IF n = 0 THEN 0 ELSE Total[n - 1] + IF from + n \in found THEN Size(mem[from + n]) ELSE 0
    IN Total[SpaceWords] + job.size > SpaceWords

TypeOK ==
  /\ mem \in [Words -> [id : 0..(MaxAllocs + 1), class : 0..(Fixed + 3),
                        fields : {<<>>} \cup [1..1 -> 0..(Fixed + 3)] \cup [1..2 -> 0..(Fixed + 3)],
                        fwd : 0..Fixed]]
  /\ from \in {0, SpaceWords}
  /\ free \in from..(from + SpaceWords)
  /\ gc.phase # "idle" => gc.scan <= gc.free /\ gc.free <= To + SpaceWords
  /\ outcome \in {"running", "trap", "wild"}

=============================================================================
