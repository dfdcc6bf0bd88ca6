---------------------------- MODULE FramesProofs ----------------------------
(***************************************************************************)
(* The stack of frames keeps its shape, for every program, stack and heap: *)
(* words of frames and of the program never mix, every frame lies on the   *)
(* operands of its caller, and the contexts know it.  So the frames are a  *)
(* stack of activations, and every step of the machine is one of theirs.   *)
(***************************************************************************)
EXTENDS Frames, InductionLemmas

-----------------------------------------------------------------------------
(* The frames on the stack and the words the program can hold. *)

\* The words of frames.
FrameSet == {p \in 1..SP : stack[p].k = "frame"}

SomeBlock   == {Blk(i) : i \in 1..Len(closures)}
SomeContext == {Ctx(i) : i \in 1..Len(contexts)}

\* What the program can hold: no word of a frame.
Held == {Zero, Nil} \cup {SmallInt(n) : n \in Values \cup 0..MaxPc}
        \cup SomeBlock \cup SomeContext

Closure ==
  [homeContext : {Nil} \cup SomeContext, receiver : Held, method : Blocks,
   copied : Seq(Held), homeId : Nat]
Context ==
  [sender : {Nil} \cup SomeContext, ip : Held, method : Code, receiver : Held,
   closure : {Nil} \cup SomeBlock, home : {Nil} \cup SomeContext, isBlock : BOOLEAN,
   args : Seq(Held), temps : Seq(Held), rest : Seq(Held)]
CallRecord ==
  [entry : Nat, kind : {"host", "ensure", "onDo", "transaction", "cleanup"}, savedSp : Nat,
   savedFp : {NULL, CAFE} \cup Nat, ip : Ip \cup {NoIp}, base : Code, cleanup : Held,
   result : Held]

\* The heap and the registers are well formed.
HeapInv ==
  /\ closures \in Seq(Closure) /\ Len(closures) <= MaxClosures
  /\ contexts \in Seq(Context) /\ Len(contexts) <= MaxContexts
  /\ contextClass \in BOOLEAN /\ born \in Nat

\* The words on the stack.
StackInv == stack \in Seq(Held \cup FrameWord)

\* The running frame is the last one, and ip is in its code.
TopInv ==
  /\ fp \in FrameSet /\ OperandBase(fp) <= SP
  /\ \A f \in FrameSet : f <= fp
  /\ base = Frame(fp).method
  /\ ip = After \/ (ip \in Ip /\ ip.m = base)

\* The caller of a frame is the frame below it, and the receiver and the
\* arguments of the frame are the caller's operands.
CallerOK(f) ==
  \/ Frame(f).savedFp = Bottom /\ Frame(f).numArgs <= f - 2 /\ \A g \in FrameSet : f <= g
  \/ /\ Frame(f).savedFp \in FrameSet
     /\ OperandBase(Frame(f).savedFp) + Frame(f).numArgs + 2 <= f
     /\ \A g \in FrameSet : g <= Frame(f).savedFp \/ f <= g
     /\ Frame(f).savedIp = After
        \/ (Frame(f).savedIp \in Ip /\ Frame(f).savedIp.m = Frame(Frame(f).savedFp).method)

\* A frame of a block knows its closure, whether it has a context or not.
ClosureOK(f) ==
  /\ Frame(f).link \in Held /\ Frame(f).link.k \in {"zero", "block", "context"}
  /\ IF Frame(f).isBlock
       THEN LET b == block_closure_for_frame(f)
            IN /\ b \in SomeBlock
               /\ Frame(f).method = closures[b.v].method
               /\ Frame(f).home = closures[b.v].homeId
               /\ block_home_context_for_frame(f) = closures[b.v].homeContext
       ELSE block_closure_for_frame(f) = Nil /\ Frame(f).home = Frame(f).id

\* A context belongs to one frame; if closures were made there, to their home's.
LinkOK(f) ==
  Frame(f).link.k = "context" =>
    /\ \A g \in FrameSet : Frame(g).link = Frame(f).link => g = f
    /\ \A b \in 1..Len(closures) :
         closures[b].homeContext = Frame(f).link => closures[b].homeId = Frame(f).home

\* The context of a frame describes it, and its sender the caller.
SenderOK(f) ==
  Frame(f).link.k = "context" =>
    LET x == contexts[Frame(f).link.v]
        c == Frame(f).savedFp
    IN /\ x.method = Frame(f).method /\ x.args = FrameArgs(f)
       /\ IF c \in {NULL, CAFE} THEN x.sender = Nil
          ELSE x.sender = Nil \/ (x.sender.k = "context" /\ x.sender = Frame(c).link)
       /\ x.sender = Nil /\ c \notin {NULL, CAFE} => Len(contexts) = MaxContexts

\* Every frame.
FramesInv ==
  \A f \in FrameSet :
    CallerOK(f) /\ OperandBase(f) <= StackWords /\ ClosureOK(f) /\ LinkOK(f) /\ SenderOK(f)

\* The call of an interpret() by a primitive, which waits with the frame below
\* the entry and with words that are still there.
CallOK(k) ==
  LET c == calls[k] IN
  /\ c.kind # "host"
  /\ c.savedFp \in FrameSet /\ c.savedFp = Frame(c.entry).savedFp
  /\ OperandBase(c.savedFp) <= c.savedSp /\ c.savedSp + 2 <= c.entry
  /\ Frame(c.entry).numArgs = 0
  /\ c.ip \in Ip /\ c.ip.m = c.base /\ c.base = Frame(c.savedFp).method
  /\ c.ip = Frame(c.entry).savedIp
  /\ c.kind = "ensure" => IsThunk(c.cleanup)
  /\ \A j \in 1..(k - 1) : calls[j].entry <= c.savedFp

\* Every interpret(): the host made the first, primitives the others.
CallsInv ==
  /\ calls \in Seq(CallRecord) /\ Len(calls) > 0
  /\ calls[1].kind = "host"
  /\ \A k \in 1..Len(calls) : calls[k].entry \in FrameSet
  /\ \A k \in 2..Len(calls) : CallOK(k)

\* The frames are different activations, none younger than the last, and the
\* first one is the host's.  A context that a method's activation has been given
\* is its link for as long as it has a frame.
HistoryOK(f) ==
  /\ Frame(f).id <= born /\ calls[1].entry <= f
  /\ \A g \in FrameSet : Frame(g).id = Frame(f).id => g = f
  /\ Frame(f).link.k = "context" => contexts[Frame(f).link.v].isBlock = Frame(f).isBlock
  /\ \A b \in 1..Len(closures) :
       LET x == closures[b].homeContext
       IN x.k = "context" /\ ~contexts[x.v].isBlock /\ closures[b].homeId = Frame(f).id
            => Frame(f).link = x

\* The activations and the closures made so far.
HistoryInv ==
  /\ \A f \in FrameSet : HistoryOK(f)
  /\ \A b \in 1..Len(closures) : closures[b].homeId <= born

\* While the machine runs.
MachineInv == TopInv /\ FramesInv /\ CallsInv /\ HistoryInv

\* What is left when the machine has stopped, or has gone wild.
RestInv ==
  /\ fp \in {NULL, CAFE} \cup 1..SP
  /\ ip \in Ip \cup {NoIp, After}
  /\ base \in Code
  /\ outcome \in {"running", "done", "trap", "halt", "wild"}

\* The inductive invariant.
IInv == HeapInv /\ StackInv /\ RestInv /\ (Running => MachineInv)

\* The programs of the run: no ^ in a block made by a block, none out of a
\* protected block.  (Deviations 9 and 11 are what happens otherwise.)
PlainUses == "nested" \notin Uses /\ "protected" \notin Uses

-----------------------------------------------------------------------------
(* Words. *)

\* What can be told from the kind of a word the program holds.
LEMMA HeldKinds ==
  ASSUME NEW w \in Held
  PROVE  /\ w.k \in {"zero", "nil", "int", "block", "context"}
         /\ w.k = "block" => w \in SomeBlock /\ w = Blk(w.v) /\ w.v \in 1..Len(closures)
         /\ w.k = "context" => w \in SomeContext /\ w = Ctx(w.v) /\ w.v \in 1..Len(contexts)
BY DEF Held, SomeBlock, SomeContext, Blk, Ctx, Zero, Nil, SmallInt

\* A word of the stack is a frame or what the program holds.
LEMMA Words ==
  ASSUME StackInv
  PROVE  /\ SP \in Nat
         /\ \A p \in 1..SP : stack[p] \in Held \/ stack[p] \in FrameWord
         /\ \A p \in FrameSet : p \in 1..SP /\ stack[p] \in FrameWord
         /\ \A p \in 1..SP : p \notin FrameSet => stack[p] \in Held
<1>1. SP \in Nat /\ \A p \in 1..SP : stack[p] \in Held \cup FrameWord
  BY DEF StackInv, SP
<1>2. \A w \in FrameWord : w.k = "frame"
  BY DEF FrameWord
<1>3. \A w \in Held : w.k # "frame"
  BY HeldKinds
<1> QED
  BY <1>1, <1>2, <1>3 DEF FrameSet

\* The parts of a frame word.
LEMMA FrameParts ==
  ASSUME NEW w \in FrameWord
  PROVE  /\ w.savedIp \in Ip \cup {NoIp, After} /\ w.savedFp \in {NULL, CAFE} \cup 1..StackWords
         /\ w.method \in Code /\ w.numArgs \in Nat /\ w.isBlock \in BOOLEAN
         /\ w.link \in Oop /\ w.id \in Nat /\ w.home \in Nat
BY DEF FrameWord

\* The number of temporaries of a frame that knows its closure.
LEMMA TempCounts ==
  ASSUME HeapInv, NEW f \in FrameSet, ClosureOK(f), Frame(f) \in FrameWord
  PROVE  /\ TempCount(f) \in Nat /\ NumTemps[Frame(f).method] \in Nat
         /\ TempCount(f) = NumTemps[Frame(f).method]
              + IF Frame(f).isBlock THEN Len(closures[block_closure_for_frame(f).v].copied) ELSE 0
<1>1. NumTemps[Frame(f).method] \in Nat
  BY FrameParts, CodeAssumption
<1>2. CASE Frame(f).isBlock
  <2>1. PICK b : b = block_closure_for_frame(f)
    OBVIOUS
  <2>2. b \in SomeBlock
    BY <1>2, <2>1 DEF ClosureOK
  <2>3. b # Nil /\ b.v \in 1..Len(closures)
    BY <2>2 DEF SomeBlock, Blk, Nil
  <2>4. closures[b.v] \in Closure
    BY <2>3 DEF HeapInv
  <2>5. Len(closures[b.v].copied) \in Nat
    BY <2>4 DEF Closure
  <2> QED BY <1>1, <1>2, <2>1, <2>3, <2>5 DEF TempCount
<1>3. CASE ~Frame(f).isBlock
  BY <1>1, <1>3 DEF ClosureOK, TempCount
<1> QED
  BY <1>2, <1>3

\* The numbers of a frame on the stack.
LEMMA FrameFacts ==
  ASSUME StackInv, HeapInv, FramesInv, NEW f \in FrameSet
  PROVE  /\ SP \in Nat /\ f \in 1..SP /\ f \in Nat /\ f > 0 /\ stack[f] \in FrameWord
         /\ Frame(f).numArgs \in Nat /\ Frame(f).numArgs + 2 <= f
         /\ TempCount(f) \in Nat /\ OperandBase(f) \in Nat /\ f < OperandBase(f)
         /\ \/ Frame(f).savedFp = Bottom /\ Bottom \notin FrameSet
            \/ Frame(f).savedFp \in FrameSet /\ Frame(f).savedFp < f /\ Frame(f).savedFp \notin {NULL, CAFE}
<1>1. SP \in Nat /\ \A h \in FrameSet : h \in 1..SP /\ stack[h] \in FrameWord
  BY Words
<1>2. Frame(f).numArgs \in Nat
  BY <1>1, FrameParts DEF Frame
<1>3. \A h \in FrameSet : TempCount(h) \in Nat /\ h \in Nat /\ h > 0 /\ OperandBase(h) \in Nat /\ h < OperandBase(h)
  BY <1>1, TempCounts DEF FramesInv, Frame, OperandBase
<1>4. Bottom \notin FrameSet /\ \A h \in FrameSet : h \notin {NULL, CAFE}
  BY <1>3, BottomAssumption DEF NULL, CAFE
<1>5. CASE Frame(f).savedFp = Bottom /\ Frame(f).numArgs <= f - 2
  BY <1>1, <1>2, <1>3, <1>4, <1>5
<1>6. CASE /\ Frame(f).savedFp \in FrameSet
           /\ OperandBase(Frame(f).savedFp) + Frame(f).numArgs + 2 <= f
  BY <1>1, <1>2, <1>3, <1>4, <1>6
<1> QED
  BY <1>5, <1>6 DEF FramesInv, CallerOK

-----------------------------------------------------------------------------
(* What a step keeps of the frames it does not touch. *)

\* The stack is the same up to and including the frame g.
KeptTo(g) ==
  /\ g \in FrameSet /\ SP' \in Nat /\ g <= SP'
  /\ \A p \in 1..g : stack'[p] = stack[p]
  /\ UNCHANGED heap

\* The frames of a kept part are what they were.
LEMMA KeptFrames ==
  ASSUME StackInv, HeapInv, FramesInv, NEW g \in Nat, KeptTo(g)
  PROVE  /\ \A p \in 1..g : p \in FrameSet' <=> p \in FrameSet
         /\ Held' = Held /\ SomeBlock' = SomeBlock /\ SomeContext' = SomeContext
         /\ \A f \in FrameSet : f <= g =>
              /\ f \in FrameSet' /\ f \in Nat /\ stack'[f] = stack[f]
              /\ block_closure_for_frame(f)' = block_closure_for_frame(f)
              /\ block_home_context_for_frame(f)' = block_home_context_for_frame(f)
              /\ OperandBase(f)' = OperandBase(f) /\ FrameArgs(f)' = FrameArgs(f)
<1>1. SP \in Nat /\ \A f \in FrameSet : f \in 1..SP /\ stack[f] \in FrameWord
  BY Words
<1>2. \A p \in 1..g : p \in 1..SP /\ p \in 1..SP'
  BY <1>1 DEF KeptTo
<1>3. \A p \in 1..g : p \in FrameSet' <=> p \in FrameSet
  BY <1>2 DEF KeptTo, FrameSet
<1>4. closures' = closures /\ contexts' = contexts
  BY DEF KeptTo, heap
<1>5. Held' = Held /\ SomeBlock' = SomeBlock /\ SomeContext' = SomeContext
  BY <1>4 DEF Held, SomeBlock, SomeContext
<1>6. ASSUME NEW f \in FrameSet, f <= g
      PROVE  /\ f \in FrameSet' /\ f \in Nat /\ stack'[f] = stack[f]
             /\ block_closure_for_frame(f)' = block_closure_for_frame(f)
             /\ block_home_context_for_frame(f)' = block_home_context_for_frame(f)
             /\ OperandBase(f)' = OperandBase(f) /\ FrameArgs(f)' = FrameArgs(f)
  <2>1. f \in 1..g /\ f \in Nat
    BY <1>1, <1>6
  <2>2. stack'[f] = stack[f]
    BY <2>1 DEF KeptTo
  <2>3. Frame(f)' = Frame(f)
    BY <2>2 DEF Frame
  <2>4. block_closure_for_frame(f)' = block_closure_for_frame(f)
    BY <2>3, <1>4, Zenon DEF block_closure_for_frame
  <2>5. block_home_context_for_frame(f)' = block_home_context_for_frame(f)
    BY <2>3, <1>4, Zenon DEF block_home_context_for_frame
  <2>6. TempCount(f)' = TempCount(f)
    BY <2>3, <2>4, <1>4, Zenon DEF TempCount
  <2>7. FrameArgs(f)' = FrameArgs(f)
    <3>1. Frame(f).numArgs \in Nat /\ Frame(f).numArgs + 2 <= f
      BY FrameFacts
    <3>2. \A i \in 1..Frame(f).numArgs : f - Frame(f).numArgs + (i - 1) \in 1..g
      BY <3>1, <2>1
    <3>3. \A i \in 1..Frame(f).numArgs : frame_arg(f, i - 1)' = frame_arg(f, i - 1)
      BY <3>2, <2>3 DEF KeptTo, frame_arg
    <3> QED BY <3>3, <2>3 DEF FrameArgs
  <2> QED BY <1>3, <2>1, <2>2, <2>4, <2>5, <2>6, <2>7 DEF OperandBase
<1> QED
  BY <1>3, <1>5, <1>6

\* What holds of the frames of a kept part still holds if the frames above it
\* have no contexts.
LEMMA KeptOK ==
  ASSUME StackInv, HeapInv, FramesInv, NEW g \in Nat, KeptTo(g),
         \A f \in FrameSet' : f <= g \/ (g < f /\ stack'[f].link.k # "context")
  PROVE  \A f \in FrameSet : f <= g =>
           (CallerOK(f) /\ OperandBase(f) <= StackWords /\ ClosureOK(f) /\ LinkOK(f) /\ SenderOK(f))'
<1> SUFFICES ASSUME NEW f \in FrameSet, f <= g
             PROVE  (CallerOK(f) /\ OperandBase(f) <= StackWords /\ ClosureOK(f) /\ LinkOK(f) /\ SenderOK(f))'
  OBVIOUS
<1>1. /\ \A p \in 1..g : p \in FrameSet' <=> p \in FrameSet
      /\ Held' = Held /\ SomeBlock' = SomeBlock /\ SomeContext' = SomeContext
      /\ \A h \in FrameSet : h <= g =>
           /\ h \in FrameSet' /\ h \in Nat /\ stack'[h] = stack[h]
           /\ block_closure_for_frame(h)' = block_closure_for_frame(h)
           /\ block_home_context_for_frame(h)' = block_home_context_for_frame(h)
           /\ OperandBase(h)' = OperandBase(h) /\ FrameArgs(h)' = FrameArgs(h)
  BY KeptFrames, Zenon
<1>2. closures' = closures /\ contexts' = contexts
  BY DEF KeptTo, heap
<1>3. f \in Nat /\ Frame(f)' = Frame(f)
  BY <1>1 DEF Frame
<1>4. CallerOK(f) /\ OperandBase(f) <= StackWords /\ ClosureOK(f) /\ LinkOK(f) /\ SenderOK(f)
  BY DEF FramesInv
<1>5. \A h \in FrameSet' : h \in FrameSet \/ g < h
  <2> SUFFICES ASSUME NEW h \in FrameSet', ~(g < h) PROVE h \in FrameSet
    OBVIOUS
  <2>1. h \in 1..SP' /\ SP' \in Nat
    BY DEF FrameSet, KeptTo
  <2> QED BY <1>1, <2>1
<1>6. \/ Frame(f).savedFp = Bottom
      \/ Frame(f).savedFp \in FrameSet /\ Frame(f).savedFp < f /\ Frame(f).savedFp \notin {NULL, CAFE}
  BY FrameFacts
<1>7. CallerOK(f)'
  <2>1. CASE Frame(f).savedFp = Bottom /\ Frame(f).numArgs <= f - 2 /\ \A h \in FrameSet : f <= h
    <3>1. \A h \in FrameSet' : f <= h
      <4> TAKE h \in FrameSet'
      <4>1. h \in Nat
        BY DEF FrameSet, KeptTo
      <4> QED BY <2>1, <1>3, <1>5, <4>1
    <3> QED BY <2>1, <3>1, <1>3 DEF CallerOK
  <2>2. CASE /\ Frame(f).savedFp \in FrameSet
             /\ OperandBase(Frame(f).savedFp) + Frame(f).numArgs + 2 <= f
             /\ \A h \in FrameSet : h <= Frame(f).savedFp \/ f <= h
             /\ Frame(f).savedIp = After
                \/ (Frame(f).savedIp \in Ip /\ Frame(f).savedIp.m = Frame(Frame(f).savedFp).method)
    <3>1. PICK c \in FrameSet : c = Frame(f).savedFp
      BY <2>2
    <3>2. c \in Nat /\ c < f /\ c <= g
      BY <3>1, FrameFacts, <1>3
    <3>3. c \in FrameSet' /\ Frame(c)' = Frame(c) /\ OperandBase(c)' = OperandBase(c)
      BY <1>1, <3>2 DEF Frame
    <3>4. \A h \in FrameSet' : h <= c \/ f <= h
      <4> TAKE h \in FrameSet'
      <4>1. h \in Nat
        BY DEF FrameSet, KeptTo
      <4> QED BY <2>2, <3>1, <1>3, <1>5, <4>1
    <3> HIDE DEF Ip, After
    <3>5. OperandBase(c)' + Frame(f)'.numArgs + 2 <= f
      BY <2>2, <3>1, <3>3, <1>3
    <3>6. Frame(f)'.savedFp = c
      BY <1>3, <3>1
    <3>7. \/ Frame(f)'.savedIp = After
          \/ Frame(f)'.savedIp \in Ip /\ Frame(f)'.savedIp.m = Frame(c)'.method
      BY <2>2, <3>1, <3>3, <1>3
    <3> QED BY <3>3, <3>4, <3>5, <3>6, <3>7, Zenon DEF CallerOK
  <2> QED BY <1>4, <2>1, <2>2 DEF CallerOK
<1>8. (OperandBase(f) <= StackWords)'
  BY <1>1, <1>4
<1>9. ClosureOK(f)'
  BY <1>1, <1>2, <1>3, <1>4, Zenon DEF ClosureOK
<1>10. LinkOK(f)'
  <2> SUFFICES ASSUME Frame(f).link.k = "context"
               PROVE  /\ \A h \in FrameSet' : Frame(h)'.link = Frame(f).link => h = f
                      /\ \A b \in 1..Len(closures) :
                           closures[b].homeContext = Frame(f).link => closures[b].homeId = Frame(f).home
    BY <1>2, <1>3, Zenon DEF LinkOK
  <2>1. ASSUME NEW h \in FrameSet', Frame(h)'.link = Frame(f).link PROVE h = f
    <3>1. h <= g
      BY <2>1 DEF Frame
    <3>2. h \in FrameSet
      <4>1. h \in Nat
        BY DEF FrameSet, KeptTo
      <4> QED BY <3>1, <4>1, <1>5
    <3>3. Frame(h)' = Frame(h)
      BY <1>1, <3>1, <3>2 DEF Frame
    <3> QED BY <2>1, <3>2, <3>3, <1>4 DEF LinkOK
  <2> QED BY <2>1, <1>4 DEF LinkOK
<1>11. SenderOK(f)'
  <2>1. CASE Frame(f).savedFp = Bottom
    <3>1. Frame(f).savedFp \in {NULL, CAFE} /\ Frame(f)'.savedFp \in {NULL, CAFE}
      BY <2>1, <1>3, BottomAssumption
    <3>2. FrameArgs(f)' = FrameArgs(f)
      BY <1>1
    <3> QED BY <1>2, <1>3, <1>4, <3>1, <3>2, Zenon DEF SenderOK
  <2>2. CASE Frame(f).savedFp \in FrameSet /\ Frame(f).savedFp < f /\ Frame(f).savedFp \notin {NULL, CAFE}
    <3>1. PICK c \in FrameSet : c = Frame(f).savedFp
      BY <2>2
    <3>2. Frame(c)' = Frame(c)
      <4>1. c \in Nat /\ c <= g
        BY <3>1, <2>2, <1>3, FrameFacts
      <4> QED BY <1>1, <4>1 DEF Frame
    <3>3. FrameArgs(f)' = FrameArgs(f)
      BY <1>1
    <3>4. Frame(f)'.savedFp = c
      BY <1>3, <3>1
    <3> QED BY <1>2, <1>3, <1>4, <3>1, <3>2, <3>3, <3>4, Zenon DEF SenderOK
  <2> QED BY <1>6, <2>1, <2>2
<1> QED
  BY <1>7, <1>8, <1>9, <1>10, <1>11

\* The calls of the interpret()s whose entries are in the kept part stay as they
\* are.
LEMMA KeptCalls ==
  ASSUME StackInv, HeapInv, FramesInv, CallsInv, NEW g \in Nat, KeptTo(g),
         NEW n \in 1..Len(calls), calls[n].entry <= g, \A k \in 1..n : calls'[k] = calls[k]
  PROVE  /\ \A k \in 1..n : calls[k].entry \in FrameSet' /\ calls[k].entry <= g
         /\ \A k \in 2..n : CallOK(k)'
<1>1. /\ \A h \in FrameSet : h \in Nat
      /\ \A h \in FrameSet : h <= g => h \in FrameSet' /\ stack'[h] = stack[h] /\ OperandBase(h)' = OperandBase(h)
  BY KeptFrames, FrameFacts
<1>2. ASSUME NEW k \in 2..Len(calls)
      PROVE  /\ CallOK(k)
             /\ \A j \in 1..(k - 1) : calls[j].entry <= calls[k].savedFp
             /\ calls[k].savedFp \in FrameSet /\ calls[k].savedFp < calls[k].entry
  <2>1. CallOK(k) /\ calls[k].entry \in FrameSet
    BY <1>2 DEF CallsInv
  <2>2. /\ calls[k].savedFp \in FrameSet /\ calls[k].savedFp = Frame(calls[k].entry).savedFp
        /\ \A j \in 1..(k - 1) : calls[j].entry <= calls[k].savedFp
    BY <2>1 DEF CallOK
  <2>3. Bottom \notin FrameSet
    BY FrameFacts, BottomAssumption, <1>1 DEF NULL, CAFE
  <2>4. PICK e \in FrameSet : e = calls[k].entry
    BY <2>1
  <2>5. Frame(e).savedFp < e
    BY <2>2, <2>3, <2>4, FrameFacts
  <2> QED BY <2>1, <2>2, <2>4, <2>5
<1>3. ASSUME NEW k \in 1..n PROVE calls[k].entry \in FrameSet /\ calls[k].entry <= g
  <2>1. calls[k].entry \in FrameSet
    BY DEF CallsInv
  <2>2. CASE k # n
    <3>1. n \in 2..Len(calls) /\ k \in 1..(n - 1)
      BY <2>2
    <3>2. calls[k].entry <= calls[n].savedFp /\ calls[n].savedFp < calls[n].entry /\ calls[n].savedFp \in Nat
      BY <1>1, <1>2, <3>1
    <3>3. calls[n].entry \in Nat /\ calls[k].entry \in Nat
      BY <1>1, <2>1 DEF CallsInv
    <3> QED BY <2>1, <3>2, <3>3
  <2> QED BY <2>1, <2>2
<1>4. ASSUME NEW k \in 2..n PROVE CallOK(k)'
  <2>1. k \in 2..Len(calls) /\ k \in 1..n /\ \A j \in 1..(k - 1) : j \in 1..n
    OBVIOUS
  <2>2. PICK c : c = calls[k]
    OBVIOUS
  <2>3. CallOK(k) /\ c.savedFp \in FrameSet /\ c.savedFp < c.entry /\ c.entry \in FrameSet /\ c.entry <= g
    BY <1>2, <1>3, <2>1, <2>2
  <2>4. c.savedFp \in Nat /\ c.entry \in Nat /\ c.savedFp <= g
    BY <1>1, <2>3
  <2>5. /\ Frame(c.entry)' = Frame(c.entry) /\ Frame(c.savedFp)' = Frame(c.savedFp)
        /\ OperandBase(c.savedFp)' = OperandBase(c.savedFp) /\ c.savedFp \in FrameSet'
    BY <1>1, <2>3, <2>4 DEF Frame
  <2>6. closures' = closures /\ calls'[k] = c /\ \A j \in 1..(k - 1) : calls'[j] = calls[j]
    BY <2>1, <2>2 DEF KeptTo, heap
  <2>7. IsThunk(c.cleanup)' <=> IsThunk(c.cleanup)
    BY <2>6, Zenon DEF IsThunk
  <2> HIDE DEF Ip
  <2> QED BY <2>2, <2>3, <2>5, <2>6, <2>7, Zenon DEF CallOK
<1> QED
  BY <1>1, <1>3, <1>4

\* So do the activations, if at most the frame h is new.
LEMMA KeptHistory ==
  ASSUME StackInv, HeapInv, FramesInv, HistoryInv, NEW g \in Nat, KeptTo(g), NEW h \in Nat,
         \A f \in FrameSet' :
           \/ f \in FrameSet /\ f <= g
           \/ f = h /\ g < h /\ stack'[h].id = born + 1 /\ stack'[h].link.k # "context" /\ born' = born + 1,
         born' \in {born, born + 1}, calls'[1] = calls[1], calls[1].entry \in Nat
  PROVE  HistoryInv'
<1>1. born \in Nat /\ born' \in Nat /\ born <= born'
  BY DEF HeapInv
<1>2. closures' = closures /\ contexts' = contexts /\ g \in FrameSet
  BY DEF KeptTo, heap
<1>3. \A b \in 1..Len(closures) : closures[b].homeId \in Nat /\ closures[b].homeId <= born
  <2> TAKE b \in 1..Len(closures)
  <2>1. closures[b] \in Closure
    BY DEF HeapInv
  <2> QED BY <2>1 DEF HistoryInv, Closure
<1>4. ASSUME NEW f \in FrameSet, f <= g
      PROVE  /\ f \in Nat /\ stack'[f] = stack[f] /\ stack[f].id \in Nat /\ stack[f].id <= born
             /\ HistoryOK(f)
  <2>1. f \in Nat /\ stack'[f] = stack[f]
    BY <1>4, KeptFrames
  <2>2. stack[f] \in FrameWord
    BY FrameFacts
  <2>3. stack[f].id \in Nat
    BY <2>2, FrameParts
  <2> QED BY <2>1, <2>3 DEF HistoryInv, HistoryOK, Frame
<1>5. calls[1].entry <= g
  <2>1. HistoryOK(g)
    BY <1>2 DEF HistoryInv
  <2> QED BY <2>1 DEF HistoryOK
<1>6. ASSUME NEW f \in FrameSet' PROVE HistoryOK(f)'
  <2>1. CASE f \in FrameSet /\ f <= g
    <3>1. stack'[f] = stack[f] /\ stack[f].id \in Nat /\ stack[f].id <= born /\ HistoryOK(f)
      BY <1>4, <2>1
    <3>2. Frame(f)' = Frame(f) /\ Frame(f).id <= born'
      BY <1>1, <3>1 DEF Frame
    <3>3. ASSUME NEW e \in FrameSet', Frame(e)'.id = Frame(f).id PROVE e = f
      <4>1. CASE e \in FrameSet /\ e <= g
        BY <1>4, <3>1, <3>3, <4>1 DEF HistoryOK, Frame
      <4>2. CASE e = h /\ stack'[h].id = born + 1
        BY <1>1, <3>1, <3>3, <4>2 DEF Frame
      <4> QED BY <4>1, <4>2
    <3>4. calls'[1].entry <= f
      BY <3>1 DEF HistoryOK
    <3> QED BY <1>2, <3>1, <3>2, <3>3, <3>4, Zenon DEF HistoryOK
  <2>2. CASE f = h /\ g < h /\ stack'[h].id = born + 1 /\ stack'[h].link.k # "context" /\ born' = born + 1
    <3>1. Frame(f)'.id = born + 1 /\ Frame(f)'.link.k # "context" /\ born + 1 <= born'
      BY <1>1, <2>2 DEF Frame
    <3>2. ASSUME NEW e \in FrameSet', Frame(e)'.id = Frame(f)'.id PROVE e = f
      <4>1. CASE e \in FrameSet /\ e <= g
        <5>1. stack[e].id <= born /\ stack[e].id \in Nat /\ stack'[e] = stack[e]
          BY <1>4, <4>1
        <5>2. stack[e].id = born + 1
          BY <3>1, <3>2, <5>1 DEF Frame
        <5> QED BY <1>1, <5>1, <5>2
      <4>2. CASE e = h
        BY <2>2, <4>2
      <4> QED BY <4>1, <4>2
    <3>3. calls'[1].entry <= f
      BY <1>5, <2>2
    <3>4. \A b \in 1..Len(closures) : closures[b].homeId # Frame(f)'.id
      BY <1>1, <1>3, <3>1
    <3> QED BY <1>2, <3>1, <3>2, <3>3, <3>4, Zenon DEF HistoryOK
  <2> QED BY <2>1, <2>2
<1>7. \A b \in 1..Len(closures) : closures[b].homeId <= born'
  BY <1>1, <1>3
<1> QED
  BY <1>2, <1>6, <1>7 DEF HistoryInv

-----------------------------------------------------------------------------
(* The two shapes of a step: the running frame changes its own words, or     *)
(* control goes back to a frame below, or a new frame goes on top.           *)

\* Control is in frame g, with the words of the program above it.
LEMMA BackTo ==
  ASSUME IInv, Running, NEW g \in Nat, KeptTo(g),
         stack' \in Seq(Held \cup FrameWord), OperandBase(g) <= SP',
         \A p \in (g + 1)..SP' : stack'[p] \in Held,
         fp' = g, base' = Frame(g).method,
         ip' = After \/ (ip' \in Ip /\ ip'.m = Frame(g).method),
         NEW n \in 1..Len(calls), calls[n].entry <= g, calls' = SubSeq(calls, 1, n),
         UNCHANGED <<contextClass, born, outcome>>
  PROVE  IInv' /\ Running'
<1>1. HeapInv /\ StackInv /\ FramesInv /\ CallsInv /\ HistoryInv
  BY DEF IInv, MachineInv
<1>2. /\ \A p \in 1..g : p \in FrameSet' <=> p \in FrameSet
      /\ Held' = Held
      /\ \A f \in FrameSet : f <= g => f \in FrameSet' /\ f \in Nat /\ OperandBase(f)' = OperandBase(f)
  BY <1>1, KeptFrames
<1>3. SP' \in Nat /\ g <= SP' /\ g \in FrameSet /\ g \in FrameSet' /\ stack'[g] = stack[g]
  BY <1>2 DEF KeptTo, FrameSet
<1>4. \A w \in Held : w.k # "frame"
  BY HeldKinds
<1>5. \A f \in FrameSet' : f \in FrameSet /\ f <= g
  <2> SUFFICES ASSUME NEW f \in FrameSet' PROVE f \in FrameSet /\ f <= g
    OBVIOUS
  <2>1. f \in 1..SP' /\ stack'[f].k = "frame"
    BY DEF FrameSet
  <2>2. f <= g
    BY <1>3, <1>4, <2>1
  <2> QED BY <1>2, <2>1, <2>2
<1>6. HeapInv'
  <2>1. closures' = closures /\ contexts' = contexts
    BY DEF KeptTo, heap
  <2>2. Closure' = Closure /\ Context' = Context
    BY <1>2, <2>1, Zenon DEF Closure, Context, SomeBlock, SomeContext
  <2> QED BY <1>1, <2>1, <2>2 DEF HeapInv
<1>7. StackInv'
  BY <1>2 DEF StackInv
<1>8. stack[g] \in FrameWord
  BY <1>1, <1>3, Words
<1>9. RestInv'
  <2>1. Frame(g).method \in Code
    BY <1>8, FrameParts DEF Frame
  <2>2. g \in 1..SP'
    BY <1>3 DEF FrameSet
  <2> QED BY <2>1, <2>2 DEF RestInv, IInv, Running
<1>10. TopInv'
  <2>1. OperandBase(g)' = OperandBase(g) /\ Frame(g)' = Frame(g)
    BY <1>2, <1>3 DEF Frame
  <2> HIDE DEF Ip, After
  <2>2. (fp \in FrameSet /\ OperandBase(fp) <= SP)'
    BY <1>3, <2>1, Zenon
  <2> QED BY <1>3, <1>5, <2>1, <2>2 DEF TopInv
<1>11. FramesInv'
  <2>1. \A f \in FrameSet' : f <= g \/ (g < f /\ stack'[f].link.k # "context")
    BY <1>5
  <2>2. \A f \in FrameSet : f <= g =>
           (CallerOK(f) /\ OperandBase(f) <= StackWords /\ ClosureOK(f) /\ LinkOK(f) /\ SenderOK(f))'
    BY <1>1, <2>1, KeptOK
  <2> QED BY <1>5, <2>2 DEF FramesInv
<1>12. CallsInv'
  <2>1. calls \in Seq(CallRecord) /\ Len(calls) \in Nat
    BY <1>1 DEF CallsInv
  <2>2. calls' \in Seq(CallRecord) /\ Len(calls') = n /\ \A k \in 1..n : calls'[k] = calls[k]
    BY <2>1
  <2>3. /\ \A k \in 1..n : calls[k].entry \in FrameSet'
        /\ \A k \in 2..n : CallOK(k)'
    BY <1>1, <2>2, KeptCalls
  <2>4. CallRecord' = CallRecord
    BY <1>2, Zenon DEF CallRecord
  <2>5. calls'[1].kind = "host" /\ n > 0
    BY <1>1, <2>2 DEF CallsInv
  <2>6. \A k \in 1..n : calls'[k].entry \in FrameSet'
    BY <2>2, <2>3
  <2> QED BY <2>2, <2>3, <2>4, <2>5, <2>6 DEF CallsInv
<1>13. Running'
  BY DEF Running
<1>14. HistoryInv'
  <2>1. calls \in Seq(CallRecord) /\ Len(calls) > 0 /\ 1 \in 1..Len(calls)
    BY <1>1 DEF CallsInv
  <2>2. calls'[1] = calls[1]
    BY <2>1
  <2>3. calls[1].entry \in Nat
    <3>1. calls[1].entry \in FrameSet
      BY <1>1, <2>1 DEF CallsInv
    <3> QED BY <1>1, <3>1, FrameFacts
  <2>4. born' = born
    OBVIOUS
  <2> QED BY <1>1, <1>5, <2>2, <2>3, <2>4, KeptHistory
<1> QED
  BY <1>6, <1>7, <1>9, <1>10, <1>11, <1>12, <1>13, <1>14 DEF IInv, MachineInv

\* The word w of a new frame above the words up to h, called from frame g.
NewWord(w, g, h) ==
  /\ w \in FrameWord /\ w.id = born + 1
  /\ w.savedFp = g /\ OperandBase(g) + w.numArgs + 2 <= h + 1
  /\ w.savedIp = After \/ (w.savedIp \in Ip /\ w.savedIp.m = Frame(g).method)
  /\ \/ ~w.isBlock /\ w.link = Zero /\ w.home = w.id
     \/ /\ w.isBlock
        /\ \E b \in 1..Len(closures) :
             w.link = Blk(b) /\ w.method = closures[b].method /\ w.home = closures[b].homeId

\* The record r of a primitive that waits in frame g for the frame above h.
NewCall(r, g, h) ==
  /\ r \in CallRecord /\ r.kind # "host"
  /\ r.entry = h + 1 /\ r.savedFp = g
  /\ OperandBase(g) <= r.savedSp /\ r.savedSp + 1 <= h
  /\ r.ip \in Ip /\ r.ip.m = r.base /\ r.base = Frame(g).method
  /\ r.kind = "ensure" => IsThunk(r.cleanup)

\* Control enters a new frame above the frame g.
LEMMA NewFrame ==
  ASSUME IInv, Running, NEW g \in Nat, KeptTo(g),
         stack' \in Seq(Held \cup FrameWord), NEW h \in Nat, g <= h, h < SP',
         \A p \in (g + 1)..SP' : p # h + 1 => stack'[p] \in Held,
         NewWord(stack'[h + 1], g, h),
         SP' = OperandBase(h + 1)', SP' <= StackWords,
         fp' = h + 1, base' = stack'[h + 1].method, ip' \in Ip, ip'.m = base',
         NEW n \in 1..Len(calls), calls[n].entry <= g,
         \/ calls' = SubSeq(calls, 1, n)
         \/ /\ \E r : NewCall(r, g, h) /\ r.ip = stack'[h + 1].savedIp /\ calls' = Append(SubSeq(calls, 1, n), r)
            /\ stack'[h + 1].numArgs = 0,
         UNCHANGED <<contextClass, outcome>>, born' = born + 1
  PROVE  IInv' /\ Running'
<1>1. HeapInv /\ StackInv /\ FramesInv /\ CallsInv /\ HistoryInv
  BY DEF IInv, MachineInv
<1>2. /\ \A p \in 1..g : p \in FrameSet' <=> p \in FrameSet
      /\ Held' = Held
      /\ \A f \in FrameSet : f <= g =>
           f \in FrameSet' /\ f \in Nat /\ OperandBase(f)' = OperandBase(f) /\ stack'[f] = stack[f]
  BY <1>1, KeptFrames
<1>3. SP' \in Nat /\ g <= SP' /\ g \in FrameSet /\ g \in FrameSet' /\ stack'[g] = stack[g]
      /\ Frame(g)' = Frame(g)
  BY <1>2 DEF KeptTo, FrameSet, Frame
<1>4. \A w \in Held : w.k # "frame"
  BY HeldKinds
<1>5. PICK w \in FrameWord : w = stack'[h + 1]
  BY DEF NewWord
<1>6. w.k = "frame" /\ w.numArgs \in Nat /\ w.method \in Code
  BY FrameParts DEF FrameWord
<1>7. h + 1 \in FrameSet' /\ Frame(h + 1)' = w
  <2>1. h + 1 \in 1..SP'
    BY <1>3
  <2> QED BY <1>5, <1>6, <2>1 DEF FrameSet, Frame
<1>8. \A f \in FrameSet' : f = h + 1 \/ (f \in FrameSet /\ f <= g)
  <2> SUFFICES ASSUME NEW f \in FrameSet', f # h + 1 PROVE f \in FrameSet /\ f <= g
    OBVIOUS
  <2>1. f \in 1..SP' /\ stack'[f].k = "frame"
    BY DEF FrameSet
  <2>2. f <= g
    BY <1>3, <1>4, <2>1
  <2> QED BY <1>2, <2>1, <2>2
<1>9. closures' = closures /\ contexts' = contexts
  BY DEF KeptTo, heap
<1>10. HeapInv'
  <2>1. Closure' = Closure /\ Context' = Context
    BY <1>2, <1>9, Zenon DEF Closure, Context, SomeBlock, SomeContext
  <2> QED BY <1>1, <1>9, <2>1 DEF HeapInv
<1>11. StackInv'
  BY <1>2 DEF StackInv
<1>12. RestInv'
  <2>1. h + 1 \in 1..SP' /\ base' \in Code
    BY <1>3, <1>5, <1>6
  <2> HIDE DEF Ip
  <2> QED BY <2>1 DEF RestInv, IInv, Running
<1>13. TopInv'
  <2>1. (fp \in FrameSet /\ OperandBase(fp) <= SP)'
    <3>1. SP' <= SP'
      BY <1>3
    <3> QED BY <1>7, <3>1, Zenon
  <2>2. \A f \in FrameSet' : f <= h + 1
    BY <1>2, <1>8
  <2>3. Frame(fp)' = w
    BY <1>7
  <2> HIDE DEF Ip, After
  <2> QED BY <1>5, <2>1, <2>2, <2>3 DEF TopInv
<1>14. FramesInv'
  <2>1. w.link.k # "context"
    <3>1. Zero.k # "context" /\ \A b : Blk(b).k # "context"
      BY DEF Zero, Blk
    <3>2. w.link = Zero \/ \E b \in 1..Len(closures) : w.link = Blk(b)
      BY <1>5, Zenon DEF NewWord
    <3> QED BY <3>1, <3>2, Zenon
  <2>2. \A f \in FrameSet' : f <= g \/ (g < f /\ stack'[f].link.k # "context")
    BY <1>5, <1>8, <2>1
  <2>3. \A f \in FrameSet : f <= g =>
           (CallerOK(f) /\ OperandBase(f) <= StackWords /\ ClosureOK(f) /\ LinkOK(f) /\ SenderOK(f))'
    BY <1>1, <2>2, KeptOK
  <2>4. CallerOK(h + 1)'
    <3>1. OperandBase(g)' + w.numArgs + 2 <= h + 1 /\ w.savedFp = g
      BY <1>2, <1>3, <1>5 DEF NewWord
    <3>2. \A f \in FrameSet' : f <= g \/ h + 1 <= f
      BY <1>8
    <3>3. w.savedIp = After \/ (w.savedIp \in Ip /\ w.savedIp.m = Frame(g)'.method)
      BY <1>3, <1>5, Zenon DEF NewWord
    <3> HIDE DEF Ip, After
    <3> QED BY <1>3, <1>7, <3>1, <3>2, <3>3, Zenon DEF CallerOK
  <2>5. (OperandBase(h + 1) <= StackWords)'
    OBVIOUS
  <2>6. ClosureOK(h + 1)'
    <3>1. CASE ~w.isBlock /\ w.link = Zero /\ w.home = w.id
      <4>1. w.link \in Held' /\ w.link.k = "zero"
        BY <1>2, <3>1 DEF Held, Zero
      <4>2. block_closure_for_frame(h + 1)' = Nil
        BY <1>7, <4>1 DEF block_closure_for_frame
      <4> QED BY <1>7, <3>1, <4>1, <4>2 DEF ClosureOK
    <3>2. CASE /\ w.isBlock
               /\ \E b \in 1..Len(closures) :
                    w.link = Blk(b) /\ w.method = closures[b].method /\ w.home = closures[b].homeId
      <4>1. PICK b \in 1..Len(closures) :
              w.link = Blk(b) /\ w.method = closures[b].method /\ w.home = closures[b].homeId
        BY <3>2
      <4>2. Blk(b) \in SomeBlock' /\ Blk(b) \in Held' /\ Blk(b).k = "block" /\ Blk(b).v = b
        BY <1>9 DEF Held, SomeBlock, Blk
      <4>3. block_closure_for_frame(h + 1)' = Blk(b)
        BY <1>7, <4>1, <4>2 DEF block_closure_for_frame
      <4>4. block_home_context_for_frame(h + 1)' = closures[b].homeContext
        BY <1>7, <1>9, <4>1, <4>2 DEF block_home_context_for_frame
      <4> QED BY <1>7, <1>9, <3>2, <4>1, <4>2, <4>3, <4>4 DEF ClosureOK
    <3> QED BY <1>5, <3>1, <3>2 DEF NewWord
  <2>7. LinkOK(h + 1)' /\ SenderOK(h + 1)'
    BY <1>7, <2>1, Zenon DEF LinkOK, SenderOK
  <2>8. ASSUME NEW f \in FrameSet'
        PROVE  (CallerOK(f) /\ OperandBase(f) <= StackWords /\ ClosureOK(f) /\ LinkOK(f) /\ SenderOK(f))'
    <3>1. CASE f = h + 1
      BY <2>4, <2>5, <2>6, <2>7, <3>1
    <3>2. CASE f \in FrameSet /\ f <= g
      BY <2>3, <3>2
    <3> QED BY <1>8, <3>1, <3>2
  <2> QED BY <2>8 DEF FramesInv
<1>15. CallsInv'
  <2>1. calls \in Seq(CallRecord) /\ Len(calls) \in Nat
    BY <1>1 DEF CallsInv
  <2>2. PICK old : old = SubSeq(calls, 1, n)
    OBVIOUS
  <2>3. old \in Seq(CallRecord) /\ Len(old) = n /\ \A k \in 1..n : old[k] = calls[k]
    BY <2>1, <2>2
  <2>4. CallRecord' = CallRecord
    BY <1>2, Zenon DEF CallRecord
  <2>5. \A k \in 1..n : calls'[k] = calls[k]
    <3>1. CASE calls' = old
      BY <2>3, <3>1
    <3>2. CASE \E r : NewCall(r, g, h) /\ calls' = Append(old, r)
      <4>1. PICK r : NewCall(r, g, h) /\ calls' = Append(old, r)
        BY <3>2
      <4>2. r \in CallRecord
        BY <4>1 DEF NewCall
      <4> QED BY <2>3, <4>1, <4>2
    <3> QED BY <2>2, <3>1, <3>2
  <2>6. /\ \A k \in 1..n : calls[k].entry \in FrameSet' /\ calls[k].entry <= g
        /\ \A k \in 2..n : CallOK(k)'
    BY <1>1, <2>5, KeptCalls
  <2>7. calls[1].kind = "host" /\ n > 0
    BY <1>1 DEF CallsInv
  <2>8. CASE calls' = old
    <3>1. calls' \in Seq(CallRecord') /\ Len(calls') = n /\ Len(calls') > 0
      BY <2>3, <2>4, <2>7, <2>8
    <3>2. /\ \A k \in 2..Len(calls') : CallOK(k)'
          /\ \A k \in 1..Len(calls') : calls'[k].entry \in FrameSet'
      BY <2>5, <2>6, <3>1
    <3>3. calls'[1].kind = "host"
      BY <2>5, <2>7
    <3> QED BY <3>1, <3>2, <3>3, Zenon DEF CallsInv
  <2>9. CASE /\ \E r : NewCall(r, g, h) /\ r.ip = stack'[h + 1].savedIp /\ calls' = Append(old, r)
             /\ stack'[h + 1].numArgs = 0
    <3>1. PICK r : NewCall(r, g, h) /\ r.ip = w.savedIp /\ calls' = Append(old, r)
      BY <1>5, <2>9
    <3>2. r \in CallRecord /\ r.entry = h + 1 /\ r.savedFp = g
      BY <3>1 DEF NewCall
    <3>3. calls' \in Seq(CallRecord) /\ Len(calls') = n + 1 /\ calls'[n + 1] = r
      BY <2>3, <3>1, <3>2
    <3>4. CallOK(n + 1)'
      <4>1. \A j \in 1..n : calls'[j].entry <= g
        BY <2>5, <2>6
      <4>2. OperandBase(g)' <= r.savedSp /\ r.savedSp + 2 <= h + 1
        <5>1. r.savedSp \in Nat
          BY <3>1 DEF NewCall, CallRecord
        <5>2. OperandBase(g) <= r.savedSp /\ r.savedSp + 1 <= h /\ OperandBase(g)' = OperandBase(g)
          BY <1>2, <1>3, <3>1 DEF NewCall
        <5> QED BY <5>1, <5>2
      <4>3. IsThunk(r.cleanup)' <=> IsThunk(r.cleanup)
        BY <1>9, Zenon DEF IsThunk
      <4>4. Frame(r.entry)' = w /\ Frame(r.savedFp)' = Frame(g) /\ w.numArgs = 0 /\ w.savedFp = g
        BY <1>3, <1>5, <1>7, <2>9, <3>2 DEF NewWord
      <4>5. (n + 1) - 1 = n
        OBVIOUS
      <4> HIDE DEF Ip
      <4> QED BY <1>3, <3>1, <3>2, <3>3, <4>1, <4>2, <4>3, <4>4, <4>5, SMTT(30) DEF CallOK, NewCall
    <3>5. \A k \in 2..(n + 1) : CallOK(k)'
      <4> SUFFICES ASSUME NEW k \in 2..(n + 1) PROVE CallOK(k)'
        OBVIOUS
      <4>1. k = n + 1 \/ k \in 2..n
        OBVIOUS
      <4> QED BY <2>6, <3>4, <4>1
    <3>6. \A k \in 1..(n + 1) : calls'[k].entry \in FrameSet'
      <4> SUFFICES ASSUME NEW k \in 1..(n + 1) PROVE calls'[k].entry \in FrameSet'
        OBVIOUS
      <4>1. k = n + 1 \/ k \in 1..n
        OBVIOUS
      <4> QED BY <1>7, <2>5, <2>6, <3>2, <3>3, <4>1
    <3>7. calls'[1].kind = "host"
      BY <2>5, <2>7
    <3>8. Len(calls') > 0
      BY <2>1, <3>3
    <3>9. calls' \in Seq(CallRecord')
      BY <2>4, <3>3
    <3>10. /\ \A k \in 2..Len(calls') : CallOK(k)'
          /\ \A k \in 1..Len(calls') : calls'[k].entry \in FrameSet'
      BY <3>3, <3>5, <3>6
    <3> QED BY <3>7, <3>8, <3>9, <3>10, Zenon DEF CallsInv
  <2> QED BY <2>2, <2>8, <2>9
<1>16. Running'
  BY DEF Running
<1>17. HistoryInv'
  <2>1. calls \in Seq(CallRecord) /\ Len(calls) > 0 /\ 1 \in 1..Len(calls)
    BY <1>1 DEF CallsInv
  <2>2. calls'[1] = calls[1]
    <3>1. PICK old : old = SubSeq(calls, 1, n)
      OBVIOUS
    <3>2. old \in Seq(CallRecord) /\ Len(old) = n /\ old[1] = calls[1] /\ n > 0
      BY <2>1, <3>1
    <3>3. CASE calls' = old
      BY <3>2, <3>3
    <3>4. CASE \E r : NewCall(r, g, h) /\ calls' = Append(old, r)
      <4>1. PICK r : NewCall(r, g, h) /\ calls' = Append(old, r)
        BY <3>4
      <4>2. r \in CallRecord
        BY <4>1 DEF NewCall
      <4> QED BY <3>2, <4>1, <4>2
    <3> QED BY <3>1, <3>3, <3>4
  <2>3. calls[1].entry \in Nat
    <3>1. calls[1].entry \in FrameSet
      BY <1>1, <2>1 DEF CallsInv
    <3> QED BY <1>1, <3>1, FrameFacts
  <2>4. w.link.k # "context" /\ w.id = born + 1
    <3>1. Zero.k # "context" /\ \A b : Blk(b).k # "context"
      BY DEF Zero, Blk
    <3>2. w.link = Zero \/ \E b \in 1..Len(closures) : w.link = Blk(b)
      BY <1>5, Zenon DEF NewWord
    <3>3. w.id = born + 1
      BY <1>5 DEF NewWord
    <3> QED BY <3>1, <3>2, <3>3, Zenon
  <2>5. PICK h1 \in Nat : h1 = h + 1 /\ g < h1
    OBVIOUS
  <2>6. \A f \in FrameSet' :
          \/ f \in FrameSet /\ f <= g
          \/ f = h1 /\ g < h1 /\ stack'[h1].id = born + 1 /\ stack'[h1].link.k # "context" /\ born' = born + 1
    BY <1>5, <1>8, <2>4, <2>5
  <2> QED BY <1>1, <2>2, <2>3, <2>6, KeptHistory
<1> QED
  BY <1>10, <1>11, <1>12, <1>13, <1>14, <1>15, <1>16, <1>17 DEF IInv, MachineInv


-----------------------------------------------------------------------------
(* Bytecodes of the running frame. *)

\* The running frame, its words, and the interpret() it runs in.
LEMMA RunningFacts ==
  ASSUME IInv, Running
  PROVE  /\ HeapInv /\ StackInv /\ TopInv /\ FramesInv /\ CallsInv
         /\ SP \in Nat /\ stack \in Seq(Held \cup FrameWord)
         /\ fp \in FrameSet /\ fp \in Nat /\ fp \in 1..SP /\ stack[fp] \in FrameWord
         /\ TempCount(fp) \in Nat /\ OperandBase(fp) = fp + 1 + TempCount(fp) /\ OperandBase(fp) <= SP
         /\ \A p \in (fp + 1)..SP : stack[p] \in Held
         /\ Frame(fp).numArgs \in Nat /\ Frame(fp).numArgs + 2 <= fp
         /\ calls \in Seq(CallRecord) /\ Len(calls) \in Nat /\ Len(calls) \in 1..Len(calls)
         /\ Entry \in FrameSet /\ Entry <= fp /\ Entry = calls[Len(calls)].entry
<1>1. HeapInv /\ StackInv /\ TopInv /\ FramesInv /\ CallsInv
  BY DEF IInv, MachineInv
<1>2. fp \in FrameSet /\ OperandBase(fp) <= SP /\ \A f \in FrameSet : f <= fp
  BY <1>1 DEF TopInv
<1>3. /\ SP \in Nat /\ fp \in 1..SP /\ fp \in Nat /\ stack[fp] \in FrameWord
      /\ Frame(fp).numArgs \in Nat /\ Frame(fp).numArgs + 2 <= fp /\ TempCount(fp) \in Nat
  BY <1>1, <1>2, FrameFacts
<1>4. \A p \in (fp + 1)..SP : stack[p] \in Held
  <2> TAKE p \in (fp + 1)..SP
  <2>1. p \in 1..SP /\ p \notin FrameSet
    BY <1>2, <1>3
  <2> QED BY <1>1, <2>1, Words
<1>5. calls \in Seq(CallRecord) /\ Len(calls) \in Nat /\ Len(calls) \in 1..Len(calls)
  BY <1>1 DEF CallsInv
<1>6. Entry = calls[Len(calls)].entry /\ Entry \in FrameSet /\ Entry <= fp
  BY <1>1, <1>2, <1>5 DEF Entry, CallsInv
<1> QED
  BY <1>1, <1>2, <1>3, <1>4, <1>5, <1>6 DEF OperandBase, StackInv

\* The arguments and the receiver of a frame are words of the program.
LEMMA ArgumentsHeld ==
  ASSUME StackInv, HeapInv, FramesInv, NEW f \in FrameSet
  PROVE  \A p \in (f - Frame(f).numArgs - 1)..(f - 1) : p \in 1..SP /\ stack[p] \in Held
<1>1. SP \in Nat /\ f \in 1..SP /\ f \in Nat /\ Frame(f).numArgs \in Nat /\ Frame(f).numArgs + 2 <= f
  BY FrameFacts
<1>2. TAKE p \in (f - Frame(f).numArgs - 1)..(f - 1)
<1>3. p \in 1..SP
  BY <1>1
<1>4. p \notin FrameSet
  <2>1. CASE \A g \in FrameSet : f <= g
    BY <1>1, <2>1
  <2>2. CASE /\ Frame(f).savedFp \in FrameSet
             /\ OperandBase(Frame(f).savedFp) + Frame(f).numArgs + 2 <= f
             /\ \A g \in FrameSet : g <= Frame(f).savedFp \/ f <= g
    <3>1. PICK c \in FrameSet : c = Frame(f).savedFp
      BY <2>2
    <3>2. OperandBase(c) \in Nat /\ c < OperandBase(c) /\ c \in Nat
      BY FrameFacts
    <3> QED BY <1>1, <2>2, <3>1, <3>2
  <2> QED BY <2>1, <2>2 DEF FramesInv, CallerOK
<1> QED
  BY <1>3, <1>4, Words

\* The ip of a bytecode that runs, and the one after it.
LEMMA NextIp ==
  ASSUME IInv, NEW op, At(op)
  PROVE  Running /\ ip \in Ip /\ ip.m = base /\ Next1(ip) \in Ip /\ Next1(ip).m = base
<1>1. Running /\ ip.m \in Code /\ ip.pc < Len(Program[ip.m])
  BY DEF At
<1>2. ip # After
  BY <1>1, CodeAssumption DEF After
<1>3. ip \in Ip /\ ip.m = base
  BY <1>1, <1>2 DEF IInv, MachineInv, TopInv
<1>4. ip.pc \in 0..MaxPc /\ Len(Program[ip.m]) \in 0..MaxPc /\ MaxPc \in Nat
  BY <1>1, <1>3, CodeAssumption, BoundAssumption DEF Ip
<1>5. ip.pc + 1 \in 0..MaxPc
  BY <1>1, <1>4
<1> QED
  BY <1>1, <1>3, <1>5 DEF Next1, Ip

\* A step that writes only words of the running frame.
LEMMA OwnWords ==
  ASSUME IInv, Running,
         stack' \in Seq(Held \cup FrameWord), OperandBase(fp) <= SP',
         \A p \in 1..fp : stack'[p] = stack[p],
         \A p \in (fp + 1)..SP' : stack'[p] \in Held,
         ip' \in Ip, ip'.m = base, UNCHANGED <<fp, base, heap>>, Continue
  PROVE  IInv'
<1>1. /\ fp \in FrameSet /\ fp \in Nat /\ fp < OperandBase(fp) /\ OperandBase(fp) \in Nat
      /\ TopInv /\ calls \in Seq(CallRecord) /\ Len(calls) \in 1..Len(calls) /\ Len(calls) \in Nat
      /\ calls[Len(calls)].entry <= fp
  BY RunningFacts
<1>2. SP' \in Nat
  BY DEF SP
<1>3. KeptTo(fp)
  BY <1>1, <1>2 DEF KeptTo
<1>4. calls' = SubSeq(calls, 1, Len(calls))
  BY <1>1 DEF Continue
<1>5. base = Frame(fp).method /\ base' = base /\ fp' = fp
  BY <1>1 DEF TopInv
<1>6. UNCHANGED <<contextClass, born, outcome>>
  BY DEF Continue
<1>7. PICK g \in Nat : g = fp
  BY <1>1
<1> HIDE DEF Ip, After
<1>8. IInv' /\ Running'
  BY <1>1, <1>3, <1>4, <1>5, <1>6, <1>7, BackTo
<1> QED
  BY <1>8

\* A bytecode that leaves the words up to h and pushes w.
LEMMA CutAndPush ==
  ASSUME IInv, NEW op, At(op), NEW h \in Nat, OperandBase(fp) <= h, h <= SP, NEW w \in Held,
         Bytecode(Append(SubSeq(stack, 1, h), w), Next1(ip))
  PROVE  IInv'
<1>1. /\ Running /\ Next1(ip) \in Ip /\ Next1(ip).m = base
      /\ SP \in Nat /\ stack \in Seq(Held \cup FrameWord) /\ fp \in Nat
      /\ TempCount(fp) \in Nat /\ OperandBase(fp) = fp + 1 + TempCount(fp)
      /\ \A p \in (fp + 1)..SP : stack[p] \in Held
  BY NextIp, RunningFacts
<1>2. PICK st : st = SubSeq(stack, 1, h)
  OBVIOUS
<1>3. st \in Seq(Held \cup FrameWord) /\ Len(st) = h /\ \A p \in 1..h : st[p] = stack[p]
  BY <1>1, <1>2 DEF SP
<1>4. stack' = Append(st, w)
  BY <1>2 DEF Bytecode
<1>5. /\ stack' \in Seq(Held \cup FrameWord) /\ SP' = h + 1 /\ stack'[h + 1] = w
      /\ \A p \in 1..h : stack'[p] = stack[p]
  BY <1>3, <1>4 DEF SP
<1>6. \A p \in 1..fp : stack'[p] = stack[p]
  BY <1>1, <1>5
<1>7. \A p \in (fp + 1)..SP' : stack'[p] \in Held
  <2> TAKE p \in (fp + 1)..SP'
  <2>1. p = h + 1 \/ (p \in 1..h /\ p \in (fp + 1)..SP)
    BY <1>1, <1>5
  <2> QED BY <1>1, <1>5, <2>1
<1>8. OperandBase(fp) <= SP'
  BY <1>1, <1>5
<1> HIDE DEF Ip
<1> QED
  BY <1>1, <1>5, <1>6, <1>7, <1>8, OwnWords DEF Bytecode

\* A bytecode that pushes w.
LEMMA Pushes ==
  ASSUME IInv, NEW op, At(op), NEW w \in Held, Bytecode(Append(stack, w), Next1(ip))
  PROVE  IInv'
<1>1. Running /\ SP \in Nat /\ stack \in Seq(Held \cup FrameWord) /\ OperandBase(fp) <= SP
  BY NextIp, RunningFacts
<1>2. stack = SubSeq(stack, 1, SP)
  BY <1>1 DEF SP
<1>3. Bytecode(Append(SubSeq(stack, 1, SP), w), Next1(ip))
  BY <1>2
<1> QED
  BY <1>1, <1>3, CutAndPush

\* A bytecode that leaves the words up to h.
LEMMA CutBack ==
  ASSUME IInv, NEW op, At(op), NEW h \in Nat, OperandBase(fp) <= h, h <= SP,
         NEW st \in Seq(Held \cup FrameWord), Len(st) = SP,
         \A p \in 1..fp : st[p] = stack[p], \A p \in (fp + 1)..SP : st[p] \in Held,
         NEW i \in Ip, i.m = base, Bytecode(SubSeq(st, 1, h), i)
  PROVE  IInv'
<1>1. /\ Running
      /\ SP \in Nat /\ stack \in Seq(Held \cup FrameWord) /\ fp \in Nat
      /\ TempCount(fp) \in Nat /\ OperandBase(fp) = fp + 1 + TempCount(fp)
  BY NextIp, RunningFacts
<1>2. stack' = SubSeq(st, 1, h)
  BY DEF Bytecode
<1>3. /\ stack' \in Seq(Held \cup FrameWord) /\ SP' = h
      /\ \A p \in 1..h : stack'[p] = st[p]
  BY <1>1, <1>2 DEF SP
<1>4. \A p \in 1..fp : stack'[p] = stack[p]
  <2> TAKE p \in 1..fp
  <2>1. p \in 1..h
    BY <1>1
  <2> QED BY <1>3, <2>1
<1>5. \A p \in (fp + 1)..SP' : stack'[p] \in Held
  <2> TAKE p \in (fp + 1)..SP'
  <2>1. p \in 1..h /\ p \in (fp + 1)..SP
    BY <1>1, <1>3
  <2> QED BY <1>3, <2>1
<1>6. OperandBase(fp) <= SP'
  BY <1>1, <1>3
<1> HIDE DEF Ip
<1> QED
  BY <1>1, <1>3, <1>4, <1>5, <1>6, OwnWords DEF Bytecode

\* What the bytecodes on data push.
LEMMA HeldValues ==
  /\ \A n \in Values : SmallInt(n) \in Held
  /\ Zero \in Held /\ Nil \in Held /\ \A n \in 0..MaxPc : SmallInt(n) \in Held
BY DEF Held

\* The operands of the running frame are words of the program.
LEMMA OperandsHeld ==
  ASSUME IInv, Running
  PROVE  \A n \in 0..(Operands - 1) : TopOp(n) \in Held /\ SP - n \in 1..SP /\ OperandBase(fp) < SP - n
<1>1. /\ SP \in Nat /\ fp \in Nat /\ TempCount(fp) \in Nat /\ OperandBase(fp) = fp + 1 + TempCount(fp)
      /\ OperandBase(fp) <= SP /\ \A p \in (fp + 1)..SP : stack[p] \in Held
  BY RunningFacts
<1>2. TAKE n \in 0..(Operands - 1)
<1>3. n \in Nat /\ SP - n \in (fp + 1)..SP /\ SP - n \in 1..SP /\ OperandBase(fp) < SP - n
  BY <1>1 DEF Operands
<1>4. stack[SP - n] \in Held
  BY <1>1, <1>3
<1> QED
  BY <1>3, <1>4 DEF TopOp

\* The bytecodes that push, pop and store.
LEMMA DataBytecodes ==
  ASSUME IInv,
         \/ PushValue \/ PushTemp \/ PushArg \/ PushSelf \/ Duplicate \/ Pop \/ StoreTemp
         \/ Jump \/ DataPrimitive
  PROVE  IInv'
<1> DEFINE OB == OperandBase(fp)
<1>1. Running
  BY DEF PushValue, PushTemp, PushArg, PushSelf, Duplicate, Pop, StoreTemp, Jump, DataPrimitive, At
<1>2. /\ SP \in Nat /\ stack \in Seq(Held \cup FrameWord) /\ fp \in Nat /\ fp \in FrameSet
      /\ TempCount(fp) \in Nat /\ OB = fp + 1 + TempCount(fp) /\ OB <= SP
      /\ Frame(fp).numArgs \in Nat
      /\ \A p \in (fp + 1)..SP : stack[p] \in Held
      /\ StackInv /\ HeapInv /\ FramesInv
  BY <1>1, RunningFacts
<1>3. \A n \in 0..(Operands - 1) : TopOp(n) \in Held /\ SP - n \in 1..SP /\ OB < SP - n
  BY <1>1, OperandsHeld
<1>4. Operands = SP - OB
  BY DEF Operands
<1> HIDE DEF OB
<1>5. CASE PushValue
  BY <1>5, HeldValues, Pushes DEF PushValue
<1>6. CASE PushTemp
  <2>1. PICK i \in 0..(TempCount(fp) - 1) : Bytecode(Append(stack, frame_temp(fp, i)), Next1(ip))
    BY <1>6 DEF PushTemp
  <2>2. frame_temp(fp, i) \in Held
    BY <1>2 DEF frame_temp
  <2> QED BY <1>6, <2>1, <2>2, Pushes DEF PushTemp
<1>7. CASE PushArg
  <2>1. PICK i \in 0..(Frame(fp).numArgs - 1) : Bytecode(Append(stack, frame_arg(fp, i)), Next1(ip))
    BY <1>7 DEF PushArg
  <2>2. fp - Frame(fp).numArgs + i \in (fp - Frame(fp).numArgs - 1)..(fp - 1)
    BY <1>2, <2>1
  <2>3. frame_arg(fp, i) \in Held
    BY <1>2, <2>2, ArgumentsHeld DEF frame_arg
  <2> QED BY <1>7, <2>1, <2>3, Pushes DEF PushArg
<1>8. CASE PushSelf
  <2>1. stack[fp + 1] \in Held
    BY <1>2
  <2> QED BY <1>8, <2>1, Pushes DEF PushSelf
<1>9. CASE Duplicate
  <2>1. TopOp(0) \in Held
    BY <1>2, <1>3, <1>4, <1>9 DEF Duplicate
  <2> QED BY <1>9, <2>1, Pushes DEF Duplicate
<1>10. CASE Pop
  <2>1. At("pop") /\ Operands > 0 /\ Bytecode(SubSeq(stack, 1, SP - 1), Next1(ip))
    BY <1>10 DEF Pop
  <2>2. SP - 1 \in Nat /\ OB <= SP - 1 /\ SP - 1 <= SP
    BY <1>2, <1>4, <2>1
  <2>3. Next1(ip) \in Ip /\ Next1(ip).m = base /\ Len(stack) = SP
    BY <2>1, NextIp DEF SP
  <2> HIDE DEF Ip
  <2> QED BY <1>2, <2>1, <2>2, <2>3, CutBack DEF OB
<1>11. CASE StoreTemp
  <2>1. At("store") /\ Operands > 0
    BY <1>11 DEF StoreTemp
  <2>2. PICK i \in 0..(TempCount(fp) - 1) :
          Bytecode(SubSeq([stack EXCEPT ![fp + 2 + i] = TopOp(0)], 1, SP - 1), Next1(ip))
    BY <1>11 DEF StoreTemp
  <2>3. SP - 1 \in Nat /\ OB <= SP - 1 /\ SP - 1 <= SP
    BY <1>2, <1>4, <2>1
  <2>4. Next1(ip) \in Ip /\ Next1(ip).m = base /\ Len(stack) = SP
    BY <2>1, NextIp DEF SP
  <2>5. TopOp(0) \in Held
    BY <1>2, <1>3, <1>4, <2>1
  <2>6. PICK w \in Held : w = TopOp(0)
    BY <2>5
  <2>7. PICK st : st = [stack EXCEPT ![fp + 2 + i] = w]
    OBVIOUS
  <2>8. /\ st \in Seq(Held \cup FrameWord) /\ Len(st) = SP
        /\ \A p \in 1..SP : st[p] = IF p = fp + 2 + i THEN w ELSE stack[p]
    BY <1>2, <2>4, <2>6, <2>7
  <2>9. (\A p \in 1..fp : st[p] = stack[p]) /\ \A p \in (fp + 1)..SP : st[p] \in Held
    <3>1. ASSUME NEW p \in 1..fp PROVE st[p] = stack[p]
      <4>1. p \in 1..SP /\ p # fp + 2 + i
        BY <1>2, <2>2
      <4> QED BY <2>8, <4>1
    <3>2. ASSUME NEW p \in (fp + 1)..SP PROVE st[p] \in Held
      <4>1. p \in 1..SP
        BY <1>2
      <4> QED BY <1>2, <2>8, <4>1
    <3> QED BY <3>1, <3>2
  <2>10. Bytecode(SubSeq(st, 1, SP - 1), Next1(ip))
    BY <2>2, <2>6, <2>7
  <2> HIDE DEF Ip
  <2> QED BY <2>1, <2>3, <2>4, <2>8, <2>9, <2>10, CutBack DEF OB
<1>12. CASE Jump
  <2>1. At("jump")
    BY <1>12 DEF Jump
  <2>2. PICK n \in 0..1, t \in 0..(Len(Program[base]) - 1) :
          Operands >= n /\ Bytecode(SubSeq(stack, 1, SP - n), [m |-> base, pc |-> t])
    BY <1>12 DEF Jump
  <2>3. ip \in Ip /\ ip.m = base /\ Len(stack) = SP
    BY <2>1, NextIp DEF SP
  <2>4. [m |-> base, pc |-> t] \in Ip
    <3>1. base \in Code
      BY <2>3 DEF Ip
    <3> QED BY <2>2, <3>1, CodeAssumption, BoundAssumption DEF Ip
  <2>5. SP - n \in Nat /\ OB <= SP - n /\ SP - n <= SP
    BY <1>2, <1>4, <2>2
  <2>6. [m |-> base, pc |-> t].m = base
    OBVIOUS
  <2> HIDE DEF Ip
  <2> QED BY <1>2, <2>1, <2>2, <2>3, <2>4, <2>5, <2>6, CutBack DEF OB
<1>13. CASE DataPrimitive
  <2>1. PICK n \in 0..1, v \in Values :
          Operands > n /\ Bytecode(Append(SubSeq(stack, 1, SP - n - 1), SmallInt(v)), Next1(ip))
    BY <1>13 DEF DataPrimitive
  <2>2. SP - n - 1 \in Nat /\ OB <= SP - n - 1 /\ SP - n - 1 <= SP
    BY <1>2, <1>4, <2>1
  <2>3. SmallInt(v) \in Held
    BY HeldValues
  <2> QED BY <1>13, <2>1, <2>2, <2>3, CutAndPush DEF DataPrimitive, OB
<1> QED
  BY <1>5, <1>6, <1>7, <1>8, <1>9, <1>10, <1>11, <1>12, <1>13

\* A step that stops the machine.
LEMMA Stops ==
  ASSUME IInv, UNCHANGED <<registers, calls, heap, contextClass, born>>,
         outcome' \in {"done", "trap", "halt"}
  PROVE  IInv'
<1>1. UNCHANGED <<stack, fp, ip, base, calls, closures, contexts, contextClass, born>>
  BY DEF registers, heap
<1>2. SP' = SP /\ Held' = Held /\ Closure' = Closure /\ Context' = Context
  BY <1>1, Zenon DEF SP, Held, Closure, Context, SomeBlock, SomeContext
<1>3. HeapInv'
  BY <1>1, <1>2 DEF IInv, HeapInv
<1>4. StackInv'
  BY <1>1, <1>2 DEF IInv, StackInv
<1>5. RestInv'
  <2> HIDE DEF Ip, NoIp, After
  <2> QED BY <1>1, <1>2 DEF IInv, RestInv
<1>6. ~Running'
  BY DEF Running
<1> QED
  BY <1>3, <1>4, <1>5, <1>6 DEF IInv

\* trap, halt
LEMMA StopBytecodes ==
  ASSUME IInv, Trap \/ Halt \/ Overflow
  PROVE  IInv'
BY Stops DEF Trap, Halt, Overflow

-----------------------------------------------------------------------------
(* Sends and calls of blocks. *)

\* What the program holds are oops.
LEMMA HeldOops ==
  ASSUME HeapInv
  PROVE  Held \subseteq Oop
<1>1. Len(closures) \in Nat /\ Len(contexts) \in Nat /\ Len(closures) <= MaxClosures /\ Len(contexts) <= MaxContexts
      /\ MaxClosures \in Nat /\ MaxContexts \in Nat
  BY BoundAssumption DEF HeapInv
<1>2. 1..Len(closures) \subseteq 1..MaxClosures /\ 1..Len(contexts) \subseteq 1..MaxContexts
  BY <1>1
<1> QED
  BY <1>2, Zenon DEF Held, Oop, SomeBlock, SomeContext

\* The words a of a new frame of code c with n arguments and t temporaries.
FrameWords(a, st, g, i, c, n, t) ==
  LET h == Len(st) IN
  /\ a \in Seq(Held \cup FrameWord) /\ Len(a) = h + 2 + t
  /\ \A p \in (h + 2)..(h + 2 + t) : a[p] \in Held
  /\ a[h + 1] \in FrameWord
  /\ a[h + 1].savedFp = g /\ a[h + 1].savedIp = i /\ a[h + 1].method = c /\ a[h + 1].numArgs = n
  /\ a[h + 1].id = born + 1

\* The receiver and n arguments are on st.
Activatable(st, g, i, c, n, t) ==
  /\ st \in Seq(Held \cup FrameWord) /\ g \in {NULL, CAFE} \cup 1..StackWords /\ i \in Ip \cup {NoIp, After}
  /\ c \in Code /\ n \in Nat /\ n < Len(st) /\ st[Len(st) - n] \in Held /\ t \in Nat

\* The words that activate_method pushes.
LEMMA ActivateMethod ==
  ASSUME HeapInv, NEW st, NEW g, NEW i, NEW c, NEW n, NEW t, Activatable(st, g, i, c, n, t)
  PROVE  /\ FrameWords(activate_method(st, g, i, c, n, t), st, g, i, c, n, t)
         /\ \A p \in 1..Len(st) : activate_method(st, g, i, c, n, t)[p] = st[p]
         /\ ~activate_method(st, g, i, c, n, t)[Len(st) + 1].isBlock
         /\ activate_method(st, g, i, c, n, t)[Len(st) + 1].link = Zero
         /\ activate_method(st, g, i, c, n, t)[Len(st) + 1].home = activate_method(st, g, i, c, n, t)[Len(st) + 1].id
<1> USE DEF Activatable
<1>0. PICK h \in Nat : h = Len(st)
  OBVIOUS
<1>a. PICK a : a = activate_method(st, g, i, c, n, t)
  OBVIOUS
<1>1. PICK w : w = [k |-> "frame", savedIp |-> i, savedFp |-> g, method |-> c,
                    numArgs |-> n, isBlock |-> FALSE, link |-> Zero,
                    id |-> born + 1, home |-> born + 1]
  OBVIOUS
<1>2. w \in FrameWord
  <2>1. Zero \in Oop /\ born + 1 \in Nat
    BY DEF Oop, HeapInv
  <2> HIDE DEF Ip, NoIp, After, Oop
  <2> QED BY <1>1, <2>1 DEF FrameWord
<1>3. PICK z : z = Zeros(t)
  OBVIOUS
<1>4. z \in Seq(Held) /\ Len(z) = t
  <2>1. Zero \in Held
    BY HeldValues
  <2>2. z = [j \in 1..t |-> Zero]
    BY <1>3 DEF Zeros
  <2>3. z \in [1..t -> Held]
    BY <2>1, <2>2
  <2> QED BY <2>2, <2>3
<1>5. PICK r \in Held : r = st[Len(st) - n]
  OBVIOUS
<1>6. a = st \o <<w, r>> \o z
  BY <1>a, <1>1, <1>3, <1>5 DEF activate_method
<1>7. PICK u : u = st \o <<w, r>>
  OBVIOUS
<1>8. /\ u \in Seq(Held \cup FrameWord) /\ Len(u) = h + 2 /\ u[h + 1] = w /\ u[h + 2] = r
      /\ \A p \in 1..h : u[p] = st[p]
  BY <1>0, <1>2, <1>7
<1>9. /\ a \in Seq(Held \cup FrameWord) /\ Len(a) = h + 2 + t
      /\ \A p \in 1..(h + 2) : a[p] = u[p]
      /\ \A p \in (h + 3)..(h + 2 + t) : a[p] \in Held
  <2>1. h \in Nat
    OBVIOUS
  <2>2. a = u \o z
    BY <1>6, <1>7
  <2> HIDE DEF Held
  <2>3. PICK y : y = a
    OBVIOUS
  <2>4. u \in Seq(Held \cup FrameWord) /\ z \in Seq(Held \cup FrameWord) /\ y = u \o z
    BY <1>4, <1>8, <2>2, <2>3
  <2>5. /\ y \in Seq(Held \cup FrameWord) /\ Len(y) = Len(u) + Len(z)
        /\ \A p \in 1..Len(u) : y[p] = u[p]
        /\ \A p \in 1..Len(z) : y[Len(u) + p] = z[p]
    BY <2>4
  <2>6. ASSUME NEW p \in (h + 3)..(h + 2 + t) PROVE y[p] \in Held
    <3>1. p - (h + 2) \in 1..Len(z) /\ Len(u) + (p - (h + 2)) = p
      BY <1>4, <1>8, <2>1
    <3>2. z[p - (h + 2)] \in Held
      BY <1>4, <3>1
    <3> QED BY <2>5, <3>1, <3>2
  <2> QED BY <1>4, <1>8, <2>3, <2>5, <2>6
<1>10. a[h + 1] = w /\ a[h + 2] = r /\ \A p \in 1..h : a[p] = st[p]
  BY <1>8, <1>9
<1>11. \A p \in (h + 2)..(h + 2 + t) : a[p] \in Held
  <2> TAKE p \in (h + 2)..(h + 2 + t)
  <2>1. p = h + 2 \/ p \in (h + 3)..(h + 2 + t)
    OBVIOUS
  <2> QED BY <1>9, <1>10, <2>1
<1>12. FrameWords(a, st, g, i, c, n, t)
  BY <1>0, <1>1, <1>2, <1>9, <1>10, <1>11 DEF FrameWords
<1>13. ~a[h + 1].isBlock /\ a[h + 1].link = Zero /\ a[h + 1].home = a[h + 1].id
  BY <1>1, <1>10
<1> QED
  BY <1>0, <1>a, <1>10, <1>12, <1>13, Zenon

\* The words of a are those of all, but for w at h + 1 and the l copied words.
Overwrites(a, h, w, copied, l, all, t) ==
  /\ h \in Nat /\ t \in Nat /\ l \in Nat /\ l <= t
  /\ \A p \in 1..(h + 2 + t) :
       a[p] = IF p = h + 1 THEN w
              ELSE IF p \in (h + 3)..(h + 2 + l) THEN copied[p - (h + 1) - 1] ELSE all[p]

\* A frame word at h + 1 and copied words above the receiver, written over all.
LEMMA Overwritten ==
  ASSUME NEW h, NEW t, NEW l, NEW all, NEW w, NEW copied, NEW a,
         Overwrites(a, h, w, copied, l, all, t),
         \A p \in 1..l : copied[p] \in Held, \A p \in (h + 2)..(h + 2 + t) : all[p] \in Held
  PROVE  /\ a[h + 1] = w
         /\ \A p \in 1..h : a[p] = all[p]
         /\ \A p \in (h + 2)..(h + 2 + t) : a[p] \in Held
<1> USE DEF Overwrites
<1>2. h + 1 \in 1..(h + 2 + t) /\ \A p \in 1..h : p \in 1..(h + 2 + t) /\ p # h + 1 /\ p \notin (h + 3)..(h + 2 + l)
  OBVIOUS
<1>3. ASSUME NEW p \in (h + 2)..(h + 2 + t) PROVE a[p] \in Held
  <2>1. p \in 1..(h + 2 + t) /\ p # h + 1
    OBVIOUS
  <2>2. CASE p \in (h + 3)..(h + 2 + l)
    <3>1. p - (h + 1) - 1 \in 1..l
      BY <2>2
    <3> QED BY <2>1, <2>2, <3>1
  <2>3. CASE p \notin (h + 3)..(h + 2 + l)
    BY <2>1, <2>3
  <2> QED BY <2>2, <2>3
<1> QED
  BY <1>2, <1>3

\* The temporaries of a frame of block b.
BlockTemps(b) == NumTemps[closures[b].method] + Len(closures[b].copied)

\* The block b and n arguments are on st.
Callable(st, g, i, b, n) ==
  /\ st \in Seq(Held \cup FrameWord) /\ g \in 1..StackWords /\ i \in Ip \cup {NoIp, After}
  /\ n \in Nat /\ n < Len(st) /\ st[Len(st) - n] \in Held /\ b \in 1..Len(closures)

\* The words a of a new frame of block b; the receiver of the home is in place
\* of the block.
BlockFrameWords(a, st, g, i, b, n) ==
  /\ BlockTemps(b) \in Nat /\ closures[b].method \in Code
  /\ FrameWords(a, st, g, i, closures[b].method, n, BlockTemps(b))
  /\ \A p \in 1..Len(st) : p # Len(st) - n => a[p] = st[p]
  /\ a[Len(st) - n] \in Held
  /\ a[Len(st) + 1].isBlock /\ a[Len(st) + 1].link = Blk(b) /\ a[Len(st) + 1].home = closures[b].homeId

\* The words that activate_block_call pushes.
LEMMA ActivateBlock ==
  ASSUME HeapInv, NEW st, NEW g, NEW i, NEW n, NEW b, Callable(st, g, i, b, n)
  PROVE  BlockFrameWords(activate_block_call(st, g, i, b, n), st, g, i, b, n)
<1> USE DEF Callable
<1>b. PICK a : a = activate_block_call(st, g, i, b, n)
  OBVIOUS
<1>0. PICK h \in Nat : h = Len(st)
  OBVIOUS
<1>a. PICK t : t = BlockTemps(b)
  OBVIOUS
<1>1. PICK x \in Closure : x = closures[b]
  BY DEF HeapInv
<1>2. x.receiver \in Held /\ x.method \in Code /\ x.copied \in Seq(Held) /\ x.homeId \in Nat
  BY DEF Closure, Code
<1>3. t \in Nat /\ Len(x.copied) \in Nat /\ Len(x.copied) <= t
  <2>1. Len(x.copied) \in Nat
    BY <1>2
  <2>2. NumTemps[x.method] \in Nat
    BY <1>2, CodeAssumption
  <2>3. t = NumTemps[x.method] + Len(x.copied)
    BY <1>a, <1>1 DEF BlockTemps
  <2> QED BY <2>1, <2>2, <2>3
<1>4. h \in Nat /\ h - n \in 1..h
  BY <1>0
<1>5. PICK u : u = [st EXCEPT ![Len(st) - n] = x.receiver]
  OBVIOUS
<1>6. /\ u \in Seq(Held \cup FrameWord) /\ Len(u) = h /\ u[h - n] = x.receiver
      /\ \A p \in 1..h : p # h - n => u[p] = st[p]
  BY <1>0, <1>2, <1>4, <1>5
<1>7. PICK all : all = activate_method(u, g, i, x.method, n, t)
  OBVIOUS
<1>8. u[Len(u) - n] \in Held /\ n < Len(u) /\ h = Len(u)
  BY <1>2, <1>4, <1>6
<1>9. /\ all \in Seq(Held \cup FrameWord) /\ Len(all) = h + 2 + t
      /\ \A p \in 1..h : all[p] = u[p]
      /\ \A p \in (h + 2)..(h + 2 + t) : all[p] \in Held
      /\ all[h + 1] \in FrameWord
      /\ all[h + 1].savedFp = g /\ all[h + 1].savedIp = i /\ all[h + 1].method = x.method
      /\ all[h + 1].numArgs = n /\ all[h + 1].id = born + 1
  <2>0. PICK c \in Code : c = x.method
    BY <1>2
  <2>1. /\ FrameWords(activate_method(u, g, i, c, n, t), u, g, i, c, n, t)
        /\ \A p \in 1..Len(u) : activate_method(u, g, i, c, n, t)[p] = u[p]
    <3>1. Activatable(u, g, i, c, n, t)
      BY <1>3, <1>6, <1>8, <2>0, Zenon DEF Activatable
    <3> QED BY <3>1, ActivateMethod, SMT
  <2>2. /\ FrameWords(all, u, g, i, x.method, n, t)
        /\ \A p \in 1..Len(u) : all[p] = u[p]
    BY <1>7, <2>0, <2>1, Zenon
  <2> HIDE DEF Ip, NoIp, After
  <2> QED BY <1>8, <2>2 DEF FrameWords
<1>10. PICK w : w = [all[h + 1] EXCEPT !.isBlock = TRUE, !.link = Blk(b), !.home = x.homeId]
  OBVIOUS
<1>11. /\ w \in FrameWord
       /\ w.savedFp = g /\ w.savedIp = i /\ w.method = x.method
       /\ w.numArgs = n /\ w.isBlock /\ w.link = Blk(b) /\ w.home = x.homeId /\ w.id = born + 1
  <2>1. Blk(b) \in Oop
    BY HeldOops DEF Held, SomeBlock
  <2> HIDE DEF Ip, NoIp, After, Oop
  <2> QED BY <1>2, <1>9, <1>10, <2>1 DEF FrameWord
<1>12. a = [p \in 1..Len(all) |->
              IF p = h + 1 THEN w
              ELSE IF p \in (h + 3)..(h + 2 + Len(x.copied)) THEN x.copied[p - (h + 1) - 1]
              ELSE all[p]]
  <2>1. Len(st) + 1 = h + 1 /\ (h + 1) + 2 = h + 3 /\ (h + 1) + 1 + Len(x.copied) = h + 2 + Len(x.copied)
    BY <1>0, <1>3
  <2>2. all = activate_method([st EXCEPT ![Len(st) - n] = x.receiver], g, i, x.method, n,
                              NumTemps[x.method] + Len(x.copied))
    BY <1>a, <1>1, <1>5, <1>7 DEF BlockTemps
  <2> QED BY <1>0, <1>b, <1>1, <1>10, <2>1, <2>2 DEF activate_block_call
<1>13. PICK l \in Nat : l = Len(x.copied)
  BY <1>3
<1>14. (\A p \in 1..l : x.copied[p] \in Held) /\ l <= t
  BY <1>2, <1>3, <1>13
<1>15. a = [p \in 1..(h + 2 + t) |->
              IF p = h + 1 THEN w
              ELSE IF p \in (h + 3)..(h + 2 + l) THEN x.copied[p - (h + 1) - 1] ELSE all[p]]
  BY <1>9, <1>12, <1>13, Zenon
<1>16. Overwrites(a, h, w, x.copied, l, all, t)
  BY <1>3, <1>4, <1>13, <1>14, <1>15 DEF Overwrites
<1>17. /\ a[h + 1] = w
       /\ \A p \in 1..h : a[p] = all[p]
       /\ \A p \in (h + 2)..(h + 2 + t) : a[p] \in Held
  <2>1. PICK q : q = x.copied
    OBVIOUS
  <2>2. Overwrites(a, h, w, q, l, all, t) /\ \A p \in 1..l : q[p] \in Held
    BY <1>14, <1>16, <2>1
  <2>3. \A p \in (h + 2)..(h + 2 + t) : all[p] \in Held
    BY <1>9
  <2> QED BY <2>2, <2>3, Overwritten
<1>18. a \in Seq(Held \cup FrameWord) /\ Len(a) = h + 2 + t
  <2>1. \A p \in 1..(h + 2 + t) : a[p] \in Held \cup FrameWord
    <3> TAKE p \in 1..(h + 2 + t)
    <3>1. p \in 1..h \/ p = h + 1 \/ p \in (h + 2)..(h + 2 + t)
      BY <1>3, <1>4
    <3>2. ASSUME p \in 1..h PROVE a[p] \in Held \cup FrameWord
      BY <1>6, <1>9, <1>17, <3>2
    <3> QED BY <1>11, <1>17, <3>1, <3>2
  <2>2. a \in [1..(h + 2 + t) -> Held \cup FrameWord]
    BY <1>15, <2>1
  <2>3. h + 2 + t \in Nat
    BY <1>3, <1>4
  <2> QED BY <2>2, <2>3
<1>19. a[h - n] \in Held /\ \A p \in 1..h : p # h - n => a[p] = st[p]
  BY <1>2, <1>4, <1>6, <1>9, <1>17
<1>20. FrameWords(a, st, g, i, x.method, n, t)
  BY <1>0, <1>11, <1>17, <1>18 DEF FrameWords
<1>21. BlockFrameWords(a, st, g, i, b, n)
  BY <1>0, <1>a, <1>1, <1>2, <1>3, <1>11, <1>17, <1>19, <1>20 DEF BlockFrameWords
<1> QED
  BY <1>b, <1>21

\* The frame of the words a is that of a method, or of a block b.
KindOfFrame(a, h, c, t) ==
  \/ ~a[h + 1].isBlock /\ a[h + 1].link = Zero /\ a[h + 1].home = a[h + 1].id /\ t = NumTemps[c]
  \/ \E b \in 1..Len(closures) :
       /\ a[h + 1].isBlock /\ a[h + 1].link = Blk(b) /\ a[h + 1].home = closures[b].homeId
       /\ c = closures[b].method /\ t = BlockTemps(b)

\* Below the new frame of the words a are the frame g and words of the program.
AboveFrame(a, h, g, n) ==
  /\ h \in Nat /\ g \in FrameSet /\ n \in Nat /\ OperandBase(g) + n + 1 <= h
  /\ \A p \in 1..g : a[p] = stack[p]
  /\ \A p \in (g + 1)..h : a[p] \in Held

\* The primitive or the bytecode at i has run in frame g.
ResumesIn(i, g) == i = After \/ (i \in Ip /\ i.m = Frame(g).method)

\* Control enters the frame of the words a, above the frame g.
LEMMA EnterFrame ==
  ASSUME IInv, Running, NEW a, NEW st, NEW h \in Nat, Len(st) = h,
         NEW g, NEW i, NEW c \in Code, NEW n, NEW t \in Nat,
         FrameWords(a, st, g, i, c, n, t), KindOfFrame(a, h, c, t), AboveFrame(a, h, g, n),
         ResumesIn(i, g), h + 2 + t <= StackWords,
         Enter(a, h, c), UNCHANGED heap,
         NEW m \in 1..Len(calls), calls[m].entry <= g,
         \/ calls' = SubSeq(calls, 1, m)
         \/ (\E r : NewCall(r, g, h) /\ r.ip = i /\ calls' = Append(SubSeq(calls, 1, m), r)) /\ n = 0
  PROVE  IInv'
<1>1. /\ HeapInv /\ StackInv /\ FramesInv
      /\ g \in FrameSet /\ g \in Nat /\ OperandBase(g) \in Nat /\ g < OperandBase(g)
      /\ n \in Nat /\ OperandBase(g) + n + 1 <= h
  <2>1. g \in FrameSet /\ n \in Nat /\ OperandBase(g) + n + 1 <= h
    BY DEF AboveFrame
  <2> QED BY <2>1, RunningFacts, FrameFacts
<1>2. stack' = a /\ fp' = h + 1 /\ ip' = [m |-> c, pc |-> 0] /\ base' = c /\ born' = born + 1
      /\ UNCHANGED <<contextClass, outcome>>
  BY DEF Enter
<1>3. /\ a \in Seq(Held \cup FrameWord) /\ Len(a) = h + 2 + t
      /\ \A p \in (h + 2)..(h + 2 + t) : a[p] \in Held
      /\ a[h + 1] \in FrameWord
      /\ a[h + 1].savedFp = g /\ a[h + 1].savedIp = i /\ a[h + 1].method = c /\ a[h + 1].numArgs = n
      /\ a[h + 1].id = born + 1
  BY DEF FrameWords
<1>4. SP' = h + 2 + t /\ SP' \in Nat
  BY <1>2, <1>3 DEF SP
<1>5. KeptTo(g)
  BY <1>1, <1>2, <1>4 DEF KeptTo, AboveFrame
<1>6. \A p \in (g + 1)..SP' : p # h + 1 => stack'[p] \in Held
  <2> TAKE p \in (g + 1)..SP'
  <2>1. p = h + 1 \/ p \in (g + 1)..h \/ p \in (h + 2)..(h + 2 + t)
    BY <1>1, <1>4
  <2> QED BY <1>2, <1>3, <2>1 DEF AboveFrame
<1>7. PICK w \in FrameWord : w = a[h + 1]
  BY <1>3
<1>8. NewWord(w, g, h)
  <2>1. OperandBase(g) + w.numArgs + 2 <= h + 1
    BY <1>1, <1>3, <1>7
  <2>2. w.savedFp = g /\ (w.savedIp = After \/ (w.savedIp \in Ip /\ w.savedIp.m = Frame(g).method))
    <3> HIDE DEF After, Ip
    <3> QED BY <1>3, <1>7 DEF ResumesIn
  <2>3. \/ ~w.isBlock /\ w.link = Zero /\ w.home = w.id
        \/ /\ w.isBlock
           /\ \E b \in 1..Len(closures) :
                w.link = Blk(b) /\ w.method = closures[b].method /\ w.home = closures[b].homeId
    BY <1>3, <1>7, Zenon DEF KindOfFrame
  <2>4. w.id = born + 1
    BY <1>3, <1>7
  <2> QED BY <2>1, <2>2, <2>3, <2>4, Zenon DEF NewWord
<1>9. OperandBase(h + 1)' = h + 2 + t
  <2>1. Frame(h + 1)' = w /\ closures' = closures
    BY <1>2, <1>7 DEF Frame, heap
  <2>2. TempCount(h + 1)' = t
    <3>1. CASE ~w.isBlock /\ w.link = Zero /\ w.home = w.id /\ t = NumTemps[c]
      <4>1. block_closure_for_frame(h + 1)' = Nil
        BY <2>1, <3>1 DEF block_closure_for_frame, Zero
      <4> QED BY <1>3, <1>7, <2>1, <3>1, <4>1 DEF TempCount
    <3>2. ASSUME NEW b \in 1..Len(closures), w.link = Blk(b), c = closures[b].method, t = BlockTemps(b)
          PROVE  TempCount(h + 1)' = t
      <4>1. Blk(b).k = "block" /\ Blk(b).v = b /\ Blk(b) # Nil
        BY DEF Blk, Nil
      <4>2. block_closure_for_frame(h + 1)' = Blk(b)
        BY <2>1, <3>2, <4>1 DEF block_closure_for_frame
      <4>3. w.method = c
        BY <1>3, <1>7
      <4> QED BY <2>1, <3>2, <4>1, <4>2, <4>3 DEF TempCount, BlockTemps
    <3> QED BY <1>7, <3>1, <3>2, Zenon DEF KindOfFrame
  <2> QED BY <2>2 DEF OperandBase
<1>10. ip' \in Ip /\ ip'.m = base' /\ base' = w.method
  BY <1>2, <1>3, <1>7, BoundAssumption DEF Ip
<1>11. born' = born + 1
  BY <1>2
<1>12. g <= h /\ h < SP' /\ SP' <= StackWords /\ SP' = OperandBase(h + 1)'
  <2>1. SP' <= StackWords /\ SP' = OperandBase(h + 1)'
    BY <1>4, <1>9
  <2>2. h \in Nat /\ t \in Nat
    BY DEF FrameWords
  <2>3. g <= h
    BY <1>1, <2>2
  <2>4. h < SP'
    BY <1>4, <2>2
  <2> QED BY <2>1, <2>3, <2>4
<1>13. stack' \in Seq(Held \cup FrameWord) /\ stack'[h + 1] = w /\ w.numArgs = n /\ w.savedIp = i /\ g \in Nat
  BY <1>1, <1>2, <1>3, <1>7
<1> HIDE DEF Ip
<1> QED
  BY <1>2, <1>5, <1>6, <1>8, <1>10, <1>11, <1>12, <1>13, NewFrame

\* The words below an activation belong to a frame that has room for it.
LEMMA BelowActivation ==
  ASSUME IInv, Running, NEW st \in Seq(Held \cup FrameWord), NEW g, NEW n, NEW i,
         AboveFrame(st, Len(st), g, n), ResumesIn(i, g)
  PROVE  /\ g \in FrameSet /\ g \in Nat /\ g \in 1..StackWords /\ n \in Nat /\ n < Len(st)
         /\ i \in Ip \cup {NoIp, After} /\ st[Len(st) - n] \in Held
         /\ g < Len(st) - n /\ Len(st) - n <= Len(st)
<1>1. g \in FrameSet /\ n \in Nat /\ OperandBase(g) + n + 1 <= Len(st)
  BY DEF AboveFrame
<1>2. /\ g \in Nat /\ g > 0 /\ OperandBase(g) \in Nat /\ g < OperandBase(g) /\ OperandBase(g) <= StackWords
  BY <1>1, RunningFacts, FrameFacts DEF FramesInv
<1>3. PICK h \in Nat : h = Len(st)
  OBVIOUS
<1>4. g \in 1..StackWords
  BY <1>2, BoundAssumption
<1>5. n < h /\ g < h - n /\ h - n <= h /\ h - n \in (g + 1)..h
  BY <1>1, <1>2, <1>3
<1>6. st[h - n] \in Held
  BY <1>3, <1>5 DEF AboveFrame
<1>7. i \in Ip \cup {NoIp, After}
  BY DEF ResumesIn
<1> QED
  BY <1>1, <1>2, <1>3, <1>4, <1>5, <1>6, <1>7

\* A method is activated by the running frame.
LEMMA EnterMethod ==
  ASSUME IInv, Running, NEW st \in Seq(Held \cup FrameWord), NEW i, NEW c \in Methods,
         AboveFrame(st, Len(st), fp, NumArgs[c]), ResumesIn(i, fp),
         ~StackOverflow(Len(st), NumTemps[c]),
         Enter(activate_method(st, fp, i, c, NumArgs[c], NumTemps[c]), Len(st), c),
         UNCHANGED <<calls, heap>>
  PROVE  IInv'
<1>1. PICK g : g = fp
  OBVIOUS
<1>2. PICK n : n = NumArgs[c]
  OBVIOUS
<1>3. PICK t \in Nat : t = NumTemps[c]
  BY CodeAssumption DEF Code
<1>4. PICK h \in Nat : h = Len(st)
  OBVIOUS
<1>5. PICK a : a = activate_method(st, g, i, c, n, t)
  OBVIOUS
<1>6. AboveFrame(st, h, g, n) /\ ResumesIn(i, g) /\ Enter(a, h, c) /\ c \in Code
  BY <1>1, <1>2, <1>3, <1>4, <1>5 DEF Code
<1>7. /\ g \in FrameSet /\ g \in Nat /\ g \in 1..StackWords /\ n \in Nat /\ n < Len(st)
      /\ i \in Ip \cup {NoIp, After} /\ st[Len(st) - n] \in Held /\ g < h
  <2>1. AboveFrame(st, Len(st), g, n)
    BY <1>4, <1>6
  <2>2. /\ g \in FrameSet /\ g \in Nat /\ g \in 1..StackWords /\ n \in Nat /\ n < Len(st)
        /\ i \in Ip \cup {NoIp, After} /\ st[Len(st) - n] \in Held /\ g < Len(st) - n
    BY <1>6, <2>1, BelowActivation
  <2> HIDE DEF Ip, NoIp, After
  <2> QED BY <1>4, <2>2
<1>8. Activatable(st, g, i, c, n, t) /\ HeapInv
  <2> HIDE DEF Ip, NoIp, After
  <2> QED BY <1>6, <1>7, RunningFacts DEF Activatable
<1>9. /\ FrameWords(a, st, g, i, c, n, t)
      /\ \A p \in 1..h : a[p] = st[p]
      /\ ~a[h + 1].isBlock /\ a[h + 1].link = Zero /\ a[h + 1].home = a[h + 1].id
  BY <1>4, <1>5, <1>8, ActivateMethod
<1>10. AboveFrame(a, h, g, n)
  <2>1. (\A p \in 1..g : p \in 1..h) /\ \A p \in (g + 1)..h : p \in 1..h
    BY <1>7
  <2> QED BY <1>6, <1>9, <2>1 DEF AboveFrame
<1>11. KindOfFrame(a, h, c, t)
  BY <1>3, <1>9 DEF KindOfFrame
<1>12. h + 2 + t <= StackWords
  BY <1>3, <1>4, BoundAssumption DEF StackOverflow
<1>13. /\ Len(calls) \in 1..Len(calls) /\ calls[Len(calls)].entry <= g
       /\ calls' = SubSeq(calls, 1, Len(calls))
  BY <1>1, RunningFacts
<1>14. PICK m \in 1..Len(calls) : m = Len(calls)
  BY <1>13
<1>15. calls[m].entry <= g /\ calls' = SubSeq(calls, 1, m) /\ Len(st) = h /\ UNCHANGED heap
  BY <1>4, <1>13, <1>14
<1> QED
  BY <1>6, <1>9, <1>10, <1>11, <1>12, <1>15, EnterFrame

\* A block is activated, by the running frame or by a primitive that waits.
LEMMA EnterBlock ==
  ASSUME IInv, Running, NEW st \in Seq(Held \cup FrameWord), NEW g, NEW i, NEW n,
         NEW b \in 1..Len(closures),
         AboveFrame(st, Len(st), g, n), ResumesIn(i, g),
         ~StackOverflow(Len(st), NumTemps[closures[b].method] + Len(closures[b].copied)),
         Enter(activate_block_call(st, g, i, b, n), Len(st), closures[b].method),
         UNCHANGED heap,
         NEW m \in 1..Len(calls), calls[m].entry <= g,
         \/ calls' = SubSeq(calls, 1, m)
         \/ (\E r : NewCall(r, g, Len(st)) /\ r.ip = i /\ calls' = Append(SubSeq(calls, 1, m), r)) /\ n = 0
  PROVE  IInv'
<1>1. /\ g \in FrameSet /\ g \in Nat /\ g \in 1..StackWords /\ n \in Nat /\ n < Len(st)
      /\ i \in Ip \cup {NoIp, After} /\ st[Len(st) - n] \in Held
      /\ g < Len(st) - n /\ Len(st) - n <= Len(st)
  BY BelowActivation
<1>2. PICK h \in Nat : h = Len(st)
  BY ONLY st \in Seq(Held \cup FrameWord)
<1>3. PICK c : c = closures[b].method
  OBVIOUS
<1>4. PICK a : a = activate_block_call(st, g, i, b, n)
  OBVIOUS
<1>5. PICK t : t = BlockTemps(b)
  OBVIOUS
<1>6. Callable(st, g, i, b, n) /\ HeapInv
  <2> HIDE DEF Ip, NoIp, After
  <2> QED BY <1>1, RunningFacts DEF Callable
<1>7. BlockFrameWords(a, st, g, i, b, n)
  BY <1>4, <1>6, ActivateBlock
<1>8. /\ t \in Nat /\ c \in Code /\ FrameWords(a, st, g, i, c, n, t)
      /\ \A p \in 1..h : p # h - n => a[p] = st[p]
      /\ a[h - n] \in Held
      /\ a[h + 1].isBlock /\ a[h + 1].link = Blk(b) /\ a[h + 1].home = closures[b].homeId
  BY <1>2, <1>3, <1>5, <1>7, Zenon DEF BlockFrameWords
<1>9. AboveFrame(a, h, g, n)
  <2>1. OperandBase(g) + n + 1 <= h /\ g < h - n /\ h - n <= h /\ h - n \in Nat
    BY <1>1, <1>2 DEF AboveFrame
  <2>2. (\A p \in 1..g : st[p] = stack[p]) /\ \A p \in (g + 1)..h : st[p] \in Held
    BY <1>2 DEF AboveFrame
  <2>3. \A p \in 1..g : p \in 1..h /\ p # h - n
    BY <1>1, <2>1
  <2>4. \A p \in (g + 1)..h : p \in 1..h
    BY <1>1
  <2>5. \A p \in 1..g : a[p] = stack[p]
    BY <1>8, <2>2, <2>3
  <2>6. \A p \in (g + 1)..h : a[p] \in Held
    BY <1>8, <2>2, <2>4
  <2> QED BY <1>1, <2>1, <2>5, <2>6 DEF AboveFrame
<1>10. KindOfFrame(a, h, c, t)
  BY <1>3, <1>5, <1>8, Zenon DEF KindOfFrame
<1>11. h + 2 + t <= StackWords
  <2>1. t = NumTemps[c] + Len(closures[b].copied)
    BY <1>3, <1>5 DEF BlockTemps
  <2>2. ~(h + 2 + t > StackWords)
    BY <1>2, <1>3, <2>1 DEF StackOverflow
  <2> QED BY <1>8, <2>2, BoundAssumption
<1>12. Enter(a, h, c) /\ Len(st) = h
  BY <1>2, <1>3, <1>4
<1>13. \/ calls' = SubSeq(calls, 1, m)
       \/ (\E r : NewCall(r, g, h) /\ r.ip = i /\ calls' = Append(SubSeq(calls, 1, m), r)) /\ n = 0
  BY <1>2
<1> QED
  BY <1>8, <1>9, <1>10, <1>11, <1>12, <1>13, EnterFrame

\* The operands of the running frame are above it.
LEMMA OperandsAbove ==
  ASSUME IInv, Running, NEW n \in Nat, Operands > n
  PROVE  /\ stack \in Seq(Held \cup FrameWord) /\ AboveFrame(stack, Len(stack), fp, n)
         /\ TopOp(n) \in Held
<1>1. /\ stack \in Seq(Held \cup FrameWord) /\ SP \in Nat /\ fp \in FrameSet /\ fp \in Nat
      /\ TempCount(fp) \in Nat /\ OperandBase(fp) = fp + 1 + TempCount(fp)
      /\ \A p \in (fp + 1)..SP : stack[p] \in Held
  BY RunningFacts
<1>2. OperandBase(fp) + n + 1 <= SP /\ SP = Len(stack)
  BY <1>1 DEF Operands, SP
<1>3. n \in 0..(Operands - 1)
  BY <1>1 DEF Operands
<1> QED
  BY <1>1, <1>2, <1>3, OperandsHeld DEF AboveFrame

\* send
LEMMA SendStep ==
  ASSUME IInv, Send
  PROVE  IInv'
<1>1. At("send") /\ Running
  BY DEF Send, At
<1>2. PICK c \in Methods :
        /\ Operands > NumArgs[c]
        /\ IF StackOverflow(SP, NumTemps[c]) THEN Overflow
           ELSE /\ Enter(activate_method(stack, fp, Next1(ip), c, NumArgs[c], NumTemps[c]), SP, c)
                /\ UNCHANGED <<calls, heap>>
  BY DEF Send
<1>3. CASE StackOverflow(SP, NumTemps[c])
  BY <1>2, <1>3, StopBytecodes
<1>4. CASE ~StackOverflow(SP, NumTemps[c])
  <2>1. NumArgs[c] \in Nat
    BY CodeAssumption DEF Code
  <2>2. stack \in Seq(Held \cup FrameWord) /\ AboveFrame(stack, Len(stack), fp, NumArgs[c])
    BY <1>1, <1>2, <2>1, OperandsAbove
  <2>3. ResumesIn(Next1(ip), fp)
    BY <1>1, NextIp, RunningFacts DEF ResumesIn, TopInv
  <2>4. /\ ~StackOverflow(Len(stack), NumTemps[c])
        /\ Enter(activate_method(stack, fp, Next1(ip), c, NumArgs[c], NumTemps[c]), Len(stack), c)
        /\ UNCHANGED <<calls, heap>>
    BY <1>2, <1>4 DEF SP
  <2> QED BY <1>1, <2>2, <2>3, <2>4, EnterMethod
<1> QED
  BY <1>3, <1>4

\* value
LEMMA SendValueStep ==
  ASSUME IInv, SendValue
  PROVE  IInv'
<1>1. At("call") /\ Running
  BY DEF SendValue, At
<1>2. PICK n \in 0..1 :
        /\ Operands > n /\ TopOp(n).k = "block"
        /\ IF StackOverflow(SP, NumTemps[closures[TopOp(n).v].method] + Len(closures[TopOp(n).v].copied))
             THEN Overflow
             ELSE /\ Enter(activate_block_call(stack, fp, Next1(ip), TopOp(n).v, n), SP,
                           closures[TopOp(n).v].method)
                  /\ UNCHANGED <<calls, heap>>
  BY DEF SendValue
<1>3. PICK b : b = TopOp(n).v
  OBVIOUS
<1>4. stack \in Seq(Held \cup FrameWord) /\ AboveFrame(stack, Len(stack), fp, n) /\ TopOp(n) \in Held
  BY <1>1, <1>2, OperandsAbove
<1>5. b \in 1..Len(closures)
  BY <1>2, <1>3, <1>4, HeldKinds
<1>6. CASE StackOverflow(SP, NumTemps[closures[b].method] + Len(closures[b].copied))
  BY <1>2, <1>3, <1>6, StopBytecodes
<1>7. CASE ~StackOverflow(SP, NumTemps[closures[b].method] + Len(closures[b].copied))
  <2>1. ResumesIn(Next1(ip), fp)
    BY <1>1, NextIp, RunningFacts DEF ResumesIn, TopInv
  <2>2. /\ ~StackOverflow(Len(stack), NumTemps[closures[b].method] + Len(closures[b].copied))
        /\ Enter(activate_block_call(stack, fp, Next1(ip), b, n), Len(stack), closures[b].method)
        /\ UNCHANGED <<calls, heap>>
    BY <1>2, <1>3, <1>7 DEF SP
  <2>3. /\ Len(calls) \in 1..Len(calls) /\ calls[Len(calls)].entry <= fp
        /\ calls' = SubSeq(calls, 1, Len(calls)) /\ UNCHANGED heap
    BY <1>1, <2>2, RunningFacts
  <2>4. PICK m \in 1..Len(calls) : m = Len(calls)
    BY <2>3
  <2>5. calls[m].entry <= fp /\ calls' = SubSeq(calls, 1, m)
    BY <2>3, <2>4
  <2> QED BY <1>1, <1>4, <1>5, <2>1, <2>2, <2>3, <2>5, EnterBlock
<1> QED
  BY <1>6, <1>7

\* cannotReturn:
LEMMA SendCannotReturnStep ==
  ASSUME IInv, SendCannotReturn
  PROVE  IInv'
<1>1. Running /\ Operands > 0 /\ Frame(fp).isBlock
  BY DEF SendCannotReturn, MayReturnNonLocal, At
<1>2. PICK st : st = Append([stack EXCEPT ![SP] = block_closure_for_frame(fp)], TopOp(0))
  OBVIOUS
<1>3. PICK c \in Methods :
        /\ NumArgs[c] = 1
        /\ IF StackOverflow(SP + 1, NumTemps[c]) THEN Overflow
           ELSE /\ Enter(activate_method(st, fp, After, c, 1, NumTemps[c]), SP + 1, c)
                /\ UNCHANGED <<calls, heap>>
  BY <1>2 DEF SendCannotReturn
<1>4. /\ stack \in Seq(Held \cup FrameWord) /\ AboveFrame(stack, Len(stack), fp, 0) /\ TopOp(0) \in Held
  BY <1>1, OperandsAbove
<1>5. /\ SP \in Nat /\ SP = Len(stack) /\ fp \in FrameSet /\ fp \in Nat
      /\ TempCount(fp) \in Nat /\ OperandBase(fp) = fp + 1 + TempCount(fp) /\ fp \in 1..SP
      /\ FramesInv
  BY <1>1, RunningFacts DEF SP
<1>6. PICK w \in Held : w = block_closure_for_frame(fp)
  <2>1. block_closure_for_frame(fp) \in SomeBlock
    BY <1>1, <1>5 DEF FramesInv, ClosureOK
  <2> QED BY <2>1 DEF Held
<1>7. PICK top \in Held : top = TopOp(0)
  BY <1>4
<1>8. PICK u : u = [stack EXCEPT ![SP] = w]
  OBVIOUS
<1>9. /\ u \in Seq(Held \cup FrameWord) /\ Len(u) = SP
      /\ \A p \in 1..SP : u[p] = IF p = SP THEN w ELSE stack[p]
  BY <1>4, <1>5, <1>8
<1>10. /\ st \in Seq(Held \cup FrameWord) /\ Len(st) = SP + 1 /\ st[SP + 1] = top
       /\ \A p \in 1..SP : st[p] = u[p]
  <2>1. st = Append(u, top)
    BY <1>2, <1>6, <1>7, <1>8
  <2>2. PICK W : W = Held \cup FrameWord
    OBVIOUS
  <2>3. u \in Seq(W) /\ top \in W /\ SP = Len(u)
    BY <1>9, <2>2
  <2>4. st \in Seq(W) /\ Len(st) = Len(u) + 1 /\ st[Len(u) + 1] = top
        /\ \A p \in 1..Len(u) : st[p] = u[p]
    BY <2>1, <2>3
  <2> QED BY <2>2, <2>3, <2>4
<1>11. AboveFrame(st, Len(st), fp, 1)
  <2>1. OperandBase(fp) + 1 + 1 <= SP + 1 /\ SP # fp
    BY <1>4, <1>5 DEF AboveFrame
  <2>2. (\A p \in 1..fp : stack[p] = stack[p] /\ p \in 1..SP /\ p # SP) /\ \A p \in (fp + 1)..SP : stack[p] \in Held
    BY <1>4, <1>5, <2>1 DEF AboveFrame
  <2>3. \A p \in 1..fp : st[p] = stack[p]
    BY <1>9, <1>10, <2>2
  <2>4. \A p \in (fp + 1)..(SP + 1) : st[p] \in Held
    <3> TAKE p \in (fp + 1)..(SP + 1)
    <3>1. p = SP + 1 \/ (p \in 1..SP /\ p \in (fp + 1)..SP)
      BY <1>5
    <3> QED BY <1>9, <1>10, <2>2, <3>1
  <2>5. SP + 1 \in Nat
    BY <1>5
  <2> QED BY <1>5, <1>10, <2>1, <2>3, <2>4, <2>5 DEF AboveFrame
<1>12. CASE StackOverflow(SP + 1, NumTemps[c])
  BY <1>3, <1>12, StopBytecodes
<1>13. CASE ~StackOverflow(SP + 1, NumTemps[c])
  <2>1. ResumesIn(After, fp)
    BY DEF ResumesIn
  <2>2. /\ ~StackOverflow(Len(st), NumTemps[c])
        /\ Enter(activate_method(st, fp, After, c, NumArgs[c], NumTemps[c]), Len(st), c)
        /\ UNCHANGED <<calls, heap>> /\ AboveFrame(st, Len(st), fp, NumArgs[c])
    BY <1>3, <1>10, <1>11, <1>13
  <2> HIDE DEF After
  <2> QED BY <1>1, <1>10, <2>1, <2>2, EnterMethod
<1> QED
  BY <1>12, <1>13


-----------------------------------------------------------------------------
(* Primitives that run a block in an interpret() of their own. *)

\* What the primitive that calls from frame g keeps, with at least the words it
\* will cut back to among the h words on the stack.
Waits(call, g, h) ==
  /\ call.kind \in {"ensure", "onDo", "transaction", "cleanup"}
  /\ call.savedSp \in Nat /\ OperandBase(g) <= call.savedSp /\ call.savedSp <= h
  /\ call.ip \in Ip /\ call.ip.m = call.base /\ call.base = Frame(g).method
  /\ call.cleanup \in Held /\ call.result \in Held
  /\ call.kind = "ensure" => IsThunk(call.cleanup)

\* invoke_block_closure keeps the frames.
LEMMA InvokeStep ==
  ASSUME IInv, Running, NEW st \in Seq(Held \cup FrameWord), NEW g, NEW b \in 1..Len(closures),
         NEW call, Waits(call, g, Len(st)),
         g \in FrameSet, OperandBase(g) <= Len(st),
         \A p \in 1..g : st[p] = stack[p], \A p \in (g + 1)..Len(st) : st[p] \in Held,
         NEW m \in 1..Len(calls), calls[m].entry <= g, call.level = m + 1,
         Invoke(st, b, g, call)
  PROVE  IInv'
<1>1. /\ HeapInv /\ StackInv /\ FramesInv
      /\ g \in Nat /\ OperandBase(g) \in Nat /\ g < OperandBase(g) /\ Frame(g) \in FrameWord
  BY RunningFacts, FrameFacts DEF Frame
<1>2. PICK on : on = Append(st, Blk(b))
  OBVIOUS
<1>3. PICK h \in Nat : h = Len(st)
  OBVIOUS
<1>4. Blk(b) \in Held
  BY DEF Held, SomeBlock
<1>5. /\ on \in Seq(Held \cup FrameWord) /\ Len(on) = h + 1 /\ on[h + 1] = Blk(b)
      /\ \A p \in 1..h : on[p] = st[p]
  BY <1>2, <1>3, <1>4
<1>6. AboveFrame(on, Len(on), g, 0)
  <2>1. OperandBase(g) + 0 + 1 <= h + 1 /\ h + 1 \in Nat
    BY <1>1, <1>3
  <2>2. ASSUME NEW p \in 1..g PROVE on[p] = stack[p]
    <3>1. p \in 1..h
      BY <1>1, <1>3
    <3> QED BY <1>5, <3>1
  <2>3. ASSUME NEW p \in (g + 1)..(h + 1) PROVE on[p] \in Held
    <3>1. p = h + 1 \/ (p \in 1..h /\ p \in (g + 1)..h)
      BY <1>1
    <3> QED BY <1>3, <1>4, <1>5, <3>1
  <2> QED BY <1>5, <2>1, <2>2, <2>3 DEF AboveFrame
<1>7. CASE StackOverflow(Len(on), NumTemps[closures[b].method] + Len(closures[b].copied))
  <2>1. Overflow
    BY <1>2, <1>7 DEF Invoke
  <2> QED BY <2>1, StopBytecodes
<1>8. CASE ~StackOverflow(Len(on), NumTemps[closures[b].method] + Len(closures[b].copied))
  <2>1. PICK r : r = [entry |-> Len(on) + 1, kind |-> call.kind, savedSp |-> call.savedSp,
                      savedFp |-> g, ip |-> call.ip, base |-> call.base,
                      cleanup |-> call.cleanup, result |-> call.result]
    OBVIOUS
  <2>2. /\ Enter(activate_block_call(on, g, call.ip, b, 0), Len(on), closures[b].method)
        /\ calls' = Append(SubSeq(calls, 1, call.level - 1), r)
        /\ UNCHANGED heap
    BY <1>2, <1>8, <2>1 DEF Invoke
  <2>3. call.level - 1 = m
    OBVIOUS
  <2>4. NewCall(r, g, Len(on))
    <3> HIDE DEF Ip
    <3>1. /\ r.entry = Len(on) + 1 /\ r.kind = call.kind /\ r.savedSp = call.savedSp /\ r.savedFp = g
          /\ r.ip = call.ip /\ r.base = call.base /\ r.cleanup = call.cleanup /\ r.result = call.result
      BY <2>1
    <3>2. call.base \in Code
      BY <1>1, FrameParts DEF Waits
    <3>3. r \in CallRecord
      <4>1. Len(on) + 1 \in Nat /\ g \in {NULL, CAFE} \cup Nat
        BY <1>1, <1>5
      <4>2. /\ call.kind \in {"host", "ensure", "onDo", "transaction", "cleanup"}
            /\ call.savedSp \in Nat /\ call.ip \in Ip \cup {NoIp}
            /\ call.cleanup \in Held /\ call.result \in Held
        BY DEF Waits
      <4> HIDE DEF NoIp
      <4> QED BY <2>1, <3>2, <4>1, <4>2 DEF CallRecord
    <3>4. OperandBase(g) <= r.savedSp /\ r.savedSp + 1 <= Len(on)
      BY <1>1, <1>3, <1>5, <3>1 DEF Waits
    <3>5. /\ r.ip \in Ip /\ r.ip.m = r.base /\ r.base = Frame(g).method /\ r.kind # "host"
          /\ r.kind = "ensure" => IsThunk(r.cleanup)
      BY <3>1 DEF Waits
    <3> QED BY <3>1, <3>3, <3>4, <3>5 DEF NewCall
  <2>5. ResumesIn(call.ip, g)
    <3> HIDE DEF Ip, After
    <3> QED BY DEF Waits, ResumesIn
  <2>6. PICK i : i = call.ip
    OBVIOUS
  <2>7. /\ Enter(activate_block_call(on, g, i, b, 0), Len(on), closures[b].method)
        /\ ResumesIn(i, g)
        /\ (\E x : NewCall(x, g, Len(on)) /\ x.ip = i /\ calls' = Append(SubSeq(calls, 1, m), x)) /\ 0 = 0
    <3>1. r.ip = i
      BY <2>1, <2>6
    <3> QED BY <2>2, <2>3, <2>4, <2>5, <2>6, <3>1
  <2> QED BY <1>5, <1>6, <1>8, <2>2, <2>7, EnterBlock
<1> QED
  BY <1>7, <1>8

\* A block without arguments that the program holds.
LEMMA Thunks ==
  ASSUME NEW w \in Held, IsThunk(w)
  PROVE  w.v \in 1..Len(closures)
BY HeldKinds DEF IsThunk

\* invoke_block_closure runs block b, for a primitive that waits in frame g; the
\* interpret()s after the m-th run frames above it and have answered.
Invokes(st, g, b, call, m) ==
  /\ st \in Seq(Held \cup FrameWord) /\ b \in 1..Len(closures)
  /\ Waits(call, g, Len(st)) /\ g \in FrameSet /\ OperandBase(g) <= Len(st)
  /\ \A p \in 1..g : st[p] = stack[p]
  /\ \A p \in (g + 1)..Len(st) : st[p] \in Held
  /\ \A p \in 1..call.savedSp : st[p] = stack[p]
  /\ m \in 1..Len(calls) /\ calls[m].entry <= g /\ call.level = m + 1
  /\ \A k \in (m + 1)..Len(calls) : g < calls[k].entry
  /\ Invoke(st, b, g, call)

\* What ensure:, on:do: and the transactions call: block b, the i-th of n operands.
Protecting(kind, n, i, b, call, st) ==
  /\ Running /\ n \in 2..3 /\ i \in 1..n /\ n <= Operands /\ stack[SP - n + i] = Blk(b)
  /\ Invokes(st, fp, b, call, Len(calls))
  /\ call.kind = kind /\ kind \in {"ensure", "onDo", "transaction"}
  /\ call.savedSp = SP - n /\ call.ip.pc = ip.pc + 1
  /\ kind = "ensure" => n = 2 /\ call.cleanup = stack[SP]

\* Every protected call has such parts.
LEMMA ProtectedCall ==
  ASSUME IInv, SendProtected
  PROVE  \E kind, n, i, b, call, st : Protecting(kind, n, i, b, call, st)
<1>1. At("protect") /\ Running
  BY DEF SendProtected, At
<1>2. PICK kind \in {"ensure", "onDo", "transaction"} :
        LET n     == IF kind = "onDo" THEN 3 ELSE 2
            block == IF kind = "transaction" THEN TopOp(0) ELSE TopOp(n - 1)
            under == SubSeq(stack, 1, SP - n)
        IN /\ Operands >= n
           /\ IsThunk(block)
           /\ kind = "ensure" => IsThunk(TopOp(0))
           /\ Invoke(IF kind = "onDo" THEN under ELSE stack, block.v, fp,
                     [level |-> Len(calls) + 1, kind |-> kind, savedSp |-> SP - n,
                      ip |-> Next1(ip), base |-> base, result |-> Zero,
                      cleanup |-> IF kind = "ensure" THEN TopOp(0) ELSE Zero])
  BY DEF SendProtected
<1>3. PICK n \in 2..3 : n = IF kind = "onDo" THEN 3 ELSE 2
  OBVIOUS
<1>4. PICK block : block = IF kind = "transaction" THEN TopOp(0) ELSE TopOp(n - 1)
  OBVIOUS
<1>5. PICK under : under = SubSeq(stack, 1, SP - n)
  OBVIOUS
<1>6. PICK st : st = IF kind = "onDo" THEN under ELSE stack
  OBVIOUS
<1>7. PICK call : call = [level |-> Len(calls) + 1, kind |-> kind, savedSp |-> SP - n,
                          ip |-> Next1(ip), base |-> base, result |-> Zero,
                          cleanup |-> IF kind = "ensure" THEN TopOp(0) ELSE Zero]
  OBVIOUS
<1>8. PICK g : g = fp
  OBVIOUS
<1>9. /\ Operands >= n /\ IsThunk(block) /\ (kind = "ensure" => IsThunk(TopOp(0)))
      /\ Invoke(st, block.v, g, call)
  BY <1>2, <1>3, <1>4, <1>5, <1>6, <1>7, <1>8
<1>10. /\ stack \in Seq(Held \cup FrameWord) /\ SP \in Nat /\ SP = Len(stack)
       /\ g \in FrameSet /\ g \in Nat /\ OperandBase(g) \in Nat /\ g < OperandBase(g)
       /\ base = Frame(g).method /\ Len(calls) \in Nat /\ Len(calls) \in 1..Len(calls)
       /\ calls[Len(calls)].entry <= g
       /\ \A p \in (g + 1)..SP : stack[p] \in Held
  BY <1>1, <1>8, RunningFacts DEF TopInv, SP
<1>11. OperandBase(g) <= SP - n /\ SP - n \in Nat /\ SP - n <= SP
  BY <1>8, <1>9, <1>10 DEF Operands
<1>12. TopOp(0) \in Held /\ TopOp(n - 1) \in Held
  <2>1. 0 \in 0..(Operands - 1) /\ n - 1 \in 0..(Operands - 1)
    BY <1>8, <1>9, <1>10 DEF Operands
  <2> QED BY <1>1, <2>1, OperandsHeld
<1>13. block \in Held /\ block.v \in 1..Len(closures)
  <2>1. block \in Held
    BY <1>4, <1>12
  <2> QED BY <1>9, <2>1, Thunks
<1>14. PICK b \in 1..Len(closures) : b = block.v
  BY <1>13
<1>15. /\ under \in Seq(Held \cup FrameWord) /\ Len(under) = SP - n
       /\ \A p \in 1..(SP - n) : under[p] = stack[p]
  BY <1>5, <1>10, <1>11
<1>16. /\ st \in Seq(Held \cup FrameWord) /\ Len(st) \in Nat /\ SP - n <= Len(st) /\ Len(st) <= SP
       /\ \A p \in 1..Len(st) : st[p] = stack[p]
  <2>1. CASE st = under
    BY <1>10, <1>11, <1>15, <2>1
  <2>2. CASE st = stack
    BY <1>10, <1>11, <2>2
  <2> QED BY <1>6, <2>1, <2>2
<1>17. Waits(call, g, Len(st))
  <2> HIDE DEF Ip
  <2>1. /\ call.kind = kind /\ call.savedSp = SP - n /\ call.ip = Next1(ip) /\ call.base = base
        /\ call.result = Zero /\ call.cleanup = IF kind = "ensure" THEN TopOp(0) ELSE Zero
    BY <1>7
  <2>2. Next1(ip) \in Ip /\ Next1(ip).m = base
    BY <1>1, NextIp
  <2>3. Zero \in Held
    BY HeldValues
  <2>4. call.cleanup \in Held /\ (call.kind = "ensure" => IsThunk(call.cleanup))
    BY <1>9, <1>12, <2>1, <2>3
  <2>5. call.kind \in {"ensure", "onDo", "transaction", "cleanup"}
    BY <2>1
  <2> QED BY <1>10, <1>11, <1>16, <2>1, <2>2, <2>3, <2>4, <2>5 DEF Waits
<1>18. PICK m \in 1..Len(calls) : m = Len(calls)
  BY <1>10
<1>19. /\ calls[m].entry <= g /\ call.level = m + 1 /\ Invoke(st, b, g, call)
       /\ OperandBase(g) <= Len(st)
  BY <1>7, <1>9, <1>10, <1>11, <1>14, <1>16, <1>18
<1>20. (\A p \in 1..g : st[p] = stack[p]) /\ \A p \in (g + 1)..Len(st) : st[p] \in Held
  <2>1. (\A p \in 1..g : p \in 1..Len(st)) /\ \A p \in (g + 1)..Len(st) : p \in 1..Len(st) /\ p \in (g + 1)..SP
    BY <1>10, <1>16, <1>19
  <2> QED BY <1>10, <1>16, <2>1
<1>21. call.kind = kind /\ call.savedSp = SP - n /\ call.ip = Next1(ip)
       /\ (kind = "ensure" => call.cleanup = TopOp(0))
  BY <1>7
<1>22. Invokes(st, g, b, call, m)
  <2>1. \A p \in 1..call.savedSp : st[p] = stack[p]
    <3>1. \A p \in 1..call.savedSp : p \in 1..Len(st)
      BY <1>11, <1>16, <1>21
    <3> QED BY <1>16, <3>1
  <2>2. \A k \in (m + 1)..Len(calls) : g < calls[k].entry
    <3>1. ASSUME NEW k \in (m + 1)..Len(calls) PROVE FALSE
      BY <1>10, <1>18
    <3> QED BY <3>1
  <2> QED BY <1>10, <1>16, <1>17, <1>18, <1>19, <1>20, <2>1, <2>2, Zenon DEF Invokes
<1>23. PICK i \in 1..n : stack[SP - n + i] = block
  <2>1. SP - n + 1 = SP - (n - 1) /\ SP - n + n = SP - 0 /\ 1 \in 1..n /\ n \in 1..n
    BY <1>10
  <2> QED BY <1>4, <2>1 DEF TopOp
<1>24. block = Blk(b)
  <2>1. block.k = "block"
    BY <1>9 DEF IsThunk
  <2> QED BY <1>13, <1>14, <2>1, HeldKinds
<1>25. call.ip.pc = ip.pc + 1
  <2>1. ip \in Ip
    BY <1>1, NextIp
  <2> QED BY <1>21, <2>1 DEF Next1, Ip
<1>26. kind = "ensure" => n = 2 /\ call.cleanup = stack[SP]
  BY <1>3, <1>10, <1>21 DEF TopOp
<1>27. Protecting(kind, n, i, b, call, st)
  BY <1>1, <1>8, <1>9, <1>18, <1>21, <1>22, <1>23, <1>24, <1>25, <1>26 DEF Protecting
<1> QED
  BY <1>27

\* ensure:, on:do: and transaction:
LEMMA SendProtectedStep ==
  ASSUME IInv, SendProtected
  PROVE  IInv'
<1>1. PICK kind, n, i, b, call, st : Protecting(kind, n, i, b, call, st)
  BY ProtectedCall
<1>2. PICK g, m : g = fp /\ m = Len(calls)
  OBVIOUS
<1>3. Running /\ Invokes(st, g, b, call, m)
  BY <1>1, <1>2 DEF Protecting
<1>4. /\ st \in Seq(Held \cup FrameWord) /\ b \in 1..Len(closures) /\ Waits(call, g, Len(st))
      /\ g \in FrameSet /\ OperandBase(g) <= Len(st)
      /\ (\A p \in 1..g : st[p] = stack[p]) /\ \A p \in (g + 1)..Len(st) : st[p] \in Held
      /\ m \in 1..Len(calls) /\ calls[m].entry <= g /\ call.level = m + 1 /\ Invoke(st, b, g, call)
  BY <1>3 DEF Invokes
<1> QED
  BY <1>3, <1>4, InvokeStep

\* The primitive of the innermost interpret() finds its words on the stack.
LEMMA WaitingCall ==
  ASSUME IInv, Running, calls[Len(calls)].kind # "host"
  PROVE  LET c == calls[Len(calls)] IN
         /\ Len(calls) \in 2..Len(calls) /\ CallOK(Len(calls)) /\ c \in CallRecord
         /\ c.savedFp \in FrameSet /\ c.savedFp \in Nat /\ OperandBase(c.savedFp) \in Nat
         /\ c.savedFp < OperandBase(c.savedFp) /\ OperandBase(c.savedFp) <= c.savedSp
         /\ c.savedSp \in Nat /\ c.savedSp + 2 <= c.entry /\ c.entry = Entry /\ c.entry \in Nat
         /\ Frame(c.entry).numArgs = 0
         /\ \A p \in (c.savedFp + 1)..c.savedSp : p \in 1..SP /\ stack[p] \in Held
         /\ \A j \in 1..(Len(calls) - 1) : calls[j].entry <= c.savedFp
<1>1. /\ HeapInv /\ StackInv /\ FramesInv /\ CallsInv /\ SP \in Nat
      /\ calls \in Seq(CallRecord) /\ Len(calls) \in Nat /\ Len(calls) \in 1..Len(calls)
      /\ Entry = calls[Len(calls)].entry /\ Entry \in FrameSet
  BY RunningFacts
<1>2. Len(calls) \in 2..Len(calls)
  <2>1. Len(calls) # 1
    BY <1>1 DEF CallsInv
  <2>2. PICK k \in Nat : k = Len(calls)
    BY <1>1
  <2>3. k \in 1..k /\ k # 1
    BY <1>1, <2>1, <2>2
  <2>4. k \in 2..k
    BY <2>3
  <2> QED BY <2>2, <2>4
<1>3. PICK c \in CallRecord : c = calls[Len(calls)]
  BY <1>1
<1>4. CallOK(Len(calls))
  BY <1>1, <1>2 DEF CallsInv
<1>5. /\ c.savedFp \in FrameSet /\ c.savedFp = Frame(c.entry).savedFp
      /\ OperandBase(c.savedFp) <= c.savedSp /\ c.savedSp + 2 <= c.entry
      /\ Frame(c.entry).numArgs = 0
      /\ \A j \in 1..(Len(calls) - 1) : calls[j].entry <= c.savedFp
  BY <1>3, <1>4 DEF CallOK
<1>6. PICK g \in FrameSet : g = c.savedFp
  BY <1>5
<1>7. g \in Nat /\ OperandBase(g) \in Nat /\ g < OperandBase(g)
  BY <1>1, FrameFacts
<1>8. PICK e \in FrameSet : e = c.entry
  BY <1>1, <1>3
<1>9. e \in Nat /\ e \in 1..SP /\ Bottom \notin FrameSet
  <2>1. \A f \in FrameSet : f \in Nat /\ f > 0 /\ f \in 1..SP
    BY <1>1, FrameFacts
  <2> QED BY <2>1, BottomAssumption DEF NULL, CAFE
<1>10. c.savedSp \in Nat
  BY DEF CallRecord
<1>11. \A h \in FrameSet : h <= g \/ e <= h
  <2>1. Frame(e).savedFp = g /\ g # Bottom
    BY <1>5, <1>6, <1>8, <1>9
  <2> QED BY <1>1, <2>1 DEF FramesInv, CallerOK
<1>12. ASSUME NEW p \in (g + 1)..c.savedSp PROVE p \in 1..SP /\ stack[p] \in Held
  <2>1. p \in 1..SP /\ p < e /\ g < p
    BY <1>1, <1>5, <1>7, <1>8, <1>9, <1>10
  <2>2. p \notin FrameSet
    <3> SUFFICES ASSUME p \in FrameSet PROVE FALSE
      OBVIOUS
    <3>1. p <= g \/ e <= p
      BY <1>11
    <3> QED BY <1>7, <1>9, <2>1, <3>1
  <2> QED BY <1>1, <2>1, <2>2, Words
<1> QED
  BY <1>1, <1>2, <1>3, <1>4, <1>5, <1>6, <1>7, <1>8, <1>9, <1>10, <1>12

\* interpret() answers v, with at least the words of its primitive on st.
LEMMA AnswerStep ==
  ASSUME IInv, Running, NEW st \in Seq(Held \cup FrameWord), NEW v \in Held,
         calls[Len(calls)].kind # "host" =>
           Entry - 2 <= Len(st) /\ \A p \in 1..(Entry - 2) : st[p] = stack[p],
         Answer(st, v)
  PROVE  IInv'
<1>1. PICK call : call = calls[Len(calls)]
  OBVIOUS
<1>2. PICK under : under = Resized(st, call.savedSp)
  OBVIOUS
<1>3. CASE call.kind = "host"
  <2>1. outcome' = "done" /\ UNCHANGED <<registers, calls, heap, contextClass, born>>
    BY <1>1, <1>3 DEF Answer
  <2> QED BY <2>1, Stops
<1>4. CASE call.kind # "host"
  <2>1. /\ Len(calls) \in 2..Len(calls) /\ CallOK(Len(calls)) /\ call \in CallRecord
        /\ call.savedFp \in FrameSet /\ call.savedFp \in Nat /\ OperandBase(call.savedFp) \in Nat
        /\ call.savedFp < OperandBase(call.savedFp) /\ OperandBase(call.savedFp) <= call.savedSp
        /\ call.savedSp \in Nat /\ call.savedSp + 2 <= Entry /\ Entry \in Nat
        /\ \A p \in (call.savedFp + 1)..call.savedSp : p \in 1..SP /\ stack[p] \in Held
        /\ \A j \in 1..(Len(calls) - 1) : calls[j].entry <= call.savedFp
    BY <1>1, <1>4, WaitingCall
  <2>2. PICK g \in Nat : g = call.savedFp
    BY <2>1
  <2>3. PICK h \in Nat : h = call.savedSp
    BY <2>1
  <2>4. \A p \in 1..h : p \in 1..Len(st) /\ st[p] = stack[p]
    <3> TAKE p \in 1..h
    <3>1. p \in 1..(Entry - 2) /\ p \in 1..Len(st)
      BY <1>1, <1>4, <2>1, <2>3
    <3> QED BY <1>1, <1>4, <3>1
  <2>5. /\ under \in Seq(Held \cup FrameWord) /\ Len(under) = h
        /\ \A p \in 1..h : under[p] = stack[p]
    <3>1. under = [i \in 1..h |-> IF i <= Len(st) THEN st[i] ELSE Junk]
      BY <1>2, <2>3 DEF Resized
    <3>2. \A i \in 1..h : under[i] = st[i] /\ st[i] \in Held \cup FrameWord
      BY <2>4, <3>1
    <3> QED BY <2>4, <3>1, <3>2
  <2>6. g \in FrameSet /\ OperandBase(g) \in Nat /\ g < OperandBase(g) /\ OperandBase(g) <= h
    BY <2>1, <2>2, <2>3
  <2>7. (\A p \in 1..g : under[p] = stack[p]) /\ \A p \in (g + 1)..h : under[p] \in Held
    <3>1. (\A p \in 1..g : p \in 1..h) /\ \A p \in (g + 1)..h : p \in 1..h /\ stack[p] \in Held
      <4>1. \A p \in (g + 1)..h : stack[p] \in Held
        BY <2>1, <2>2, <2>3
      <4>2. g \in Nat /\ h \in Nat /\ g <= h
        BY <2>6
      <4> QED BY <4>1, <4>2
    <3> QED BY <2>5, <3>1
  <2>a. PICK k \in Nat : k = Len(calls)
    BY RunningFacts
  <2>b. k \in 2..k
    BY <2>1, <2>a
  <2>c. PICK m \in 1..k : m = k - 1
    BY <2>b
  <2>8. m \in 1..Len(calls) /\ m = Len(calls) - 1
    BY <2>a, <2>c
  <2>9. calls[m].entry <= g /\ m + 1 = Len(calls)
    <3>1. m \in 1..(k - 1) /\ m + 1 = k
      BY <2>b, <2>c
    <3> QED BY <2>1, <2>2, <2>a, <3>1
  <2>10. call.ip \in Ip /\ call.ip.m = call.base /\ call.base = Frame(g).method
    BY <1>1, <2>1, <2>2 DEF CallOK
  <2>11. CASE call.kind = "ensure"
    <3>1. IsThunk(call.cleanup) /\ call.cleanup \in Held
      BY <1>1, <2>1, <2>11 DEF CallOK, CallRecord
    <3>2. PICK b \in 1..Len(closures) : b = call.cleanup.v
      BY <3>1, Thunks
    <3>3. PICK rec : rec = [level |-> Len(calls), kind |-> "cleanup", savedSp |-> call.savedSp,
                            ip |-> call.ip, base |-> call.base, cleanup |-> Zero, result |-> v]
      OBVIOUS
    <3>4. Invoke(under, b, g, rec)
      BY <1>1, <1>2, <2>2, <2>11, <3>2, <3>3 DEF Answer
    <3>5. Waits(rec, g, Len(under))
      <4>1. Zero \in Held
        BY HeldValues
      <4>2. /\ rec.kind = "cleanup" /\ rec.savedSp = h /\ rec.ip = call.ip /\ rec.base = call.base
            /\ rec.cleanup = Zero /\ rec.result = v
        BY <2>3, <3>3
      <4> HIDE DEF Ip, Zero
      <4> QED BY <2>5, <2>6, <2>10, <4>1, <4>2 DEF Waits
    <3>6. rec.level = m + 1
      BY <2>9, <3>3
    <3>7. (\A p \in 1..g : under[p] = stack[p]) /\ \A p \in (g + 1)..Len(under) : under[p] \in Held
      BY <2>5, <2>7
    <3>8. g \in FrameSet /\ OperandBase(g) <= Len(under)
      BY <2>5, <2>6
    <3> QED BY <2>5, <2>8, <2>9, <3>4, <3>5, <3>6, <3>7, <3>8, InvokeStep
  <2>12. CASE call.kind # "ensure"
    <3>1. PICK w : w = IF call.kind = "cleanup" THEN call.result ELSE v
      OBVIOUS
    <3>2. /\ stack' = Append(under, w) /\ fp' = g /\ ip' = call.ip /\ base' = call.base
          /\ calls' = SubSeq(calls, 1, Len(calls) - 1)
          /\ UNCHANGED <<heap, contextClass, born, outcome>>
      BY <1>1, <1>2, <1>4, <2>2, <2>12, <3>1 DEF Answer
    <3>3. w \in Held
      BY <2>1, <3>1 DEF CallRecord
    <3>4. /\ stack' \in Seq(Held \cup FrameWord) /\ SP' = h + 1 /\ stack'[h + 1] = w
          /\ \A p \in 1..h : stack'[p] = under[p]
      BY <2>5, <3>2, <3>3 DEF SP
    <3>5. \A p \in (g + 1)..SP' : stack'[p] \in Held
      <4> TAKE p \in (g + 1)..SP'
      <4>1. p = h + 1 \/ (p \in 1..h /\ p \in (g + 1)..h)
        BY <3>4
      <4> QED BY <2>7, <3>3, <3>4, <4>1
    <3>6. KeptTo(g)
      <4>1. \A p \in 1..g : p \in 1..h
        BY <2>6
      <4>2. \A p \in 1..g : stack'[p] = stack[p]
        BY <2>5, <3>4, <4>1
      <4>3. SP' \in Nat /\ g <= SP'
        BY <2>6, <3>4
      <4> QED BY <2>6, <3>2, <4>2, <4>3 DEF KeptTo
    <3>7. OperandBase(g) <= SP'
      BY <2>6, <3>4
    <3>8. /\ fp' = g /\ base' = Frame(g).method
          /\ ip' = After \/ (ip' \in Ip /\ ip'.m = Frame(g).method)
          /\ calls' = SubSeq(calls, 1, m)
          /\ UNCHANGED <<contextClass, born, outcome>>
      BY <2>8, <2>10, <3>2
    <3> HIDE DEF Ip, After
    <3> QED BY <2>8, <2>9, <3>4, <3>5, <3>6, <3>7, <3>8, BackTo
  <2> QED BY <2>11, <2>12
<1> QED
  BY <1>3, <1>4


-----------------------------------------------------------------------------
(* The walk down the stack. *)

\* The sequence c goes from frame f to the frame the host called.
IsChain(c, f) ==
  /\ c \in Seq(1..StackWords) /\ Len(c) \in Nat /\ Len(c) > 0 /\ c[1] = f
  /\ \A i \in 1..Len(c) : c[i] \in FrameSet
  /\ \A i \in 1..(Len(c) - 1) :
       /\ i \in 1..Len(c) /\ i + 1 \in 1..Len(c)
       /\ Frame(c[i]).savedFp = c[i + 1] /\ c[i + 1] < c[i]
  /\ Frame(c[Len(c)]).savedFp = Bottom

\* The walk follows the saved fps.
LEMMA ChainFacts ==
  ASSUME StackInv, HeapInv, FramesInv, NEW f \in FrameSet
  PROVE  IsChain(Chain(f), f)
<1>1. /\ StackWords \in Nat
      /\ \A g \in FrameSet : /\ g \in Nat /\ g \in 1..StackWords
                             /\ \/ Frame(g).savedFp = Bottom /\ Bottom \notin FrameSet
                                \/ Frame(g).savedFp \in FrameSet /\ Frame(g).savedFp < g
  <2>1. ASSUME NEW g \in FrameSet
        PROVE  /\ g \in Nat /\ g \in 1..StackWords
               /\ \/ Frame(g).savedFp = Bottom /\ Bottom \notin FrameSet
                  \/ Frame(g).savedFp \in FrameSet /\ Frame(g).savedFp < g
    <3>1. /\ g \in Nat /\ g > 0 /\ OperandBase(g) \in Nat /\ g < OperandBase(g) /\ OperandBase(g) <= StackWords
          /\ \/ Frame(g).savedFp = Bottom /\ Bottom \notin FrameSet
             \/ Frame(g).savedFp \in FrameSet /\ Frame(g).savedFp < g
      BY FrameFacts DEF FramesInv
    <3>2. g \in 1..StackWords
      BY <3>1, BoundAssumption
    <3> QED BY <3>1, <3>2
  <2> QED BY <2>1, BoundAssumption
<1>2. PICK s : s = [g \in 1..StackWords |-> Frame(g).savedFp]
  OBVIOUS
<1>3. PICK From : From = CHOOSE F : F = [g \in 1..StackWords |->
        <<g>> \o IF Frame(g).savedFp \in 1..(g - 1) THEN F[Frame(g).savedFp] ELSE <<>>]
  OBVIOUS
<1>4. Descents(From, StackWords, s)
  <2>1. PICK h : Descents(h, StackWords, s)
    BY <1>1, DescentsExist
  <2>2. h = [g \in 1..StackWords |->
              <<g>> \o IF Frame(g).savedFp \in 1..(g - 1) THEN h[Frame(g).savedFp] ELSE <<>>]
    BY <1>2, <2>1 DEF Descents
  <2>3. From = [g \in 1..StackWords |->
              <<g>> \o IF Frame(g).savedFp \in 1..(g - 1) THEN From[Frame(g).savedFp] ELSE <<>>]
    BY <1>3, <2>2
  <2> QED BY <1>2, <2>3 DEF Descents
<1>5. f \notin {NULL, CAFE}
  BY <1>1 DEF NULL, CAFE
<1>6. Chain(f) = From[f]
  BY <1>3, <1>5 DEF Chain
<1>7. PICK c : c = Chain(f)
  OBVIOUS
<1>8. DescendsFrom(c, f, StackWords, s)
  BY <1>1, <1>4, <1>6, <1>7, DescentsDescend
<1>9. PICK l \in Nat : l = Len(c)
  BY <1>8 DEF DescendsFrom
<1>10. /\ c \in Seq(1..StackWords) /\ l > 0 /\ c[1] = f
       /\ \A i \in 1..(l - 1) : i \in 1..l /\ i + 1 \in 1..l /\ c[i + 1] = s[c[i]] /\ c[i + 1] < c[i]
       /\ s[c[l]] \notin 1..(c[l] - 1)
  BY <1>8, <1>9 DEF DescendsFrom
<1>11. \A j \in 1..l : c[j] \in 1..StackWords
  <2>1. PICK W : W = 1..StackWords
    OBVIOUS
  <2>2. c \in Seq(W)
    BY <1>10, <2>1
  <2>3. \A j \in 1..Len(c) : c[j] \in W
    BY <2>2
  <2> QED BY <1>9, <2>1, <2>3
<1>12. \A i \in 1..l : c[i] \in FrameSet
  <2> DEFINE S == {i \in Nat : i + 1 \in 1..l => c[i + 1] \in FrameSet}
  <2>1. 0 \in S
    BY <1>10
  <2>2. ASSUME NEW i \in Nat, i \in S PROVE i + 1 \in S
    <3> SUFFICES ASSUME (i + 1) + 1 \in 1..l PROVE c[(i + 1) + 1] \in FrameSet
      OBVIOUS
    <3>1. i + 1 \in 1..(l - 1) /\ i + 1 \in 1..l
      OBVIOUS
    <3>2. PICK g \in FrameSet : g = c[i + 1]
      BY <2>2, <3>1
    <3>3. c[(i + 1) + 1] = s[g] /\ c[(i + 1) + 1] \in 1..StackWords
      <4>1. \A j \in 1..l : c[j] \in 1..StackWords
        BY <1>11
      <4>2. \A j \in 1..(l - 1) : c[j + 1] = s[c[j]]
        BY <1>10
      <4>3. c[(i + 1) + 1] = s[c[i + 1]]
        BY <3>1, <4>2
      <4> QED BY <3>2, <4>1, <4>3
    <3>4. s[g] = Frame(g).savedFp
      BY <1>1, <1>2
    <3> QED BY <1>1, <3>3, <3>4, BottomAssumption DEF NULL, CAFE
  <2> HIDE DEF S
  <2>3. Nat \subseteq S
    BY <2>1, <2>2, NatSetInduction
  <2>4. ASSUME NEW i \in 1..l PROVE c[i] \in FrameSet
    <3>1. i - 1 \in S /\ (i - 1) + 1 = i
      BY <2>3
    <3> QED BY <3>1 DEF S
  <2> QED BY <2>4
<1>13. \A i \in 1..l : s[c[i]] = Frame(c[i]).savedFp
  BY <1>1, <1>2, <1>12
<1>14. Frame(c[l]).savedFp = Bottom
  <2>1. c[l] \in FrameSet /\ Frame(c[l]).savedFp \notin 1..(c[l] - 1)
    BY <1>10, <1>12, <1>13
  <2>2. Frame(c[l]).savedFp \in FrameSet /\ Frame(c[l]).savedFp < c[l] => Frame(c[l]).savedFp \in 1..(c[l] - 1)
    BY <1>1, <2>1
  <2> QED BY <1>1, <2>1, <2>2
<1> QED
  BY <1>7, <1>9, <1>10, <1>12, <1>13, <1>14 DEF IsChain

\* From the running frame the walk meets every frame on the stack.
LEMMA ChainWhole ==
  ASSUME IInv, Running
  PROVE  InChain(fp) = FrameSet
<1>1. StackInv /\ HeapInv /\ FramesInv /\ fp \in FrameSet /\ \A h \in FrameSet : h <= fp
  BY RunningFacts DEF TopInv
<1>2. PICK c : c = Chain(fp)
  OBVIOUS
<1>3. IsChain(c, fp)
  BY <1>1, <1>2, ChainFacts
<1>4. PICK l \in Nat : l = Len(c)
  BY <1>3 DEF IsChain
<1>5. /\ l > 0 /\ c[1] = fp /\ \A i \in 1..l : c[i] \in FrameSet
      /\ \A i \in 1..(l - 1) : i \in 1..l /\ i + 1 \in 1..l /\ Frame(c[i]).savedFp = c[i + 1] /\ c[i + 1] < c[i]
      /\ Frame(c[l]).savedFp = Bottom
  BY <1>3, <1>4 DEF IsChain
<1>6. InChain(fp) = {c[i] : i \in 1..l}
  BY <1>2, <1>4 DEF InChain
<1>7. ASSUME NEW h \in FrameSet PROVE h \in {c[i] : i \in 1..l}
  <2> DEFINE T == {i \in 1..l : h <= c[i]}
  <2>1. T \in SUBSET (0..l) /\ 1 \in T
    BY <1>1, <1>5
  <2>2. PICK m \in T : \A k \in T : k <= m
    BY <2>1, NatMaximum
  <2>3. m \in 1..l /\ h <= c[m]
    OBVIOUS
  <2>4. c[m] \in FrameSet /\ c[m] \in Nat /\ h \in Nat
    BY <1>1, <1>5, <2>3, FrameFacts
  <2>5. CASE c[m] = h
    BY <2>3, <2>5
  <2>6. CASE c[m] # h
    <3>1. ~ \A g \in FrameSet : c[m] <= g
      BY <2>3, <2>4, <2>6
    <3>2. /\ Frame(c[m]).savedFp \in FrameSet
          /\ \A g \in FrameSet : g <= Frame(c[m]).savedFp \/ c[m] <= g
      BY <1>1, <2>4, <3>1 DEF FramesInv, CallerOK
    <3>3. m # l
      <4>1. Bottom \notin FrameSet
        BY <1>1, FrameFacts, BottomAssumption DEF NULL, CAFE
      <4> QED BY <1>5, <3>2, <4>1
    <3>4. m \in 1..(l - 1)
      BY <2>3, <3>3
    <3>5. Frame(c[m]).savedFp = c[m + 1] /\ m + 1 \in 1..l
      BY <1>5, <3>4
    <3>6. h <= c[m + 1]
      BY <2>3, <2>4, <2>6, <3>2, <3>5
    <3>7. m + 1 \in T
      BY <3>5, <3>6
    <3> QED BY <2>2, <2>3, <3>7
  <2> QED BY <2>5, <2>6
<1> QED
  BY <1>5, <1>6, <1>7


-----------------------------------------------------------------------------
(* Returns. *)

\* The words below the send that made frame f, and the value in their place.
LEMMA ReturnedWords ==
  ASSUME IInv, Running, NEW f \in FrameSet, NEW v \in Held
  PROVE  /\ f - Frame(f).numArgs - 2 \in Nat
         /\ Returned(f, v) \in Seq(Held \cup FrameWord)
         /\ Len(Returned(f, v)) = f - Frame(f).numArgs - 1
         /\ Returned(f, v)[f - Frame(f).numArgs - 1] = v
         /\ \A p \in 1..(f - Frame(f).numArgs - 2) : Returned(f, v)[p] = stack[p]
<1>1. /\ stack \in Seq(Held \cup FrameWord) /\ SP \in Nat /\ f \in Nat /\ f \in 1..SP
      /\ Frame(f).numArgs \in Nat /\ Frame(f).numArgs + 2 <= f
  BY RunningFacts, FrameFacts
<1>2. PICK h \in Nat : h = f - Frame(f).numArgs - 2
  BY <1>1
<1>3. PICK st : st = SubSeq(stack, 1, h)
  OBVIOUS
<1>4. h <= SP /\ SP = Len(stack)
  BY <1>1, <1>2 DEF SP
<1>5. st \in Seq(Held \cup FrameWord) /\ Len(st) = h /\ \A p \in 1..h : st[p] = stack[p]
  BY <1>1, <1>3, <1>4
<1>6. PICK r : r = Append(st, v)
  OBVIOUS
<1>7. /\ r \in Seq(Held \cup FrameWord) /\ Len(r) = h + 1 /\ r[h + 1] = v
      /\ \A p \in 1..h : r[p] = stack[p]
  BY <1>5, <1>6
<1>8. Returned(f, v) = r
  BY <1>2, <1>3, <1>6 DEF Returned
<1>9. h + 1 = f - Frame(f).numArgs - 1
  BY <1>1, <1>2
<1> QED
  BY <1>2, <1>7, <1>8, <1>9

\* A value returned from frame f, which this interpret() runs.
LEMMA ReturnFrom ==
  ASSUME IInv, Running, NEW f \in FrameSet, Entry <= f, NEW v \in Held,
         (f = Entry /\ Answer(Returned(f, v), v)) \/ (f # Entry /\ ResumeCaller(f, v))
  PROVE  IInv'
<1>1. /\ HeapInv /\ StackInv /\ FramesInv /\ SP \in Nat /\ Entry \in FrameSet /\ Entry \in Nat
      /\ f \in Nat /\ f \in 1..SP /\ Frame(f).numArgs \in Nat
      /\ Entry = calls[Len(calls)].entry /\ Len(calls) \in 1..Len(calls)
      /\ calls \in Seq(CallRecord) /\ Len(calls) \in Nat
  BY RunningFacts, FrameFacts
<1>2. PICK r : r = Returned(f, v)
  OBVIOUS
<1>3. PICK h \in Nat : h = f - Frame(f).numArgs - 2
  BY ReturnedWords
<1>4. /\ r \in Seq(Held \cup FrameWord) /\ Len(r) = h + 1 /\ r[h + 1] = v
      /\ \A p \in 1..h : r[p] = stack[p]
  <2>1. h + 1 = f - Frame(f).numArgs - 1
    BY <1>1, <1>3
  <2> QED BY <1>2, <1>3, <2>1, ReturnedWords
<1>5. CASE f = Entry /\ Answer(Returned(f, v), v)
  <2>1. calls[Len(calls)].kind # "host" => h = Entry - 2
    <3>1. ASSUME calls[Len(calls)].kind # "host" PROVE Frame(f).numArgs = 0
      BY <1>1, <1>5, <3>1, WaitingCall
    <3> QED BY <1>1, <1>3, <1>5, <3>1
  <2>2. calls[Len(calls)].kind # "host" =>
          Entry - 2 <= Len(r) /\ \A p \in 1..(Entry - 2) : r[p] = stack[p]
    BY <1>4, <2>1
  <2> QED BY <1>2, <1>4, <1>5, <2>2, AnswerStep
<1>6. CASE f # Entry /\ ResumeCaller(f, v)
  <2>1. ~ \A g \in FrameSet : f <= g
    BY <1>1, <1>6
  <2>2. PICK g \in FrameSet : g = Frame(f).savedFp
    BY <1>1, <2>1 DEF FramesInv, CallerOK
  <2>3. /\ OperandBase(g) + Frame(f).numArgs + 2 <= f
        /\ \A p \in FrameSet : p <= g \/ f <= p
        /\ Frame(f).savedIp = After
           \/ (Frame(f).savedIp \in Ip /\ Frame(f).savedIp.m = Frame(g).method)
    <3> HIDE DEF Ip, After
    <3> QED BY <1>1, <2>1, <2>2 DEF FramesInv, CallerOK
  <2>4. /\ g \in Nat /\ OperandBase(g) \in Nat /\ g < OperandBase(g) /\ g \notin {NULL, CAFE}
    <3>1. g \in Nat /\ g > 0 /\ OperandBase(g) \in Nat /\ g < OperandBase(g)
      BY <1>1, FrameFacts
    <3> QED BY <3>1 DEF NULL, CAFE
  <2>5. OperandBase(g) <= h /\ h + 2 <= f
    <3>1. f \in Nat /\ Frame(f).numArgs \in Nat /\ h = f - Frame(f).numArgs - 2
      BY <1>1, <1>3
    <3>2. OperandBase(g) + Frame(f).numArgs + 2 <= f /\ OperandBase(g) \in Nat
      BY <2>3, <2>4
    <3> QED BY <3>1, <3>2
  <2>6. Entry <= g
    BY <1>1, <1>6, <2>3
  <2>7. /\ stack' = r /\ fp' = g /\ ip' = Frame(f).savedIp /\ base' = Frame(g).method
        /\ outcome' = "running" /\ UNCHANGED <<calls, heap, contextClass, born>>
    BY <1>2, <1>6, <2>2, <2>4 DEF ResumeCaller
  <2>8. SP' = h + 1
    BY <1>4, <2>7 DEF SP
  <2>9. \A p \in (g + 1)..SP' : stack'[p] \in Held
    <3> TAKE p \in (g + 1)..SP'
    <3>1. p = h + 1 \/ (p \in 1..h /\ g < p /\ p < f /\ p \in 1..SP)
      BY <1>1, <2>4, <2>5, <2>8
    <3>2. ASSUME p \in 1..h, g < p, p < f, p \in 1..SP PROVE stack[p] \in Held
      <4>1. p \notin FrameSet
        <5> SUFFICES ASSUME p \in FrameSet PROVE FALSE
          OBVIOUS
        <5>1. p <= g \/ f <= p
          BY <2>3
        <5> QED BY <1>1, <2>4, <3>2, <5>1
      <4> QED BY <1>1, <3>2, <4>1, Words
    <3> QED BY <1>4, <2>7, <3>1, <3>2
  <2>10. KeptTo(g)
    <3>1. \A p \in 1..g : p \in 1..h
      BY <2>4, <2>5
    <3>2. \A p \in 1..g : stack'[p] = stack[p]
      BY <1>4, <2>7, <3>1
    <3>3. SP' \in Nat /\ g <= SP'
      BY <2>4, <2>5, <2>8
    <3> QED BY <2>7, <3>2, <3>3 DEF KeptTo
  <2>11. PICK m \in 1..Len(calls) : m = Len(calls)
    BY <1>1
  <2>12. calls[m].entry <= g /\ calls' = SubSeq(calls, 1, m)
    BY <1>1, <2>6, <2>7, <2>11
  <2>13. OperandBase(g) <= SP' /\ stack' \in Seq(Held \cup FrameWord)
    BY <1>4, <2>4, <2>5, <2>7, <2>8
  <2>14. UNCHANGED <<contextClass, born, outcome>>
    BY <2>7 DEF Running
  <2> HIDE DEF Ip, After
  <2>15. ip' = After \/ (ip' \in Ip /\ ip'.m = Frame(g).method)
    BY <2>3, <2>7
  <2> QED BY <2>4, <2>7, <2>9, <2>10, <2>12, <2>13, <2>14, <2>15, BackTo
<1> QED
  BY <1>5, <1>6

\* return
LEMMA ReturnStep ==
  ASSUME IInv, Return
  PROVE  IInv'
<1>1. Running /\ Operands > 0
  BY DEF Return, At
<1>2. IF Frame(fp).savedFp = NULL \/ fp = Entry
        THEN Answer(Returned(fp, TopOp(0)), TopOp(0)) ELSE ResumeCaller(fp, TopOp(0))
  BY DEF Return
<1>3. TopOp(0) \in Held
  BY <1>1, OperandsAbove
<1>4. /\ StackInv /\ HeapInv /\ FramesInv /\ fp \in FrameSet /\ fp \in Nat /\ Entry \in FrameSet
      /\ Entry <= fp
  BY <1>1, RunningFacts
<1>5. Frame(fp).savedFp = NULL => fp = Entry
  <2>1. ASSUME Frame(fp).savedFp = NULL PROVE fp <= Entry
    <3>1. \A g \in FrameSet : g \in Nat /\ g > 0
      BY <1>4, FrameFacts
    <3>2. Frame(fp).savedFp \notin FrameSet
      BY <2>1, <3>1 DEF NULL
    <3> QED BY <1>4, <3>2 DEF FramesInv, CallerOK
  <2>2. Entry \in Nat
    BY <1>4, FrameFacts
  <2> QED BY <1>4, <2>1, <2>2
<1>6. PICK f \in FrameSet : f = fp
  BY <1>4
<1>7. Entry <= f /\ ((f = Entry /\ Answer(Returned(f, TopOp(0)), TopOp(0)))
                     \/ (f # Entry /\ ResumeCaller(f, TopOp(0))))
  BY <1>2, <1>4, <1>5, <1>6
<1> QED
  BY <1>1, <1>3, <1>7, ReturnFrom

\* The home of the block that runs, when it does a ^.
LEMMA HomeOfBlock ==
  ASSUME IInv, MayReturnNonLocal
  PROVE  /\ Running /\ Operands > 0 /\ InUses /\ TopOp(0) \in Held
         /\ \E b \in 1..Len(closures) :
              /\ block_home_context_for_frame(fp) = closures[b].homeContext
              /\ Frame(fp).home = closures[b].homeId
              /\ closures[b].homeContext \in {Nil} \cup SomeContext
<1>1. Running /\ Operands > 0 /\ InUses /\ Frame(fp).isBlock
  BY DEF MayReturnNonLocal, At
<1>2. TopOp(0) \in Held
  BY <1>1, OperandsAbove
<1>3. HeapInv /\ ClosureOK(fp)
  BY <1>1, RunningFacts DEF FramesInv
<1>4. PICK w \in SomeBlock : w = block_closure_for_frame(fp)
  BY <1>1, <1>3 DEF ClosureOK
<1>5. PICK b \in 1..Len(closures) : w = Blk(b)
  BY DEF SomeBlock
<1>6. w.v = b
  BY <1>5 DEF Blk
<1>7. block_home_context_for_frame(fp) = closures[b].homeContext /\ Frame(fp).home = closures[b].homeId
  BY <1>1, <1>3, <1>4, <1>6 DEF ClosureOK
<1>8. closures[b] \in Closure
  BY <1>3 DEF HeapInv
<1>9. closures[b].homeContext \in {Nil} \cup SomeContext
  BY <1>8 DEF Closure
<1> QED
  BY <1>1, <1>2, <1>7, <1>9

\* ^ to a home on the stack: in these programs it runs in this interpret().
LEMMA ReturnToHomeStep ==
  ASSUME IInv, PlainUses, ReturnToHome
  PROVE  IInv'
<1>1. MayReturnNonLocal
  BY DEF ReturnToHome
<1>2. PICK f \in HomeFrames :
        IF f = Entry THEN Answer(Returned(f, TopOp(0)), TopOp(0)) ELSE ResumeCaller(f, TopOp(0))
  BY DEF ReturnToHome
<1>3. Running /\ InUses /\ TopOp(0) \in Held
  BY <1>1, HomeOfBlock
<1>4. PICK b \in 1..Len(closures) :
        block_home_context_for_frame(fp) = closures[b].homeContext /\ Frame(fp).home = closures[b].homeId
  BY <1>1, HomeOfBlock
<1>5. f \in InChain(fp) /\ Frame(f).link.k = "context" /\ Frame(f).link = closures[b].homeContext
  BY <1>4 DEF HomeFrames
<1>6. f \in FrameSet /\ FramesInv
  BY <1>3, <1>5, ChainWhole, RunningFacts
<1>7. ~Frame(f).isBlock
  <2>1. closures[b].homeContext # Nil
    BY <1>5 DEF Nil
  <2>2. ~contexts[Frame(f).link.v].isBlock
    BY <1>3, <1>4, <1>5, <2>1 DEF InUses, PlainUses
  <2>3. HistoryOK(f)
    BY <1>3, <1>6 DEF IInv, MachineInv, HistoryInv
  <2> QED BY <1>5, <2>2, <2>3 DEF HistoryOK
<1>8. Frame(f).id = Frame(fp).home
  <2>1. Frame(f).home = Frame(f).id
    BY <1>6, <1>7 DEF FramesInv, ClosureOK
  <2>2. closures[b].homeId = Frame(f).home
    BY <1>5, <1>6 DEF FramesInv, LinkOK
  <2> QED BY <1>4, <2>1, <2>2
<1>9. Entry <= f
  <2>1. f >= Entry
    BY <1>3, <1>5, <1>8 DEF InUses, PlainUses
  <2>2. Entry \in Nat /\ f \in Nat
    BY <1>3, <1>6, RunningFacts, FrameFacts
  <2> QED BY <2>1, <2>2
<1> QED
  BY <1>2, <1>3, <1>6, <1>9, ReturnFrom

\* ^ past a home without a sender.
LEMMA ReturnPastDeadHomeStep ==
  ASSUME IInv, ReturnPastDeadHome
  PROVE  IInv'
<1>1. MayReturnNonLocal /\ Answer(stack, TopOp(0))
  BY DEF ReturnPastDeadHome
<1>2. Running /\ TopOp(0) \in Held
  BY <1>1, HomeOfBlock
<1>3. /\ stack \in Seq(Held \cup FrameWord) /\ SP \in Nat /\ SP = Len(stack) /\ fp \in 1..SP
      /\ Entry \in Nat /\ Entry <= fp
  BY <1>2, RunningFacts, FrameFacts DEF SP
<1>4. Entry - 2 <= Len(stack)
  BY <1>3
<1> QED
  BY <1>1, <1>2, <1>3, <1>4, AnswerStep

\* ^ into the sender's context: the machine has gone wild.
LEMMA ResumeSenderStep ==
  ASSUME IInv, ResumeSender
  PROVE  IInv'
<1>1. MayReturnNonLocal
  BY DEF ResumeSender
<1>2. Running /\ TopOp(0) \in Held
  BY <1>1, HomeOfBlock
<1>3. /\ stack \in Seq(Held \cup FrameWord) /\ SP \in Nat /\ SP = Len(stack) /\ HeapInv
  BY <1>2, RunningFacts DEF SP
<1>4. PICK b \in 1..Len(closures) :
        /\ block_home_context_for_frame(fp) = closures[b].homeContext
        /\ closures[b].homeContext \in {Nil} \cup SomeContext
  BY <1>1, HomeOfBlock
<1>5. PICK home : home = closures[b].homeContext
  OBVIOUS
<1>6. home.k = "context" /\ home \in SomeContext
  <2>1. home.k = "context"
    BY <1>4, <1>5 DEF ResumeSender
  <2> QED BY <1>4, <1>5, <2>1, SMTT(30) DEF Nil
<1>7. PICK j \in 1..Len(contexts) : home = Ctx(j)
  BY <1>6 DEF SomeContext
<1>8. home.v = j
  BY <1>7 DEF Ctx
<1>9. PICK sender : sender = contexts[j].sender
  OBVIOUS
<1>10. /\ sender.k = "context"
       /\ stack' = Append(activate_context(stack, sender.v), TopOp(0))
       /\ fp' = SP + Len(contexts[sender.v].args) + 2
       /\ base' = contexts[sender.v].method
       /\ ip' = NoIp /\ outcome' = "wild" /\ UNCHANGED <<calls, heap, contextClass, born>>
  BY <1>4, <1>5, <1>8, <1>9 DEF ResumeSender
<1>11. sender \in SomeContext
  <2>1. contexts[j] \in Context
    BY <1>3 DEF HeapInv
  <2>2. sender \in {Nil} \cup SomeContext
    BY <1>9, <2>1 DEF Context
  <2> QED BY <1>10, <2>2 DEF Nil
<1>12. PICK c \in 1..Len(contexts) : sender = Ctx(c)
  BY <1>11 DEF SomeContext
<1>13. sender.v = c
  BY <1>12 DEF Ctx
<1>14. PICK x \in Context : x = contexts[c]
  BY <1>3 DEF HeapInv
<1>15. /\ x.receiver \in Held /\ x.args \in Seq(Held) /\ x.temps \in Seq(Held) /\ x.rest \in Seq(Held)
       /\ x.method \in Code /\ x.isBlock \in BOOLEAN
  BY DEF Context
<1>16. PICK n \in Nat : n = Len(x.args)
  BY <1>15
<1>17. PICK one : one = stack \o <<x.receiver>>
  OBVIOUS
<1>18. one \in Seq(Held \cup FrameWord) /\ Len(one) = SP + 1 /\ one[SP + 1] = x.receiver
  BY <1>3, <1>15, <1>17
<1>19. PICK u : u = one \o x.args
  OBVIOUS
<1>20. u \in Seq(Held \cup FrameWord) /\ Len(u) = SP + 1 + n /\ u[SP + 1] = x.receiver
  <2>1. PICK y \in Seq(Held \cup FrameWord) : y = x.args
    BY <1>15
  <2>2. u = one \o y /\ Len(y) = n
    BY <1>16, <1>19, <2>1
  <2>3. /\ u \in Seq(Held \cup FrameWord) /\ Len(u) = Len(one) + Len(y)
        /\ \A i \in 1..Len(one) : u[i] = one[i]
    <3>1. PICK W : W = Held \cup FrameWord
      OBVIOUS
    <3>2. one \in Seq(W) /\ y \in Seq(W) /\ u = one \o y
      BY <1>18, <2>2, <3>1
    <3>3. /\ u \in Seq(W) /\ Len(u) = Len(one) + Len(y)
          /\ \A i \in 1..Len(one) : u[i] = one[i]
      BY <3>2
    <3> QED BY <3>1, <3>3
  <2>4. SP + 1 \in 1..Len(one)
    BY <1>3, <1>18
  <2> QED BY <1>18, <2>2, <2>3, <2>4
<1>21. Activatable(u, NULL, NoIp, x.method, n, 0)
  <2>1. Len(u) - n = SP + 1 /\ n < Len(u)
    BY <1>3, <1>20
  <2>2. u[Len(u) - n] \in Held
    BY <1>15, <1>20, <2>1
  <2>3. NULL \in {NULL, CAFE} \cup 1..StackWords /\ NoIp \in Ip \cup {NoIp, After}
    OBVIOUS
  <2> HIDE DEF Ip, NoIp, After, NULL
  <2> QED BY <1>15, <1>20, <2>1, <2>2, <2>3 DEF Activatable
<1>22. PICK all : all = activate_method(u, NULL, NoIp, x.method, n, 0)
  OBVIOUS
<1>23. FrameWords(all, u, NULL, NoIp, x.method, n, 0)
  BY <1>3, <1>21, <1>22, ActivateMethod
<1>24. PICK f \in Nat : f = SP + n + 2
  BY <1>3
<1>25. all \in Seq(Held \cup FrameWord) /\ Len(all) = f + 1 /\ all[f] \in FrameWord
  <2>1. Len(u) + 2 + 0 = f + 1 /\ Len(u) + 1 = f
    BY <1>3, <1>20, <1>24
  <2> QED BY <1>23, <2>1 DEF FrameWords
<1>26. PICK w : w = [all[f] EXCEPT !.link = Ctx(c), !.isBlock = x.isBlock]
  OBVIOUS
<1>27. w \in FrameWord
  <2>1. Ctx(c) \in Oop
    <3>1. Ctx(c) \in Held
      BY DEF Held, SomeContext
    <3> QED BY <1>3, <3>1, HeldOops
  <2> HIDE DEF Ip, NoIp, After, Oop
  <2> QED BY <1>15, <1>25, <1>26, <2>1 DEF FrameWord
<1>28. PICK a : a = [all EXCEPT ![f] = w]
  OBVIOUS
<1>29. a \in Seq(Held \cup FrameWord) /\ Len(a) = f + 1
  <2>1. f \in 1..Len(all)
    BY <1>3, <1>24, <1>25
  <2> QED BY <1>25, <1>27, <1>28, <2>1
<1>30. activate_context(stack, c) = a \o x.temps \o x.rest
  BY <1>3, <1>14, <1>16, <1>17, <1>19, <1>22, <1>24, <1>26, <1>28 DEF activate_context
<1>31. PICK top \in Held : top = TopOp(0)
  BY <1>2
<1>32. stack' \in Seq(Held \cup FrameWord) /\ f + 1 <= SP' /\ SP' \in Nat
  <2>1. PICK y \in Seq(Held \cup FrameWord), z \in Seq(Held \cup FrameWord) : y = x.temps /\ z = x.rest
    BY <1>15
  <2>2. PICK v : v = a \o y
    OBVIOUS
  <2>3. v \in Seq(Held \cup FrameWord) /\ f + 1 <= Len(v)
    BY <1>29, <2>2
  <2>4. PICK q : q = v \o z
    OBVIOUS
  <2>5. q \in Seq(Held \cup FrameWord) /\ f + 1 <= Len(q)
    BY <2>3, <2>4
  <2>6. stack' = Append(q, top)
    BY <1>10, <1>13, <1>30, <1>31, <2>1, <2>2, <2>4
  <2>7. stack' \in Seq(Held \cup FrameWord) /\ Len(stack') = Len(q) + 1 /\ Len(q) \in Nat
    BY <2>5, <2>6
  <2> QED BY <2>5, <2>7 DEF SP
<1>33. UNCHANGED <<closures, contexts, contextClass, born>>
  BY <1>10 DEF heap
<1>34. Held' = Held /\ Closure' = Closure /\ Context' = Context
  BY <1>33, Zenon DEF Held, Closure, Context, SomeBlock, SomeContext
<1>35. HeapInv'
  BY <1>3, <1>33, <1>34 DEF HeapInv
<1>36. StackInv'
  BY <1>32, <1>34 DEF StackInv
<1>37. RestInv'
  <2>1. fp' = f
    BY <1>3, <1>10, <1>13, <1>14, <1>16, <1>24
  <2>2. f \in 1..SP' /\ base' \in Code
    <3>1. f \in Nat /\ 1 <= f /\ f <= SP' /\ SP' \in Nat
      BY <1>3, <1>24, <1>32
    <3>2. base' \in Code
      BY <1>3, <1>10, <1>13, <1>14, <1>15
    <3> QED BY <3>1, <3>2
  <2> HIDE DEF Ip, NoIp, After, NULL, CAFE
  <2> QED BY <1>10, <2>1, <2>2 DEF RestInv
<1>38. ~Running'
  BY <1>10 DEF Running
<1> QED
  BY <1>35, <1>36, <1>37, <1>38 DEF IInv


-----------------------------------------------------------------------------
(* Frames are given contexts. *)

\* The chain c has no frame twice.
LEMMA ChainDown ==
  ASSUME StackInv, HeapInv, FramesInv, NEW c, NEW f, IsChain(c, f)
  PROVE  \A i, j \in 1..Len(c) : i # j => c[i] # c[j]
<1>1. PICK l \in Nat : l = Len(c)
  BY DEF IsChain
<1>2. (\A i \in 1..l : c[i] \in Nat) /\ \A i \in 1..(l - 1) : c[i + 1] < c[i]
  BY <1>1, FrameFacts DEF IsChain
<1>3. \A i, j \in 1..l : i < j => c[j] < c[i]
  BY <1>2, StepsDown
<1>4. ASSUME NEW i \in 1..l, NEW j \in 1..l, i # j PROVE c[i] # c[j]
  <2>1. c[i] \in Nat /\ c[j] \in Nat /\ (i < j \/ j < i)
    BY <1>2, <1>4
  <2> QED BY <1>3, <2>1
<1> QED
  BY <1>1, <1>4

\* The heap has new contexts for the first k frames of the chain c, and
\* perhaps a new closure; a word is pushed; all else is the same.
Grows(c, k) ==
  /\ IsChain(c, fp) /\ k \in 0..Len(c) /\ \A i \in 1..k : Frame(c[i]).link.k # "context"
  /\ SP' = SP + 1 /\ stack'[SP + 1] \in Held'
  /\ \A p \in 1..SP : p \notin {c[i] : i \in 1..k} => stack'[p] = stack[p]
  /\ \A i \in 1..k : stack'[c[i]] = [stack[c[i]] EXCEPT !.link = Ctx(Len(contexts) + i)]
  /\ Len(contexts') = Len(contexts) + k
  /\ \A j \in 1..Len(contexts) : contexts'[j] = contexts[j]
  /\ \A i \in 1..k :
       /\ contexts'[Len(contexts) + i].closure = block_closure_for_frame(c[i])
       /\ contexts'[Len(contexts) + i].home = block_home_context_for_frame(c[i])
       /\ contexts'[Len(contexts) + i].isBlock = Frame(c[i]).isBlock
  /\ Len(closures) <= Len(closures')
  /\ \A b \in 1..Len(closures) : closures'[b] = closures[b]

\* A frame is what it was, but for its context.
SameFrame(f) ==
  /\ stack'[f] \in FrameWord
  /\ stack'[f].savedFp = stack[f].savedFp /\ stack'[f].savedIp = stack[f].savedIp
  /\ stack'[f].method = stack[f].method /\ stack'[f].numArgs = stack[f].numArgs
  /\ stack'[f].isBlock = stack[f].isBlock /\ stack'[f].id = stack[f].id /\ stack'[f].home = stack[f].home

\* The frames after the heap has grown.
LEMMA GrownWords ==
  ASSUME IInv, Running, HeapInv', NEW c, NEW k, Grows(c, k)
  PROVE  /\ FrameSet' = FrameSet
         /\ SomeBlock \subseteq SomeBlock' /\ SomeContext \subseteq SomeContext' /\ Held \subseteq Held'
         /\ \A f \in FrameSet :
              /\ SameFrame(f)
              /\ \/ stack'[f] = stack[f] /\ f \notin {c[i] : i \in 1..k}
                 \/ \E i \in 1..k : /\ f = c[i] /\ stack[f].link.k # "context"
                                    /\ stack'[f].link = Ctx(Len(contexts) + i)
         /\ \A p \in 1..SP : p \notin FrameSet => stack'[p] = stack[p]
<1>1. /\ StackInv /\ HeapInv /\ FramesInv /\ SP \in Nat
      /\ \A p \in FrameSet : p \in 1..SP /\ stack[p] \in FrameWord
  BY RunningFacts, Words
<1>2. PICK K \in Nat : K = Len(contexts)
  BY <1>1 DEF HeapInv
<1>3. PICK l \in Nat : l = Len(c)
  BY DEF Grows, IsChain
<1>4. /\ \A i \in 1..l : c[i] \in FrameSet
      /\ k \in 0..l /\ \A i \in 1..k : i \in 1..l /\ Frame(c[i]).link.k # "context"
      /\ SP' = SP + 1 /\ stack'[SP + 1] \in Held'
      /\ \A p \in 1..SP : p \notin {c[i] : i \in 1..k} => stack'[p] = stack[p]
      /\ \A i \in 1..k : stack'[c[i]] = [stack[c[i]] EXCEPT !.link = Ctx(K + i)]
      /\ Len(contexts') = K + k
      /\ Len(closures) <= Len(closures')
  BY <1>2, <1>3 DEF Grows, IsChain
<1>5. K + k <= MaxContexts /\ Len(closures) \in Nat /\ Len(closures') \in Nat /\ MaxContexts \in Nat
  <2>1. Len(closures) \in Nat /\ Len(closures') \in Nat /\ Len(contexts') <= MaxContexts
    BY <1>1 DEF HeapInv
  <2>2. MaxContexts \in Nat
    BY BoundAssumption
  <2> QED BY <1>4, <2>1, <2>2
<1>6. SomeBlock \subseteq SomeBlock'
  <2>1. 1..Len(closures) \subseteq 1..Len(closures')
    BY <1>4, <1>5
  <2> QED BY <2>1 DEF SomeBlock
<1>7. SomeContext \subseteq SomeContext'
  <2>1. 1..Len(contexts) \subseteq 1..Len(contexts')
    BY <1>2, <1>4
  <2> QED BY <2>1 DEF SomeContext
<1>8. Held \subseteq Held'
  BY <1>6, <1>7 DEF Held
<1>9. ASSUME NEW f \in FrameSet
      PROVE  /\ SameFrame(f)
             /\ \/ stack'[f] = stack[f] /\ f \notin {c[i] : i \in 1..k}
                \/ \E i \in 1..k : /\ f = c[i] /\ stack[f].link.k # "context"
                                   /\ stack'[f].link = Ctx(K + i)
  <2>1. f \in 1..SP /\ stack[f] \in FrameWord
    BY <1>1
  <2>2. CASE f \notin {c[i] : i \in 1..k}
    <3>1. stack'[f] = stack[f]
      BY <1>4, <2>1, <2>2
    <3> QED BY <2>1, <2>2, <3>1 DEF SameFrame
  <2>3. ASSUME NEW i \in 1..k, f = c[i]
        PROVE  SameFrame(f) /\ stack[f].link.k # "context" /\ stack'[f].link = Ctx(K + i)
    <3>1. PICK w \in FrameWord : w = stack[f]
      BY <2>1
    <3>2. PICK x \in Oop : x = Ctx(K + i)
      <4>1. K + i \in 1..MaxContexts
        BY <1>4, <1>5
      <4> QED BY <4>1 DEF Oop
    <3>3. PICK v : v = [w EXCEPT !.link = x]
      OBVIOUS
    <3>4. /\ v \in FrameWord /\ v.savedFp = w.savedFp /\ v.savedIp = w.savedIp
          /\ v.method = w.method /\ v.numArgs = w.numArgs /\ v.isBlock = w.isBlock
          /\ v.id = w.id /\ v.home = w.home /\ v.link = x
      <4> HIDE DEF Ip, NoIp, After, Oop
      <4> QED BY <3>3 DEF FrameWord
    <3>5. stack'[f] = v
      BY <1>4, <2>3, <3>1, <3>2, <3>3
    <3>6. stack[f].link.k # "context"
      BY <1>4, <2>3 DEF Frame
    <3> QED BY <3>1, <3>2, <3>4, <3>5, <3>6 DEF SameFrame
  <2> QED BY <2>2, <2>3
<1>10. FrameSet' = FrameSet
  <2>1. \A w \in FrameWord : w.k = "frame"
    BY DEF FrameWord
  <2>2. ASSUME NEW f \in FrameSet PROVE f \in FrameSet'
    <3>1. stack'[f].k = "frame" /\ f \in 1..SP'
      BY <1>1, <1>4, <1>9, <2>1 DEF SameFrame
    <3> QED BY <3>1 DEF FrameSet
  <2>3. ASSUME NEW f \in FrameSet' PROVE f \in FrameSet
    <3>1. f \in 1..SP' /\ stack'[f].k = "frame"
      BY DEF FrameSet
    <3>2. f # SP + 1
      <4>1. \A w \in Held' : w.k # "frame"
        BY <1>6 DEF Held, SomeBlock, SomeContext, Blk, Ctx, Zero, Nil, SmallInt
      <4> QED BY <1>4, <3>1, <4>1
    <3>3. f \in 1..SP
      BY <1>1, <1>4, <3>1, <3>2
    <3> SUFFICES ASSUME f \notin FrameSet PROVE FALSE
      OBVIOUS
    <3>4. f \notin {c[i] : i \in 1..k}
      BY <1>4
    <3>5. stack[f].k = "frame"
      BY <1>4, <3>1, <3>3, <3>4
    <3> QED BY <3>3, <3>5 DEF FrameSet
  <2> QED BY <2>2, <2>3
<1>11. ASSUME NEW p \in 1..SP, p \notin FrameSet PROVE stack'[p] = stack[p]
  <2>1. p \notin {c[i] : i \in 1..k}
    BY <1>4, <1>11
  <2> QED BY <1>4, <2>1
<1> QED
  BY <1>2, <1>6, <1>7, <1>8, <1>9, <1>10, <1>11

\* What the code finds through a frame after the heap has grown.
LEMMA GrownFrames ==
  ASSUME IInv, Running, HeapInv', NEW c, NEW k, Grows(c, k), NEW f \in FrameSet
  PROVE  /\ block_closure_for_frame(f)' = block_closure_for_frame(f)
         /\ block_home_context_for_frame(f)' = block_home_context_for_frame(f)
         /\ OperandBase(f)' = OperandBase(f) /\ FrameArgs(f)' = FrameArgs(f)
<1>1. /\ StackInv /\ HeapInv /\ FramesInv /\ SP \in Nat /\ f \in Nat /\ f \in 1..SP
      /\ Frame(f).numArgs \in Nat
  BY RunningFacts, FrameFacts
<1>2. /\ SameFrame(f)
      /\ \/ stack'[f] = stack[f]
         \/ \E i \in 1..k : /\ f = c[i] /\ stack[f].link.k # "context"
                            /\ stack'[f].link = Ctx(Len(contexts) + i)
      /\ \A p \in 1..SP : p \notin FrameSet => stack'[p] = stack[p]
  BY GrownWords
<1>3. /\ \A j \in 1..Len(contexts) : contexts'[j] = contexts[j]
      /\ \A i \in 1..k :
           /\ contexts'[Len(contexts) + i].closure = block_closure_for_frame(c[i])
           /\ contexts'[Len(contexts) + i].home = block_home_context_for_frame(c[i])
      /\ \A b \in 1..Len(closures) : closures'[b] = closures[b]
  BY DEF Grows
<1>4. PICK w : w = stack[f]
  OBVIOUS
<1>5. /\ w.link \in Held /\ w.link.k \in {"zero", "block", "context"} /\ ClosureOK(f)
  BY <1>1, <1>4 DEF FramesInv, ClosureOK, Frame
<1>6. /\ block_closure_for_frame(f)' = block_closure_for_frame(f)
      /\ block_home_context_for_frame(f)' = block_home_context_for_frame(f)
  <2>1. CASE stack'[f] = stack[f]
    <3>1. CASE w.link.k = "context"
      <4>1. w.link.v \in 1..Len(contexts)
        BY <1>5, <3>1, HeldKinds
      <4>2. contexts'[w.link.v] = contexts[w.link.v]
        BY <1>3, <4>1
      <4> QED BY <1>4, <2>1, <3>1, <4>2 DEF block_closure_for_frame, block_home_context_for_frame, Frame
    <3>2. CASE w.link.k = "block"
      <4>1. w.link.v \in 1..Len(closures)
        BY <1>5, <3>2, HeldKinds
      <4>2. closures'[w.link.v] = closures[w.link.v]
        BY <1>3, <4>1
      <4> QED BY <1>4, <2>1, <3>2, <4>2 DEF block_closure_for_frame, block_home_context_for_frame, Frame
    <3>3. CASE w.link.k = "zero"
      BY <1>4, <2>1, <3>3 DEF block_closure_for_frame, block_home_context_for_frame, Frame
    <3> QED BY <1>5, <3>1, <3>2, <3>3
  <2>2. ASSUME NEW i \in 1..k, f = c[i], stack'[f].link = Ctx(Len(contexts) + i)
        PROVE  /\ block_closure_for_frame(f)' = block_closure_for_frame(f)
               /\ block_home_context_for_frame(f)' = block_home_context_for_frame(f)
    <3>1. PICK x : x = Len(contexts) + i
      OBVIOUS
    <3>2. contexts'[x].closure = block_closure_for_frame(f) /\ contexts'[x].home = block_home_context_for_frame(f)
      BY <1>3, <2>2, <3>1
    <3>3. stack'[f].link.k = "context" /\ stack'[f].link.v = x
      BY <2>2, <3>1 DEF Ctx
    <3> QED BY <3>2, <3>3 DEF block_closure_for_frame, block_home_context_for_frame, Frame
  <2> QED BY <1>2, <2>1, <2>2
<1>7. OperandBase(f)' = OperandBase(f)
  <2>1. PICK b : b = block_closure_for_frame(f)
    OBVIOUS
  <2>2. b = Nil \/ b \in SomeBlock
    BY <1>5, <2>1 DEF ClosureOK
  <2>3. b # Nil => closures'[b.v] = closures[b.v]
    <3>1. ASSUME NEW j \in 1..Len(closures), b = Blk(j) PROVE closures'[b.v] = closures[b.v]
      BY <1>3, <3>1 DEF Blk
    <3> QED BY <2>2, <3>1 DEF SomeBlock
  <2>4. stack'[f].method = stack[f].method
    BY <1>2 DEF SameFrame
  <2>5. TempCount(f)' = TempCount(f)
    BY <1>6, <2>1, <2>3, <2>4 DEF TempCount, Frame
  <2> QED BY <2>5 DEF OperandBase
<1>8. FrameArgs(f)' = FrameArgs(f)
  <2>1. PICK n \in Nat : n = Frame(f).numArgs
    BY <1>1
  <2>2. Frame(f)'.numArgs = n
    BY <1>2, <2>1 DEF SameFrame, Frame
  <2>3. ASSUME NEW i \in 1..n PROVE frame_arg(f, i - 1)' = frame_arg(f, i - 1)
    <3>1. PICK p : p = f - n + (i - 1)
      OBVIOUS
    <3>2. p \in (f - n - 1)..(f - 1)
      BY <1>1, <2>1, <3>1
    <3>3. p \in 1..SP /\ stack[p] \in Held
      BY <1>1, <2>1, <3>2, ArgumentsHeld
    <3>4. p \notin FrameSet
      BY <3>3, HeldKinds DEF FrameSet
    <3>5. stack'[p] = stack[p]
      BY <1>2, <3>3, <3>4
    <3> QED BY <2>1, <2>2, <3>1, <3>5 DEF frame_arg
  <2> QED BY <2>1, <2>2, <2>3 DEF FrameArgs
<1> QED
  BY <1>6, <1>7, <1>8

\* The callers, the temporaries and the closures of the frames are the same.
LEMMA GrownCallers ==
  ASSUME IInv, Running, HeapInv', NEW c, NEW k, Grows(c, k), NEW f \in FrameSet
  PROVE  (CallerOK(f) /\ OperandBase(f) <= StackWords /\ ClosureOK(f))'
<1>1. HeapInv /\ StackInv /\ FramesInv
  BY RunningFacts
<1>2. CallerOK(f) /\ OperandBase(f) <= StackWords /\ ClosureOK(f) /\ FrameSet' = FrameSet
  BY <1>1, GrownWords DEF FramesInv
<1>3. \A h \in FrameSet : SameFrame(h) /\ OperandBase(h)' = OperandBase(h)
  BY GrownWords, GrownFrames
<1>4. CallerOK(f)'
  <2>1. /\ Frame(f)'.savedFp = Frame(f).savedFp /\ Frame(f)'.savedIp = Frame(f).savedIp
        /\ Frame(f)'.numArgs = Frame(f).numArgs
    BY <1>3 DEF SameFrame, Frame
  <2>2. CASE Frame(f).savedFp = Bottom /\ Frame(f).numArgs <= f - 2 /\ \A g \in FrameSet : f <= g
    BY <1>2, <2>1, <2>2 DEF CallerOK
  <2>3. CASE /\ Frame(f).savedFp \in FrameSet
             /\ OperandBase(Frame(f).savedFp) + Frame(f).numArgs + 2 <= f
             /\ \A g \in FrameSet : g <= Frame(f).savedFp \/ f <= g
             /\ Frame(f).savedIp = After
                \/ (Frame(f).savedIp \in Ip /\ Frame(f).savedIp.m = Frame(Frame(f).savedFp).method)
    <3>1. PICK g \in FrameSet : g = Frame(f).savedFp
      BY <2>3
    <3>2. OperandBase(g)' = OperandBase(g) /\ Frame(g)'.method = Frame(g).method
      BY <1>3 DEF SameFrame, Frame
    <3> HIDE DEF Ip, After
    <3>3. /\ Frame(f)'.savedFp \in FrameSet'
          /\ OperandBase(g)' + Frame(f)'.numArgs + 2 <= f
          /\ \A h \in FrameSet' : h <= g \/ f <= h
          /\ Frame(f)'.savedIp = After
             \/ (Frame(f)'.savedIp \in Ip /\ Frame(f)'.savedIp.m = Frame(g)'.method)
      BY <1>2, <2>1, <2>3, <3>1, <3>2
    <3>4. Frame(f)'.savedFp = g
      BY <2>1, <3>1
    <3> QED BY <3>3, <3>4, Zenon DEF CallerOK
  <2> QED BY <1>2, <2>2, <2>3 DEF CallerOK
<1>5. (OperandBase(f) <= StackWords)'
  BY <1>2, <1>3
<1>6. ClosureOK(f)'
  <2>1. /\ block_closure_for_frame(f)' = block_closure_for_frame(f)
        /\ block_home_context_for_frame(f)' = block_home_context_for_frame(f)
    BY GrownFrames
  <2>2. /\ Frame(f)'.isBlock = Frame(f).isBlock /\ Frame(f)'.method = Frame(f).method
        /\ Frame(f)'.home = Frame(f).home /\ Frame(f)'.id = Frame(f).id
    BY <1>3 DEF SameFrame, Frame
  <2>3. Frame(f)'.link \in Held' /\ Frame(f)'.link.k \in {"zero", "block", "context"}
    <3>1. CASE stack'[f] = stack[f]
      <4>1. Frame(f)'.link = Frame(f).link /\ Held \subseteq Held'
        BY <3>1, GrownWords DEF Frame
      <4> QED BY <1>2, <4>1 DEF ClosureOK
    <3>2. ASSUME NEW i \in 1..k, stack'[f].link = Ctx(Len(contexts) + i)
          PROVE  Frame(f)'.link \in Held' /\ Frame(f)'.link.k = "context"
      <4>1. Len(contexts) \in Nat /\ Len(contexts') = Len(contexts) + k /\ k \in Nat
        BY <1>1 DEF Grows, IsChain, HeapInv
      <4>2. Len(contexts) + i \in 1..Len(contexts')
        BY <4>1
      <4>3. Ctx(Len(contexts) + i) \in SomeContext'
        BY <4>2 DEF SomeContext
      <4> QED BY <3>2, <4>3 DEF Held, Frame, Ctx
    <3> QED BY <3>1, <3>2, GrownWords
  <2>4. SomeBlock \subseteq SomeBlock'
    BY GrownWords
  <2>5. CASE Frame(f).isBlock
    <3>1. PICK b \in 1..Len(closures) : block_closure_for_frame(f) = Blk(b)
      BY <1>2, <2>5 DEF ClosureOK, SomeBlock
    <3>2. PICK w : w = Blk(b)
      OBVIOUS
    <3>3. w.v = b /\ closures'[b] = closures[b]
      BY <3>2 DEF Blk, Grows
    <3>4. /\ w \in SomeBlock /\ Frame(f).method = closures[w.v].method
          /\ Frame(f).home = closures[w.v].homeId
          /\ block_home_context_for_frame(f) = closures[w.v].homeContext
      BY <1>2, <2>5, <3>1, <3>2 DEF ClosureOK
    <3> QED BY <2>1, <2>2, <2>3, <2>4, <2>5, <3>1, <3>2, <3>3, <3>4 DEF ClosureOK
  <2>6. CASE ~Frame(f).isBlock
    BY <1>2, <2>1, <2>2, <2>3, <2>6, Zenon DEF ClosureOK
  <2> QED BY <2>5, <2>6
<1> QED
  BY <1>4, <1>5, <1>6

\* A link of a frame that is old is to an old context.
LEMMA OldLinks ==
  ASSUME IInv, Running, HeapInv', NEW c, NEW k, Grows(c, k), NEW f \in FrameSet,
         stack'[f].link.k = "context"
  PROVE  \/ /\ stack'[f] = stack[f] /\ f \notin {c[i] : i \in 1..k}
            /\ stack[f].link \in SomeContext /\ stack[f].link.v \in 1..Len(contexts)
            /\ stack[f].link = Ctx(stack[f].link.v)
         \/ \E i \in 1..k : f = c[i] /\ stack'[f].link = Ctx(Len(contexts) + i)
<1>1. StackInv /\ HeapInv /\ FramesInv
  BY RunningFacts
<1>2. \/ stack'[f] = stack[f] /\ f \notin {c[i] : i \in 1..k}
      \/ \E i \in 1..k : f = c[i] /\ stack'[f].link = Ctx(Len(contexts) + i)
  BY GrownWords
<1>3. stack[f].link \in Held
  BY <1>1 DEF FramesInv, ClosureOK, Frame
<1>4. CASE stack'[f] = stack[f] /\ f \notin {c[i] : i \in 1..k}
  BY <1>3, <1>4, HeldKinds
<1> QED
  BY <1>2, <1>4

\* The new closures are of the running frame.
NewClosures ==
  \A b \in 1..Len(closures') : b \notin 1..Len(closures) =>
    /\ closures'[b].homeId = stack[fp].home
    /\ closures'[b].homeContext = Nil \/ closures'[b].homeContext = stack'[fp].link

\* A context still belongs to one frame.
LEMMA GrownLinks ==
  ASSUME IInv, Running, HeapInv', NEW c, NEW k, Grows(c, k), NewClosures, NEW f \in FrameSet
  PROVE  LinkOK(f)'
<1> SUFFICES ASSUME stack'[f].link.k = "context"
             PROVE  /\ \A g \in FrameSet : stack'[g].link = stack'[f].link => g = f
                    /\ \A b \in 1..Len(closures') :
                         closures'[b].homeContext = stack'[f].link => closures'[b].homeId = stack'[f].home
  <2>1. FrameSet' = FrameSet
    BY GrownWords
  <2> QED BY <2>1 DEF LinkOK, Frame
<1>1. /\ StackInv /\ HeapInv /\ FramesInv /\ LinkOK(f) /\ fp \in FrameSet
  BY RunningFacts DEF FramesInv
<1>2. PICK K \in Nat : K = Len(contexts)
  BY <1>1 DEF HeapInv
<1>3. k \in Nat
  BY DEF Grows, IsChain
<1>4. \A g \in FrameSet : stack'[g].link.k = "context" =>
        \/ /\ stack'[g] = stack[g] /\ stack[g].link.v \in 1..K /\ stack[g].link = Ctx(stack[g].link.v)
        \/ \E i \in 1..k : g = c[i] /\ stack'[g].link = Ctx(K + i)
  BY <1>2, OldLinks
<1>5. \A i, j : Ctx(i) = Ctx(j) => i = j
  BY DEF Ctx
<1>6. ASSUME NEW g \in FrameSet, stack'[g].link = stack'[f].link PROVE g = f
  <2>1. CASE stack'[f] = stack[f] /\ stack'[g] = stack[g]
    BY <1>1, <1>6, <2>1 DEF LinkOK, Frame
  <2>2. ASSUME NEW i \in 1..k, NEW j \in 1..k, f = c[i], g = c[j],
               stack'[f].link = Ctx(K + i), stack'[g].link = Ctx(K + j)
        PROVE  g = f
    <3>1. K + i = K + j
      BY <1>5, <1>6, <2>2, Zenon
    <3> QED BY <1>3, <2>2, <3>1
  <2>3. ASSUME NEW x \in FrameSet, NEW y \in FrameSet, NEW i \in 1..k, stack'[x] = stack[x],
               stack'[y].link = stack'[x].link,
               stack[x].link.v \in 1..K, stack[x].link = Ctx(stack[x].link.v),
               stack'[y].link = Ctx(K + i)
        PROVE  FALSE
    <3>1. stack[x].link.v = K + i
      BY <1>5, <2>3, Zenon
    <3> QED BY <1>3, <2>3, <3>1
  <2> QED BY <1>4, <1>6, <2>1, <2>2, <2>3
<1>7. ASSUME NEW b \in 1..Len(closures'), closures'[b].homeContext = stack'[f].link
      PROVE  closures'[b].homeId = stack'[f].home
  <2>1. stack'[f].home = stack[f].home
    BY GrownWords DEF SameFrame
  <2>2. CASE b \in 1..Len(closures)
    <3>1. closures'[b] = closures[b] /\ closures[b] \in Closure
      BY <1>1, <2>2 DEF Grows, HeapInv
    <3>2. closures[b].homeContext \in SomeContext
      <4>1. closures[b].homeContext \in {Nil} \cup SomeContext
        BY <3>1 DEF Closure
      <4>2. closures[b].homeContext.k = "context"
        BY <1>7, <3>1
      <4> QED BY <4>1, <4>2 DEF Nil
    <3>3. CASE stack'[f] = stack[f]
      BY <1>1, <1>7, <2>2, <3>1, <3>3 DEF LinkOK, Frame
    <3>4. ASSUME NEW i \in 1..k, stack'[f].link = Ctx(K + i) PROVE FALSE
      <4>1. PICK j \in 1..K : closures[b].homeContext = Ctx(j)
        BY <1>2, <3>2 DEF SomeContext
      <4>2. Ctx(j) = Ctx(K + i)
        BY <1>7, <3>1, <3>4, <4>1, Zenon
      <4>3. j = K + i
        BY <1>5, <4>2, Zenon
      <4> QED BY <1>3, <4>1, <4>3
    <3> QED BY <1>4, <3>3, <3>4
  <2>3. CASE b \notin 1..Len(closures)
    <3>1. /\ closures'[b].homeId = stack[fp].home
          /\ closures'[b].homeContext = Nil \/ closures'[b].homeContext = stack'[fp].link
      BY <2>3 DEF NewClosures
    <3>2. stack'[fp].link = stack'[f].link
      BY <1>7, <3>1 DEF Nil
    <3>3. fp = f
      BY <1>1, <1>6, <3>2
    <3> QED BY <2>1, <3>1, <3>3
  <2> QED BY <2>2, <2>3
<1> QED
  BY <1>6, <1>7

\* The new contexts describe their frames, and their senders the callers.
NewSenders(c, k) ==
  \A i \in 1..k : LET x == contexts'[Len(contexts) + i] IN
    /\ x.method = stack[c[i]].method /\ x.args = FrameArgs(c[i])
    /\ \/ i < k /\ x.sender = Ctx(Len(contexts) + i + 1)
       \/ /\ i = k /\ x.sender = Nil
          /\ stack[c[i]].savedFp \in {NULL, CAFE} \/ Len(contexts) + k = MaxContexts
       \/ /\ i = k /\ stack[c[i]].savedFp \in FrameSet \ {c[j] : j \in 1..k}
          /\ x.sender = stack[stack[c[i]].savedFp].link /\ x.sender.k = "context"

\* The sender of the context of a frame is still that of its caller.
LEMMA GrownSenders ==
  ASSUME IInv, Running, HeapInv', NEW c, NEW k, Grows(c, k), NewSenders(c, k), NEW f \in FrameSet
  PROVE  SenderOK(f)'
<1>1. /\ StackInv /\ HeapInv /\ FramesInv /\ SenderOK(f)
      /\ stack[f].savedFp \in {NULL, CAFE}
         \/ (stack[f].savedFp \in FrameSet /\ stack[f].savedFp \notin {NULL, CAFE})
  BY RunningFacts, FrameFacts, BottomAssumption DEF FramesInv, Frame
<1>2. PICK K \in Nat : K = Len(contexts)
  BY <1>1 DEF HeapInv
<1>3. k \in Nat /\ Len(contexts') = K + k /\ K + k <= MaxContexts
  BY <1>2 DEF Grows, IsChain, HeapInv
<1>4. /\ SameFrame(f) /\ FrameArgs(f)' = FrameArgs(f)
  BY GrownWords, GrownFrames
<1>5. PICK up : up = stack[f].savedFp
  OBVIOUS
<1> DEFINE Good(x) ==
      /\ x.method = stack[f].method /\ x.args = FrameArgs(f)
      /\ IF up \in {NULL, CAFE} THEN x.sender = Nil
         ELSE x.sender = Nil \/ (x.sender.k = "context" /\ x.sender = stack'[up].link)
      /\ x.sender = Nil /\ up \notin {NULL, CAFE} => K + k = MaxContexts
<1> SUFFICES ASSUME stack'[f].link.k = "context" PROVE Good(contexts'[stack'[f].link.v])
  <2> HIDE DEF NULL, CAFE
  <2> QED BY <1>3, <1>4, <1>5 DEF SenderOK, SameFrame, Frame
<1>6. CASE /\ stack'[f] = stack[f] /\ stack[f].link \in SomeContext /\ stack[f].link.v \in 1..K
  <2>1. PICK x : x = contexts[stack[f].link.v]
    OBVIOUS
  <2>2. contexts'[stack'[f].link.v] = x
    BY <1>2, <1>6, <2>1 DEF Grows
  <2>3. /\ x.method = stack[f].method /\ x.args = FrameArgs(f)
        /\ IF up \in {NULL, CAFE} THEN x.sender = Nil
           ELSE x.sender = Nil \/ (x.sender.k = "context" /\ x.sender = stack[up].link)
        /\ x.sender = Nil /\ up \notin {NULL, CAFE} => K = MaxContexts
    <3>1. stack[f].link.k = "context"
      BY <1>6
    <3> HIDE DEF NULL, CAFE
    <3> QED BY <1>1, <1>2, <1>5, <2>1, <3>1 DEF SenderOK, Frame
  <2>4. ASSUME up \notin {NULL, CAFE}, x.sender.k = "context", x.sender = stack[up].link
        PROVE  stack'[up].link = stack[up].link
    <3>1. up \in FrameSet
      BY <1>1, <1>5, <2>4
    <3> QED BY <2>4, <3>1, GrownWords
  <2>5. K = MaxContexts => K + k = MaxContexts
    BY <1>3
  <2> HIDE DEF NULL, CAFE
  <2> QED BY <2>2, <2>3, <2>4, <2>5
<1>7. ASSUME NEW i \in 1..k, f = c[i], stack'[f].link = Ctx(K + i)
      PROVE  Good(contexts'[stack'[f].link.v])
  <2>1. PICK x : x = contexts'[K + i]
    OBVIOUS
  <2>2. stack'[f].link.v = K + i
    BY <1>7 DEF Ctx
  <2>3. /\ x.method = stack[f].method /\ x.args = FrameArgs(f)
        /\ \/ i < k /\ x.sender = Ctx(K + i + 1)
           \/ /\ i = k /\ x.sender = Nil
              /\ up \in {NULL, CAFE} \/ K + k = MaxContexts
           \/ /\ i = k /\ up \in FrameSet \ {c[j] : j \in 1..k}
              /\ x.sender = stack[up].link /\ x.sender.k = "context"
    <3> HIDE DEF NULL, CAFE
    <3> QED BY <1>2, <1>5, <1>7, <2>1 DEF NewSenders
  <2>4. \A h \in FrameSet : h \notin {NULL, CAFE}
    <3>1. \A h \in FrameSet : h \in Nat /\ h > 0
      BY <1>1, FrameFacts
    <3> QED BY <3>1 DEF NULL, CAFE
  <2>5. CASE i < k /\ x.sender = Ctx(K + i + 1)
    <3>1. PICK l \in Nat : l = Len(c)
      BY DEF Grows, IsChain
    <3>2. i \in 1..(l - 1) /\ i + 1 \in 1..k /\ K + i + 1 = K + (i + 1)
      BY <1>3, <2>5, <3>1, SMTT(30) DEF Grows
    <3>3. up = c[i + 1] /\ c[i + 1] \in FrameSet
      BY <1>5, <1>7, <3>1, <3>2 DEF Grows, IsChain, Frame
    <3>4. stack'[c[i + 1]] = [stack[c[i + 1]] EXCEPT !.link = Ctx(K + (i + 1))]
      BY <1>2, <3>2 DEF Grows
    <3>5. stack[up] \in FrameWord
      BY <1>1, <3>3, Words
    <3>6. stack'[up].link = Ctx(K + (i + 1))
      BY <3>3, <3>4, <3>5 DEF FrameWord
    <3>7. x.sender.k = "context" /\ x.sender = stack'[up].link /\ x.sender # Nil
      BY <2>5, <3>2, <3>6 DEF Ctx, Nil
    <3>8. up \notin {NULL, CAFE}
      BY <2>4, <3>3
    <3> HIDE DEF NULL, CAFE
    <3> QED BY <2>1, <2>2, <2>3, <3>7, <3>8
  <2>6. CASE /\ i = k /\ x.sender = Nil
             /\ up \in {NULL, CAFE} \/ K + k = MaxContexts
    <3> HIDE DEF NULL, CAFE
    <3> QED BY <2>1, <2>2, <2>3, <2>6
  <2>7. CASE /\ i = k /\ up \in FrameSet \ {c[j] : j \in 1..k}
             /\ x.sender = stack[up].link /\ x.sender.k = "context"
    <3>1. stack'[up] = stack[up]
      BY <2>7, GrownWords
    <3>2. up \notin {NULL, CAFE} /\ x.sender # Nil
      BY <2>4, <2>7 DEF Nil
    <3> HIDE DEF NULL, CAFE
    <3> QED BY <2>1, <2>2, <2>3, <2>7, <3>1, <3>2
  <2> HIDE DEF Good
  <2> QED BY <2>3, <2>5, <2>6, <2>7
<1> HIDE DEF Good
<1> QED
  BY <1>2, <1>6, <1>7, OldLinks

\* The interpret()s wait as they did.
LEMMA GrownCalls ==
  ASSUME IInv, Running, HeapInv', NEW c, NEW k, Grows(c, k), UNCHANGED calls
  PROVE  CallsInv'
<1>1. CallsInv /\ FrameSet' = FrameSet /\ Held \subseteq Held'
  BY RunningFacts, GrownWords
<1>2. calls \in Seq(CallRecord')
  <2>1. CallRecord \subseteq CallRecord'
    <3> SUFFICES ASSUME NEW r \in CallRecord PROVE r \in CallRecord'
      OBVIOUS
    <3> HIDE DEF Ip, NoIp, Held
    <3> QED BY <1>1 DEF CallRecord
  <2>2. PICK X : X = CallRecord'
    OBVIOUS
  <2>3. \A j \in 1..Len(calls) : calls[j] \in X
    BY <1>1, <2>1, <2>2 DEF CallsInv
  <2>4. calls \in Seq(CallRecord)
    BY <1>1 DEF CallsInv
  <2>5. calls \in Seq(X)
    BY <2>3, <2>4
  <2> QED BY <2>2, <2>5
<1>3. ASSUME NEW j \in 2..Len(calls) PROVE CallOK(j)'
  <2>1. PICK r : r = calls[j]
    OBVIOUS
  <2>2. CallOK(j) /\ r.entry \in FrameSet /\ r.cleanup \in Held
    <3>1. j \in 1..Len(calls) /\ CallOK(j) /\ r.entry \in FrameSet
      BY <1>1, <2>1 DEF CallsInv
    <3>2. calls \in Seq(CallRecord)
      BY <1>1 DEF CallsInv
    <3>3. r \in CallRecord
      BY <2>1, <3>1, <3>2
    <3>4. r.cleanup \in Held
      BY <3>3 DEF CallRecord
    <3> QED BY <3>1, <3>4
  <2>3. r.savedFp \in FrameSet
    BY <2>1, <2>2 DEF CallOK
  <2>4. /\ Frame(r.entry)'.savedFp = Frame(r.entry).savedFp
        /\ Frame(r.entry)'.numArgs = Frame(r.entry).numArgs
        /\ Frame(r.entry)'.savedIp = Frame(r.entry).savedIp
        /\ Frame(r.savedFp)'.method = Frame(r.savedFp).method
        /\ OperandBase(r.savedFp)' = OperandBase(r.savedFp)
    BY <2>2, <2>3, GrownWords, GrownFrames DEF SameFrame, Frame
  <2>5. IsThunk(r.cleanup) => IsThunk(r.cleanup)'
    <3> SUFFICES ASSUME IsThunk(r.cleanup) PROVE IsThunk(r.cleanup)'
      OBVIOUS
    <3>1. PICK w \in Held : w = r.cleanup
      BY <2>2
    <3>2. w.v \in 1..Len(closures) /\ w.k = "block" /\ NumArgs[closures[w.v].method] = 0
      BY <3>1, Thunks DEF IsThunk
    <3>3. closures'[w.v] = closures[w.v]
      BY <3>2 DEF Grows
    <3>4. IsThunk(w)'
      BY <3>2, <3>3 DEF IsThunk
    <3> QED BY <3>1, <3>4
  <2> HIDE DEF Ip
  <2> QED BY <1>1, <2>1, <2>2, <2>4, <2>5, Zenon DEF CallOK
<1> QED
  BY <1>1, <1>2, <1>3 DEF CallsInv

\* The activations are the same, with the contexts that they have been given.
LEMMA GrownHistory ==
  ASSUME IInv, Running, HeapInv', NEW c, NEW k, Grows(c, k), NewClosures, UNCHANGED <<calls, born>>
  PROVE  HistoryInv'
<1>1. /\ FrameSet' = FrameSet /\ \A f \in FrameSet : SameFrame(f)
      /\ HeapInv /\ FramesInv /\ StackInv /\ HistoryInv /\ fp \in FrameSet
  BY RunningFacts, GrownWords DEF IInv, MachineInv
<1>2. PICK K \in Nat : K = Len(contexts)
  BY <1>1 DEF HeapInv
<1>3. PICK C \in Nat : C = Len(closures)
  BY <1>1 DEF HeapInv
<1>4. \A b \in 1..C : closures'[b] = closures[b]
  BY <1>3 DEF Grows
<1>5. ASSUME NEW f \in FrameSet
      PROVE  \/ /\ stack'[f] = stack[f]
                /\ stack[f].link.k = "context" => contexts'[stack[f].link.v] = contexts[stack[f].link.v]
             \/ /\ stack[f].link.k # "context" /\ stack'[f].link.k = "context"
                /\ contexts'[stack'[f].link.v].isBlock = stack[f].isBlock
  <2>1. CASE stack'[f].link.k = "context"
    <3>1. \/ /\ stack'[f] = stack[f]
             /\ stack[f].link.v \in 1..Len(contexts)
          \/ \E i \in 1..k : f = c[i] /\ stack'[f].link = Ctx(Len(contexts) + i)
      BY <2>1, OldLinks
    <3>2. CASE \E i \in 1..k : f = c[i] /\ stack'[f].link = Ctx(Len(contexts) + i)
      <4>1. PICK i \in 1..k : f = c[i] /\ stack'[f].link = Ctx(Len(contexts) + i)
        BY <3>2
      <4>2. stack'[f].link.v = Len(contexts) + i
        BY <4>1 DEF Ctx
      <4> QED BY <2>1, <4>1, <4>2 DEF Grows, Frame
    <3>3. CASE stack'[f] = stack[f] /\ stack[f].link.v \in 1..Len(contexts)
      BY <3>3 DEF Grows
    <3> QED BY <3>1, <3>2, <3>3
  <2>2. CASE stack'[f].link.k # "context"
    <3>1. \/ stack'[f] = stack[f]
          \/ \E i \in 1..k : stack'[f].link = Ctx(Len(contexts) + i)
      BY GrownWords
    <3>2. \A i : Ctx(i).k = "context"
      BY DEF Ctx
    <3> QED BY <2>2, <3>1, <3>2, Zenon
  <2> QED BY <2>1, <2>2
<1>6. \A b \in 1..C : closures[b].homeContext.k = "context" =>
        contexts'[closures[b].homeContext.v] = contexts[closures[b].homeContext.v]
  <2> SUFFICES ASSUME NEW b \in 1..C, closures[b].homeContext.k = "context"
               PROVE  contexts'[closures[b].homeContext.v] = contexts[closures[b].homeContext.v]
    OBVIOUS
  <2>1. closures[b] \in Closure
    BY <1>1, <1>3 DEF HeapInv
  <2>2. closures[b].homeContext \in SomeContext
    BY <2>1 DEF Closure, Nil
  <2>3. closures[b].homeContext.v \in 1..Len(contexts)
    BY <2>2 DEF SomeContext, Ctx
  <2> QED BY <2>3 DEF Grows
<1>7. Frame(fp).home <= born /\ (~Frame(fp).isBlock => Frame(fp).home = Frame(fp).id)
  <2>1. ClosureOK(fp) /\ HistoryOK(fp)
    BY <1>1 DEF FramesInv, HistoryInv
  <2>2. CASE ~Frame(fp).isBlock
    BY <2>1, <2>2 DEF ClosureOK, HistoryOK
  <2>3. CASE Frame(fp).isBlock
    <3>1. PICK w \in SomeBlock : w = block_closure_for_frame(fp) /\ Frame(fp).home = closures[w.v].homeId
      BY <2>1, <2>3 DEF ClosureOK
    <3>2. w.v \in 1..Len(closures)
      BY DEF SomeBlock, Blk
    <3> QED BY <1>1, <2>3, <3>1, <3>2 DEF HistoryInv
  <2> QED BY <2>2, <2>3
<1>8. \A b \in 1..Len(closures') : b \in 1..C \/
        /\ b \notin 1..C
        /\ closures'[b].homeId = stack[fp].home
        /\ closures'[b].homeContext = Nil \/ closures'[b].homeContext = stack'[fp].link
  BY <1>3 DEF NewClosures
<1>9. ASSUME NEW f \in FrameSet PROVE HistoryOK(f)'
  <2>1. HistoryOK(f) /\ SameFrame(f)
    BY <1>1 DEF HistoryInv
  <2>2. \A g \in FrameSet : Frame(g)'.id = Frame(g).id /\ Frame(g)'.isBlock = Frame(g).isBlock
    BY <1>1 DEF SameFrame, Frame
  <2>3. Frame(f)'.link.k = "context" => contexts'[Frame(f)'.link.v].isBlock = Frame(f)'.isBlock
    BY <1>5, <2>1, <2>2 DEF HistoryOK, Frame
  <2>4. ASSUME NEW b \in 1..Len(closures'), closures'[b].homeContext.k = "context",
               ~contexts'[closures'[b].homeContext.v].isBlock, closures'[b].homeId = Frame(f).id
        PROVE  Frame(f)'.link = closures'[b].homeContext
    <3>1. CASE b \in 1..C
      <4>1. closures'[b] = closures[b] /\ contexts'[closures[b].homeContext.v] = contexts[closures[b].homeContext.v]
        BY <1>4, <1>6, <2>4, <3>1
      <4>2. Frame(f).link = closures[b].homeContext
        BY <1>3, <2>1, <2>4, <3>1, <4>1 DEF HistoryOK
      <4>3. stack'[f] = stack[f]
        BY <1>5, <2>4, <4>1, <4>2 DEF Frame
      <4> QED BY <4>1, <4>2, <4>3 DEF Frame
    <3>2. CASE /\ closures'[b].homeId = stack[fp].home
               /\ closures'[b].homeContext = Nil \/ closures'[b].homeContext = stack'[fp].link
      <4>1. closures'[b].homeContext = stack'[fp].link /\ stack'[fp].link.k = "context"
        BY <2>4, <3>2 DEF Nil
      <4>2. contexts'[stack'[fp].link.v].isBlock = stack[fp].isBlock
        BY <1>1, <1>5, <4>1 DEF HistoryInv, HistoryOK, Frame
      <4>3. Frame(f).id = Frame(fp).id
        BY <1>7, <2>4, <3>2, <4>1, <4>2 DEF Frame
      <4>4. f = fp
        BY <1>1, <2>1, <4>3 DEF HistoryOK
      <4> QED BY <4>1, <4>4 DEF Frame
    <3> QED BY <1>8, <3>1, <3>2
  <2>5. Frame(f)'.id <= born' /\ calls'[1].entry <= f
    BY <2>1, <2>2 DEF HistoryOK
  <2>6. \A g \in FrameSet : Frame(g)'.id = Frame(f)'.id => g = f
    BY <2>1, <2>2 DEF HistoryOK
  <2>7. \A b \in 1..Len(closures') :
          LET x == closures'[b].homeContext
          IN x.k = "context" /\ ~contexts'[x.v].isBlock /\ closures'[b].homeId = Frame(f)'.id
               => Frame(f)'.link = x
    BY <2>2, <2>4
  <2> QED BY <1>1, <2>3, <2>5, <2>6, <2>7, Zenon DEF HistoryOK
<1>10. \A b \in 1..Len(closures') : closures'[b].homeId <= born'
  <2> TAKE b \in 1..Len(closures')
  <2>1. CASE b \in 1..C
    BY <1>1, <1>3, <1>4, <2>1 DEF HistoryInv
  <2> QED BY <1>7, <1>8, <2>1 DEF Frame
<1> QED
  BY <1>1, <1>9, <1>10 DEF HistoryInv

\* A bytecode that makes contexts and closures and pushes a word.
LEMMA GrowthStep ==
  ASSUME IInv, NEW op, At(op), HeapInv', NEW c, NEW k, Grows(c, k), NewClosures, NewSenders(c, k),
         stack' \in Seq(Held' \cup FrameWord), ip' = Next1(ip), UNCHANGED <<fp, base>>, Continue
  PROVE  IInv'
<1>1. Running /\ ip' \in Ip /\ ip'.m = base
  BY NextIp
<1>2. /\ TopInv /\ fp \in FrameSet /\ fp \in 1..SP /\ SP \in Nat /\ OperandBase(fp) \in Nat /\ OperandBase(fp) <= SP
      /\ base = Frame(fp).method
  BY <1>1, RunningFacts, FrameFacts DEF TopInv
<1>3. SP' = SP + 1 /\ FrameSet' = FrameSet /\ Frame(fp)'.method = Frame(fp).method /\ OperandBase(fp)' = OperandBase(fp)
  <2>1. PICK f \in FrameSet : f = fp
    BY <1>2
  <2>2. Frame(f)'.method = Frame(f).method /\ OperandBase(f)' = OperandBase(f) /\ FrameSet' = FrameSet
    BY <1>1, GrownWords, GrownFrames DEF SameFrame, Frame
  <2>3. fp' = f
    BY <2>1
  <2>4. Frame(fp)'.method = Frame(f)'.method /\ OperandBase(fp)' = OperandBase(f)'
    BY <2>3 DEF Frame, OperandBase, TempCount, block_closure_for_frame
  <2> QED BY <2>1, <2>2, <2>4 DEF Grows
<1>4. StackInv'
  BY DEF StackInv
<1>5. RestInv'
  <2>1. fp' \in 1..SP' /\ base' \in Code /\ outcome' = "running"
    BY <1>1, <1>2, <1>3 DEF IInv, RestInv, Continue, Running
  <2> HIDE DEF Ip, NoIp, After, NULL, CAFE
  <2> QED BY <1>1, <2>1 DEF RestInv
<1>6. TopInv'
  <2>1. OperandBase(fp)' <= SP' /\ \A f \in FrameSet' : f <= fp'
    BY <1>2, <1>3 DEF TopInv
  <2>2. fp' \in FrameSet'
    BY <1>2, <1>3
  <2> HIDE DEF Ip, After
  <2> QED BY <1>1, <1>2, <1>3, <2>1, <2>2 DEF TopInv
<1>7. FramesInv'
  <2>1. \A f \in FrameSet :
          (CallerOK(f) /\ OperandBase(f) <= StackWords /\ ClosureOK(f) /\ LinkOK(f) /\ SenderOK(f))'
    BY <1>1, GrownCallers, GrownLinks, GrownSenders
  <2> QED BY <1>3, <2>1 DEF FramesInv
<1>8. CallsInv'
  BY <1>1, GrownCalls DEF Continue
<1>9. Running'
  BY <1>1 DEF Continue, Running
<1>10. HistoryInv'
  BY <1>1, GrownHistory DEF Continue
<1> QED
  BY <1>4, <1>5, <1>6, <1>7, <1>8, <1>9, <1>10 DEF IInv, MachineInv


-----------------------------------------------------------------------------
(* The frames that ensure_frame_context gives a context to. *)

\* The receiver and the temporaries of a frame are words of the program.
LEMMA TempsHeld ==
  ASSUME IInv, Running, NEW f \in FrameSet
  PROVE  \A p \in (f + 1)..OperandBase(f) : p \in 1..SP /\ stack[p] \in Held
<1>1. /\ StackInv /\ HeapInv /\ FramesInv /\ SP \in Nat /\ f \in Nat /\ f \in 1..SP
      /\ TempCount(f) \in Nat /\ OperandBase(f) = f + 1 + TempCount(f)
      /\ fp \in FrameSet /\ OperandBase(fp) <= SP /\ \A p \in (fp + 1)..SP : stack[p] \in Held
  BY RunningFacts, FrameFacts DEF OperandBase
<1>2. TAKE p \in (f + 1)..OperandBase(f)
<1>3. CASE f = fp
  BY <1>1, <1>3
<1>4. CASE f # fp
  <2>1. PICK c : c = Chain(fp)
    OBVIOUS
  <2>2. IsChain(c, fp)
    BY <1>1, <2>1, ChainFacts
  <2>3. PICK j \in 1..Len(c) : f = c[j]
    BY <2>1, ChainWhole DEF InChain
  <2>4. PICK l \in Nat : l = Len(c)
    BY <2>2 DEF IsChain
  <2>5. j # 1
    BY <1>4, <2>2, <2>3 DEF IsChain
  <2>6. PICK i \in 1..(l - 1) : j = i + 1
    <3>1. j - 1 \in 1..(l - 1) /\ j = (j - 1) + 1
      BY <2>4, <2>5
    <3> QED BY <3>1
  <2>7. PICK h \in FrameSet : h = c[i]
    BY <2>2, <2>4 DEF IsChain
  <2>8. Frame(h).savedFp = f
    BY <2>2, <2>3, <2>4, <2>6, <2>7 DEF IsChain
  <2>9. OperandBase(f) + Frame(h).numArgs + 2 <= h /\ \A g \in FrameSet : g <= f \/ h <= g
    <3>1. f # Bottom
      BY <1>1, BottomAssumption DEF NULL, CAFE
    <3> QED BY <1>1, <2>8, <3>1 DEF FramesInv, CallerOK
  <2>10. h \in Nat /\ h \in 1..SP /\ Frame(h).numArgs \in Nat
    BY <1>1, FrameFacts
  <2>11. p \in 1..SP /\ f < p /\ p < h
    <3>1. f < p /\ p <= OperandBase(f) /\ p \in Nat
      BY <1>1
    <3>2. OperandBase(f) + Frame(h).numArgs + 2 <= h /\ OperandBase(f) \in Nat
      BY <1>1, <2>9
    <3>3. p < h
      BY <2>10, <3>1, <3>2
    <3>4. 1 <= p /\ p <= SP
      BY <1>1, <2>10, <3>1, <3>3
    <3> QED BY <1>1, <3>1, <3>3, <3>4
  <2>12. p \notin FrameSet
    <3> SUFFICES ASSUME p \in FrameSet PROVE FALSE
      OBVIOUS
    <3>1. p <= f \/ h <= p
      BY <2>9
    <3> QED BY <1>1, <2>10, <2>11, <3>1
  <2> QED BY <1>1, <2>11, <2>12, Words
<1> QED
  BY <1>3, <1>4

\* The first n frames of the chain c have no context, and the next one has.
Unmarried(c, n) ==
  /\ IsChain(c, fp) /\ n \in 0..Len(c) /\ Missing(fp) = SubSeq(c, 1, n)
  /\ \A i \in 1..n : Frame(c[i]).link.k # "context"
  /\ n = Len(c) \/ Frame(c[n + 1]).link.k = "context"

\* ensure_frame_context starts from the running frame.
LEMMA MissingFacts ==
  ASSUME IInv, Running
  PROVE  \E c : \E n : Unmarried(c, n)
<1>1. StackInv /\ HeapInv /\ FramesInv /\ fp \in FrameSet
  BY RunningFacts
<1>2. PICK c : c = Chain(fp)
  OBVIOUS
<1>3. IsChain(c, fp)
  BY <1>1, <1>2, ChainFacts
<1>4. PICK l \in Nat : l = Len(c)
  BY <1>3 DEF IsChain
<1>5. PICK T : T = {m \in 0..l : m = l \/ Frame(c[m + 1]).link.k = "context"}
  OBVIOUS
<1>6. T \in SUBSET Nat /\ T # {}
  <2>1. l \in T
    BY <1>5
  <2>2. \A m \in T : m \in Nat
    BY <1>5
  <2> QED BY <2>1, <2>2
<1>7. PICK m \in T : \A j \in T : m <= j
  BY <1>6, NatMinimum
<1>8. m \in 0..l /\ (m = l \/ Frame(c[m + 1]).link.k = "context")
  BY <1>5
<1>9. ASSUME NEW i \in 1..m PROVE Frame(c[i]).link.k # "context"
  <2>1. i - 1 \in 0..l /\ (i - 1) + 1 = i /\ ~(m <= i - 1)
    BY <1>8
  <2>2. i - 1 \notin T
    BY <1>7, <2>1
  <2> QED BY <1>5, <2>1, <2>2
<1>10. PICK n : n = CHOOSE m1 \in 0..Len(c) :
         /\ \A i \in 1..m1 : Frame(c[i]).link.k # "context"
         /\ m1 = Len(c) \/ Frame(c[m1 + 1]).link.k = "context"
  BY SMTT(30)
<1>11. /\ n \in 0..Len(c) /\ \A i \in 1..n : Frame(c[i]).link.k # "context"
       /\ n = Len(c) \/ Frame(c[n + 1]).link.k = "context"
  BY <1>4, <1>8, <1>9, <1>10
<1>12. Missing(fp) = SubSeq(c, 1, n)
  BY <1>2, <1>10 DEF Missing
<1> QED
  BY <1>3, <1>11, <1>12 DEF Unmarried

\* How many of them get one.
LEMMA MadeFacts ==
  ASSUME IInv, Running, NEW c, NEW n, Unmarried(c, n)
  PROVE  /\ n \in Nat /\ Made(fp) \in 0..n /\ Len(contexts) \in Nat /\ MaxContexts \in Nat
         /\ Len(Missing(fp)) = n /\ \A i \in 1..n : Missing(fp)[i] = c[i] /\ i \in 1..Len(c)
         /\ Len(contexts) + Made(fp) <= MaxContexts
         /\ Made(fp) # n => Len(contexts) + Made(fp) = MaxContexts
<1>1. PICK K \in Nat : K = Len(contexts)
  BY RunningFacts DEF HeapInv
<1>2. K <= MaxContexts /\ MaxContexts \in Nat
  BY <1>1, RunningFacts, BoundAssumption DEF HeapInv
<1>3. PICK l \in Nat : l = Len(c)
  BY DEF Unmarried, IsChain
<1>4. n \in 0..l /\ c \in Seq(1..StackWords) /\ Missing(fp) = SubSeq(c, 1, n)
  BY <1>3 DEF Unmarried, IsChain
<1>5. /\ Len(Missing(fp)) = n /\ \A i \in 1..n : Missing(fp)[i] = c[i] /\ i \in 1..l
  <2>1. PICK W : W = 1..StackWords
    OBVIOUS
  <2>2. PICK s : s = SubSeq(c, 1, n)
    OBVIOUS
  <2>3. c \in Seq(W) /\ n <= Len(c) /\ n \in Nat
    BY <1>3, <1>4, <2>1
  <2>4. Len(s) = n /\ \A i \in 1..n : s[i] = c[i]
    BY <2>2, <2>3
  <2> QED BY <1>4, <2>2, <2>4
<1>6. Made(fp) = IF n < MaxContexts - K THEN n ELSE MaxContexts - K
  BY <1>1, <1>5 DEF Made, Smaller
<1> QED
  BY <1>1, <1>2, <1>3, <1>4, <1>5, <1>6

\* The stack with the new contexts in its frames.
LEMMA MarriedWords ==
  ASSUME IInv, Running, NEW c, NEW n, Unmarried(c, n)
  PROVE  /\ StackMarried(fp) \in Seq(Held \cup FrameWord) /\ Len(StackMarried(fp)) = SP
         /\ \A p \in 1..SP : p \notin {c[i] : i \in 1..Made(fp)} => StackMarried(fp)[p] = stack[p]
         /\ \A i \in 1..Made(fp) :
              StackMarried(fp)[c[i]] = [stack[c[i]] EXCEPT !.link = Ctx(Len(contexts) + i)]
<1>1. /\ StackInv /\ HeapInv /\ FramesInv /\ stack \in Seq(Held \cup FrameWord) /\ SP \in Nat /\ SP = Len(stack)
      /\ \A f \in FrameSet : f \in 1..SP /\ stack[f] \in FrameWord
  BY RunningFacts, Words DEF SP
<1>2. PICK k : k = Made(fp)
  OBVIOUS
<1>3. PICK K : K = Len(contexts)
  OBVIOUS
<1>4. /\ n \in Nat /\ k \in 0..n /\ K \in Nat /\ MaxContexts \in Nat /\ K + k <= MaxContexts
      /\ \A i \in 1..n : Missing(fp)[i] = c[i] /\ i \in 1..Len(c)
  BY <1>2, <1>3, MadeFacts
<1>5. \A i \in 1..k : Missing(fp)[i] = c[i] /\ i \in 1..Len(c)
  BY <1>4
<1>6. /\ \A i, j \in 1..Len(c) : i # j => c[i] # c[j]
      /\ \A i \in 1..Len(c) : c[i] \in FrameSet
  BY <1>1, ChainDown DEF Unmarried, IsChain
<1>7. PICK st : st = StackMarried(fp)
  OBVIOUS
<1>8. st = [p \in 1..SP |->
              IF \E i \in 1..k : Missing(fp)[i] = p
                THEN [Frame(p) EXCEPT !.link = Ctx(K + (CHOOSE i \in 1..k : Missing(fp)[i] = p))]
                ELSE stack[p]]
  BY <1>2, <1>3, <1>7 DEF StackMarried
<1>9. ASSUME NEW p \in 1..SP, p \notin {c[i] : i \in 1..k} PROVE st[p] = stack[p]
  <2>1. ~ \E i \in 1..k : Missing(fp)[i] = p
    BY <1>5, <1>9
  <2> QED BY <1>8, <2>1
<1>10. ASSUME NEW i \in 1..k PROVE st[c[i]] = [stack[c[i]] EXCEPT !.link = Ctx(K + i)]
  <2>1. PICK p \in 1..SP : p = c[i]
    BY <1>1, <1>5, <1>6
  <2>2. Missing(fp)[i] = p
    BY <1>5, <2>1
  <2>3. PICK j : j = CHOOSE m \in 1..k : Missing(fp)[m] = p
    OBVIOUS
  <2>4. j \in 1..k /\ Missing(fp)[j] = p
    BY <2>2, <2>3
  <2>5. j = i
    BY <1>5, <1>6, <2>1, <2>4
  <2>6. st[p] = [Frame(p) EXCEPT !.link = Ctx(K + j)]
    BY <1>8, <2>2, <2>3
  <2> QED BY <2>1, <2>5, <2>6 DEF Frame
<1>11. \A p \in 1..SP : st[p] \in Held \cup FrameWord
  <2> TAKE p \in 1..SP
  <2>1. CASE p \notin {c[i] : i \in 1..k}
    BY <1>1, <1>9, <2>1
  <2>2. ASSUME NEW i \in 1..k, p = c[i] PROVE st[p] \in FrameWord
    <3>1. PICK w \in FrameWord : w = stack[p]
      BY <1>1, <1>5, <1>6, <2>2
    <3>2. PICK x \in Oop : x = Ctx(K + i)
      <4>1. K + i \in 1..MaxContexts
        BY <1>4
      <4> QED BY <4>1 DEF Oop
    <3>3. PICK v : v = [w EXCEPT !.link = x]
      OBVIOUS
    <3>4. v \in FrameWord
      <4> HIDE DEF Ip, NoIp, After, Oop
      <4> QED BY <3>3 DEF FrameWord
    <3> QED BY <1>10, <2>2, <3>1, <3>2, <3>3, <3>4
  <2> QED BY <2>1, <2>2
<1>12. st \in Seq(Held \cup FrameWord) /\ Len(st) = SP
  <2>1. PICK W : W = Held \cup FrameWord
    OBVIOUS
  <2>2. \A p \in 1..SP : st[p] \in W
    BY <1>11, <2>1
  <2>3. st = [p \in 1..SP |-> st[p]]
    BY <1>8
  <2>4. st \in Seq(W) /\ Len(st) = SP
    BY <1>1, <2>2, <2>3
  <2> QED BY <2>1, <2>4
<1> QED
  BY <1>2, <1>3, <1>7, <1>9, <1>10, <1>12

\* The contexts that the heap can hold when it has k more.
MoreContexts(k) == {Ctx(j) : j \in 1..(Len(contexts) + k)}
ContextWith(k) ==
  [sender : {Nil} \cup MoreContexts(k), ip : Held, method : Code, receiver : Held,
   closure : {Nil} \cup SomeBlock, home : {Nil} \cup SomeContext, isBlock : BOOLEAN,
   args : Seq(Held), temps : Seq(Held), rest : Seq(Held)]

\* A context that is made: its words, and the fields the interpreter reads.
LEMMA NewContextWords ==
  ASSUME IInv, Running, NEW c, NEW n, Unmarried(c, n), NEW i \in 1..Made(fp)
  PROVE  LET x == NewContext(fp, i)
             g == c[i]
         IN /\ x.ip \in Held /\ x.method = Frame(g).method /\ x.method \in Code /\ x.receiver \in Held
            /\ x.closure = block_closure_for_frame(g) /\ x.closure \in {Nil} \cup SomeBlock
            /\ x.home = block_home_context_for_frame(g) /\ x.home \in {Nil} \cup SomeContext
            /\ x.isBlock \in BOOLEAN /\ x.isBlock = Frame(g).isBlock /\ x.args = FrameArgs(g) /\ x.args \in Seq(Held)
            /\ x.temps \in Seq(Held) /\ x.rest \in Seq(Held)
<1>1. /\ StackInv /\ HeapInv /\ FramesInv /\ stack \in Seq(Held \cup FrameWord) /\ SP \in Nat /\ SP = Len(stack)
  BY RunningFacts DEF SP
<1>2. Missing(fp)[i] = c[i] /\ i \in 1..Len(c) /\ i \in 1..n
  BY MadeFacts
<1>3. PICK g \in FrameSet : g = c[i] /\ Frame(g).link.k # "context"
  BY <1>2 DEF Unmarried, IsChain
<1>4. /\ g \in Nat /\ g \in 1..SP /\ stack[g] \in FrameWord /\ Frame(g).numArgs \in Nat
      /\ TempCount(g) \in Nat /\ OperandBase(g) = g + 1 + TempCount(g) /\ ClosureOK(g)
  BY <1>1, FrameFacts DEF OperandBase, FramesInv
<1>5. PICK x : x = NewContext(fp, i)
  OBVIOUS
<1>6. PICK b : b = block_closure_for_frame(g)
  OBVIOUS
<1>7. PICK saved : saved = NumTemps[Frame(g).method]
  OBVIOUS
<1>8. saved \in Nat /\ saved <= TempCount(g)
  <2>1. /\ TempCount(g) \in Nat /\ NumTemps[Frame(g).method] \in Nat
        /\ TempCount(g) = NumTemps[Frame(g).method]
             + IF Frame(g).isBlock THEN Len(closures[block_closure_for_frame(g).v].copied) ELSE 0
    BY <1>1, <1>4, TempCounts DEF Frame
  <2>2. CASE Frame(g).isBlock
    <3>1. PICK j \in 1..Len(closures) : b = Blk(j)
      BY <1>4, <1>6, <2>2 DEF ClosureOK, SomeBlock
    <3>2. b.v = j
      BY <3>1 DEF Blk
    <3>3. closures[j] \in Closure
      BY <1>1 DEF HeapInv
    <3>4. Len(closures[b.v].copied) \in Nat
      BY <3>2, <3>3 DEF Closure
    <3> QED BY <1>6, <1>7, <2>1, <2>2, <3>4
  <2> QED BY <1>7, <2>1, <2>2
<1>9. /\ x.ip = context_ip_for_frame(g) /\ x.method = Frame(g).method /\ x.receiver = stack[g + 1]
      /\ x.closure = b /\ x.home = IF b = Nil THEN Nil ELSE closures[b.v].homeContext
      /\ x.isBlock = Frame(g).isBlock /\ x.args = FrameArgs(g)
      /\ x.temps = [j \in 1..saved |-> frame_temp(g, j - 1)]
      /\ x.rest = IF i = 1 THEN SubSeq(stack, g + 2 + saved, SP) ELSE <<>>
  BY <1>2, <1>3, <1>5, <1>6, <1>7 DEF NewContext
<1>10. x.ip \in Held
  <2>1. PICK ii : ii = Frame(g).savedIp
    OBVIOUS
  <2>2. CASE ii.m = Frame(g).method
    <3>1. ii \in Ip \cup {NoIp, After} /\ Frame(g).method \in Code
      BY <1>4, <2>1, FrameParts DEF Frame
    <3>2. ii \in Ip
      BY <2>2, <3>1, CodeAssumption DEF NoIp, After
    <3>3. ii.pc \in 0..MaxPc
      BY <3>2 DEF Ip
    <3> QED BY <1>9, <2>1, <2>2, <3>3, HeldValues DEF context_ip_for_frame
  <2>3. CASE ii.m # Frame(g).method
    BY <1>9, <2>1, <2>3, HeldValues DEF context_ip_for_frame
  <2> QED BY <2>2, <2>3
<1>11. x.method \in Code /\ x.isBlock \in BOOLEAN
  BY <1>4, <1>9, FrameParts DEF Frame
<1>12. \A p \in (g + 1)..OperandBase(g) : p \in 1..SP /\ stack[p] \in Held
  BY TempsHeld
<1>13. x.receiver \in Held
  BY <1>4, <1>9, <1>12
<1>14. /\ x.closure \in {Nil} \cup SomeBlock
       /\ x.home = block_home_context_for_frame(g) /\ x.home \in {Nil} \cup SomeContext
  <2>1. CASE Frame(g).isBlock
    <3>1. /\ b \in SomeBlock /\ block_home_context_for_frame(g) = closures[b.v].homeContext
      BY <1>4, <1>6, <2>1 DEF ClosureOK
    <3>2. PICK j \in 1..Len(closures) : b = Blk(j)
      BY <3>1 DEF SomeBlock
    <3>3. b # Nil /\ b.v = j
      BY <3>2 DEF Blk, Nil
    <3>4. closures[b.v] \in Closure
      BY <1>1, <3>3 DEF HeapInv
    <3>5. closures[b.v].homeContext \in {Nil} \cup SomeContext
      BY <3>4 DEF Closure
    <3> QED BY <1>9, <3>1, <3>3, <3>5
  <2>2. CASE ~Frame(g).isBlock
    <3>1. b = Nil
      BY <1>4, <1>6, <2>2 DEF ClosureOK
    <3>2. Frame(g).link.k \in {"zero", "block"}
      BY <1>3, <1>4 DEF ClosureOK
    <3>3. Frame(g).link.k # "block"
      <4> SUFFICES ASSUME Frame(g).link.k = "block" PROVE FALSE
        OBVIOUS
      <4>1. b = Frame(g).link
        BY <1>6 DEF block_closure_for_frame
      <4> QED BY <3>1, <4>1 DEF Nil
    <3>4. block_home_context_for_frame(g) = Nil
      BY <3>2, <3>3 DEF block_home_context_for_frame
    <3> QED BY <1>9, <3>1, <3>4
  <2> QED BY <2>1, <2>2
<1>15. x.args \in Seq(Held)
  <2>1. PICK m \in Nat : m = Frame(g).numArgs
    BY <1>4
  <2>2. \A j \in 1..m : frame_arg(g, j - 1) \in Held
    <3> TAKE j \in 1..m
    <3>1. g - m + (j - 1) \in (g - m - 1)..(g - 1)
      BY <1>4, <2>1
    <3>2. stack[g - m + (j - 1)] \in Held
      BY <1>1, <2>1, <3>1, ArgumentsHeld
    <3> QED BY <2>1, <3>2 DEF frame_arg
  <2>3. PICK s : s = [j \in 1..m |-> frame_arg(g, j - 1)]
    OBVIOUS
  <2>4. \A j \in 1..m : s[j] \in Held
    BY <2>2, <2>3
  <2>5. s \in Seq(Held)
    BY <2>3, <2>4
  <2> QED BY <1>9, <2>1, <2>3, <2>5 DEF FrameArgs
<1>16. x.temps \in Seq(Held)
  <2>1. \A j \in 1..saved : frame_temp(g, j - 1) \in Held
    <3> TAKE j \in 1..saved
    <3>1. g + 2 + (j - 1) \in (g + 1)..OperandBase(g)
      BY <1>4, <1>8
    <3> QED BY <1>12, <3>1 DEF frame_temp
  <2>2. PICK s : s = [j \in 1..saved |-> frame_temp(g, j - 1)]
    OBVIOUS
  <2>3. \A j \in 1..saved : s[j] \in Held
    BY <2>1, <2>2
  <2>4. s \in Seq(Held)
    BY <1>8, <2>2, <2>3
  <2> QED BY <1>9, <2>2, <2>4
<1>17. x.rest \in Seq(Held)
  <2>1. CASE i = 1
    <3>1. g = fp
      BY <1>3, <2>1 DEF Unmarried, IsChain
    <3>2. PICK lo \in Nat : lo = g + 2 + saved
      BY <1>4, <1>8
    <3>3. lo > g
      BY <1>4, <1>8, <3>2
    <3>4. \A p \in lo..SP : stack[p] \in Held
      <4> TAKE p \in lo..SP
      <4>1. p \in (fp + 1)..SP
        BY <1>1, <1>4, <3>1, <3>3
      <4> QED BY <4>1, RunningFacts
    <3>5. PICK s : s = SubSeq(stack, lo, SP)
      OBVIOUS
    <3>6. s = [j \in 1..(SP - lo + 1) |-> stack[lo + j - 1]]
      BY <1>1, <3>5
    <3>7. \A j \in 1..(SP - lo + 1) : s[j] \in Held
      <4> TAKE j \in 1..(SP - lo + 1)
      <4>1. lo + j - 1 \in lo..SP
        BY <1>1
      <4> QED BY <3>4, <3>6, <4>1
    <3>8. s \in Seq(Held)
      <4>1. CASE SP - lo + 1 \in Nat
        BY <3>6, <3>7, <4>1
      <4>2. CASE SP - lo + 1 \notin Nat
        <5>1. lo > SP
          BY <1>1, <4>2
        <5>2. s = <<>>
          BY <1>1, <3>5, <5>1
        <5> QED BY <5>2
      <4> QED BY <4>1, <4>2
    <3> QED BY <1>9, <2>1, <3>2, <3>5, <3>8
  <2>2. CASE i # 1
    BY <1>9, <2>2
  <2> QED BY <2>1, <2>2
<1> QED
  BY <1>3, <1>5, <1>6, <1>9, <1>10, <1>11, <1>13, <1>14, <1>15, <1>16, <1>17

\* Its sender: the next context that is made, or the context the caller has.
LEMMA NewContextSender ==
  ASSUME IInv, Running, NEW c, NEW n, Unmarried(c, n), NEW i \in 1..Made(fp)
  PROVE  LET x == NewContext(fp, i)
             k == Made(fp)
         IN /\ x.sender \in {Nil} \cup MoreContexts(k)
            /\ \/ i < k /\ x.sender = Ctx(Len(contexts) + i + 1)
               \/ /\ i = k /\ x.sender = Nil
                  /\ stack[c[i]].savedFp \in {NULL, CAFE} \/ Len(contexts) + k = MaxContexts
               \/ /\ i = k /\ stack[c[i]].savedFp \in FrameSet \ {c[j] : j \in 1..k}
                  /\ x.sender = stack[stack[c[i]].savedFp].link /\ x.sender.k = "context"
<1>1. PICK k : k = Made(fp)
  OBVIOUS
<1>2. PICK K \in Nat : K = Len(contexts)
  BY MadeFacts
<1>3. /\ n \in Nat /\ k \in 0..n /\ Len(Missing(fp)) = n /\ Missing(fp)[i] = c[i]
      /\ i \in 1..n /\ i \in 1..k
      /\ k # n => K + k = MaxContexts
  BY <1>1, <1>2, MadeFacts
<1>4. PICK l \in Nat : l = Len(c)
  BY DEF Unmarried, IsChain
<1>5. /\ IsChain(c, fp) /\ n \in 0..l /\ i \in 1..l
      /\ n = l \/ Frame(c[n + 1]).link.k = "context"
  BY <1>3, <1>4 DEF Unmarried
<1>6. PICK up : up = stack[c[i]].savedFp
  OBVIOUS
<1>7. PICK s : s = NewContext(fp, i).sender
  OBVIOUS
<1>8. s = IF i < k THEN Ctx(K + i + 1)
          ELSE IF i = n /\ up \notin {NULL, CAFE} THEN stack[up].link
          ELSE Nil
  <2> HIDE DEF NULL, CAFE
  <2> QED BY <1>1, <1>2, <1>3, <1>6, <1>7 DEF NewContext, Frame
<1>9. CASE i < k
  <2>1. s = Ctx(K + i + 1)
    BY <1>8, <1>9
  <2>2. K + i + 1 \in 1..(K + k)
    BY <1>3, <1>9
  <2>3. s \in MoreContexts(k)
    BY <1>2, <2>1, <2>2 DEF MoreContexts
  <2> QED BY <1>1, <1>2, <1>7, <1>9, <2>1, <2>3
<1>10. CASE i = k /\ k # n
  <2>1. s = Nil /\ K + k = MaxContexts
    BY <1>3, <1>8, <1>10
  <2> QED BY <1>1, <1>2, <1>7, <1>10, <2>1
<1>11. CASE i = k /\ k = n /\ n = l
  <2>1. up = Bottom
    BY <1>4, <1>5, <1>6, <1>11 DEF IsChain, Frame
  <2>2. up \in {NULL, CAFE}
    BY <2>1, BottomAssumption
  <2>3. s = Nil
    <3> HIDE DEF NULL, CAFE
    <3> QED BY <1>8, <1>11, <2>2
  <2> HIDE DEF NULL, CAFE
  <2> QED BY <1>1, <1>6, <1>7, <1>11, <2>2, <2>3
<1>12. CASE i = k /\ k = n /\ n # l
  <2>1. i \in 1..(l - 1) /\ i + 1 \in 1..l
    BY <1>3, <1>5, <1>12
  <2>2. up = c[i + 1] /\ up \in FrameSet
    BY <1>4, <1>5, <1>6, <2>1 DEF IsChain, Frame
  <2>3. up \notin {c[j] : j \in 1..k}
    <3>1. \A j, m \in 1..l : j # m => c[j] # c[m]
      BY <1>4, <1>5, ChainDown, RunningFacts
    <3>2. \A j \in 1..k : j \in 1..l /\ j # i + 1
      BY <1>5, <1>12
    <3> QED BY <2>1, <2>2, <3>1, <3>2
  <2>4. up \notin {NULL, CAFE}
    <3>1. up \in Nat /\ up > 0
      BY <2>2, FrameFacts, RunningFacts
    <3> QED BY <3>1 DEF NULL, CAFE
  <2>5. s = stack[up].link /\ s.k = "context"
    <3>1. s = stack[up].link
      <4> HIDE DEF NULL, CAFE
      <4> QED BY <1>8, <1>12, <2>4
    <3> QED BY <1>5, <1>12, <2>2, <3>1 DEF Frame
  <2>6. s \in MoreContexts(k)
    <3>1. s \in Held
      BY <2>2, <2>5, RunningFacts DEF FramesInv, ClosureOK, Frame
    <3>2. PICK j \in 1..K : s = Ctx(j)
      BY <1>2, <2>5, <3>1, HeldKinds
    <3>3. j \in 1..(K + k)
      BY <1>3
    <3> QED BY <1>2, <3>2, <3>3 DEF MoreContexts
  <2> QED BY <1>1, <1>6, <1>7, <1>12, <2>2, <2>3, <2>5, <2>6
<1> QED
  BY <1>3, <1>9, <1>10, <1>11, <1>12


-----------------------------------------------------------------------------
(* The heap with more contexts and closures. *)

\* The heap only gains contexts and closures.
HeapGrows ==
  /\ Len(contexts) \in Nat /\ Len(contexts') \in Nat /\ Len(contexts) <= Len(contexts')
  /\ Len(closures) \in Nat /\ Len(closures') \in Nat /\ Len(closures) <= Len(closures')

\* What the program held it can hold still.
LEMMA GrownHeld ==
  ASSUME HeapGrows
  PROVE  /\ SomeBlock \subseteq SomeBlock' /\ SomeContext \subseteq SomeContext' /\ Held \subseteq Held'
         /\ \A s \in Seq(Held) : s \in Seq(Held')
<1>1. SomeBlock \subseteq SomeBlock'
  <2>1. 1..Len(closures) \subseteq 1..Len(closures')
    BY DEF HeapGrows
  <2> QED BY <2>1 DEF SomeBlock
<1>2. SomeContext \subseteq SomeContext'
  <2>1. 1..Len(contexts) \subseteq 1..Len(contexts')
    BY DEF HeapGrows
  <2> QED BY <2>1 DEF SomeContext
<1>3. Held \subseteq Held'
  BY <1>1, <1>2 DEF Held
<1>4. \A s \in Seq(Held) : s \in Seq(Held')
  BY <1>3, WiderSeq
<1> QED
  BY <1>1, <1>2, <1>3, <1>4

\* So old closures and contexts still have the types of theirs.
LEMMA GrownTypes ==
  ASSUME HeapGrows
  PROVE  Closure \subseteq Closure' /\ Context \subseteq Context'
<1>1. PICK S, H, B, C : S = Seq(Held) /\ H = Held /\ B = SomeBlock /\ C = SomeContext
  OBVIOUS
<1>2. PICK S1, H1, B1, C1 : S1 = Seq(Held') /\ H1 = Held' /\ B1 = SomeBlock' /\ C1 = SomeContext'
  OBVIOUS
<1>3. S \subseteq S1 /\ H \subseteq H1 /\ B \subseteq B1 /\ C \subseteq C1
  BY <1>1, <1>2, GrownHeld
<1>4. Closure \subseteq Closure'
  <2>1. Closure = [homeContext : {Nil} \cup C, receiver : H, method : Blocks, copied : S, homeId : Nat]
    BY <1>1 DEF Closure
  <2>2. Closure' = [homeContext : {Nil} \cup C1, receiver : H1, method : Blocks, copied : S1, homeId : Nat]
    BY <1>2 DEF Closure
  <2> QED BY <1>3, <2>1, <2>2
<1>5. Context \subseteq Context'
  <2>1. Context = [sender : {Nil} \cup C, ip : H, method : Code, receiver : H,
                   closure : {Nil} \cup B, home : {Nil} \cup C, isBlock : BOOLEAN,
                   args : S, temps : S, rest : S]
    BY <1>1 DEF Context
  <2>2. Context' = [sender : {Nil} \cup C1, ip : H1, method : Code, receiver : H1,
                   closure : {Nil} \cup B1, home : {Nil} \cup C1, isBlock : BOOLEAN,
                   args : S1, temps : S1, rest : S1]
    BY <1>2 DEF Context
  <2> QED BY <1>3, <2>1, <2>2
<1> QED
  BY <1>4, <1>5

\* The contexts after ensure_frame_context.
LEMMA MarriedContexts ==
  ASSUME IInv, Running, NEW c, NEW n, Unmarried(c, n), contexts' = ContextsWith(fp),
         Len(closures') \in Nat, Len(closures) <= Len(closures')
  PROVE  /\ HeapGrows /\ Len(contexts') = Len(contexts) + Made(fp)
         /\ \A j \in 1..Len(contexts) : contexts'[j] = contexts[j]
         /\ \A i \in 1..Made(fp) : contexts'[Len(contexts) + i] = NewContext(fp, i)
         /\ contexts' \in Seq(Context') /\ Len(contexts') <= MaxContexts
<1>1. PICK k : k = Made(fp)
  OBVIOUS
<1>2. PICK K \in Nat : K = Len(contexts)
  BY MadeFacts
<1>3. n \in Nat /\ k \in 0..n /\ K + k <= MaxContexts
  BY <1>1, <1>2, MadeFacts
<1>4. PICK new : new = [i \in 1..k |-> NewContext(fp, i)]
  OBVIOUS
<1>5. contexts' = contexts \o new
  BY <1>1, <1>4 DEF ContextsWith
<1>6. HeapInv /\ contexts \in Seq(Context) /\ Len(closures) \in Nat
  BY RunningFacts DEF HeapInv
<1>7. new = [i \in 1..k |-> new[i]] /\ \A i \in 1..k : new[i] = NewContext(fp, i)
  BY <1>4
<1>8. PICK W : W = Context \cup {new[i] : i \in 1..k}
  OBVIOUS
<1>9. contexts \in Seq(W)
  BY <1>6, <1>8, WiderSeq
<1>10. new \in Seq(W) /\ Len(new) = k
  <2>1. \A i \in 1..k : new[i] \in W
    BY <1>8
  <2> QED BY <1>3, <1>7, <2>1
<1>11. /\ Len(contexts') = K + k
       /\ \A j \in 1..K : contexts'[j] = contexts[j]
       /\ \A i \in 1..k : contexts'[K + i] = new[i]
  <2>1. PICK a \in Seq(W), b \in Seq(W) : a = contexts /\ b = new
    BY <1>9, <1>10
  <2>2. /\ Len(a \o b) = Len(a) + Len(b)
        /\ \A j \in 1..Len(a) : (a \o b)[j] = a[j]
        /\ \A i \in 1..Len(b) : (a \o b)[Len(a) + i] = b[i]
    BY JoinedSeq
  <2> QED BY <1>2, <1>5, <1>10, <2>1, <2>2
<1>12. HeapGrows
  BY <1>2, <1>3, <1>6, <1>11 DEF HeapGrows
<1>13. Len(contexts') = Len(contexts) + k
  BY <1>2, <1>11
<1>14. MoreContexts(k) = SomeContext'
  BY <1>13 DEF MoreContexts, SomeContext
<1>15. ASSUME NEW i \in 1..k PROVE new[i] \in Context'
  <2>1. PICK x : x = NewContext(fp, i)
    OBVIOUS
  <2>2. x.sender \in {Nil} \cup SomeContext'
    BY <1>1, <1>14, <2>1, NewContextSender
  <2>3. /\ x.ip \in Held /\ x.method \in Code /\ x.receiver \in Held
        /\ x.closure \in {Nil} \cup SomeBlock /\ x.home \in {Nil} \cup SomeContext
        /\ x.isBlock \in BOOLEAN /\ x.args \in Seq(Held) /\ x.temps \in Seq(Held) /\ x.rest \in Seq(Held)
    BY <1>1, <2>1, NewContextWords
  <2>4. x = [sender |-> x.sender, ip |-> x.ip, method |-> x.method, receiver |-> x.receiver,
             closure |-> x.closure, home |-> x.home, isBlock |-> x.isBlock, args |-> x.args,
             temps |-> x.temps, rest |-> x.rest]
    BY <2>1 DEF NewContext
  <2>5. /\ x.ip \in Held' /\ x.receiver \in Held'
        /\ x.closure \in {Nil} \cup SomeBlock' /\ x.home \in {Nil} \cup SomeContext'
        /\ x.args \in Seq(Held') /\ x.temps \in Seq(Held') /\ x.rest \in Seq(Held')
    BY <1>12, <2>3, GrownHeld
  <2>6. PICK S1, H1, B1, C1 : S1 = Seq(Held') /\ H1 = Held' /\ B1 = SomeBlock' /\ C1 = SomeContext'
    OBVIOUS
  <2>7. Context' = [sender : {Nil} \cup C1, ip : H1, method : Code, receiver : H1,
                    closure : {Nil} \cup B1, home : {Nil} \cup C1, isBlock : BOOLEAN,
                    args : S1, temps : S1, rest : S1]
    BY <2>6 DEF Context
  <2>8. x \in Context'
    BY <2>2, <2>3, <2>4, <2>5, <2>6, <2>7
  <2> QED BY <1>7, <2>1, <2>8
<1>16. contexts' \in Seq(Context')
  <2>1. PICK X : X = Context'
    OBVIOUS
  <2>2. contexts \in Seq(X)
    BY <1>6, <1>12, <2>1, GrownTypes, WiderSeq
  <2>3. new \in Seq(X)
    <3>1. \A i \in 1..k : new[i] \in X
      BY <1>15, <2>1
    <3> QED BY <1>3, <1>7, <3>1
  <2>4. contexts' \in Seq(X)
    BY <1>5, <2>2, <2>3
  <2> QED BY <2>1, <2>4
<1> QED
  BY <1>1, <1>2, <1>3, <1>7, <1>11, <1>12, <1>13, <1>16

\* What the heap held has the types of the heap that has grown.
LEMMA OldHeap ==
  ASSUME HeapInv, HeapGrows
  PROVE  closures \in Seq(Closure') /\ contexts \in Seq(Context')
<1>1. closures \in Seq(Closure) /\ contexts \in Seq(Context)
  BY DEF HeapInv
<1> QED
  BY <1>1, GrownTypes, WiderSeq

\* A word is pushed after ensure_frame_context.
LEMMA MarriedGrows ==
  ASSUME IInv, Running, NEW c, NEW n, Unmarried(c, n), contexts' = ContextsWith(fp),
         Len(closures') \in Nat, Len(closures) <= Len(closures'),
         \A b \in 1..Len(closures) : closures'[b] = closures[b],
         NEW w, w \in Held', stack' = Append(StackMarried(fp), w)
  PROVE  /\ Grows(c, Made(fp)) /\ NewSenders(c, Made(fp)) /\ stack' \in Seq(Held' \cup FrameWord)
         /\ Made(fp) > 0 => stack'[fp].link = Ctx(Len(contexts) + 1)
<1>1. PICK k : k = Made(fp)
  OBVIOUS
<1>2. PICK K \in Nat : K = Len(contexts)
  BY MadeFacts
<1>3. /\ n \in Nat /\ k \in 0..n /\ IsChain(c, fp) /\ n \in 0..Len(c)
      /\ \A i \in 1..n : Frame(c[i]).link.k # "context"
  BY <1>1, <1>2, MadeFacts DEF Unmarried
<1>4. PICK l \in Nat : l = Len(c)
  BY <1>3 DEF IsChain
<1>5. k \in 0..l /\ k \in Nat /\ \A i \in 1..k : i \in 1..l /\ Frame(c[i]).link.k # "context"
  BY <1>3, <1>4
<1>6. /\ HeapGrows /\ Len(contexts') = K + k
      /\ \A j \in 1..K : contexts'[j] = contexts[j]
      /\ \A i \in 1..k : contexts'[K + i] = NewContext(fp, i)
  BY <1>1, <1>2, MarriedContexts
<1>7. PICK st : st = StackMarried(fp)
  OBVIOUS
<1>8. /\ st \in Seq(Held \cup FrameWord) /\ Len(st) = SP /\ SP \in Nat
      /\ \A p \in 1..SP : p \notin {c[i] : i \in 1..k} => st[p] = stack[p]
      /\ \A i \in 1..k : st[c[i]] = [stack[c[i]] EXCEPT !.link = Ctx(K + i)]
  <2>1. SP \in Nat
    BY RunningFacts
  <2> QED BY <1>1, <1>2, <1>7, <2>1, MarriedWords
<1>9. PICK W : W = Held' \cup FrameWord
  OBVIOUS
<1>10. st \in Seq(W)
  <2>1. Held \cup FrameWord \subseteq W
    BY <1>6, <1>9, GrownHeld
  <2> QED BY <1>8, <2>1, WiderSeq
<1>11. /\ stack' \in Seq(W) /\ SP' = SP + 1 /\ stack'[SP + 1] = w
       /\ \A p \in 1..SP : stack'[p] = st[p]
  <2>1. w \in W /\ stack' = Append(st, w)
    BY <1>7, <1>9
  <2> QED BY <1>8, <1>10, <2>1 DEF SP
<1>12. \A i \in 1..k : c[i] \in FrameSet /\ c[i] \in 1..SP
  <2> TAKE i \in 1..k
  <2>1. c[i] \in FrameSet
    BY <1>3, <1>4, <1>5 DEF IsChain
  <2> QED BY <2>1, Words, RunningFacts
<1>13. Grows(c, k)
  <2>1. SP' = SP + 1 /\ stack'[SP + 1] \in Held'
    BY <1>11
  <2>2. \A p \in 1..SP : p \notin {c[i] : i \in 1..k} => stack'[p] = stack[p]
    BY <1>8, <1>11
  <2>3. \A i \in 1..k : stack'[c[i]] = [stack[c[i]] EXCEPT !.link = Ctx(Len(contexts) + i)]
    BY <1>2, <1>8, <1>11, <1>12
  <2>4. \A i \in 1..k :
          /\ contexts'[Len(contexts) + i].closure = block_closure_for_frame(c[i])
          /\ contexts'[Len(contexts) + i].home = block_home_context_for_frame(c[i])
          /\ contexts'[Len(contexts) + i].isBlock = Frame(c[i]).isBlock
    BY <1>1, <1>2, <1>6, NewContextWords
  <2> QED BY <1>2, <1>3, <1>4, <1>5, <1>6, <2>1, <2>2, <2>3, <2>4 DEF Grows
<1>14. NewSenders(c, k)
  <2> SUFFICES ASSUME NEW i \in 1..k
      PROVE  LET x == contexts'[Len(contexts) + i] IN
               /\ x.method = stack[c[i]].method /\ x.args = FrameArgs(c[i])
               /\ \/ i < k /\ x.sender = Ctx(Len(contexts) + i + 1)
                  \/ /\ i = k /\ x.sender = Nil
                     /\ stack[c[i]].savedFp \in {NULL, CAFE} \/ Len(contexts) + k = MaxContexts
                  \/ /\ i = k /\ stack[c[i]].savedFp \in FrameSet \ {c[j] : j \in 1..k}
                     /\ x.sender = stack[stack[c[i]].savedFp].link /\ x.sender.k = "context"
    BY DEF NewSenders
  <2>1. PICK x : x = NewContext(fp, i)
    OBVIOUS
  <2>2. contexts'[Len(contexts) + i] = x
    BY <1>2, <1>6, <2>1
  <2>3. x.method = stack[c[i]].method /\ x.args = FrameArgs(c[i])
    BY <1>1, <2>1, NewContextWords DEF Frame
  <2>4. \/ i < k /\ x.sender = Ctx(Len(contexts) + i + 1)
        \/ /\ i = k /\ x.sender = Nil
           /\ stack[c[i]].savedFp \in {NULL, CAFE} \/ Len(contexts) + k = MaxContexts
        \/ /\ i = k /\ stack[c[i]].savedFp \in FrameSet \ {c[j] : j \in 1..k}
           /\ x.sender = stack[stack[c[i]].savedFp].link /\ x.sender.k = "context"
    <3> HIDE DEF NULL, CAFE
    <3> QED BY <1>1, <2>1, NewContextSender
  <2> HIDE DEF NULL, CAFE
  <2> QED BY <2>2, <2>3, <2>4
<1>15. k > 0 => stack'[fp].link = Ctx(K + 1)
  <2> SUFFICES ASSUME k > 0 PROVE stack'[fp].link = Ctx(K + 1)
    OBVIOUS
  <2>1. c[1] = fp /\ 1 \in 1..k
    BY <1>3, <1>5 DEF IsChain
  <2>2. stack'[fp] = [stack[fp] EXCEPT !.link = Ctx(K + 1)]
    BY <1>8, <1>11, <1>12, <2>1
  <2>3. stack[fp] \in FrameWord
    BY RunningFacts
  <2> QED BY <2>2, <2>3 DEF FrameWord
<1> QED
  BY <1>1, <1>2, <1>9, <1>11, <1>13, <1>14, <1>15

\* thisContext
LEMMA PushThisContextStep ==
  ASSUME IInv, PushThisContext
  PROVE  IInv'
<1>1. /\ At("this") /\ HasContextAfter(fp) /\ ip' = Next1(ip) /\ UNCHANGED <<fp, base, closures>> /\ Continue
      /\ IF Frame(fp).link.k = "context"
           THEN stack' = Append(stack, Frame(fp).link) /\ UNCHANGED contexts
           ELSE /\ stack' = Append(StackMarried(fp), Ctx(Len(contexts) + 1))
                /\ contexts' = ContextsWith(fp)
  BY DEF PushThisContext
<1>2. Running /\ HeapInv /\ FramesInv /\ fp \in FrameSet
  BY <1>1, NextIp, RunningFacts
<1>3. CASE Frame(fp).link.k = "context"
  <2>1. Frame(fp).link \in Held
    BY <1>2 DEF FramesInv, ClosureOK
  <2>2. Bytecode(Append(stack, Frame(fp).link), Next1(ip))
    BY <1>1, <1>3 DEF Bytecode, heap
  <2> QED BY <1>1, <2>1, <2>2, Pushes
<1>4. CASE Frame(fp).link.k # "context"
  <2>1. Made(fp) > 0 /\ contexts' = ContextsWith(fp) /\ stack' = Append(StackMarried(fp), Ctx(Len(contexts) + 1))
    BY <1>1, <1>4 DEF HasContextAfter
  <2>2. PICK c : \E n : Unmarried(c, n)
    BY <1>2, MissingFacts
  <2>3. PICK n : Unmarried(c, n)
    BY <2>2
  <2>4. closures' = closures /\ Len(closures) \in Nat /\ UNCHANGED <<contextClass, born>>
    BY <1>1, <1>2 DEF HeapInv, Continue
  <2>5. /\ HeapGrows /\ Len(contexts') = Len(contexts) + Made(fp)
        /\ contexts' \in Seq(Context') /\ Len(contexts') <= MaxContexts
    BY <1>2, <2>1, <2>3, <2>4, MarriedContexts
  <2>6. HeapInv'
    <3>1. closures' \in Seq(Closure')
      BY <1>2, <2>4, <2>5, OldHeap
    <3> QED BY <1>2, <2>4, <2>5, <3>1 DEF HeapInv
  <2>7. PICK k : k = Made(fp)
    OBVIOUS
  <2>8. PICK w : w = Ctx(Len(contexts) + 1)
    OBVIOUS
  <2>9. w \in Held'
    <3>1. k \in Nat /\ Len(contexts) \in Nat
      BY <1>2, <2>3, <2>7, MadeFacts
    <3>2. Len(contexts) + 1 \in 1..Len(contexts')
      BY <2>1, <2>5, <2>7, <3>1
    <3> QED BY <2>8, <3>2 DEF Held, SomeContext
  <2>10. Grows(c, k) /\ NewSenders(c, k) /\ stack' \in Seq(Held' \cup FrameWord)
    BY <1>2, <2>1, <2>3, <2>4, <2>7, <2>8, <2>9, MarriedGrows
  <2>11. NewClosures
    BY <2>4 DEF NewClosures
  <2> QED BY <1>1, <2>6, <2>10, <2>11, GrowthStep
<1> QED
  BY <1>3, <1>4

\* The arguments and the temporaries of the running frame, for a closure.
LEMMA CopiedHeld ==
  ASSUME IInv, Running
  PROVE  FrameArgs(fp) \o FrameTemps(fp) \in Seq(Held)
<1>1. /\ StackInv /\ HeapInv /\ FramesInv /\ fp \in FrameSet /\ fp \in Nat /\ SP \in Nat
      /\ TempCount(fp) \in Nat /\ OperandBase(fp) = fp + 1 + TempCount(fp) /\ OperandBase(fp) <= SP
      /\ \A p \in (fp + 1)..SP : stack[p] \in Held
  BY RunningFacts
<1>2. PICK m \in Nat : m = Frame(fp).numArgs
  BY RunningFacts
<1>3. PICK t \in Nat : t = TempCount(fp)
  BY <1>1
<1>4. PICK a : a = [j \in 1..m |-> frame_arg(fp, j - 1)]
  OBVIOUS
<1>5. PICK b : b = [j \in 1..t |-> frame_temp(fp, j - 1)]
  OBVIOUS
<1>6. a \in Seq(Held)
  <2>1. \A j \in 1..m : a[j] \in Held
    <3> TAKE j \in 1..m
    <3>1. fp - m + (j - 1) \in (fp - m - 1)..(fp - 1)
      BY <1>1
    <3>2. stack[fp - m + (j - 1)] \in Held
      BY <1>1, <1>2, <3>1, ArgumentsHeld
    <3>3. a[j] = frame_arg(fp, j - 1)
      BY <1>4
    <3> QED BY <1>2, <3>2, <3>3 DEF frame_arg
  <2> QED BY <1>4, <2>1
<1>7. b \in Seq(Held)
  <2>1. \A j \in 1..t : b[j] \in Held
    <3> TAKE j \in 1..t
    <3>1. fp + 2 + (j - 1) \in (fp + 1)..SP
      BY <1>1, <1>3
    <3>2. b[j] = frame_temp(fp, j - 1)
      BY <1>5
    <3> QED BY <1>1, <3>1, <3>2 DEF frame_temp
  <2> QED BY <1>5, <2>1
<1>8. FrameArgs(fp) = a /\ FrameTemps(fp) = b
  BY <1>2, <1>3, <1>4, <1>5 DEF FrameArgs, FrameTemps
<1> QED
  BY <1>6, <1>7, <1>8

\* A word is pushed, and no frame is given a context.
LEMMA PlainGrows ==
  ASSUME IInv, Running, NEW c, IsChain(c, fp), UNCHANGED contexts,
         Len(closures') \in Nat, Len(closures) <= Len(closures'),
         \A b \in 1..Len(closures) : closures'[b] = closures[b],
         NEW w, w \in Held', stack' = Append(stack, w)
  PROVE  /\ Grows(c, 0) /\ NewSenders(c, 0) /\ stack' \in Seq(Held' \cup FrameWord)
         /\ stack'[fp] = stack[fp]
<1>1. /\ HeapInv /\ SP \in Nat /\ stack \in Seq(Held \cup FrameWord) /\ SP = Len(stack) /\ fp \in 1..SP
      /\ Len(contexts) \in Nat /\ Len(closures) \in Nat
  BY RunningFacts DEF SP, HeapInv
<1>2. HeapGrows
  BY <1>1 DEF HeapGrows
<1>3. PICK W : W = Held' \cup FrameWord
  OBVIOUS
<1>4. PICK st \in Seq(W) : st = stack
  <2>1. Held \cup FrameWord \subseteq W
    BY <1>2, <1>3, GrownHeld
  <2> QED BY <1>1, <2>1, WiderSeq
<1>5. /\ stack' \in Seq(W) /\ SP' = SP + 1 /\ stack'[SP + 1] = w
      /\ \A p \in 1..SP : stack'[p] = stack[p]
  <2>1. w \in W /\ stack' = Append(st, w) /\ Len(st) = SP
    BY <1>1, <1>3, <1>4
  <2> QED BY <1>1, <1>4, <2>1 DEF SP
<1>6. 0 \in 0..Len(c) /\ 1..0 = {}
  BY DEF IsChain
<1>7. Len(contexts') = Len(contexts) + 0
  BY <1>1
<1> QED
  BY <1>1, <1>3, <1>5, <1>6, <1>7 DEF Grows, NewSenders

\* BC_PUSH_CLOSURE
LEMMA PushClosureStep ==
  ASSUME IInv, PushClosure
  PROVE  IInv'
<1>1. PICK married : married = (contextClass /\ Frame(fp).link.k # "context")
  OBVIOUS
<1>2. PICK home : home = IF married THEN Ctx(Len(contexts) + 1)
                         ELSE IF Frame(fp).link.k = "context" THEN Frame(fp).link ELSE Nil
  OBVIOUS
<1>3. PICK d, r :
        /\ d \in Blocks
        /\ r = [homeContext |-> home, receiver |-> stack[fp + 1], method |-> d,
                copied |-> FrameArgs(fp) \o FrameTemps(fp), homeId |-> Frame(fp).home]
        /\ closures' = Append(closures, r)
        /\ stack' = Append(IF married THEN StackMarried(fp) ELSE stack, Blk(Len(closures) + 1))
        /\ contexts' = IF married THEN ContextsWith(fp) ELSE contexts
  BY <1>1, <1>2 DEF PushClosure
<1>4. /\ At("closure") /\ Len(closures) < MaxClosures /\ (contextClass => HasContextAfter(fp))
      /\ ip' = Next1(ip) /\ UNCHANGED <<fp, base>> /\ Continue
  BY DEF PushClosure
<1>5. /\ Running /\ HeapInv /\ FramesInv /\ StackInv /\ fp \in FrameSet /\ stack[fp] \in FrameWord
      /\ SP \in Nat /\ fp \in Nat /\ fp + 1 \in (fp + 1)..SP /\ stack[fp + 1] \in Held
  <2>1. Running
    BY <1>4, NextIp
  <2>2. /\ fp \in Nat /\ SP \in Nat /\ TempCount(fp) \in Nat /\ fp + 1 + TempCount(fp) <= SP
        /\ \A p \in (fp + 1)..SP : stack[p] \in Held
    BY <2>1, RunningFacts
  <2> QED BY <2>1, <2>2, RunningFacts
<1>6. PICK C \in Nat : C = Len(closures)
  BY <1>5 DEF HeapInv
<1>7. Len(closures') = C + 1 /\ closures'[C + 1] = r /\ \A b \in 1..C : closures'[b] = closures[b]
  <2>1. PICK W : W = Closure \cup {r}
    OBVIOUS
  <2>2. closures \in Seq(W) /\ r \in W
    BY <1>5, <2>1, WiderSeq DEF HeapInv
  <2> QED BY <1>3, <1>6, <2>2
<1>8. C + 1 <= MaxClosures /\ Len(closures') \in Nat /\ Len(closures) <= Len(closures')
  BY <1>4, <1>6, <1>7, BoundAssumption
<1>9. contextClass \in BOOLEAN /\ UNCHANGED <<contextClass, born>>
  BY <1>4, <1>5 DEF HeapInv, Continue
<1>10. PICK w : w = Blk(C + 1)
  OBVIOUS
<1>11. w \in Held'
  <2>1. C + 1 \in 1..Len(closures')
    BY <1>7
  <2> QED BY <1>10, <2>1 DEF Held, SomeBlock
<1>12. \E c, k :
         /\ Grows(c, k) /\ NewSenders(c, k) /\ stack' \in Seq(Held' \cup FrameWord)
         /\ HeapGrows /\ contexts' \in Seq(Context') /\ Len(contexts') <= MaxContexts
         /\ home \in {Nil} \cup SomeContext' /\ (home = Nil \/ home = stack'[fp].link)
  <2>1. CASE married
    <3>1. PICK c : \E n : Unmarried(c, n)
      BY <1>5, MissingFacts
    <3>2. PICK n : Unmarried(c, n)
      BY <3>1
    <3>3. contexts' = ContextsWith(fp) /\ stack' = Append(StackMarried(fp), w) /\ home = Ctx(Len(contexts) + 1)
      BY <1>2, <1>3, <1>6, <1>10, <2>1
    <3>4. /\ HeapGrows /\ Len(contexts') = Len(contexts) + Made(fp)
          /\ contexts' \in Seq(Context') /\ Len(contexts') <= MaxContexts
      BY <1>5, <1>8, <3>2, <3>3, MarriedContexts
    <3>5. PICK k : k = Made(fp)
      OBVIOUS
    <3>6. k > 0
      BY <1>1, <1>4, <2>1, <3>5 DEF HasContextAfter
    <3>7. /\ Grows(c, k) /\ NewSenders(c, k) /\ stack' \in Seq(Held' \cup FrameWord)
          /\ stack'[fp].link = home
      BY <1>5, <1>6, <1>7, <1>8, <1>11, <3>2, <3>3, <3>5, <3>6, MarriedGrows
    <3>8. home \in SomeContext'
      <4>1. k \in Nat /\ Len(contexts) \in Nat
        BY <1>5, <3>2, <3>5, MadeFacts
      <4>2. Len(contexts) + 1 \in 1..Len(contexts')
        BY <3>4, <3>5, <3>6, <4>1
      <4> QED BY <3>3, <4>2 DEF SomeContext
    <3> QED BY <3>4, <3>7, <3>8
  <2>2. CASE ~married
    <3>1. contexts' = contexts /\ stack' = Append(stack, w)
      BY <1>3, <1>6, <1>10, <2>2
    <3>2. PICK c : IsChain(c, fp)
      BY <1>5, ChainFacts
    <3>3. /\ Grows(c, 0) /\ NewSenders(c, 0) /\ stack' \in Seq(Held' \cup FrameWord)
          /\ stack'[fp] = stack[fp]
      BY <1>5, <1>6, <1>7, <1>8, <1>11, <3>1, <3>2, PlainGrows
    <3>4. HeapGrows
      BY <1>5, <1>6, <1>8, <3>1 DEF HeapGrows, HeapInv
    <3>5. contexts' \in Seq(Context') /\ Len(contexts') <= MaxContexts
      BY <1>5, <3>1, <3>4, OldHeap DEF HeapInv
    <3>6. home = Nil \/ (home = Frame(fp).link /\ home.k = "context")
      BY <1>2, <2>2
    <3>7. home \in {Nil} \cup SomeContext'
      <4>1. Frame(fp).link \in Held
        BY <1>5 DEF FramesInv, ClosureOK
      <4>2. home = Nil \/ home \in SomeContext
        BY <3>6, <4>1, HeldKinds
      <4> QED BY <3>4, <4>2, GrownHeld
    <3> QED BY <3>3, <3>4, <3>5, <3>6, <3>7 DEF Frame
  <2> QED BY <1>1, <2>1, <2>2
<1>13. PICK c, k :
         /\ Grows(c, k) /\ NewSenders(c, k) /\ stack' \in Seq(Held' \cup FrameWord)
         /\ HeapGrows /\ contexts' \in Seq(Context') /\ Len(contexts') <= MaxContexts
         /\ home \in {Nil} \cup SomeContext' /\ (home = Nil \/ home = stack'[fp].link)
  BY <1>12
<1>14. r \in Closure'
  <2>1. FrameArgs(fp) \o FrameTemps(fp) \in Seq(Held') /\ stack[fp + 1] \in Held'
    BY <1>5, <1>13, CopiedHeld, GrownHeld
  <2>2. Frame(fp).home \in Nat
    BY <1>5, FrameParts DEF Frame
  <2> QED BY <1>3, <1>13, <2>1, <2>2 DEF Closure
<1>15. closures' \in Seq(Closure')
  <2>1. PICK X : X = Closure'
    OBVIOUS
  <2>2. closures \in Seq(X) /\ r \in X
    BY <1>5, <1>13, <1>14, <2>1, OldHeap
  <2>3. closures' \in Seq(X)
    BY <1>3, <2>2
  <2> QED BY <2>1, <2>3
<1>16. HeapInv'
  BY <1>5, <1>7, <1>8, <1>9, <1>13, <1>15 DEF HeapInv
<1>17. NewClosures
  <2> SUFFICES ASSUME NEW b \in 1..Len(closures'), b \notin 1..Len(closures)
      PROVE  /\ closures'[b].homeId = stack[fp].home
             /\ closures'[b].homeContext = Nil \/ closures'[b].homeContext = stack'[fp].link
    BY DEF NewClosures
  <2>1. b = C + 1
    BY <1>6, <1>7
  <2>2. closures'[b].homeId = Frame(fp).home /\ closures'[b].homeContext = home
    BY <1>3, <1>7, <2>1
  <2> QED BY <1>13, <2>2 DEF Frame
<1> QED
  BY <1>4, <1>13, <1>16, <1>17, GrowthStep


-----------------------------------------------------------------------------
(* The machine. *)

\* The first words of the stack: the receiver s and n arguments of the host's
\* send, the frame w, its receiver and t temporaries.
HostsStack(st, W, s, z, w, n, t) ==
  /\ s \in W /\ z \in W /\ w \in W /\ n \in Nat /\ t \in Nat
  /\ st = <<s>> \o [i \in 1..n |-> z] \o <<w, s>> \o [i \in 1..t |-> z]

\* The same word for word: only the one after the arguments is a frame.
HostsWords(st, W, s, z, w, n, t) ==
  /\ st \in Seq(W) /\ Len(st) = n + 3 + t /\ st[n + 2] = w
  /\ \A p \in 1..(n + 3 + t) : p # n + 2 => st[p] \in {s, z}
  /\ \A i \in 1..n : st[1 + i] = z
  /\ \A i \in 1..t : st[n + 3 + i] = z

\* What the sequences joined in the host's stack make of each word.
LEMMA FirstWords ==
  ASSUME NEW st, NEW W, NEW s, NEW z, NEW w, NEW n, NEW t, HostsStack(st, W, s, z, w, n, t)
  PROVE  HostsWords(st, W, s, z, w, n, t)
<1>0. s \in W /\ z \in W /\ w \in W /\ n \in Nat /\ t \in Nat
  BY DEF HostsStack
<1>1. PICK a \in Seq(W) : a = <<s>>
  <2>1. <<s>> \in Seq(W)
    BY <1>0
  <2> QED BY <2>1
<1>2. PICK b \in Seq(W) : b = [i \in 1..n |-> z]
  <2>1. [i \in 1..n |-> z] \in Seq(W)
    BY <1>0
  <2> QED BY <2>1
<1>3. PICK c \in Seq(W) : c = <<w, s>>
  <2>1. <<w, s>> \in Seq(W)
    BY <1>0
  <2> QED BY <2>1
<1>4. PICK d \in Seq(W) : d = [i \in 1..t |-> z]
  <2>1. [i \in 1..t |-> z] \in Seq(W)
    BY <1>0
  <2> QED BY <2>1
<1>5. /\ Len(a) = 1 /\ a[1] = s /\ Len(b) = n /\ (\A i \in 1..n : b[i] = z)
      /\ Len(c) = 2 /\ c[1] = w /\ c[2] = s /\ Len(d) = t /\ (\A i \in 1..t : d[i] = z)
  BY <1>0, <1>1, <1>2, <1>3, <1>4
<1>6. PICK ab \in Seq(W) :
        /\ ab = a \o b /\ Len(ab) = Len(a) + Len(b)
        /\ \A j \in 1..Len(a) : ab[j] = a[j]
        /\ \A i \in 1..Len(b) : ab[Len(a) + i] = b[i]
  <2>1. a \o b \in Seq(W)
    BY JoinedSeq
  <2> WITNESS a \o b \in Seq(W)
  <2> QED BY JoinedSeq
<1>7. /\ Len(ab) = n + 1 /\ \A i \in 1..n : ab[1 + i] = z
      /\ \A p \in 1..(n + 1) : ab[p] \in {s, z}
  <2>1. Len(ab) = n + 1 /\ ab[1] = s /\ \A i \in 1..n : ab[1 + i] = z
    BY <1>0, <1>5, <1>6
  <2>2. ASSUME NEW p \in 1..(n + 1) PROVE ab[p] \in {s, z}
    <3>1. p = 1 \/ (p - 1 \in 1..n /\ p = 1 + (p - 1))
      BY <1>0
    <3> QED BY <2>1, <3>1
  <2> QED BY <2>1, <2>2
<1>8. PICK abc \in Seq(W) :
        /\ abc = ab \o c /\ Len(abc) = Len(ab) + Len(c)
        /\ \A j \in 1..Len(ab) : abc[j] = ab[j]
        /\ \A i \in 1..Len(c) : abc[Len(ab) + i] = c[i]
  <2>1. ab \o c \in Seq(W)
    BY JoinedSeq
  <2> WITNESS ab \o c \in Seq(W)
  <2> QED BY JoinedSeq
<1>9. /\ Len(abc) = n + 3 /\ abc[n + 2] = w /\ \A p \in 1..(n + 1) : abc[p] = ab[p]
      /\ \A p \in 1..(n + 3) : p # n + 2 => abc[p] \in {s, z}
  <2>1. Len(abc) = n + 3 /\ \A p \in 1..(n + 1) : abc[p] = ab[p]
    BY <1>0, <1>5, <1>7, <1>8
  <2>2. \A i \in 1..2 : abc[n + 1 + i] = c[i]
    BY <1>0, <1>5, <1>7, <1>8
  <2>3. abc[n + 2] = w /\ abc[n + 3] = s
    <3>1. 1 \in 1..2 /\ 2 \in 1..2 /\ n + 1 + 1 = n + 2 /\ n + 1 + 2 = n + 3
      BY <1>0
    <3> QED BY <1>5, <2>2, <3>1
  <2>4. ASSUME NEW p \in 1..(n + 3), p # n + 2 PROVE abc[p] \in {s, z}
    <3>1. p \in 1..(n + 1) \/ p = n + 3
      BY <1>0, <2>4
    <3> QED BY <1>7, <2>1, <2>3, <3>1
  <2> QED BY <2>1, <2>3, <2>4
<1>10. PICK all \in Seq(W) :
        /\ all = abc \o d /\ Len(all) = Len(abc) + Len(d)
        /\ \A j \in 1..Len(abc) : all[j] = abc[j]
        /\ \A i \in 1..Len(d) : all[Len(abc) + i] = d[i]
  <2>1. abc \o d \in Seq(W)
    BY JoinedSeq
  <2> WITNESS abc \o d \in Seq(W)
  <2> QED BY JoinedSeq
<1>11. Len(all) = n + 3 + t /\ \A p \in 1..(n + 3) : all[p] = abc[p]
  BY <1>0, <1>5, <1>9, <1>10
<1>12. \A i \in 1..t : all[n + 3 + i] = z
  BY <1>0, <1>5, <1>9, <1>10
<1>13. ASSUME NEW p \in 1..(n + 3 + t), p # n + 2 PROVE all[p] \in {s, z}
  <2>1. p \in 1..(n + 3) \/ (p - (n + 3) \in 1..t /\ p = n + 3 + (p - (n + 3)))
    BY <1>0
  <2> QED BY <1>9, <1>11, <1>12, <1>13, <2>1
<1>14. all[n + 2] = w
  BY <1>0, <1>9, <1>11
<1>15. st = all
  BY <1>1, <1>2, <1>3, <1>4, <1>6, <1>8, <1>10 DEF HostsStack
<1>16. \A i \in 1..n : all[1 + i] = z
  <2> TAKE i \in 1..n
  <2>1. 1 + i \in 1..(n + 1) /\ 1 + i \in 1..(n + 3)
    BY <1>0
  <2> QED BY <1>7, <1>9, <1>11, <2>1
<1> QED
  BY <1>11, <1>12, <1>13, <1>14, <1>15, <1>16 DEF HostsWords

\* The host starts the machine with one frame.
LEMMA InitIInv ==
  ASSUME Init
  PROVE  IInv
<1>1. PICK c \in Methods :
        /\ stack = <<SmallInt(0)>> \o Zeros(NumArgs[c]) \o
                   <<[k |-> "frame", savedIp |-> NoIp, savedFp |-> Bottom, method |-> c,
                      numArgs |-> NumArgs[c], isBlock |-> FALSE, link |-> Zero, id |-> 1, home |-> 1],
                     SmallInt(0)>> \o Zeros(NumTemps[c])
        /\ fp = NumArgs[c] + 2
        /\ ip = [m |-> c, pc |-> 0]
        /\ base = c
        /\ calls = <<[entry |-> NumArgs[c] + 2, kind |-> "host", savedSp |-> 0, savedFp |-> Bottom,
                      ip |-> NoIp, base |-> c, cleanup |-> Zero, result |-> Zero]>>
        /\ closures = <<>> /\ contexts = <<>> /\ contextClass \in ContextClasses
        /\ born = 1 /\ outcome = "running"
  BY DEF Init
<1>2. PICK n \in Nat, t \in Nat : n = NumArgs[c] /\ t = NumTemps[c]
  BY CodeAssumption DEF Code
<1>3. c \in Code /\ n + t + 3 <= StackWords /\ StackWords \in Nat /\ MaxClosures \in Nat /\ MaxContexts \in Nat
  BY <1>2, BoundAssumption DEF Code
<1>4. PICK w : w = [k |-> "frame", savedIp |-> NoIp, savedFp |-> Bottom, method |-> c,
                    numArgs |-> n, isBlock |-> FALSE, link |-> Zero, id |-> 1, home |-> 1]
  OBVIOUS
<1>5. Zero \in Held /\ SmallInt(0) \in Held
  BY HeldValues, BoundAssumption
<1>6. /\ w \in FrameWord /\ w.k = "frame" /\ w.savedIp = NoIp /\ w.savedFp = Bottom /\ w.method = c
      /\ w.numArgs = n /\ ~w.isBlock /\ w.link = Zero /\ w.id = 1 /\ w.home = 1
  <2>1. Zero \in Oop /\ Bottom \in {NULL, CAFE} \cup 1..StackWords
    BY BottomAssumption DEF Oop
  <2> HIDE DEF NULL, CAFE, Ip, NoIp, After, Oop, Zero
  <2> QED BY <1>3, <1>4, <2>1 DEF FrameWord
<1>7. HeapInv
  <2>1. closures \in Seq(Closure) /\ contexts \in Seq(Context) /\ Len(closures) = 0 /\ Len(contexts) = 0
    BY <1>1
  <2> QED BY <1>1, <1>3, <2>1, UsesAssumption DEF HeapInv
<1>8. /\ stack \in Seq(Held \cup FrameWord) /\ SP = n + 3 + t /\ stack[n + 2] = w
      /\ \A p \in 1..SP : p # n + 2 => stack[p] \in Held
  <2>1. PICK W : W = Held \cup FrameWord
    OBVIOUS
  <2>2. PICK s \in W, z \in W : s = SmallInt(0) /\ z = Zero
    BY <1>5, <2>1
  <2>3. w \in W
    BY <1>6, <2>1
  <2>4. PICK st : st = <<s>> \o [i \in 1..n |-> z] \o <<w, s>> \o [i \in 1..t |-> z]
    OBVIOUS
  <2>5. /\ st \in Seq(W) /\ Len(st) = n + 3 + t /\ st[n + 2] = w
        /\ \A p \in 1..(n + 3 + t) : p # n + 2 => st[p] \in {s, z}
    <3>1. HostsStack(st, W, s, z, w, n, t)
      BY <2>3, <2>4 DEF HostsStack
    <3>2. HostsWords(st, W, s, z, w, n, t)
      BY <3>1, FirstWords
    <3> QED BY <3>2 DEF HostsWords
  <2>6. stack = st
    BY <1>1, <1>2, <1>4, <2>2, <2>4 DEF Zeros
  <2> QED BY <1>5, <2>1, <2>2, <2>5, <2>6 DEF SP
<1>9. StackInv
  BY <1>8 DEF StackInv
<1>10. FrameSet = {n + 2}
  <2>1. \A v \in Held : v.k # "frame"
    BY HeldKinds
  <2>2. n + 2 \in 1..SP
    BY <1>8
  <2> QED BY <1>6, <1>8, <2>1, <2>2 DEF FrameSet
<1>11. PICK f \in FrameSet : f = n + 2
  BY <1>10
<1>12. Frame(f) = w /\ block_closure_for_frame(f) = Nil
  BY <1>6, <1>8, <1>11 DEF Frame, block_closure_for_frame, Zero
<1>13. OperandBase(f) = SP /\ SP <= StackWords
  <2>1. TempCount(f) = t
    BY <1>2, <1>6, <1>12 DEF TempCount
  <2> QED BY <1>3, <1>8, <1>11, <2>1 DEF OperandBase
<1>14. ip \in Ip /\ ip.m = c
  BY <1>1, <1>3, BoundAssumption DEF Ip
<1>15. fp = f /\ base = c /\ Running
  BY <1>1, <1>2, <1>11 DEF Running
<1>16. RestInv
  <2>1. fp \in 1..SP
    BY <1>8, <1>11, <1>15
  <2> HIDE DEF Ip, NoIp, After, NULL, CAFE
  <2> QED BY <1>1, <1>3, <1>14, <1>15, <2>1 DEF RestInv
<1>17. TopInv
  <2>1. SP \in Nat /\ f <= f
    BY <1>8, <1>11
  <2> HIDE DEF Ip, After
  <2> QED BY <1>6, <1>10, <1>11, <1>12, <1>13, <1>14, <1>15, <2>1 DEF TopInv
<1>18. FramesInv
  <2>1. CallerOK(f)
    BY <1>6, <1>10, <1>11, <1>12 DEF CallerOK
  <2>2. ClosureOK(f)
    BY <1>5, <1>6, <1>12 DEF ClosureOK, Zero
  <2>3. LinkOK(f) /\ SenderOK(f)
    BY <1>6, <1>12 DEF LinkOK, SenderOK, Zero
  <2>4. OperandBase(f) <= StackWords
    BY <1>13
  <2> QED BY <1>10, <1>11, <2>1, <2>2, <2>3, <2>4 DEF FramesInv
<1>19. CallsInv
  <2>1. PICK r : r = [entry |-> n + 2, kind |-> "host", savedSp |-> 0, savedFp |-> Bottom,
                      ip |-> NoIp, base |-> c, cleanup |-> Zero, result |-> Zero]
    OBVIOUS
  <2>2. r \in CallRecord
    <3>1. Bottom \in {NULL, CAFE} \cup Nat /\ n + 2 \in Nat
      BY BottomAssumption
    <3> HIDE DEF NULL, CAFE, Ip, NoIp, Held, Zero
    <3> QED BY <1>3, <1>5, <2>1, <3>1 DEF CallRecord
  <2>3. calls = <<r>> /\ r.kind = "host" /\ r.entry = f
    BY <1>1, <1>2, <1>11, <2>1
  <2>4. calls \in Seq(CallRecord) /\ Len(calls) = 1 /\ calls[1] = r
    BY <2>2, <2>3
  <2>5. 2..Len(calls) = {} /\ 1..Len(calls) = {1}
    BY <2>4
  <2> QED BY <2>3, <2>4, <2>5 DEF CallsInv
<1>20. HistoryInv
  <2>1. Len(closures) = 0 /\ calls[1].entry = f /\ born = 1
    BY <1>1, <1>2, <1>11
  <2>2. HistoryOK(f)
    BY <1>6, <1>10, <1>11, <1>12, <2>1 DEF HistoryOK, Zero
  <2> QED BY <1>10, <1>11, <2>1, <2>2 DEF HistoryInv
<1> QED
  BY <1>7, <1>9, <1>15, <1>16, <1>17, <1>18, <1>19, <1>20 DEF IInv, MachineInv

\* Every step, and every stutter.
LEMMA NextIInv ==
  ASSUME PlainUses, IInv, [Next]_vars
  PROVE  IInv'
<1>1. CASE UNCHANGED vars
  <2>1. UNCHANGED <<stack, fp, ip, base, calls, closures, contexts, contextClass, born, outcome>>
    BY <1>1 DEF vars, registers, heap
  <2>2. SP' = SP /\ Held' = Held /\ FrameSet' = FrameSet
    BY <2>1, Zenon DEF SP, Held, SomeBlock, SomeContext, FrameSet
  <2>3. HeapInv' = HeapInv /\ StackInv' = StackInv /\ RestInv' = RestInv /\ Running' = Running
    BY <2>1, <2>2, Zenon
       DEF HeapInv, StackInv, RestInv, Running, Closure, Context, SomeBlock, SomeContext
  <2>4. ASSUME Running PROVE MachineInv'
    <3>1. /\ HeapInv /\ StackInv /\ TopInv /\ FramesInv /\ CallsInv /\ SP \in Nat
          /\ fp \in FrameSet /\ fp \in Nat /\ fp \in 1..SP /\ \A f \in FrameSet : f <= fp
      BY <2>4, RunningFacts DEF TopInv
    <3>2. PICK g \in Nat : g = fp
      BY <3>1
    <3>3. KeptTo(g)
      BY <2>1, <2>2, <3>1, <3>2 DEF KeptTo, heap
    <3>4. TopInv'
      BY <2>1, <2>2, <3>1, Zenon DEF TopInv, OperandBase, TempCount, block_closure_for_frame, Frame
    <3>5. FramesInv'
      <4>1. \A f \in FrameSet' : f <= g
        BY <2>2, <3>1, <3>2
      <4>2. \A f \in FrameSet : f <= g =>
              (CallerOK(f) /\ OperandBase(f) <= StackWords /\ ClosureOK(f) /\ LinkOK(f) /\ SenderOK(f))'
        BY <3>1, <3>3, <4>1, KeptOK
      <4> QED BY <2>2, <3>1, <3>2, <4>2 DEF FramesInv
    <3>6. CallsInv'
      <4>1. \A k \in 2..Len(calls) : CallOK(k)'
        <5>1. PICK n : n = Len(calls)
          OBVIOUS
        <5>2. n \in 1..Len(calls) /\ calls[n].entry <= g /\ \A k \in 1..n : calls'[k] = calls[k]
          BY <2>1, <2>4, <3>2, <5>1, RunningFacts
        <5> QED BY <3>1, <3>3, <5>1, <5>2, KeptCalls
      <4>2. calls \in Seq(CallRecord) /\ CallRecord' = CallRecord
        BY <2>2, <3>1, Zenon DEF CallsInv, CallRecord
      <4> QED BY <2>1, <2>2, <3>1, <4>1, <4>2, Zenon DEF CallsInv
    <3>7. HistoryInv'
      <4>1. HistoryInv
        BY <2>4 DEF IInv, MachineInv
      <4> QED BY <2>1, <2>2, <4>1, Zenon DEF HistoryInv, HistoryOK, Frame
    <3> QED BY <3>4, <3>5, <3>6, <3>7 DEF MachineInv
  <2> QED BY <2>3, <2>4 DEF IInv
<1>2. CASE \/ PushValue \/ PushTemp \/ PushArg \/ PushSelf \/ Duplicate \/ Pop \/ StoreTemp
           \/ Jump \/ DataPrimitive
  BY <1>2, DataBytecodes
<1>3. CASE PushThisContext
  BY <1>3, PushThisContextStep
<1>4. CASE PushClosure
  BY <1>4, PushClosureStep
<1>5. CASE Trap \/ Halt
  BY <1>5, StopBytecodes
<1>6. CASE Send
  BY <1>6, SendStep
<1>7. CASE SendValue
  BY <1>7, SendValueStep
<1>8. CASE SendProtected
  BY <1>8, SendProtectedStep
<1>9. CASE Return
  BY <1>9, ReturnStep
<1>10. CASE ReturnToHome
  BY <1>10, ReturnToHomeStep
<1>11. CASE ReturnPastDeadHome
  BY <1>11, ReturnPastDeadHomeStep
<1>12. CASE ResumeSender
  BY <1>12, ResumeSenderStep
<1>13. CASE SendCannotReturn
  BY <1>13, SendCannotReturnStep
<1> QED
  BY <1>1, <1>2, <1>3, <1>4, <1>5, <1>6, <1>7, <1>8, <1>9, <1>10, <1>11, <1>12, <1>13, Zenon DEF Next

\* The frames, the interpret()s and the heap keep their shape.
LEMMA Invariant ==
  ASSUME PlainUses
  PROVE  Spec => []IInv
<1>1. Init => IInv
  BY InitIInv
<1>2. IInv /\ [Next]_vars => IInv'
  BY NextIInv
<1> QED
  BY <1>1, <1>2, PTL DEF Spec

\* Types: no word of a frame, and no word that interpret() has lost, is ever an
\* operand of the frame that runs (frame.c, interpret.c).
THEOREM TypeCorrect ==
  ASSUME PlainUses
  PROVE  Spec => []TypeOK
<1>1. IInv => TypeOK
  <2> SUFFICES ASSUME IInv PROVE TypeOK
    OBVIOUS
  <2>1. HeapInv /\ StackInv /\ RestInv
    BY DEF IInv
  <2>2. \A p \in 1..SP : stack[p] \in Oop \/ stack[p] \in FrameWord
    BY <2>1, Words, HeldOops
  <2>3. Running => \A i \in 0..(Operands - 1) : TopOp(i) \in Oop
    BY <2>1, OperandsHeld, HeldOops
  <2>4. /\ fp \in {NULL, CAFE} \cup 1..SP /\ ip \in Ip \cup {NoIp, After} /\ base \in Code
        /\ outcome \in {"running", "done", "trap", "halt", "wild"}
    BY <2>1, Zenon DEF RestInv
  <2>5. Len(closures) <= MaxClosures /\ Len(contexts) <= MaxContexts
    BY <2>1 DEF HeapInv
  <2> HIDE DEF Ip, NoIp, After, NULL, CAFE, Oop, FrameWord
  <2> QED BY <2>2, <2>3, <2>4, <2>5 DEF TypeOK, Running
<1> QED
  BY <1>1, Invariant, PTL

\* activate_method compares the height with the limit once, for the frame; all
\* the frames that the walk finds lie below it.
THEOREM FramesAreWithinLimit ==
  ASSUME PlainUses
  PROVE  Spec => []FramesWithinLimit
<1>1. IInv => FramesWithinLimit
  BY ChainWhole, RunningFacts DEF FramesWithinLimit, FramesInv
<1> QED
  BY <1>1, Invariant, PTL

\* bytecode_base is reloaded in time: jumps are relative to the code of the
\* frame that runs, and the next bytecode is one of it.
THEOREM IpIsInMethod ==
  ASSUME PlainUses
  PROVE  Spec => []IpInMethod
<1>1. IInv => IpInMethod
  <2> SUFFICES ASSUME IInv, Running PROVE base = Frame(fp).method /\ (ip.m \in Code => ip.m = base)
    BY DEF IpInMethod
  <2>1. base = Frame(fp).method /\ (ip = After \/ ip.m = base)
    BY RunningFacts DEF TopInv
  <2>2. ip = After => ip.m \notin Code
    BY CodeAssumption DEF After
  <2> QED BY <2>1, <2>2
<1> QED
  BY <1>1, Invariant, PTL

\* ensure_frame_context, which stops where it finds a context or no room, links
\* the context of every frame to that of its caller.
THEOREM SendersAreCallers ==
  ASSUME PlainUses
  PROVE  Spec => []SendersFollowFrames
<1>1. IInv => SendersFollowFrames
  <2> SUFFICES ASSUME IInv, Running, NEW f \in FrameSet PROVE SenderOK(f)
    BY ChainWhole, Zenon DEF SendersFollowFrames, SenderOK
  <2> QED BY RunningFacts DEF FramesInv
<1> QED
  BY <1>1, Invariant, PTL

-----------------------------------------------------------------------------
(* The activations that the frames stand for. *)

\* The frames on the stack, from the host's to the running one.
Enumerates(u) ==
  /\ u \in Seq(Nat) /\ Len(u) \in Nat /\ Len(u) > 0
  /\ \A i \in 1..Len(u) : u[i] \in FrameSet
  /\ \A i, j \in 1..Len(u) : i < j => u[i] < u[j]
  /\ \A f \in FrameSet : \E i \in 1..Len(u) : f = u[i]

\* There is one walk from a frame.
LEMMA ChainUnique ==
  ASSUME StackInv, HeapInv, FramesInv, NEW f, NEW c, NEW d, IsChain(c, f), IsChain(d, f)
  PROVE  c = d
<1>1. PICK k \in Nat, l \in Nat : k = Len(c) /\ l = Len(d)
  BY DEF IsChain
<1>2. Bottom \notin FrameSet
  <2>1. f \in FrameSet
    BY DEF IsChain
  <2> QED BY <2>1, FrameFacts, BottomAssumption DEF NULL, CAFE
<1>3. /\ k > 0 /\ c[1] = f /\ \A i \in 1..(k - 1) : Frame(c[i]).savedFp = c[i + 1] /\ c[i + 1] \in FrameSet
      /\ Frame(c[k]).savedFp = Bottom
  BY <1>1 DEF IsChain
<1>4. /\ l > 0 /\ d[1] = f /\ \A i \in 1..(l - 1) : Frame(d[i]).savedFp = d[i + 1] /\ d[i + 1] \in FrameSet
      /\ Frame(d[l]).savedFp = Bottom
  BY <1>1 DEF IsChain
<1> DEFINE Same(i) == i + 1 <= k => i + 1 <= l /\ c[i + 1] = d[i + 1]
           S == {i \in Nat : Same(i)}
<1>5. 0 \in S
  BY <1>3, <1>4
<1>6. ASSUME NEW i \in Nat, i \in S PROVE i + 1 \in S
  <2> SUFFICES ASSUME (i + 1) + 1 <= k PROVE (i + 1) + 1 <= l /\ c[(i + 1) + 1] = d[(i + 1) + 1]
    OBVIOUS
  <2>1. PICK n \in Nat : n = i + 1
    OBVIOUS
  <2>2. n <= l /\ c[n] = d[n] /\ n \in 1..(k - 1)
    BY <1>6, <2>1
  <2>3. Frame(d[n]).savedFp = c[n + 1] /\ c[n + 1] \in FrameSet
    BY <1>3, <2>2
  <2>4. n # l
    BY <1>2, <1>4, <2>3
  <2>5. n \in 1..(l - 1)
    BY <2>2, <2>4
  <2>6. d[n + 1] = c[n + 1]
    BY <1>4, <2>3, <2>5
  <2> QED BY <2>1, <2>5, <2>6
<1> HIDE DEF S
<1>7. Nat \subseteq S
  BY <1>5, <1>6, NatSetInduction
<1>8. \A i \in 1..k : i <= l /\ c[i] = d[i]
  <2> TAKE i \in 1..k
  <2>1. i - 1 \in S /\ (i - 1) + 1 = i
    BY <1>7
  <2> QED BY <2>1 DEF S
<1>9. k = l
  <2>1. k <= l /\ c[k] = d[k]
    BY <1>3, <1>8
  <2>2. ASSUME k # l PROVE FALSE
    <3>1. k \in 1..(l - 1)
      BY <1>3, <2>1, <2>2
    <3>2. Frame(d[k]).savedFp \in FrameSet
      BY <1>4, <3>1
    <3> QED BY <1>2, <1>3, <2>1, <3>2
  <2> QED BY <2>2
<1>10. PICK W : W = 1..StackWords
  OBVIOUS
<1>11. c \in Seq(W) /\ d \in Seq(W)
  BY <1>10 DEF IsChain
<1>12. c = [i \in 1..k |-> c[i]] /\ d = [i \in 1..k |-> d[i]]
  BY <1>1, <1>9, <1>11, SeqIsFunction, Zenon
<1> QED
  BY <1>8, <1>12, Zenon

\* The frames can be enumerated.
LEMMA Enumerated ==
  ASSUME IInv, Running
  PROVE  \E u : Enumerates(u)
<1>1. StackInv /\ HeapInv /\ FramesInv /\ fp \in FrameSet
  BY RunningFacts
<1>2. PICK c : c = Chain(fp)
  OBVIOUS
<1>3. IsChain(c, fp)
  BY <1>1, <1>2, ChainFacts
<1>4. PICK l \in Nat : l = Len(c) /\ l > 0
  BY <1>3 DEF IsChain
<1>5. \A i \in 1..l : c[i] \in FrameSet /\ c[i] \in Nat
  BY <1>1, <1>3, <1>4, FrameFacts DEF IsChain
<1>6. \A i, j \in 1..l : i < j => c[j] < c[i]
  <2>1. \A i \in 1..(l - 1) : c[i + 1] < c[i]
    BY <1>3, <1>4 DEF IsChain
  <2> QED BY <1>5, <2>1, StepsDown
<1>7. FrameSet = {c[i] : i \in 1..l}
  BY <1>2, <1>4, ChainWhole DEF InChain
<1>8. PICK u : u = [i \in 1..l |-> c[l + 1 - i]]
  OBVIOUS
<1>9. \A i \in 1..l : l + 1 - i \in 1..l /\ u[i] = c[l + 1 - i]
  BY <1>8
<1>10. u \in Seq(Nat) /\ Len(u) = l
  <2>1. \A i \in 1..l : u[i] \in Nat
    BY <1>5, <1>9
  <2> QED BY <1>8, <2>1
<1>11. \A i \in 1..l : u[i] \in FrameSet
  BY <1>5, <1>9
<1>12. \A i, j \in 1..l : i < j => u[i] < u[j]
  <2> TAKE i, j \in 1..l
  <2>1. i < j => l + 1 - j < l + 1 - i
    OBVIOUS
  <2> QED BY <1>6, <1>9, <2>1
<1>13. ASSUME NEW f \in FrameSet PROVE \E i \in 1..l : f = u[i]
  <2>1. PICK j \in 1..l : f = c[j]
    BY <1>7
  <2>2. l + 1 - j \in 1..l /\ l + 1 - (l + 1 - j) = j
    OBVIOUS
  <2> QED BY <1>9, <2>1, <2>2
<1> QED
  BY <1>4, <1>10, <1>11, <1>12, <1>13 DEF Enumerates

\* What the enumeration knows: u has l frames.
Order(u, l) ==
  /\ l \in Nat /\ l > 0 /\ l = Len(u) /\ u \in Seq(Nat)
  /\ \A j \in 1..l : u[j] \in FrameSet /\ u[j] \in Nat
  /\ \A i, j \in 1..l : i < j => u[i] < u[j]
  /\ \A f \in FrameSet : \E i \in 1..l : f = u[i]
  /\ u[l] = fp /\ u[1] = calls[1].entry /\ Frame(u[1]).savedFp = Bottom
  /\ \A j \in 1..(l - 1) :
       /\ j \in 1..l /\ j + 1 \in 1..l
       /\ Frame(u[j + 1]).savedFp = u[j] /\ u[j] < u[j + 1]
       /\ OperandBase(u[j]) \in Nat /\ u[j] < OperandBase(u[j])
       /\ OperandBase(u[j]) + Frame(u[j + 1]).numArgs + 2 <= u[j + 1]

\* Frames listed upwards are each the caller of the next.
LEMMA EnumeratedOrder ==
  ASSUME IInv, Running, NEW u, Enumerates(u)
  PROVE  \E l : Order(u, l)
<1>1. /\ StackInv /\ HeapInv /\ FramesInv /\ CallsInv /\ fp \in FrameSet /\ fp \in Nat
      /\ \A h \in FrameSet : h <= fp
  BY RunningFacts DEF TopInv
<1>2. PICK l \in Nat : l = Len(u) /\ l > 0
  BY DEF Enumerates
<1>3. /\ u \in Seq(Nat)
      /\ \A j \in 1..l : u[j] \in FrameSet
      /\ \A i, j \in 1..l : i < j => u[i] < u[j]
      /\ \A f \in FrameSet : \E i \in 1..l : f = u[i]
  BY <1>2 DEF Enumerates
<1>4. /\ \A h \in FrameSet : h \in Nat /\ OperandBase(h) \in Nat /\ h < OperandBase(h)
      /\ Bottom \notin FrameSet
  <2>1. \A h \in FrameSet : h \in Nat /\ h > 0 /\ OperandBase(h) \in Nat /\ h < OperandBase(h)
    BY <1>1, FrameFacts
  <2> QED BY <2>1, BottomAssumption DEF NULL, CAFE
<1>5. u[l] = fp
  <2>1. PICK i \in 1..l : fp = u[i]
    BY <1>1, <1>3
  <2>2. ASSUME i # l PROVE FALSE
    <3>1. i < l /\ l \in 1..l
      BY <1>2, <2>2
    <3>2. fp < u[l] /\ u[l] <= fp /\ u[l] \in Nat
      BY <1>1, <1>3, <1>4, <2>1, <3>1
    <3> QED BY <1>1, <3>2
  <2> QED BY <2>1, <2>2
<1>6. ASSUME NEW f \in FrameSet PROVE u[1] <= f
  <2>1. PICK i \in 1..l : f = u[i]
    BY <1>3
  <2>2. 1 \in 1..l /\ (i = 1 \/ 1 < i)
    BY <1>2
  <2>3. u[1] \in Nat /\ f \in Nat
    BY <1>3, <1>4, <2>2
  <2> QED BY <1>3, <2>1, <2>2, <2>3
<1>7. u[1] \in FrameSet /\ u[1] \in Nat
  BY <1>2, <1>3, <1>4
<1>8. u[1] = calls[1].entry
  <2>1. calls[1].entry \in FrameSet
    BY <1>1 DEF CallsInv
  <2>2. calls[1].entry <= u[1]
    BY <1>7 DEF IInv, MachineInv, HistoryInv, HistoryOK
  <2>3. calls[1].entry \in Nat /\ u[1] <= calls[1].entry
    BY <1>4, <1>6, <2>1
  <2> QED BY <1>7, <2>2, <2>3
<1>9. Frame(u[1]).savedFp = Bottom
  <2>1. ASSUME Frame(u[1]).savedFp \in FrameSet, Frame(u[1]).savedFp < u[1] PROVE FALSE
    <3>1. Frame(u[1]).savedFp \in Nat /\ u[1] <= Frame(u[1]).savedFp
      BY <1>4, <1>6, <2>1
    <3> QED BY <1>7, <2>1, <3>1
  <2> QED BY <1>1, <1>7, <2>1, FrameFacts
<1>10. ASSUME NEW j \in 1..(l - 1)
       PROVE  /\ j \in 1..l /\ j + 1 \in 1..l
              /\ Frame(u[j + 1]).savedFp = u[j] /\ u[j] < u[j + 1]
              /\ OperandBase(u[j]) \in Nat /\ u[j] < OperandBase(u[j])
              /\ OperandBase(u[j]) + Frame(u[j + 1]).numArgs + 2 <= u[j + 1]
  <2>1. j \in 1..l /\ j + 1 \in 1..l /\ j < j + 1
    OBVIOUS
  <2>2. PICK g \in FrameSet, f \in FrameSet : g = u[j] /\ f = u[j + 1]
    BY <1>3, <2>1
  <2>3. g < f /\ g \in Nat /\ f \in Nat
    BY <1>3, <1>4, <2>1, <2>2
  <2>4. /\ Frame(f).savedFp \in FrameSet
        /\ OperandBase(Frame(f).savedFp) + Frame(f).numArgs + 2 <= f
        /\ \A h \in FrameSet : h <= Frame(f).savedFp \/ f <= h
    <3>1. ~ \A h \in FrameSet : f <= h
      BY <2>2, <2>3
    <3> QED BY <1>1, <3>1 DEF FramesInv, CallerOK
  <2>5. PICK c \in FrameSet : c = Frame(f).savedFp
    BY <2>4
  <2>6. g <= c /\ c < f /\ c \in Nat
    <3>1. c < f /\ c \in Nat
      <4>1. Bottom # c
        BY <1>4
      <4> QED BY <1>1, <1>4, <2>5, <4>1, FrameFacts
    <3> QED BY <2>3, <2>4, <2>5, <3>1
  <2>7. c = g
    <3>1. PICK i \in 1..l : c = u[i]
      BY <1>3
    <3>2. ~(i < j)
      BY <1>3, <2>1, <2>2, <2>3, <2>6, <3>1
    <3>3. ~(j + 1 < i) /\ i # j + 1
      BY <1>3, <2>1, <2>2, <2>3, <2>6, <3>1
    <3>4. i = j
      BY <3>2, <3>3
    <3> QED BY <2>2, <3>1, <3>4
  <2> QED BY <1>4, <2>1, <2>2, <2>3, <2>4, <2>5, <2>7
<1> QED
  BY <1>2, <1>3, <1>4, <1>5, <1>8, <1>9, <1>10 DEF Order

\* The walk is the enumeration backwards.
LEMMA ChainOfOrder ==
  ASSUME IInv, Running, NEW u, NEW l, Order(u, l)
  PROVE  Chain(fp) = [i \in 1..l |-> u[l + 1 - i]]
<1>1. StackInv /\ HeapInv /\ FramesInv /\ fp \in FrameSet
  BY RunningFacts
<1>2. /\ l \in Nat /\ l > 0 /\ \A j \in 1..l : u[j] \in FrameSet /\ u[j] \in Nat
      /\ u[l] = fp /\ Frame(u[1]).savedFp = Bottom
      /\ \A j \in 1..(l - 1) : Frame(u[j + 1]).savedFp = u[j] /\ u[j] < u[j + 1]
  BY DEF Order
<1>3. PICK d : d = [i \in 1..l |-> u[l + 1 - i]]
  OBVIOUS
<1>4. \A i \in 1..l : l + 1 - i \in 1..l /\ d[i] = u[l + 1 - i]
  BY <1>2, <1>3
<1>5. d \in Seq(1..StackWords) /\ Len(d) = l
  <2>1. \A h \in FrameSet : h \in 1..StackWords
    <3> TAKE h \in FrameSet
    <3>1. h \in Nat /\ h > 0 /\ OperandBase(h) \in Nat /\ h < OperandBase(h) /\ OperandBase(h) <= StackWords
      BY <1>1, FrameFacts DEF FramesInv
    <3> QED BY <3>1, BoundAssumption
  <2>2. PICK W : W = 1..StackWords
    OBVIOUS
  <2>3. \A i \in 1..l : d[i] \in W
    BY <1>2, <1>4, <2>1, <2>2
  <2>4. d \in Seq(W) /\ Len(d) = l
    BY <1>2, <1>3, <2>3
  <2> QED BY <2>2, <2>4
<1>6. IsChain(d, fp)
  <2>1. d[1] = fp
    BY <1>2, <1>4
  <2>2. \A i \in 1..l : d[i] \in FrameSet
    BY <1>2, <1>4
  <2>3. ASSUME NEW i \in 1..(l - 1)
        PROVE  i \in 1..l /\ i + 1 \in 1..l /\ Frame(d[i]).savedFp = d[i + 1] /\ d[i + 1] < d[i]
    <3>1. i \in 1..l /\ i + 1 \in 1..l
      BY <1>2
    <3>2. PICK j \in 1..(l - 1) : j = l - i
      BY <1>2
    <3>3. l + 1 - i = j + 1 /\ l + 1 - (i + 1) = j
      BY <1>2, <3>2
    <3>4. d[i] = u[j + 1] /\ d[i + 1] = u[j]
      BY <1>4, <3>1, <3>3
    <3> QED BY <1>2, <3>1, <3>4
  <2>4. Frame(d[l]).savedFp = Bottom
    <3>1. l \in 1..l /\ l + 1 - l = 1
      BY <1>2
    <3> QED BY <1>2, <1>4, <3>1
  <2> QED BY <1>2, <1>5, <2>1, <2>2, <2>3, <2>4 DEF IsChain
<1> QED
  BY <1>1, <1>3, <1>6, ChainFacts, ChainUnique

\* The activations, by their frames.
LEMMA ActsOfOrder ==
  ASSUME IInv, Running, NEW u, NEW l, Order(u, l)
  PROVE  ActsOfFrames = [j \in 1..l |-> IF j = l THEN Innermost ELSE Suspended(u[j], u[j + 1])]
<1>1. PICK c : c = Chain(fp)
  OBVIOUS
<1>2. l \in Nat /\ c = [i \in 1..l |-> u[l + 1 - i]]
  <2>1. Chain(fp) = [i \in 1..l |-> u[l + 1 - i]]
    BY ChainOfOrder
  <2>2. l \in Nat
    BY DEF Order
  <2> QED BY <1>1, <2>1, <2>2, Zenon
<1>3. Len(c) = l
  <2>1. StackInv /\ HeapInv /\ FramesInv /\ fp \in FrameSet
    BY RunningFacts
  <2>2. IsChain(c, fp)
    BY <1>1, <2>1, ChainFacts
  <2>3. c \in Seq(1..StackWords) /\ DOMAIN c = 1..l
    BY <1>2, <2>2 DEF IsChain
  <2> QED BY <1>2, <2>3
<1>4. ActsOfFrames = [j \in 1..l |-> IF j = l THEN Innermost ELSE Suspended(c[l + 1 - j], c[l - j])]
  BY <1>1, <1>3 DEF ActsOfFrames
<1>5. ASSUME NEW j \in 1..l, j # l PROVE c[l + 1 - j] = u[j] /\ c[l - j] = u[j + 1]
  <2>1. l + 1 - j \in 1..l /\ l - j \in 1..l /\ l + 1 - (l + 1 - j) = j /\ l + 1 - (l - j) = j + 1
    BY <1>2, <1>5
  <2> QED BY <1>2, <2>1
<1>6. ASSUME NEW j \in 1..l
      PROVE  (IF j = l THEN Innermost ELSE Suspended(c[l + 1 - j], c[l - j]))
               = IF j = l THEN Innermost ELSE Suspended(u[j], u[j + 1])
  BY <1>5
<1> QED
  BY <1>4, <1>6, Zenon

\* A frame that a primitive called is the entry of one interpret().
LEMMA CallOfEntry ==
  ASSUME IInv, Running
  PROVE  /\ \A j, k \in 1..Len(calls) : j < k => calls[j].entry < calls[k].entry
         /\ \A k \in 1..Len(calls) : calls[k].entry \in FrameSet /\ calls[k].entry \in Nat
         /\ \A k \in 2..Len(calls) : CallsAt(calls[k].entry) = {k} /\ CallAt(calls[k].entry) = calls[k]
         /\ CallsAt(calls[1].entry) = {}
         /\ \A f \in FrameSet : Entry < f => CallsAt(f) = {}
<1>1. /\ HeapInv /\ StackInv /\ FramesInv /\ CallsInv
      /\ calls \in Seq(CallRecord) /\ Len(calls) \in Nat /\ Len(calls) \in 1..Len(calls)
      /\ Entry = calls[Len(calls)].entry
  BY RunningFacts
<1>2. PICK n \in Nat : n = Len(calls)
  BY <1>1
<1>3. \A h \in FrameSet : h \in Nat
  BY <1>1, FrameFacts
<1>4. ASSUME NEW k \in 1..n PROVE calls[k].entry \in FrameSet /\ calls[k].entry \in Nat
  BY <1>1, <1>2, <1>3 DEF CallsInv
<1>5. ASSUME NEW j \in 1..n, NEW k \in 1..n, j < k PROVE calls[j].entry < calls[k].entry
  <2>1. k \in 2..n /\ j \in 1..(k - 1)
    BY <1>5
  <2>2. CallOK(k)
    BY <1>1, <1>2, <2>1 DEF CallsInv
  <2>3. PICK e \in FrameSet : e = calls[k].entry
    BY <1>4
  <2>4. Frame(e).savedFp \in FrameSet /\ calls[j].entry <= Frame(e).savedFp
    BY <2>1, <2>2, <2>3 DEF CallOK
  <2>5. Frame(e).savedFp < e
    <3>1. Bottom \notin FrameSet
      <4>1. \A h \in FrameSet : h \in Nat /\ h > 0
        BY <1>1, FrameFacts
      <4> QED BY <4>1, BottomAssumption DEF NULL, CAFE
    <3> QED BY <1>1, <2>4, <3>1, FrameFacts
  <2>6. Frame(e).savedFp \in Nat /\ calls[j].entry \in Nat /\ e \in Nat
    BY <1>3, <1>4, <2>4
  <2> QED BY <2>3, <2>4, <2>5, <2>6
<1>6. ASSUME NEW k \in 2..n PROVE CallsAt(calls[k].entry) = {k} /\ CallAt(calls[k].entry) = calls[k]
  <2>1. k \in 1..n
    OBVIOUS
  <2>2. ASSUME NEW j \in 2..n, calls[j].entry = calls[k].entry PROVE j = k
    <3>1. j \in 1..n /\ calls[j].entry \in Nat
      BY <1>4
    <3>2. ~(j < k) /\ ~(k < j)
      BY <1>5, <2>1, <2>2, <3>1
    <3> QED BY <3>2
  <2>3. CallsAt(calls[k].entry) = {k}
    BY <1>2, <2>2 DEF CallsAt
  <2>4. (CHOOSE j \in {k} : TRUE) = k
    OBVIOUS
  <2> QED BY <2>3, <2>4 DEF CallAt
<1>7. CallsAt(calls[1].entry) = {}
  <2> SUFFICES ASSUME NEW k \in 2..n, calls[k].entry = calls[1].entry PROVE FALSE
    BY <1>2 DEF CallsAt
  <2>1. 1 \in 1..n /\ k \in 1..n /\ 1 < k
    OBVIOUS
  <2>2. calls[1].entry < calls[k].entry
    BY <1>5, <2>1
  <2> QED BY <1>4, <2>1, <2>2
<1>8. ASSUME NEW f \in FrameSet, Entry < f PROVE CallsAt(f) = {}
  <2> SUFFICES ASSUME NEW k \in 2..n, calls[k].entry = f PROVE FALSE
    BY <1>2 DEF CallsAt
  <2>1. k \in 1..n /\ n \in 1..n /\ (k = n \/ k < n)
    BY <1>1, <1>2
  <2>2. calls[k].entry <= calls[n].entry
    <3>1. calls[k].entry \in Nat /\ calls[n].entry \in Nat
      BY <1>4, <2>1
    <3>2. CASE k = n
      BY <3>1, <3>2
    <3>3. CASE k < n
      BY <1>5, <2>1, <3>1, <3>3
    <3> QED BY <2>1, <3>2, <3>3
  <2>3. f \in Nat /\ Entry = calls[n].entry /\ calls[n].entry \in Nat
    BY <1>1, <1>2, <1>3, <1>4, <2>1
  <2> QED BY <1>8, <2>2, <2>3
<1> QED
  BY <1>2, <1>4, <1>5, <1>6, <1>7, <1>8

\* The operands of a frame that waits lie between it and the arguments of the
\* frame above it.
LEMMA EndsBelow ==
  ASSUME IInv, Running, NEW u, NEW l, Order(u, l), NEW j \in 1..(l - 1)
  PROVE  /\ EndBelow(u[j + 1]) \in Nat /\ OperandBase(u[j]) <= EndBelow(u[j + 1])
         /\ EndBelow(u[j + 1]) + 2 <= u[j + 1]
<1>1. PICK g, f : g = u[j] /\ f = u[j + 1]
  OBVIOUS
<1>2. /\ f \in FrameSet /\ f \in Nat /\ g \in Nat /\ Frame(f).savedFp = g
      /\ OperandBase(g) \in Nat /\ OperandBase(g) + Frame(f).numArgs + 2 <= f
  BY <1>1 DEF Order
<1>3. HeapInv /\ StackInv /\ FramesInv /\ CallsInv
  BY RunningFacts
<1>4. Frame(f).numArgs \in Nat /\ Frame(f).numArgs + 2 <= f
  BY <1>2, <1>3, FrameFacts
<1>5. CASE CallsAt(f) = {}
  <2>1. EndBelow(f) = f - Frame(f).numArgs - 2
    BY <1>5 DEF EndBelow
  <2> QED BY <1>1, <1>2, <1>4, <2>1
<1>6. ASSUME CallsAt(f) # {}
      PROVE  EndBelow(f) \in Nat /\ OperandBase(g) <= EndBelow(f) /\ EndBelow(f) + 2 <= f
  <2>1. PICK k \in 2..Len(calls) : calls[k].entry = f
    BY <1>6 DEF CallsAt
  <2>2. EndBelow(f) = calls[k].savedSp
    BY <1>6, <2>1, CallOfEntry DEF EndBelow
  <2>3. CallOK(k) /\ calls[k] \in CallRecord
    BY <1>3 DEF CallsInv
  <2>4. calls[k].savedSp \in Nat
    BY <2>3 DEF CallRecord
  <2>5. OperandBase(g) <= calls[k].savedSp /\ calls[k].savedSp + 2 <= f
    BY <1>2, <2>1, <2>3 DEF CallOK
  <2> QED BY <2>2, <2>4, <2>5
<1> QED
  BY <1>1, <1>5, <1>6

\* The numbers of all frames, in this state and in the next.
LEMMA RunningFrames ==
  IInv /\ Running =>
    \A f \in FrameSet :
      /\ f \in Nat /\ f > 0 /\ f \in 1..SP /\ SP \in Nat /\ stack[f] \in FrameWord
      /\ Frame(f).numArgs \in Nat /\ Frame(f).numArgs + 2 <= f
      /\ TempCount(f) \in Nat /\ OperandBase(f) \in Nat /\ OperandBase(f) = f + 1 + TempCount(f)
<1> SUFFICES ASSUME IInv, Running, NEW f \in FrameSet
             PROVE  /\ f \in Nat /\ f > 0 /\ f \in 1..SP /\ SP \in Nat /\ stack[f] \in FrameWord
                    /\ Frame(f).numArgs \in Nat /\ Frame(f).numArgs + 2 <= f
                    /\ TempCount(f) \in Nat /\ OperandBase(f) \in Nat /\ OperandBase(f) = f + 1 + TempCount(f)
  OBVIOUS
<1>1. StackInv /\ HeapInv /\ FramesInv
  BY RunningFacts
<1>2. OperandBase(f) = f + 1 + TempCount(f)
  BY DEF OperandBase
<1> QED BY <1>1, <1>2, FrameFacts

\* The same of the next state.
LEMMA RunningFramesNext ==
  (IInv /\ Running =>
    \A f \in FrameSet :
      /\ f \in Nat /\ f > 0 /\ f \in 1..SP /\ SP \in Nat /\ stack[f] \in FrameWord
      /\ Frame(f).numArgs \in Nat /\ Frame(f).numArgs + 2 <= f
      /\ TempCount(f) \in Nat /\ OperandBase(f) \in Nat /\ OperandBase(f) = f + 1 + TempCount(f))'
BY RunningFrames, PTL

\* What a step keeps of the activations up to that of frame g.
SameBelow(g) ==
  /\ g \in FrameSet
  /\ \A f \in FrameSet : f <= g =>
       /\ f \in FrameSet' /\ SameFrame(f) /\ OperandBase(f)' = OperandBase(f)
       /\ CallsAt(f)' = CallsAt(f) /\ (CallsAt(f) # {} => CallAt(f)' = CallAt(f))
  /\ \A p \in 1..g : p \notin FrameSet => stack'[p] = stack[p]

\* The parts of the activation of a frame that is kept.
LEMMA SameParts ==
  ASSUME IInv, Running, IInv', Running', NEW g, SameBelow(g), NEW f \in FrameSet, f <= g
  PROVE  /\ f \in FrameSet' /\ OperandBase(f)' = OperandBase(f) /\ TempCount(f)' = TempCount(f)
         /\ FrameArgs(f)' = FrameArgs(f) /\ Then(f)' = Then(f) /\ EndBelow(f)' = EndBelow(f)
         /\ Frame(f)'.method = Frame(f).method /\ Frame(f)'.id = Frame(f).id
         /\ Frame(f)'.home = Frame(f).home /\ Frame(f)'.savedIp = Frame(f).savedIp
<1>1. /\ f \in FrameSet' /\ OperandBase(f)' = OperandBase(f) /\ SameFrame(f) /\ g \in FrameSet
      /\ CallsAt(f)' = CallsAt(f) /\ (CallsAt(f) # {} => CallAt(f)' = CallAt(f))
      /\ \A p \in 1..g : p \notin FrameSet => stack'[p] = stack[p]
  BY DEF SameBelow
<1>2. /\ f \in Nat /\ g \in Nat /\ TempCount(f) \in Nat /\ OperandBase(f) = f + 1 + TempCount(f)
      /\ Frame(f).numArgs \in Nat /\ Frame(f).numArgs + 2 <= f
  BY <1>1, RunningFrames
<1>3. TempCount(f)' \in Nat /\ OperandBase(f)' = f + 1 + TempCount(f)'
  BY <1>1, RunningFramesNext
<1>4. TempCount(f)' = TempCount(f)
  BY <1>1, <1>2, <1>3
<1>5. /\ Frame(f)'.method = Frame(f).method /\ Frame(f)'.id = Frame(f).id
      /\ Frame(f)'.home = Frame(f).home /\ Frame(f)'.savedIp = Frame(f).savedIp
      /\ Frame(f)'.numArgs = Frame(f).numArgs
  BY <1>1 DEF SameFrame, Frame
<1>6. Then(f)' = Then(f)
  <2>1. CASE CallsAt(f) = {}
    BY <1>1, <2>1, Zenon DEF Then
  <2>2. CASE CallsAt(f) # {}
    BY <1>1, <2>2, Zenon DEF Then
  <2> QED BY <2>1, <2>2
<1>7. EndBelow(f)' = EndBelow(f)
  <2>1. CASE CallsAt(f) = {}
    BY <1>1, <1>5, <2>1 DEF EndBelow
  <2>2. CASE CallsAt(f) # {}
    BY <1>1, <2>2, Zenon DEF EndBelow
  <2> QED BY <2>1, <2>2
<1>8. FrameArgs(f)' = FrameArgs(f)
  <2>1. PICK n \in Nat : n = Frame(f).numArgs
    BY <1>2
  <2>2. ASSUME NEW i \in 1..n PROVE frame_arg(f, i - 1)' = frame_arg(f, i - 1)
    <3>1. PICK p : p = f - n + (i - 1)
      OBVIOUS
    <3>2. p \in (f - n - 1)..(f - 1) /\ p \in 1..g
      BY <1>2, <2>1, <3>1
    <3>3. p \in 1..SP /\ stack[p] \in Held
      BY <2>1, <3>2, RunningFacts, ArgumentsHeld
    <3>4. p \notin FrameSet
      BY <3>3, HeldKinds DEF FrameSet
    <3>5. stack'[p] = stack[p]
      BY <1>1, <3>2, <3>4
    <3> QED BY <1>5, <2>1, <3>1, <3>5 DEF frame_arg
  <2>3. [i \in 1..n |-> frame_arg(f, i - 1)'] = [i \in 1..n |-> frame_arg(f, i - 1)]
    BY <2>2, Zenon
  <2> QED BY <1>5, <2>1, <2>3 DEF FrameArgs
<1> QED
  BY <1>1, <1>4, <1>5, <1>6, <1>7, <1>8

\* Temporaries and operands up to e, when these words are kept.
LEMMA SameOperands ==
  ASSUME IInv, Running, IInv', Running', NEW f \in FrameSet, f \in FrameSet', TempCount(f)' = TempCount(f),
         NEW e \in Nat, e <= SP, e <= SP', OperandBase(f) <= e, \A p \in (f + 1)..e : stack'[p] = stack[p]
  PROVE  /\ FrameTemps(f)' = FrameTemps(f)
         /\ SubSeq(stack', OperandBase(f) + 1, e) = SubSeq(stack, OperandBase(f) + 1, e)
<1>1. /\ f \in Nat /\ TempCount(f) \in Nat /\ OperandBase(f) = f + 1 + TempCount(f)
      /\ SP \in Nat /\ SP = Len(stack)
  BY RunningFrames DEF SP
<1>2. SP' \in Nat /\ SP' = Len(stack')
  BY RunningFramesNext DEF SP
<1>3. PICK t \in Nat : t = TempCount(f)
  BY <1>1
<1>4. FrameTemps(f)' = FrameTemps(f)
  <2>1. ASSUME NEW i \in 1..t PROVE frame_temp(f, i - 1)' = frame_temp(f, i - 1)
    <3>1. f + 2 + (i - 1) \in (f + 1)..e
      BY <1>1, <1>3
    <3> QED BY <3>1 DEF frame_temp
  <2>2. [i \in 1..t |-> frame_temp(f, i - 1)'] = [i \in 1..t |-> frame_temp(f, i - 1)]
    BY <2>1, Zenon
  <2> QED BY <1>3, <2>2 DEF FrameTemps
<1>5. PICK b \in Nat : b = OperandBase(f)
  BY <1>1
<1>6. SubSeq(stack', b + 1, e) = SubSeq(stack, b + 1, e)
  <2>1. SubSeq(stack', b + 1, e) = [i \in 1..(e - b) |-> stack'[b + i]]
    <3>1. stack' \in Seq(Held' \cup FrameWord)
      BY DEF IInv, StackInv
    <3> QED BY <1>2, <1>5, <3>1, SubSeqIs
  <2>2. SubSeq(stack, b + 1, e) = [i \in 1..(e - b) |-> stack[b + i]]
    <3>1. PICK s, W : s = stack /\ W = Held \cup FrameWord
      OBVIOUS
    <3>2. s \in Seq(W) /\ b <= e /\ e <= Len(s)
      BY <1>1, <1>5, <3>1 DEF IInv, StackInv
    <3>3. SubSeq(s, b + 1, e) = [i \in 1..(e - b) |-> s[b + i]]
      BY <3>2, SubSeqIs
    <3> QED BY <3>1, <3>3
  <2>3. \A i \in 1..(e - b) : b + i \in (f + 1)..e
    BY <1>1, <1>5
  <2> QED BY <2>1, <2>2, <2>3
<1> QED
  BY <1>4, <1>5, <1>6

\* The activation of a caller of a frame that is kept is kept.
LEMMA SameSuspended ==
  ASSUME IInv, Running, IInv', Running', NEW g, SameBelow(g),
         NEW u, NEW l, Order(u, l), NEW j \in 1..(l - 1), u[j + 1] <= g
  PROVE  Suspended(u[j], u[j + 1])' = Suspended(u[j], u[j + 1])
<1>1. PICK f, h : f = u[j] /\ h = u[j + 1]
  OBVIOUS
<1>2. /\ f \in FrameSet /\ h \in FrameSet /\ f < h /\ f \in Nat /\ h \in Nat
      /\ OperandBase(f) \in Nat /\ f < OperandBase(f)
  BY <1>1 DEF Order
<1>3. g \in FrameSet /\ g \in Nat /\ g \in 1..SP /\ SP \in Nat /\ g \in FrameSet' /\ g <= g
  <2>1. g \in FrameSet
    BY DEF SameBelow
  <2>2. g \in Nat /\ g \in 1..SP /\ SP \in Nat
    BY <2>1, RunningFrames
  <2> QED BY <2>1, <2>2 DEF SameBelow
<1>4. SP' \in Nat /\ g <= SP'
  BY <1>3, RunningFramesNext
<1>5. PICK e : e = EndBelow(h)
  OBVIOUS
<1>6. e \in Nat /\ OperandBase(f) <= e /\ e + 2 <= h
  BY <1>1, <1>5, EndsBelow
<1>7. \A p \in FrameSet : p <= f \/ h <= p
  <2> SUFFICES ASSUME NEW p \in FrameSet, ~(p <= f), ~(h <= p) PROVE FALSE
    OBVIOUS
  <2>1. PICK i \in 1..l : p = u[i]
    BY DEF Order
  <2>2. /\ l \in Nat /\ j \in 1..l /\ j + 1 \in 1..l /\ p \in Nat
        /\ \A i1, i2 \in 1..l : i1 < i2 => u[i1] < u[i2]
    BY <2>1 DEF Order
  <2>3. ~(i < j) /\ i # j /\ ~(j + 1 < i) /\ i # j + 1
    BY <1>1, <1>2, <2>1, <2>2
  <2> QED BY <2>2, <2>3
<1>8. \A p \in (f + 1)..e : stack'[p] = stack[p]
  <2> TAKE p \in (f + 1)..e
  <2>1. p \in 1..g /\ ~(p <= f) /\ ~(h <= p)
    BY <1>1, <1>2, <1>3, <1>6
  <2> QED BY <1>7, <2>1 DEF SameBelow
<1>9. f <= g /\ h <= g
  BY <1>1, <1>2, <1>3
<1>10. /\ f \in FrameSet' /\ OperandBase(f)' = OperandBase(f) /\ TempCount(f)' = TempCount(f)
       /\ FrameArgs(f)' = FrameArgs(f) /\ Then(f)' = Then(f)
       /\ Frame(f)'.method = Frame(f).method /\ Frame(f)'.id = Frame(f).id
       /\ Frame(f)'.home = Frame(f).home
  BY <1>2, <1>9, SameParts
<1>11. EndBelow(h)' = e /\ Frame(h)'.savedIp = Frame(h).savedIp
  BY <1>2, <1>5, <1>9, SameParts
<1>12. e <= SP /\ e <= SP'
  BY <1>1, <1>2, <1>3, <1>4, <1>6
<1>13. /\ FrameTemps(f)' = FrameTemps(f)
       /\ SubSeq(stack', OperandBase(f) + 1, e) = SubSeq(stack, OperandBase(f) + 1, e)
  BY <1>2, <1>6, <1>8, <1>10, <1>12, SameOperands
<1>14. Suspended(f, h)' = Suspended(f, h)
  BY <1>5, <1>10, <1>11, <1>13, Zenon DEF Suspended, Activation
<1> QED
  BY <1>1, <1>14

\* The activations by their frames, in this state and in the next.
LEMMA ActsOfOrders ==
  IInv /\ Running =>
    \A u, l : Order(u, l) =>
      ActsOfFrames = [j \in 1..l |-> IF j = l THEN Innermost ELSE Suspended(u[j], u[j + 1])]
BY ActsOfOrder

\* The same of the next state.
LEMMA ActsOfOrdersNext ==
  (IInv /\ Running =>
    \A u, l : Order(u, l) =>
      ActsOfFrames = [j \in 1..l |-> IF j = l THEN Innermost ELSE Suspended(u[j], u[j + 1])])'
BY ActsOfOrders, PTL

\* EnumeratedOrder, for every listing; and of the next state.
LEMMA EnumeratedOrders ==
  IInv /\ Running => \A u : Enumerates(u) => \E l : Order(u, l)
BY EnumeratedOrder

\* The same of the next state.
LEMMA EnumeratedOrdersNext ==
  (IInv /\ Running => \A u : Enumerates(u) => \E l : Order(u, l))'
BY EnumeratedOrders, PTL

\* The first m frames, and perhaps the new frame x, enumerate the next state's.
LEMMA NextOrder ==
  ASSUME IInv', Running', NEW u, NEW n \in Nat, n > 0, u \in Seq(Nat), Len(u) = n,
         \A i, j \in 1..n : i < j => u[i] < u[j],
         FrameSet' = {u[i] : i \in 1..n}
  PROVE  Order(u, n)'
<1>1. Enumerates(u)'
  <2>1. \A i \in 1..Len(u) : u[i] \in FrameSet'
    OBVIOUS
  <2>2. \A f \in FrameSet' : \E i \in 1..Len(u) : f = u[i]
    OBVIOUS
  <2> QED BY <2>1, <2>2 DEF Enumerates
<1>2. PICK l : Order(u, l)'
  BY <1>1, EnumeratedOrdersNext, Zenon
<1>3. l = n
  BY <1>2 DEF Order
<1> QED BY <1>2, <1>3

\* Control is back in the frame g, the m-th: the callers below it are the same.
LEMMA ActsBack ==
  ASSUME IInv, Running, IInv', Running', NEW u, NEW l, Order(u, l), NEW m \in 1..l,
         SameBelow(u[m]), FrameSet' = {f \in FrameSet : f <= u[m]}
  PROVE  ActsOfFrames' = [j \in 1..m |-> IF j = m THEN Innermost' ELSE ActsOfFrames[j]]
<1>1. /\ l \in Nat /\ u \in Seq(Nat) /\ Len(u) = l /\ \A j \in 1..l : u[j] \in FrameSet /\ u[j] \in Nat
      /\ \A i, j \in 1..l : i < j => u[i] < u[j]
      /\ \A f \in FrameSet : \E i \in 1..l : f = u[i]
  BY DEF Order
<1>2. PICK v : v = [j \in 1..m |-> u[j]]
  OBVIOUS
<1>3. m \in Nat /\ m > 0 /\ \A j \in 1..m : j \in 1..l /\ v[j] = u[j]
  BY <1>1, <1>2
<1>4. v \in Seq(Nat) /\ Len(v) = m
  BY <1>1, <1>2, <1>3
<1>5. FrameSet' = {v[i] : i \in 1..m}
  <2>1. ASSUME NEW i \in 1..m PROVE v[i] \in FrameSet'
    <3>1. i = m \/ i < m
      BY <1>3
    <3>2. u[i] <= u[m]
      BY <1>1, <1>3, <3>1
    <3> QED BY <1>1, <1>3, <3>2
  <2>2. ASSUME NEW f \in FrameSet' PROVE \E i \in 1..m : f = v[i]
    <3>1. PICK i \in 1..l : f = u[i] /\ u[i] <= u[m]
      BY <1>1
    <3>2. ~(m < i)
      BY <1>1, <1>3, <3>1
    <3>3. i \in 1..m
      BY <1>3, <3>2
    <3> QED BY <1>3, <3>1, <3>3
  <2> QED BY <2>1, <2>2
<1>6. Order(v, m)'
  BY <1>1, <1>3, <1>4, <1>5, NextOrder
<1>7. ActsOfFrames' = [j \in 1..m |-> IF j = m THEN Innermost' ELSE Suspended(v[j], v[j + 1])']
  BY <1>6, ActsOfOrdersNext, Zenon
<1>8. ActsOfFrames = [j \in 1..l |-> IF j = l THEN Innermost ELSE Suspended(u[j], u[j + 1])]
  BY ActsOfOrders, Zenon
<1>9. ASSUME NEW j \in 1..m, j # m
      PROVE  Suspended(v[j], v[j + 1])' = ActsOfFrames[j]
  <2>1. j \in 1..(l - 1) /\ j \in 1..m /\ j + 1 \in 1..m /\ j \in 1..l /\ j # l
    BY <1>1, <1>3, <1>9
  <2>2. u[j + 1] <= u[m]
    <3>1. j + 1 = m \/ j + 1 < m
      BY <2>1
    <3>2. j + 1 \in 1..l
      BY <1>3, <2>1
    <3> QED BY <1>1, <1>3, <3>1, <3>2
  <2>3. Suspended(u[j], u[j + 1])' = Suspended(u[j], u[j + 1])
    BY <2>1, <2>2, SameSuspended
  <2>4. ActsOfFrames[j] = Suspended(u[j], u[j + 1])
    BY <1>8, <2>1, Zenon
  <2>5. v[j] = u[j] /\ v[j + 1] = u[j + 1]
    BY <1>3, <2>1
  <2> QED BY <2>3, <2>4, <2>5, Zenon
<1>10. \A j \in 1..m : (IF j = m THEN Innermost' ELSE Suspended(v[j], v[j + 1])')
                       = IF j = m THEN Innermost' ELSE ActsOfFrames[j]
  BY <1>9, Zenon
<1> QED
  BY <1>7, <1>10, Zenon

\* A new frame x is above the frame g, the m-th.
LEMMA ActsNew ==
  ASSUME IInv, Running, IInv', Running', NEW u, NEW l, Order(u, l), NEW m \in 1..l,
         SameBelow(u[m]), NEW x \in Nat, u[m] < x, FrameSet' = {f \in FrameSet : f <= u[m]} \cup {x}
  PROVE  ActsOfFrames' = [j \in 1..(m + 1) |->
           IF j = m + 1 THEN Innermost' ELSE IF j = m THEN Suspended(u[m], x)' ELSE ActsOfFrames[j]]
<1>1. /\ l \in Nat /\ u \in Seq(Nat) /\ Len(u) = l /\ \A j \in 1..l : u[j] \in FrameSet /\ u[j] \in Nat
      /\ \A i, j \in 1..l : i < j => u[i] < u[j]
      /\ \A f \in FrameSet : \E i \in 1..l : f = u[i]
  BY DEF Order
<1>2. PICK n \in Nat : n = m + 1
  BY <1>1
<1>3. PICK v : v = [j \in 1..n |-> IF j = n THEN x ELSE u[j]]
  OBVIOUS
<1>4. m \in Nat /\ m > 0 /\ v[n] = x /\ \A j \in 1..m : j \in 1..l /\ j \in 1..n /\ j # n /\ v[j] = u[j]
  BY <1>1, <1>2, <1>3
<1>5. v \in Seq(Nat) /\ Len(v) = n
  <2>1. \A j \in 1..n : v[j] \in Nat
    <3> TAKE j \in 1..n
    <3>1. j = n \/ j \in 1..m
      BY <1>2
    <3> QED BY <1>1, <1>4, <3>1
  <2> QED BY <1>3, <2>1
<1>6. \A i \in 1..m : u[i] <= u[m]
  <2> TAKE i \in 1..m
  <2>1. i = m \/ i < m
    BY <1>4
  <2> QED BY <1>1, <1>4, <2>1
<1>7. FrameSet' = {v[i] : i \in 1..n}
  <2>1. ASSUME NEW i \in 1..n PROVE v[i] \in FrameSet'
    <3>1. i = n \/ i \in 1..m
      BY <1>2
    <3> QED BY <1>1, <1>4, <1>6, <3>1
  <2>2. ASSUME NEW f \in FrameSet' PROVE \E i \in 1..n : f = v[i]
    <3>1. CASE f = x
      BY <1>2, <1>4, <3>1
    <3>2. ASSUME f # x PROVE \E i \in 1..n : f = v[i]
      <4>1. PICK i \in 1..l : f = u[i] /\ u[i] <= u[m]
        BY <1>1, <3>2
      <4>2. ~(m < i)
        BY <1>1, <1>4, <4>1
      <4>3. i \in 1..m
        BY <1>4, <4>2
      <4> QED BY <1>4, <4>1, <4>3
    <3> QED BY <3>1, <3>2
  <2> QED BY <2>1, <2>2
<1>8. \A i, j \in 1..n : i < j => v[i] < v[j]
  <2> TAKE i, j \in 1..n
  <2>1. i < j => i \in 1..m /\ (j = n \/ j \in 1..m)
    BY <1>2
  <2> QED BY <1>1, <1>4, <1>6, <2>1
<1>9. Order(v, n)'
  BY <1>2, <1>5, <1>7, <1>8, NextOrder
<1>10. ActsOfFrames' = [j \in 1..n |-> IF j = n THEN Innermost' ELSE Suspended(v[j], v[j + 1])']
  BY <1>9, ActsOfOrdersNext, Zenon
<1>11. ActsOfFrames = [j \in 1..l |-> IF j = l THEN Innermost ELSE Suspended(u[j], u[j + 1])]
  BY ActsOfOrders, Zenon
<1>12. ASSUME NEW j \in 1..n, j # n
       PROVE  Suspended(v[j], v[j + 1])' = IF j = m THEN Suspended(u[m], x)' ELSE ActsOfFrames[j]
  <2>1. j \in 1..m
    BY <1>2, <1>12
  <2>2. CASE j = m
    <3>1. v[j] = u[m] /\ v[j + 1] = x
      BY <1>2, <1>4, <2>1, <2>2
    <3> QED BY <2>2, <3>1, Zenon
  <2>3. ASSUME j # m PROVE Suspended(v[j], v[j + 1])' = ActsOfFrames[j]
    <3>1. j \in 1..(l - 1) /\ j + 1 \in 1..m /\ j \in 1..l /\ j # l
      BY <1>1, <1>4, <2>1, <2>3
    <3>2. u[j + 1] <= u[m]
      BY <1>6, <3>1
    <3>3. Suspended(u[j], u[j + 1])' = Suspended(u[j], u[j + 1])
      BY <3>1, <3>2, SameSuspended
    <3>4. ActsOfFrames[j] = Suspended(u[j], u[j + 1])
      BY <1>11, <3>1, Zenon
    <3>5. v[j] = u[j] /\ v[j + 1] = u[j + 1]
      BY <1>4, <2>1, <3>1
    <3> QED BY <3>3, <3>4, <3>5, Zenon
  <2> QED BY <2>2, <2>3, Zenon
<1>13. \A j \in 1..n : (IF j = n THEN Innermost' ELSE Suspended(v[j], v[j + 1])')
         = IF j = n THEN Innermost' ELSE IF j = m THEN Suspended(u[m], x)' ELSE ActsOfFrames[j]
  BY <1>12, Zenon
<1>14. ActsOfFrames' = [j \in 1..n |->
         IF j = n THEN Innermost' ELSE IF j = m THEN Suspended(u[m], x)' ELSE ActsOfFrames[j]]
  BY <1>10, <1>13, Zenon
<1> QED
  BY <1>2, <1>14, Zenon

\* A step that keeps the words up to frame g and the interpret()s that run the
\* frames there keeps their activations.
LEMMA SameBelowKept ==
  ASSUME IInv, Running, NEW g \in FrameSet, KeptTo(g),
         NEW n \in Nat, n <= Len(calls), n <= Len(calls'), Len(calls') \in Nat,
         \A k \in 1..n : calls'[k] = calls[k],
         \A k \in (n + 1)..Len(calls) : g < calls[k].entry,
         \A k \in (n + 1)..Len(calls') : g < calls'[k].entry
  PROVE  SameBelow(g)
<1>1. StackInv /\ HeapInv /\ FramesInv /\ Len(calls) \in Nat
  BY RunningFacts
<1>2. g \in Nat
  BY <1>1, FrameFacts
<1>3. /\ \A f \in FrameSet : f <= g =>
           f \in FrameSet' /\ f \in Nat /\ stack'[f] = stack[f] /\ OperandBase(f)' = OperandBase(f)
      /\ \A p \in 1..g : stack'[p] = stack[p]
  <2>1. \A p \in 1..g : stack'[p] = stack[p]
    BY DEF KeptTo
  <2>2. \A f \in FrameSet : f <= g =>
          f \in FrameSet' /\ f \in Nat /\ stack'[f] = stack[f] /\ OperandBase(f)' = OperandBase(f)
    BY <1>1, <1>2, KeptFrames
  <2> QED BY <2>1, <2>2
<1>4. ASSUME NEW f \in FrameSet, f <= g PROVE SameFrame(f)
  <2>1. stack[f] \in FrameWord /\ stack'[f] = stack[f]
    BY <1>1, <1>3, <1>4, FrameFacts
  <2> QED BY <2>1 DEF SameFrame
<1>5. ASSUME NEW f \in FrameSet, f <= g PROVE CallsAt(f)' = CallsAt(f) /\ CallsAt(f) \subseteq 1..n
  <2>1. f \in Nat
    BY <1>3, <1>5
  <2>2. ASSUME NEW k \in 2..Len(calls), calls[k].entry = f PROVE k \in 2..n
    <3>1. ~(k \in (n + 1)..Len(calls))
      BY <1>2, <1>5, <2>1, <2>2
    <3> QED BY <1>1, <3>1
  <2>3. ASSUME NEW k \in 2..Len(calls'), calls'[k].entry = f PROVE k \in 2..n
    <3>1. ~(k \in (n + 1)..Len(calls'))
      BY <1>2, <1>5, <2>1, <2>3
    <3> QED BY <3>1
  <2>4. CallsAt(f) = {k \in 2..n : calls[k].entry = f}
    <3>1. 2..n \subseteq 2..Len(calls)
      BY <1>1
    <3> QED BY <2>2, <3>1 DEF CallsAt
  <2>5. CallsAt(f)' = {k \in 2..n : calls'[k].entry = f}
    <3>1. 2..n \subseteq 2..Len(calls')
      OBVIOUS
    <3> QED BY <2>3, <3>1 DEF CallsAt
  <2>6. \A k \in 2..n : k \in 1..n /\ calls'[k] = calls[k]
    OBVIOUS
  <2> QED BY <2>4, <2>5, <2>6
<1>6. ASSUME NEW f \in FrameSet, f <= g, CallsAt(f) # {} PROVE CallAt(f)' = CallAt(f)
  <2>1. PICK k : k = CHOOSE j \in CallsAt(f) : TRUE
    OBVIOUS
  <2>2. k \in CallsAt(f)
    BY <1>6, <2>1
  <2>3. CallsAt(f)' = CallsAt(f) /\ k \in 1..n
    BY <1>5, <1>6, <2>2
  <2>4. calls'[k] = calls[k]
    BY <2>3
  <2>5. CallAt(f) = calls[k]
    BY <2>1, Zenon DEF CallAt
  <2>6. CallAt(f)' = calls'[k]
    BY <2>1, <2>3, Zenon DEF CallAt
  <2> QED BY <2>4, <2>5, <2>6
<1> QED
  BY <1>3, <1>4, <1>5, <1>6 DEF SameBelow

\* So does a step that gives frames a context.
LEMMA SameBelowGrown ==
  ASSUME IInv, Running, HeapInv', NEW c, NEW k, Grows(c, k), UNCHANGED calls
  PROVE  SameBelow(fp) /\ FrameSet' = FrameSet
<1>1. /\ FrameSet' = FrameSet
      /\ \A f \in FrameSet : SameFrame(f)
      /\ \A p \in 1..SP : p \notin FrameSet => stack'[p] = stack[p]
  BY GrownWords
<1>2. \A f \in FrameSet : OperandBase(f)' = OperandBase(f)
  BY GrownFrames
<1>3. \A f : CallsAt(f)' = CallsAt(f) /\ CallAt(f)' = CallAt(f)
  BY DEF CallsAt, CallAt
<1>4. fp \in FrameSet /\ fp \in 1..SP /\ SP \in Nat
  BY RunningFacts
<1>5. 1..fp \subseteq 1..SP
  BY <1>4
<1> QED
  BY <1>1, <1>2, <1>3, <1>4, <1>5 DEF SameBelow

\* An activation with other variables and operands, at another pc.
Changed(r, V, O, P) == [r EXCEPT !.vars = V, !.ops = O, !.pc = P]

\* Its fields.
LEMMA ActChanged ==
  ASSUME NEW r, NEW V, NEW O, NEW P,
         r = [code |-> r.code, id |-> r.id, home |-> r.home, args |-> r.args, vars |-> r.vars,
              ops |-> r.ops, pc |-> r.pc, then |-> r.then]
  PROVE  Changed(r, V, O, P) =
           [code |-> r.code, id |-> r.id, home |-> r.home, args |-> r.args, vars |-> V,
            ops |-> O, pc |-> P, then |-> r.then]
<1>1. PICK c, i, h, a, v, o, p, t :
        /\ c = r.code /\ i = r.id /\ h = r.home /\ a = r.args /\ v = r.vars /\ o = r.ops /\ p = r.pc
        /\ t = r.then
  OBVIOUS
<1>2. r = [code |-> c, id |-> i, home |-> h, args |-> a, vars |-> v, ops |-> o, pc |-> p, then |-> t]
  BY <1>1, Zenon
<1>3. PICK q1 : q1 = [r EXCEPT !.vars = V]
  OBVIOUS
<1>4. q1 = [code |-> c, id |-> i, home |-> h, args |-> a, vars |-> V, ops |-> o, pc |-> p, then |-> t]
  BY ONLY <1>2, <1>3
<1>5. PICK q2 : q2 = [q1 EXCEPT !.ops = O]
  OBVIOUS
<1>6. q2 = [code |-> c, id |-> i, home |-> h, args |-> a, vars |-> V, ops |-> O, pc |-> p, then |-> t]
  BY ONLY <1>4, <1>5
<1>7. [q2 EXCEPT !.pc = P] =
        [code |-> c, id |-> i, home |-> h, args |-> a, vars |-> V, ops |-> O, pc |-> P, then |-> t]
  BY ONLY <1>6
<1>8. Changed(r, V, O, P) = [q2 EXCEPT !.pc = P]
  BY ONLY <1>3, <1>5, Zenon DEF Changed
<1> QED
  BY <1>1, <1>7, <1>8, Zenon

\* The activation of a frame that is kept, when the frame itself changes.
LEMMA ActivationKept ==
  ASSUME IInv, Running, IInv', Running', NEW g, SameBelow(g), NEW e0, NEW p0, NEW e1, NEW p1
  PROVE  Activation(g, e1, p1)' =
           Changed(Activation(g, e0, p0), FrameTemps(g)', SubSeq(stack', OperandBase(g) + 1, e1), p1)
<1>1. g \in FrameSet /\ g <= g
  <2>1. g \in FrameSet
    BY DEF SameBelow
  <2> QED BY <2>1, RunningFrames
<1>2. /\ OperandBase(g)' = OperandBase(g) /\ FrameArgs(g)' = FrameArgs(g) /\ Then(g)' = Then(g)
      /\ Frame(g)'.method = Frame(g).method /\ Frame(g)'.id = Frame(g).id
      /\ Frame(g)'.home = Frame(g).home
  BY <1>1, SameParts
<1>3. PICK r : r = Activation(g, e0, p0)
  OBVIOUS
<1>4. PICK V, O : V = FrameTemps(g)' /\ O = SubSeq(stack', OperandBase(g) + 1, e1)
  OBVIOUS
<1>5. r = [code |-> r.code, id |-> r.id, home |-> r.home, args |-> r.args, vars |-> r.vars,
           ops |-> r.ops, pc |-> r.pc, then |-> r.then]
  BY <1>3 DEF Activation
<1>6. Changed(r, V, O, p1) =
        [code |-> r.code, id |-> r.id, home |-> r.home, args |-> r.args, vars |-> V,
         ops |-> O, pc |-> p1, then |-> r.then]
  BY <1>5, ActChanged
<1>7. /\ r.code = Frame(g).method /\ r.id = Frame(g).id /\ r.home = Frame(g).home
      /\ r.args = FrameArgs(g) /\ r.then = Then(g)
  BY <1>3 DEF Activation
<1>8. Activation(g, e1, p1)' =
        [code |-> r.code, id |-> r.id, home |-> r.home, args |-> r.args, vars |-> V,
         ops |-> O, pc |-> p1, then |-> r.then]
  BY <1>2, <1>4, <1>7, Zenon DEF Activation
<1> QED
  BY <1>3, <1>4, <1>6, <1>8, Zenon

\* The activations are those of their frames.
LEMMA ActsAreActivations ==
  ASSUME IInv, Running, NEW u, NEW l, Order(u, l)
  PROVE  /\ l \in Nat /\ l > 0 /\ l \in 1..l
         /\ ActsOfFrames = [j \in 1..l |-> ActsOfFrames[j]] /\ Len(ActsOfFrames) = l
         /\ u[l] = fp /\ ActsOfFrames[l] = Activation(fp, SP, ip.pc)
         /\ \A m \in 1..(l - 1) :
              ActsOfFrames[m] = Activation(u[m], EndBelow(u[m + 1]), Frame(u[m + 1]).savedIp.pc)
<1>1. l \in Nat /\ l > 0 /\ u[l] = fp
  BY DEF Order
<1>2. ActsOfFrames = [j \in 1..l |-> IF j = l THEN Innermost ELSE Suspended(u[j], u[j + 1])]
  BY ActsOfOrder
<1>3. PICK a : a = ActsOfFrames
  OBVIOUS
<1>4. a = [j \in 1..l |-> a[j]]
  BY <1>2, <1>3, Zenon
<1>5. Len(a) = l
  BY <1>1, <1>4
<1>6. l \in 1..l /\ a[l] = Innermost
  BY <1>1, <1>2, <1>3
<1>7. ASSUME NEW m \in 1..(l - 1) PROVE a[m] = Suspended(u[m], u[m + 1])
  <2>1. m \in 1..l /\ m # l
    BY <1>1
  <2> QED BY <1>2, <1>3, <2>1, Zenon
<1> QED
  BY <1>1, <1>3, <1>4, <1>5, <1>6, <1>7, Zenon DEF Innermost, Suspended

\* Control is back in the m-th frame.
LEMMA BackInActs ==
  ASSUME IInv, Running, IInv', Running', NEW u, NEW l, Order(u, l), NEW m \in 1..l,
         SameBelow(u[m]), FrameSet' = {f \in FrameSet : f <= u[m]}, fp' = u[m]
  PROVE  ActsOfFrames' =
           LastIs(ActsOfFrames, m,
                  Changed(ActsOfFrames[m], FrameTemps(fp)', SubSeq(stack', OperandBase(fp)' + 1, SP'), ip'.pc))
<1>1. ActsOfFrames' = [j \in 1..m |-> IF j = m THEN Innermost' ELSE ActsOfFrames[j]]
  BY ActsBack
<1>2. PICK g : g = u[m]
  OBVIOUS
<1>3. \E e0, p0 : ActsOfFrames[m] = Activation(g, e0, p0)
  <2>1. m = l \/ m \in 1..(l - 1)
    BY ActsAreActivations
  <2>2. CASE m = l
    BY <1>2, <2>2, ActsAreActivations, Zenon
  <2>3. ASSUME m \in 1..(l - 1) PROVE \E e0, p0 : ActsOfFrames[m] = Activation(g, e0, p0)
    <3>1. \A n \in 1..(l - 1) :
            ActsOfFrames[n] = Activation(u[n], EndBelow(u[n + 1]), Frame(u[n + 1]).savedIp.pc)
      BY ActsAreActivations
    <3>2. PICK e0, p0 : e0 = EndBelow(u[m + 1]) /\ p0 = Frame(u[m + 1]).savedIp.pc
      OBVIOUS
    <3>3. ActsOfFrames[m] = Activation(g, e0, p0)
      BY <1>2, <2>3, <3>1, <3>2, Zenon
    <3> QED BY <3>3
  <2> QED BY <2>1, <2>2, <2>3
<1>4. PICK e0, p0 : ActsOfFrames[m] = Activation(g, e0, p0)
  BY <1>3
<1>5. PICK e1, p1 : e1 = SP' /\ p1 = ip'.pc
  OBVIOUS
<1>6. SameBelow(g)
  BY <1>2
<1>7. Activation(g, e1, p1)' =
        Changed(Activation(g, e0, p0), FrameTemps(g)', SubSeq(stack', OperandBase(g) + 1, e1), p1)
  BY <1>6, ActivationKept
<1>8. Innermost' = Activation(g, e1, p1)'
  BY <1>2, <1>5, ZenonT(40) DEF Innermost, Activation, FrameArgs, FrameTemps, TempCount, frame_arg, frame_temp,
       OperandBase, Then, CallsAt, CallAt, Frame, block_closure_for_frame
<1>9. OperandBase(g)' = OperandBase(g) /\ OperandBase(fp)' = OperandBase(g)' /\ FrameTemps(fp)' = FrameTemps(g)'
  <2>1. g \in FrameSet /\ g <= g
    <3>1. g \in FrameSet
      BY <1>6 DEF SameBelow
    <3> QED BY <3>1, RunningFrames
  <2>2. OperandBase(g)' = OperandBase(g)
    BY <1>6, <2>1, SameParts
  <2>3. OperandBase(fp)' = OperandBase(g)' /\ FrameTemps(fp)' = FrameTemps(g)'
    BY <1>2, Zenon DEF FrameTemps, TempCount, frame_temp, OperandBase, Frame, block_closure_for_frame
  <2> QED BY <2>2, <2>3
<1>10. Innermost' = Changed(ActsOfFrames[m], FrameTemps(fp)', SubSeq(stack', OperandBase(fp)' + 1, SP'), ip'.pc)
  BY <1>4, <1>5, <1>7, <1>8, <1>9, Zenon
<1> QED
  BY <1>1, <1>10, Zenon DEF LastIs

\* A new frame x runs above the m-th frame.
LEMMA NewInActs ==
  ASSUME IInv, Running, IInv', Running', NEW u, NEW l, Order(u, l), NEW m \in 1..l,
         SameBelow(u[m]), NEW x \in Nat, u[m] < x, FrameSet' = {f \in FrameSet : f <= u[m]} \cup {x}
  PROVE  ActsOfFrames' =
           NewOn(ActsOfFrames, m,
                 Changed(ActsOfFrames[m], FrameTemps(u[m])',
                         SubSeq(stack', OperandBase(u[m]) + 1, EndBelow(x)'), stack'[x].savedIp.pc),
                 Innermost')
<1>1. ActsOfFrames' = [j \in 1..(m + 1) |->
        IF j = m + 1 THEN Innermost' ELSE IF j = m THEN Suspended(u[m], x)' ELSE ActsOfFrames[j]]
  BY ActsNew
<1>2. PICK g : g = u[m]
  OBVIOUS
<1>3. \E e0, p0 : ActsOfFrames[m] = Activation(g, e0, p0)
  <2>1. m = l \/ m \in 1..(l - 1)
    BY ActsAreActivations
  <2>2. CASE m = l
    BY <1>2, <2>2, ActsAreActivations, Zenon
  <2>3. ASSUME m \in 1..(l - 1) PROVE \E e0, p0 : ActsOfFrames[m] = Activation(g, e0, p0)
    <3>1. \A n \in 1..(l - 1) :
            ActsOfFrames[n] = Activation(u[n], EndBelow(u[n + 1]), Frame(u[n + 1]).savedIp.pc)
      BY ActsAreActivations
    <3>2. PICK e0, p0 : e0 = EndBelow(u[m + 1]) /\ p0 = Frame(u[m + 1]).savedIp.pc
      OBVIOUS
    <3>3. ActsOfFrames[m] = Activation(g, e0, p0)
      BY <1>2, <2>3, <3>1, <3>2, Zenon
    <3> QED BY <3>3
  <2> QED BY <2>1, <2>2, <2>3
<1>4. PICK e0, p0 : ActsOfFrames[m] = Activation(g, e0, p0)
  BY <1>3
<1>5. PICK e1, p1 : e1 = EndBelow(x)' /\ p1 = stack'[x].savedIp.pc
  OBVIOUS
<1>6. SameBelow(g)
  BY <1>2
<1>7. Activation(g, e1, p1)' =
        Changed(Activation(g, e0, p0), FrameTemps(g)', SubSeq(stack', OperandBase(g) + 1, e1), p1)
  BY <1>6, ActivationKept
<1>8. Suspended(g, x)' = Activation(g, e1, p1)'
  BY <1>5, Zenon DEF Suspended, Activation, Frame
<1>9. Suspended(u[m], x)' = Suspended(g, x)' /\ FrameTemps(u[m])' = FrameTemps(g)'
  BY <1>2, Zenon
<1>10. Suspended(u[m], x)' =
         Changed(ActsOfFrames[m], FrameTemps(u[m])',
                 SubSeq(stack', OperandBase(u[m]) + 1, EndBelow(x)'), stack'[x].savedIp.pc)
  BY <1>2, <1>4, <1>5, <1>7, <1>8, <1>9, Zenon
<1> QED
  BY <1>1, <1>10, Zenon DEF NewOn

-----------------------------------------------------------------------------
(* Sequences of activations a, the last of which changes or goes. *)

\* The fields of an activation.
IsAct(r) ==
  r = [code |-> r.code, id |-> r.id, home |-> r.home, args |-> r.args, vars |-> r.vars,
       ops |-> r.ops, pc |-> r.pc, then |-> r.then]

\* Nothing of an activation changes.
LEMMA ChangedBack ==
  ASSUME NEW r, IsAct(r)
  PROVE  Changed(r, r.vars, r.ops, r.pc) = r
BY ActChanged DEF IsAct

\* The operands and the pc of the last activation change.
Topped(a, l, O, P) == [[a EXCEPT ![l].ops = O] EXCEPT ![l].pc = P]

\* Only the last activation changes.
LEMMA LastChanged ==
  ASSUME NEW a, NEW l, Indexed(a, l), IsAct(a[l]), NEW O, NEW P
  PROVE  Topped(a, l, O, P) = LastIs(a, l, Changed(a[l], a[l].vars, O, P))
<1>1. PICK r : r = a[l]
  OBVIOUS
<1>2. PICK s : s = [[r EXCEPT !.ops = O] EXCEPT !.pc = P]
  OBVIOUS
<1>3. s = Changed(r, r.vars, O, P)
  <2>1. PICK c, i, h, g, v, o, p, t :
        /\ c = r.code /\ i = r.id /\ h = r.home /\ g = r.args /\ v = r.vars /\ o = r.ops /\ p = r.pc
        /\ t = r.then
    OBVIOUS
  <2>2. r = [code |-> c, id |-> i, home |-> h, args |-> g, vars |-> v, ops |-> o, pc |-> p, then |-> t]
    BY <1>1, <2>1, Zenon DEF IsAct
  <2>3. PICK q1 : q1 = [r EXCEPT !.ops = O]
    OBVIOUS
  <2>4. q1 = [code |-> c, id |-> i, home |-> h, args |-> g, vars |-> v, ops |-> O, pc |-> p, then |-> t]
    BY ONLY <2>2, <2>3
  <2>5. [q1 EXCEPT !.pc = P] =
          [code |-> c, id |-> i, home |-> h, args |-> g, vars |-> v, ops |-> O, pc |-> P, then |-> t]
    BY ONLY <2>4
  <2>6. s = [q1 EXCEPT !.pc = P]
    BY <1>2, <2>3
  <2>7. Changed(r, r.vars, O, P) =
          [code |-> c, id |-> i, home |-> h, args |-> g, vars |-> v, ops |-> O, pc |-> P, then |-> t]
    <3>1. IsAct(r)
      BY <1>1
    <3>2. Changed(r, r.vars, O, P) =
           [code |-> r.code, id |-> r.id, home |-> r.home, args |-> r.args, vars |-> r.vars,
            ops |-> O, pc |-> P, then |-> r.then]
      BY <3>1, ActChanged DEF IsAct
    <3> QED BY <2>1, <3>2, Zenon
  <2> QED BY <2>5, <2>6, <2>7
<1>4. l \in 1..l /\ a = [j \in 1..l |-> a[j]]
  BY DEF Indexed
<1>5. PICK b : b = [a EXCEPT ![l].ops = O]
  OBVIOUS
<1>6. b = [j \in 1..l |-> IF j = l THEN [r EXCEPT !.ops = O] ELSE a[j]]
  BY <1>1, <1>4, <1>5
<1>7. b[l] = [r EXCEPT !.ops = O]
  BY <1>4, <1>6
<1>8. [b EXCEPT ![l].pc = P] = [j \in 1..l |-> IF j = l THEN s ELSE a[j]]
  BY <1>2, <1>4, <1>6, <1>7
<1> QED
  BY <1>1, <1>3, <1>5, <1>8 DEF Topped, LastIs

\* What a call, a push, cannotReturn: and a value that is delivered do to the
\* last activation.
CallTop(a, n)    == [a EXCEPT ![Len(a)].ops = SubSeq(@, 1, Len(@) - n), ![Len(a)].pc = @ + 1]
PushTop(a, w)    == [a EXCEPT ![Len(a)].ops = Append(@, w), ![Len(a)].pc = @ + 1]
LastWords(a)     == [a EXCEPT ![Len(a)].ops = SubSeq(@, 1, Len(@) - 1), ![Len(a)].pc = -1]
DeliverTop(a, v) == [a EXCEPT ![Len(a)].ops = Append(@, v)]

\* Each of them is the same stack with another last activation.
LEMMA TopShapes ==
  ASSUME NEW a, NEW l, Indexed(a, l), IsAct(a[l]), NEW r, r = a[l]
  PROVE  /\ \A n : CallTop(a, n) =
                     LastIs(a, l, Changed(r, r.vars, SubSeq(r.ops, 1, Len(r.ops) - n), r.pc + 1))
         /\ \A w : PushTop(a, w) = LastIs(a, l, Changed(r, r.vars, Append(r.ops, w), r.pc + 1))
         /\ LastWords(a) = LastIs(a, l, Changed(r, r.vars, SubSeq(r.ops, 1, Len(r.ops) - 1), -1))
         /\ \A v : DeliverTop(a, v) = LastIs(a, l, Changed(r, r.vars, Append(r.ops, v), r.pc))
<1>1. /\ l \in Nat /\ l \in 1..l /\ a = [j \in 1..l |-> a[j]] /\ Len(a) = l
  BY IndexedSeq DEF Indexed
<1>2. \A O, P : Topped(a, l, O, P) = LastIs(a, l, Changed(r, r.vars, O, P))
  BY LastChanged
<1>3. ASSUME NEW n
      PROVE  CallTop(a, n) = LastIs(a, l, Changed(r, r.vars, SubSeq(r.ops, 1, Len(r.ops) - n), r.pc + 1))
  <2>1. PICK O, P : O = SubSeq(a[l].ops, 1, Len(a[l].ops) - n) /\ P = a[l].pc + 1
    OBVIOUS
  <2>2. CallTop(a, n) = Topped(a, l, O, P)
    BY <1>1, <2>1 DEF Topped, CallTop
  <2> QED BY <1>2, <2>1, <2>2
<1>4. ASSUME NEW w
      PROVE  PushTop(a, w) = LastIs(a, l, Changed(r, r.vars, Append(r.ops, w), r.pc + 1))
  <2>1. PICK O, P : O = Append(a[l].ops, w) /\ P = a[l].pc + 1
    OBVIOUS
  <2>2. PushTop(a, w) = Topped(a, l, O, P)
    BY <1>1, <2>1 DEF Topped, PushTop
  <2> QED BY <1>2, <2>1, <2>2
<1>5. LastWords(a) = LastIs(a, l, Changed(r, r.vars, SubSeq(r.ops, 1, Len(r.ops) - 1), -1))
  <2>1. PICK O, P : O = SubSeq(a[l].ops, 1, Len(a[l].ops) - 1) /\ P = -1
    OBVIOUS
  <2>2. LastWords(a) = Topped(a, l, O, P)
    BY <1>1, <2>1 DEF Topped, LastWords
  <2> QED BY <1>2, <2>1, <2>2
<1>6. ASSUME NEW v
      PROVE  DeliverTop(a, v) = LastIs(a, l, Changed(r, r.vars, Append(r.ops, v), r.pc))
  <2>1. PICK O, P : O = Append(a[l].ops, v) /\ P = a[l].pc
    OBVIOUS
  <2>2. PICK b : b = [a EXCEPT ![l].ops = O]
    OBVIOUS
  <2>3. [b EXCEPT ![l].pc = P] = b
    <3>1. PICK s : s = [a[l] EXCEPT !.ops = O]
      OBVIOUS
    <3>2. [s EXCEPT !.pc = P] = s
      <4>1. PICK c, i, h, g, w, o, p, t :
          /\ c = a[l].code /\ i = a[l].id /\ h = a[l].home /\ g = a[l].args /\ w = a[l].vars /\ o = a[l].ops
          /\ p = a[l].pc /\ t = a[l].then
        OBVIOUS
      <4>2. a[l] = [code |-> c, id |-> i, home |-> h, args |-> g, vars |-> w, ops |-> o, pc |-> p, then |-> t]
        BY <4>1, Zenon DEF IsAct
      <4>3. s = [code |-> c, id |-> i, home |-> h, args |-> g, vars |-> w, ops |-> O, pc |-> p, then |-> t]
        BY ONLY <3>1, <4>2
      <4>4. [s EXCEPT !.pc = p] = s
        BY ONLY <4>3
      <4> QED BY <2>1, <4>1, <4>4
    <3>3. b = [j \in 1..l |-> IF j = l THEN s ELSE a[j]]
      BY <1>1, <2>2, <3>1
    <3>4. b[l] = s
      BY <1>1, <3>3
    <3> QED BY <1>1, <3>2, <3>3, <3>4
  <2>4. Topped(a, l, O, P) = b
    BY <2>2, <2>3, Zenon DEF Topped
  <2>5. b = DeliverTop(a, v)
    BY <1>1, <2>1, <2>2 DEF DeliverTop
  <2> QED BY <1>2, <2>1, <2>4, <2>5
<1> QED
  BY <1>3, <1>4, <1>5, <1>6

\* The callers of an activation.
LEMMA RestShape ==
  ASSUME NEW a, NEW l, Indexed(a, l), NEW m \in Nat, m <= l
  PROVE  /\ SubSeq(a, 1, m) = [j \in 1..m |-> a[j]] /\ Len(SubSeq(a, 1, m)) = m
         /\ m = 0 => SubSeq(a, 1, m) = <<>>
         /\ m > 0 => SubSeq(a, 1, m) # <<>> /\ Indexed(SubSeq(a, 1, m), m)
<1>1. l \in Nat /\ Len(a) = l /\ a \in Seq({a[j] : j \in 1..l})
  BY IndexedSeq DEF Indexed
<1>2. PICK W, b : W = {a[j] : j \in 1..l} /\ b = SubSeq(a, 1, m)
  OBVIOUS
<1>3. a \in Seq(W)
  BY <1>1, <1>2
<1>4. b \in Seq(W) /\ Len(b) = m /\ b = [j \in 1..m |-> a[j]]
  <2>1. b = [j \in 1..(m - 1 + 1) |-> a[j + 1 - 1]]
    BY <1>2
  <2>2. m - 1 + 1 = m /\ \A j \in 1..m : j + 1 - 1 = j /\ j \in 1..l
    BY <1>1
  <2>3. b = [j \in 1..m |-> a[j]]
    BY <2>1, <2>2
  <2>4. \A j \in 1..m : a[j] \in W
    BY <1>2, <2>2
  <2> QED BY <2>3, <2>4
<1>5. m = 0 => b = <<>>
  BY <1>4
<1>6. m > 0 => b # <<>> /\ Indexed(b, m)
  BY <1>4 DEF Indexed
<1> QED
  BY <1>2, <1>4, <1>5, <1>6

\* A bytecode that is no call: the last activation changes.
LastDiffers(a, b) ==
  /\ Len(b) = Len(a)
  /\ b = [a EXCEPT ![Len(a)] =
            [@ EXCEPT !.vars = b[Len(a)].vars, !.ops = b[Len(a)].ops, !.pc = b[Len(a)].pc]]

\* Other variables, operands and pc of the last activation are no call.
LEMMA LocalShape ==
  ASSUME NEW a, NEW l, Indexed(a, l), IsAct(a[l]), NEW V, NEW O, NEW P, NEW b,
         b = LastIs(a, l, Changed(a[l], V, O, P))
  PROVE  LastDiffers(a, b) /\ b[l].vars = V
<1>1. /\ l \in Nat /\ l \in 1..l /\ a = [j \in 1..l |-> a[j]] /\ Len(a) = l
  BY IndexedSeq DEF Indexed
<1>2. PICK r : r = Changed(a[l], V, O, P)
  OBVIOUS
<1>3. r.vars = V /\ r.ops = O /\ r.pc = P
  <2>1. r = [code |-> a[l].code, id |-> a[l].id, home |-> a[l].home, args |-> a[l].args, vars |-> V,
             ops |-> O, pc |-> P, then |-> a[l].then]
    BY <1>2, ActChanged DEF IsAct
  <2> QED BY ONLY <2>1
<1>4. b[l] = r /\ b = [j \in 1..l |-> IF j = l THEN r ELSE a[j]]
  BY <1>1, <1>2 DEF LastIs
<1>5. Len(b) = l
  BY <1>1, <1>4
<1>6. r = [a[l] EXCEPT !.vars = b[l].vars, !.ops = b[l].ops, !.pc = b[l].pc]
  BY <1>2, <1>3, <1>4, Zenon DEF Changed
<1>7. b = [a EXCEPT ![l] = r]
  BY <1>1, <1>4
<1>8. b = [a EXCEPT ![l] = [@ EXCEPT !.vars = b[l].vars, !.ops = b[l].ops, !.pc = b[l].pc]]
  BY <1>6, <1>7, Zenon
<1> QED
  <2>1. PICK n : n = Len(a)
    OBVIOUS
  <2>2. n = l
    BY <1>1, <2>1
  <2>3. b = [a EXCEPT ![n] = [@ EXCEPT !.vars = b[n].vars, !.ops = b[n].ops, !.pc = b[n].pc]]
    BY <1>8, <2>2
  <2>4. Len(b) = n
    BY <1>5, <2>2
  <2>5. LastDiffers(a, b)
    BY <2>1, <2>3, <2>4, Zenon DEF LastDiffers
  <2>6. b[l].vars = V
    BY <1>3, <1>4
  <2> QED BY <2>5, <2>6

-----------------------------------------------------------------------------
(* Every step of the machine is one of the activations. *)

\* The frames have an order.
LEMMA SomeOrder ==
  ASSUME IInv, Running
  PROVE  \E u, l : Order(u, l)
BY Enumerated, EnumeratedOrder

\* The activations, and the operands of the last.
LEMMA TopParts ==
  ASSUME IInv, Running, NEW u, NEW l, Order(u, l), NEW a, a = ActsOfFrames
  PROVE  /\ Indexed(a, l) /\ Len(a) = l /\ l \in 1..l /\ u[l] = fp /\ \A j \in 1..l : IsAct(a[j])
         /\ a[l].vars = FrameTemps(fp) /\ a[l].args = FrameArgs(fp) /\ a[l].pc = ip.pc
         /\ a[l].home = Frame(fp).home /\ a[l].id = Frame(fp).id /\ a[l].then = Then(fp)
         /\ a[l].ops = SubSeq(stack, OperandBase(fp) + 1, SP)
         /\ Operands \in Nat /\ Len(a[l].ops) = Operands
         /\ \A n \in 0..(Operands - 1) : a[l].ops[Operands - n] = TopOp(n)
<1>1. /\ l \in Nat /\ l > 0 /\ l \in 1..l
      /\ a = [j \in 1..l |-> a[j]] /\ Len(a) = l
      /\ u[l] = fp /\ a[l] = Activation(fp, SP, ip.pc)
      /\ \A m \in 1..(l - 1) :
           a[m] = Activation(u[m], EndBelow(u[m + 1]), Frame(u[m + 1]).savedIp.pc)
  BY ActsAreActivations
<1>2. \A f, e, p : IsAct(Activation(f, e, p))
  BY DEF IsAct, Activation
<1>3. ASSUME NEW j \in 1..l PROVE IsAct(a[j])
  <2>1. j = l \/ j \in 1..(l - 1)
    BY <1>1
  <2> QED BY <1>1, <1>2, <2>1
<1>4. /\ a[l].vars = FrameTemps(fp) /\ a[l].args = FrameArgs(fp) /\ a[l].pc = ip.pc
      /\ a[l].home = Frame(fp).home /\ a[l].id = Frame(fp).id /\ a[l].then = Then(fp)
      /\ a[l].ops = SubSeq(stack, OperandBase(fp) + 1, SP)
  BY <1>1 DEF Activation
<1>5. /\ SP \in Nat /\ SP = Len(stack) /\ stack \in Seq(Held \cup FrameWord)
      /\ OperandBase(fp) \in Nat /\ OperandBase(fp) <= SP
  <2>1. /\ SP \in Nat /\ SP = Len(stack) /\ stack \in Seq(Held \cup FrameWord)
        /\ OperandBase(fp) <= SP /\ fp \in FrameSet
    BY RunningFacts DEF SP
  <2> QED BY <2>1, RunningFrames
<1>6. PICK b, e, s, W : b = OperandBase(fp) /\ e = SP /\ s = stack /\ W = Held \cup FrameWord
  OBVIOUS
<1>7. s \in Seq(W) /\ b \in Nat /\ e \in Nat /\ b <= e /\ e = Len(s) /\ Operands = e - b
  BY <1>5, <1>6 DEF Operands
<1>8. SubSeq(s, b + 1, e) = [i \in 1..(e - b) |-> s[b + i]]
  BY <1>7, SubSeqIs
<1>9. PICK o : o = SubSeq(s, b + 1, e)
  OBVIOUS
<1>10. Len(o) = e - b
  BY <1>7, <1>8, <1>9
<1>11. ASSUME NEW n \in 0..(e - b - 1) PROVE o[e - b - n] = s[e - n]
  <2>1. e - b - n \in 1..(e - b) /\ b + (e - b - n) = e - n
    BY <1>7
  <2> QED BY <1>8, <1>9, <2>1
<1>12. /\ Operands \in Nat /\ Len(a[l].ops) = Operands
       /\ \A n \in 0..(Operands - 1) : a[l].ops[Operands - n] = TopOp(n)
  <2>1. a[l].ops = o
    BY <1>4, <1>6, <1>9
  <2> QED BY <1>6, <1>7, <1>10, <1>11, <2>1 DEF TopOp
<1> QED
  BY <1>1, <1>3, <1>4, <1>12 DEF Indexed

\* The numbers of temporaries.
LEMMA TempsLength ==
  ASSUME IInv, Running, IInv', Running', SameBelow(fp), fp' = fp
  PROVE  Len(FrameTemps(fp)') = Len(FrameTemps(fp))
<1>1. fp \in FrameSet /\ fp <= fp /\ TempCount(fp) \in Nat
  BY RunningFacts
<1>2. TempCount(fp)' = TempCount(fp)
  <2>1. PICK g : g = fp
    OBVIOUS
  <2>2. TempCount(g)' = TempCount(g)
    BY <1>1, <2>1, SameParts
  <2> QED BY <2>1, <2>2, Zenon DEF TempCount, Frame, block_closure_for_frame
<1> QED
  BY <1>1, <1>2 DEF FrameTemps

\* A step of the running frame.
LEMMA LocalStep ==
  ASSUME IInv, Running, IInv', Running', SameBelow(fp), FrameSet' = FrameSet, fp' = fp,
         UNCHANGED <<closures, born, outcome>>
  PROVE  Act!Local
<1>1. PICK u, l : Order(u, l)
  BY SomeOrder
<1>2. PICK a, b : a = ActsOfFrames /\ b = ActsOfFrames'
  OBVIOUS
<1>3. /\ Indexed(a, l) /\ Len(a) = l /\ l \in 1..l /\ u[l] = fp /\ IsAct(a[l])
      /\ a[l].vars = FrameTemps(fp)
  BY <1>1, <1>2, TopParts
<1>4. FrameSet' = {f \in FrameSet : f <= u[l]}
  <2>1. \A f \in FrameSet : f <= fp
    BY RunningFacts DEF TopInv
  <2> QED BY <1>3, <2>1
<1>5. PICK V, O, P : V = FrameTemps(fp)' /\ O = SubSeq(stack', OperandBase(fp)' + 1, SP') /\ P = ip'.pc
  OBVIOUS
<1>6. b = LastIs(a, l, Changed(a[l], V, O, P))
  <2>1. SameBelow(u[l]) /\ fp' = u[l]
    BY <1>3
  <2>2. ActsOfFrames' =
           LastIs(ActsOfFrames, l,
                  Changed(ActsOfFrames[l], FrameTemps(fp)', SubSeq(stack', OperandBase(fp)' + 1, SP'), ip'.pc))
    BY <1>1, <1>3, <1>4, <2>1, BackInActs
  <2> QED BY <1>2, <1>5, <2>2, Zenon
<1>7. LastDiffers(a, b) /\ b[l].vars = V
  BY <1>3, <1>6, LocalShape
<1>8. Len(V) = Len(a[l].vars)
  BY <1>3, <1>5, TempsLength
<1>9. BlocksOfClosures' = BlocksOfClosures
  BY DEF BlocksOfClosures
<1> QED
  BY <1>2, <1>3, <1>7, <1>8, <1>9, Zenon DEF Act!Local, Act!Top, LastDiffers

\* The running frame of the next state.
LEMMA RunningTop ==
  IInv /\ Running =>
    /\ SP \in Nat /\ fp \in FrameSet /\ fp \in Nat /\ fp \in 1..SP /\ \A f \in FrameSet : f <= fp
    /\ Len(calls) \in Nat
    /\ OperandBase(fp) \in Nat /\ fp < OperandBase(fp) /\ OperandBase(fp) <= SP
<1> SUFFICES ASSUME IInv, Running
             PROVE  /\ SP \in Nat /\ fp \in FrameSet /\ fp \in Nat /\ fp \in 1..SP
                    /\ \A f \in FrameSet : f <= fp
                    /\ Len(calls) \in Nat
                    /\ OperandBase(fp) \in Nat /\ fp < OperandBase(fp) /\ OperandBase(fp) <= SP
  OBVIOUS
<1>1. /\ SP \in Nat /\ fp \in FrameSet /\ fp \in Nat /\ fp \in 1..SP /\ TopInv
      /\ OperandBase(fp) = fp + 1 + TempCount(fp) /\ TempCount(fp) \in Nat /\ OperandBase(fp) <= SP
      /\ Len(calls) \in Nat
  BY RunningFacts
<1>2. \A f \in FrameSet : f <= fp
  BY <1>1 DEF TopInv
<1> QED BY <1>1, <1>2

\* The same of the next state.
LEMMA RunningTopNext ==
  (IInv /\ Running =>
    /\ SP \in Nat /\ fp \in FrameSet /\ fp \in Nat /\ fp \in 1..SP /\ \A f \in FrameSet : f <= fp
    /\ Len(calls) \in Nat
    /\ OperandBase(fp) \in Nat /\ fp < OperandBase(fp) /\ OperandBase(fp) <= SP)'
BY RunningTop, PTL

\* A step of the running frame that keeps the words up to it.
LEMMA LocalFromWords ==
  ASSUME IInv, Running, IInv', Running', fp' = fp, \A p \in 1..fp : stack'[p] = stack[p],
         UNCHANGED <<heap, calls, born, outcome>>
  PROVE  Act!Local
<1>1. /\ SP \in Nat /\ fp \in FrameSet /\ fp \in Nat /\ fp \in 1..SP /\ \A f \in FrameSet : f <= fp
      /\ Len(calls) \in Nat
  BY RunningTop
<1>2. SP' \in Nat /\ fp' \in 1..SP' /\ \A f \in FrameSet' : f <= fp'
  BY RunningTopNext, Zenon
<1>3. KeptTo(fp)
  BY <1>1, <1>2 DEF KeptTo
<1>4. SameBelow(fp)
  <2>1. /\ Len(calls) <= Len(calls) /\ Len(calls) <= Len(calls') /\ Len(calls') \in Nat
        /\ \A k \in 1..Len(calls) : calls'[k] = calls[k]
        /\ \A k \in (Len(calls) + 1)..Len(calls) : fp < calls[k].entry
        /\ \A k \in (Len(calls) + 1)..Len(calls') : fp < calls'[k].entry
    BY <1>1
  <2> QED BY <1>1, <1>3, <2>1, SameBelowKept
<1>5. FrameSet' = FrameSet
  <2>1. \A p : p \in FrameSet <=> p \in 1..fp /\ stack[p].k = "frame"
    BY <1>1 DEF FrameSet
  <2>2. \A p : p \in FrameSet' <=> p \in 1..fp /\ stack'[p].k = "frame"
    <3>1. \A p \in FrameSet' : p <= fp /\ p \in 1..SP'
      BY <1>2 DEF FrameSet
    <3>2. \A p \in 1..fp : p \in 1..SP'
      BY <1>1, <1>2
    <3> QED BY <1>1, <3>1, <3>2 DEF FrameSet
  <2> QED BY <2>1, <2>2
<1> QED
  BY <1>4, <1>5, LocalStep DEF heap

\* The bytecodes that push, pop and store.
LEMMA DataLocal ==
  ASSUME IInv, IInv',
         \/ PushValue \/ PushTemp \/ PushArg \/ PushSelf \/ Duplicate \/ Pop \/ StoreTemp
         \/ Jump \/ DataPrimitive
  PROVE  Running /\ Act!Local
<1>1. Running
  BY DEF PushValue, PushTemp, PushArg, PushSelf, Duplicate, Pop, StoreTemp, Jump, DataPrimitive, At
<1>2. /\ SP \in Nat /\ fp \in Nat /\ fp \in 1..SP /\ stack \in Seq(Held \cup FrameWord) /\ SP = Len(stack)
      /\ OperandBase(fp) \in Nat /\ fp < OperandBase(fp) /\ OperandBase(fp) <= SP
      /\ Operands = SP - OperandBase(fp)
  BY <1>1, RunningTop, RunningFacts DEF SP, Operands
<1>3. ASSUME NEW st, NEW i, Bytecode(st, i), \A p \in 1..fp : st[p] = stack[p]
      PROVE  Act!Local
  <2>1. /\ stack' = st /\ fp' = fp /\ UNCHANGED <<heap, calls, born, outcome>>
    BY <1>3 DEF Bytecode, Continue
  <2>2. Running'
    BY <1>1, <2>1 DEF Running
  <2> QED BY <1>1, <1>3, <2>1, <2>2, LocalFromWords
<1>4. ASSUME NEW w PROVE \A p \in 1..fp : Append(stack, w)[p] = stack[p]
  <2>1. PICK W, s : W = Held \cup FrameWord \cup {w} /\ s = stack
    OBVIOUS
  <2>2. s \in Seq(W) /\ w \in W
    BY <1>2, <2>1, WiderSeq
  <2> QED BY <1>2, <2>1, <2>2
<1>5. ASSUME NEW h \in Nat, fp <= h, h <= SP, NEW s, Len(s) = SP, NEW W, s \in Seq(W), \A p \in 1..fp : s[p] = stack[p]
      PROVE  /\ \A p \in 1..fp : SubSeq(s, 1, h)[p] = stack[p]
             /\ \A w : \A p \in 1..fp : Append(SubSeq(s, 1, h), w)[p] = stack[p]
  <2>1. PICK q : q = SubSeq(s, 1, h)
    OBVIOUS
  <2>2. q \in Seq(W) /\ Len(q) = h /\ \A p \in 1..h : q[p] = s[p]
    BY <1>2, <1>5, <2>1
  <2>3. \A p \in 1..fp : q[p] = stack[p]
    BY <1>2, <1>5, <2>2
  <2>4. ASSUME NEW w PROVE \A p \in 1..fp : Append(q, w)[p] = stack[p]
    <3>1. PICK U : U = W \cup {w}
      OBVIOUS
    <3>2. q \in Seq(U)
      BY <2>2, <3>1, WiderSeq
    <3> QED BY <1>2, <1>5, <2>2, <2>3, <3>1, <3>2
  <2> QED BY <2>1, <2>3, <2>4
<1>6. CASE PushValue
  BY <1>1, <1>3, <1>4, <1>6 DEF PushValue
<1>7. CASE PushTemp
  BY <1>1, <1>3, <1>4, <1>7 DEF PushTemp
<1>8. CASE PushArg
  BY <1>1, <1>3, <1>4, <1>8 DEF PushArg
<1>9. CASE PushSelf
  BY <1>1, <1>3, <1>4, <1>9 DEF PushSelf
<1>10. CASE Duplicate
  BY <1>1, <1>3, <1>4, <1>10 DEF Duplicate
<1>11. CASE Pop
  <2>1. Operands > 0 /\ Bytecode(SubSeq(stack, 1, SP - 1), Next1(ip))
    BY <1>11 DEF Pop
  <2>2. SP - 1 \in Nat /\ fp <= SP - 1 /\ SP - 1 <= SP
    BY <1>2, <2>1
  <2>3. \A p \in 1..fp : SubSeq(stack, 1, SP - 1)[p] = stack[p]
    BY <1>2, <1>5, <2>2
  <2> QED BY <1>1, <1>3, <2>1, <2>3
<1>12. CASE StoreTemp
  <2>1. PICK i \in 0..(TempCount(fp) - 1) :
          Operands > 0 /\ Bytecode(SubSeq([stack EXCEPT ![fp + 2 + i] = TopOp(0)], 1, SP - 1), Next1(ip))
    BY <1>12 DEF StoreTemp
  <2>2. PICK s, W : s = [stack EXCEPT ![fp + 2 + i] = TopOp(0)] /\ W = Held \cup FrameWord
    OBVIOUS
  <2>3. SP - 1 \in Nat /\ fp <= SP - 1 /\ SP - 1 <= SP
    BY <1>2, <2>1
  <2>4. TempCount(fp) \in Nat
    BY <1>1, RunningFacts
  <2>5. TopOp(0) \in W
    <3>1. TopOp(0) \in Held
      <4>1. 0 \in 0..(Operands - 1)
        BY <1>2, <2>1
      <4> QED BY <1>1, <4>1, OperandsHeld
    <3> QED BY <2>2, <3>1
  <2>6. s \in Seq(W) /\ Len(s) = SP /\ \A p \in 1..fp : s[p] = stack[p]
    <3>1. \A p \in 1..fp : p # fp + 2 + i /\ p \in 1..SP
      BY <1>2, <2>4
    <3>2. stack \in Seq(W)
      BY <1>2, <2>2
    <3>3. PICK r, q, w : r = stack /\ q = fp + 2 + i /\ w = TopOp(0)
      OBVIOUS
    <3>4. s = [r EXCEPT ![q] = w] /\ r \in Seq(W) /\ w \in W /\ Len(r) = SP /\ SP \in Nat
      BY <1>2, <2>2, <2>5, <3>2, <3>3
    <3>5. PICK e \in Nat : e = SP
      BY <3>4
    <3>6. s = [j \in 1..e |-> IF j = q THEN w ELSE r[j]]
      <4>1. r = [j \in 1..e |-> r[j]]
        BY <3>4, <3>5, SeqIsFunction
      <4> QED BY ONLY <3>4, <4>1
    <3>7. \A j \in 1..e : s[j] = (IF j = q THEN w ELSE r[j]) /\ r[j] \in W
      BY ONLY <3>4, <3>5, <3>6
    <3>8. s \in Seq(W) /\ Len(s) = e
      <4>1. \A j \in 1..e : s[j] \in W
        BY ONLY <3>4, <3>7
      <4> QED BY ONLY <3>6, <4>1, <3>5
    <3> QED BY <3>1, <3>3, <3>5, <3>7, <3>8
  <2>7. \A p \in 1..fp : SubSeq(s, 1, SP - 1)[p] = stack[p]
    BY <1>5, <2>3, <2>6
  <2> QED BY <1>1, <1>3, <2>1, <2>2, <2>7
<1>13. CASE Jump
  <2>1. PICK n \in 0..1, t \in 0..(Len(Program[base]) - 1) :
          Operands >= n /\ Bytecode(SubSeq(stack, 1, SP - n), [m |-> base, pc |-> t])
    BY <1>13 DEF Jump
  <2>2. SP - n \in Nat /\ fp <= SP - n /\ SP - n <= SP
    BY <1>2, <2>1
  <2>3. \A p \in 1..fp : SubSeq(stack, 1, SP - n)[p] = stack[p]
    BY <1>2, <1>5, <2>2
  <2> QED BY <1>1, <1>3, <2>1, <2>3
<1>14. CASE DataPrimitive
  <2>1. PICK n \in 0..1, v \in Values :
          Operands > n /\ Bytecode(Append(SubSeq(stack, 1, SP - n - 1), SmallInt(v)), Next1(ip))
    BY <1>14 DEF DataPrimitive
  <2>2. SP - n - 1 \in Nat /\ fp <= SP - n - 1 /\ SP - n - 1 <= SP
    BY <1>2, <2>1
  <2>3. \A p \in 1..fp : Append(SubSeq(stack, 1, SP - n - 1), SmallInt(v))[p] = stack[p]
    BY <1>2, <1>5, <2>2
  <2> QED BY <1>1, <1>3, <2>1, <2>3
<1> QED
  BY <1>6, <1>7, <1>8, <1>9, <1>10, <1>11, <1>12, <1>13, <1>14

\* thisContext
LEMMA ThisContextLocal ==
  ASSUME IInv, IInv', PushThisContext
  PROVE  Running /\ Act!Local
<1>1. Running /\ fp' = fp /\ UNCHANGED <<closures, calls, born, outcome>>
  BY DEF PushThisContext, At, Continue
<1>2. Running' /\ HeapInv'
  BY <1>1 DEF Running, IInv
<1>3. PICK c, n : Unmarried(c, n)
  BY <1>1, MissingFacts
<1>4. Len(closures') \in Nat /\ Len(closures) <= Len(closures')
      /\ \A b \in 1..Len(closures) : closures'[b] = closures[b]
  <2>1. closures \in Seq(Closure)
    BY DEF IInv, HeapInv
  <2> QED BY <1>1, <2>1
<1>5. \E k : Grows(c, k)
  <2>1. CASE Frame(fp).link.k = "context"
    <3>1. stack' = Append(stack, Frame(fp).link) /\ UNCHANGED contexts
      BY <2>1 DEF PushThisContext
    <3>2. IsChain(c, fp)
      BY <1>3 DEF Unmarried
    <3>3. PICK w : w = Frame(fp).link
      OBVIOUS
    <3>4. w \in Held'
      <4>1. w \in Held
        BY <1>1, <3>3, RunningFacts DEF FramesInv, ClosureOK
      <4> QED BY <1>1, <3>1, <4>1 DEF Held, SomeBlock, SomeContext
    <3>5. Grows(c, 0)
      BY <1>1, <1>4, <3>1, <3>2, <3>3, <3>4, PlainGrows
    <3> QED BY <3>5
  <2>2. ASSUME Frame(fp).link.k # "context" PROVE \E k : Grows(c, k)
    <3>1. /\ stack' = Append(StackMarried(fp), Ctx(Len(contexts) + 1)) /\ contexts' = ContextsWith(fp)
          /\ Made(fp) > 0
      BY <2>2 DEF PushThisContext, HasContextAfter
    <3>2. PICK w : w = Ctx(Len(contexts) + 1)
      OBVIOUS
    <3>3. w \in Held'
      <4>1. Len(contexts') = Len(contexts) + Made(fp)
        BY <1>1, <1>3, <1>4, <3>1, MarriedContexts
      <4>2. Made(fp) \in Nat /\ Len(contexts) \in Nat
        <5>1. n \in Nat /\ Made(fp) \in 0..n /\ Len(contexts) \in Nat
          BY <1>1, <1>3, MadeFacts
        <5> QED BY <5>1
      <4>3. Len(contexts) + 1 \in 1..Len(contexts')
        BY <3>1, <4>1, <4>2
      <4>4. w \in SomeContext'
        BY <3>2, <4>3 DEF SomeContext
      <4> QED BY <4>4 DEF Held
    <3>4. Grows(c, Made(fp))
      BY <1>1, <1>3, <1>4, <3>1, <3>2, <3>3, MarriedGrows
    <3> QED BY <3>4
  <2> QED BY <2>1, <2>2
<1>6. SameBelow(fp) /\ FrameSet' = FrameSet
  BY <1>1, <1>2, <1>5, SameBelowGrown
<1> QED
  BY <1>1, <1>2, <1>6, LocalStep

\* Errors, halt, and no room for a frame.
LEMMA StopsStop ==
  ASSUME Running, outcome' \in {"trap", "halt"}, UNCHANGED <<closures, born>>
  PROVE  Act!Stop
<1>1. ActsOfFrames' = <<>>
  BY DEF ActsOfFrames, Running
<1>2. BlocksOfClosures' = BlocksOfClosures
  BY DEF BlocksOfClosures
<1> QED
  BY <1>1, <1>2, Zenon DEF Act!Stop

\* trap, halt and an overflow stop the machine.
LEMMA StopBytecodesStop ==
  ASSUME Running, Trap \/ Halt \/ Overflow
  PROVE  Act!Stop
<1>1. outcome' \in {"trap", "halt"} /\ UNCHANGED <<closures, born>>
  BY DEF Trap, Halt, Overflow, heap
<1> QED BY <1>1, StopsStop

\* The words of frame f up to e are the same, and one more is on top.
LEMMA PushedOperands ==
  ASSUME IInv, Running, IInv', Running', NEW f \in FrameSet, f \in FrameSet', TempCount(f)' = TempCount(f),
         NEW e \in Nat, e <= SP, SP' = e + 1, OperandBase(f) <= e, \A p \in (f + 1)..e : stack'[p] = stack[p]
  PROVE  /\ FrameTemps(f)' = FrameTemps(f)
         /\ SubSeq(stack', OperandBase(f) + 1, SP') =
              Append(SubSeq(stack, OperandBase(f) + 1, e), stack'[e + 1])
<1>1. e <= SP'
  OBVIOUS
<1>2. /\ FrameTemps(f)' = FrameTemps(f)
      /\ SubSeq(stack', OperandBase(f) + 1, e) = SubSeq(stack, OperandBase(f) + 1, e)
  BY <1>1, SameOperands
<1>3. PICK s, b : s = stack' /\ b = OperandBase(f)
  OBVIOUS
<1>4. PICK W : W = Held' \cup FrameWord
  OBVIOUS
<1>5. s \in Seq(W) /\ b \in Nat /\ b <= e /\ e + 1 <= Len(s)
  <2>1. stack' \in Seq(Held' \cup FrameWord)
    BY DEF IInv, StackInv
  <2>2. OperandBase(f) \in Nat
    BY RunningFrames
  <2>3. SP' = Len(stack')
    BY DEF SP
  <2> QED BY <1>3, <1>4, <2>1, <2>2, <2>3
<1>6. SubSeq(s, b + 1, e + 1) = Append(SubSeq(s, b + 1, e), s[e + 1])
  BY <1>5, SubSeqPushed
<1> QED
  BY <1>2, <1>3, <1>6

\* PUSH_CLOSURE
LEMMA PushClosureMakes ==
  ASSUME IInv, IInv', PushClosure
  PROVE  Running /\ Act!MakeBlock
<1>1. PICK married, home :
        /\ married = (contextClass /\ Frame(fp).link.k # "context")
        /\ home = IF married THEN Ctx(Len(contexts) + 1)
                  ELSE IF Frame(fp).link.k = "context" THEN Frame(fp).link ELSE Nil
  OBVIOUS
<1>2. PICK d, r :
        /\ d \in Blocks
        /\ r = [homeContext |-> home, receiver |-> stack[fp + 1], method |-> d,
                copied |-> FrameArgs(fp) \o FrameTemps(fp), homeId |-> Frame(fp).home]
        /\ closures' = Append(closures, r)
        /\ stack' = Append(IF married THEN StackMarried(fp) ELSE stack, Blk(Len(closures) + 1))
        /\ contexts' = IF married THEN ContextsWith(fp) ELSE contexts
  BY <1>1 DEF PushClosure
<1>3. /\ Running /\ (contextClass => HasContextAfter(fp))
      /\ ip' = Next1(ip) /\ fp' = fp /\ UNCHANGED <<calls, born, outcome>>
  BY DEF PushClosure, At, Continue
<1>4. Running' /\ HeapInv' /\ HeapInv
  BY <1>3 DEF Running, IInv
<1>5. PICK C \in Nat : C = Len(closures)
  BY <1>4 DEF HeapInv
<1>6. Len(closures') = C + 1 /\ closures'[C + 1] = r /\ \A b \in 1..C : closures'[b] = closures[b]
  <2>1. PICK W : W = Closure \cup {r}
    OBVIOUS
  <2>2. closures \in Seq(W) /\ r \in W
    BY <1>4, <2>1, WiderSeq DEF HeapInv
  <2> QED BY <1>2, <1>5, <2>2
<1>7. PICK w : w = Blk(C + 1)
  OBVIOUS
<1>8. w \in Held'
  <2>1. C + 1 \in 1..Len(closures')
    BY <1>6
  <2> QED BY <1>7, <2>1 DEF Held, SomeBlock
<1>9. \E c, k : Grows(c, k)
  <2>1. ASSUME married PROVE \E c, k : Grows(c, k)
    <3>1. PICK c, n : Unmarried(c, n)
      BY <1>3, MissingFacts
    <3>2. contexts' = ContextsWith(fp) /\ stack' = Append(StackMarried(fp), w)
      BY <1>2, <1>5, <1>7, <2>1
    <3>3. Grows(c, Made(fp))
      BY <1>3, <1>5, <1>6, <1>8, <3>1, <3>2, MarriedGrows
    <3> QED BY <3>3
  <2>2. ASSUME ~married PROVE \E c, k : Grows(c, k)
    <3>1. contexts' = contexts /\ stack' = Append(stack, w)
      BY <1>2, <1>5, <1>7, <2>2
    <3>2. StackInv /\ FramesInv /\ fp \in FrameSet
      BY <1>3, RunningFacts
    <3>3. PICK c : IsChain(c, fp)
      BY <1>4, <3>2, ChainFacts
    <3>4. Grows(c, 0)
      BY <1>3, <1>5, <1>6, <1>8, <3>1, <3>3, PlainGrows
    <3> QED BY <3>4
  <2> QED BY <2>1, <2>2
<1>10. PICK c, k : Grows(c, k)
  BY <1>9
<1>11. SameBelow(fp) /\ FrameSet' = FrameSet
  BY <1>3, <1>4, <1>10, SameBelowGrown
<1>12. SP' = SP + 1 /\ \A p \in (fp + 1)..SP : stack'[p] = stack[p]
  <2>1. SP' = SP + 1
    BY <1>10 DEF Grows
  <2>2. \A p \in 1..SP : p \notin FrameSet => stack'[p] = stack[p]
    BY <1>3, <1>4, <1>10, GrownWords
  <2>3. /\ fp \in Nat /\ SP \in Nat /\ \A f \in FrameSet : f <= fp /\ f \in Nat
    BY <1>3, RunningTop, RunningFrames
  <2>4. \A p \in (fp + 1)..SP : p \in 1..SP /\ p \notin FrameSet
    BY <2>3
  <2> QED BY <2>1, <2>2, <2>4
<1>13. stack'[SP + 1] = w
  <2>1. PICK s, W : s = (IF married THEN StackMarried(fp) ELSE stack) /\ W = Held \cup FrameWord \cup {w}
    OBVIOUS
  <2>2. s \in Seq(Held \cup FrameWord) /\ Len(s) = SP
    <3>1. PICK x, n : Unmarried(x, n)
      BY <1>3, MissingFacts
    <3>2. StackMarried(fp) \in Seq(Held \cup FrameWord) /\ Len(StackMarried(fp)) = SP
      BY <1>3, <3>1, MarriedWords
    <3>3. stack \in Seq(Held \cup FrameWord) /\ Len(stack) = SP
      BY <1>3, RunningFacts DEF SP
    <3> QED BY <2>1, <3>2, <3>3
  <2>3. s \in Seq(W) /\ w \in W
    BY <2>1, <2>2, WiderSeq
  <2>4. stack' = Append(s, w)
    BY <1>2, <1>5, <1>7, <2>1
  <2> QED BY <2>2, <2>3, <2>4
<1>14. PICK u, l : Order(u, l)
  BY <1>3, SomeOrder
<1>15. PICK a, b : a = ActsOfFrames /\ b = ActsOfFrames'
  OBVIOUS
<1>16. /\ Indexed(a, l) /\ Len(a) = l /\ l \in 1..l /\ u[l] = fp /\ IsAct(a[l])
       /\ a[l].vars = FrameTemps(fp) /\ a[l].args = FrameArgs(fp) /\ a[l].pc = ip.pc
       /\ a[l].home = Frame(fp).home /\ a[l].ops = SubSeq(stack, OperandBase(fp) + 1, SP)
  BY <1>3, <1>14, <1>15, TopParts
<1>17. /\ fp \in FrameSet /\ fp \in FrameSet' /\ SP \in Nat /\ OperandBase(fp) <= SP /\ fp <= fp
  BY <1>3, <1>11, RunningTop
<1>18. PICK g, e : g = fp /\ e = SP
  OBVIOUS
<1>19. TempCount(g)' = TempCount(g) /\ OperandBase(g)' = OperandBase(g)
  BY <1>3, <1>4, <1>11, <1>17, <1>18, SameParts
<1>20. /\ FrameTemps(g)' = FrameTemps(g)
       /\ SubSeq(stack', OperandBase(g) + 1, SP') = Append(SubSeq(stack, OperandBase(g) + 1, e), w)
  <2>1. /\ FrameTemps(g)' = FrameTemps(g)
        /\ SubSeq(stack', OperandBase(g) + 1, SP') = Append(SubSeq(stack, OperandBase(g) + 1, e), stack'[e + 1])
    <3>1. /\ g \in FrameSet /\ g \in FrameSet' /\ e \in Nat /\ e <= SP /\ SP' = e + 1 /\ OperandBase(g) <= e
          /\ \A p \in (g + 1)..e : stack'[p] = stack[p]
      BY <1>12, <1>17, <1>18
    <3> QED BY <1>3, <1>4, <1>19, <3>1, PushedOperands
  <2> QED BY <1>13, <1>18, <2>1
<1>21. /\ FrameTemps(fp)' = a[l].vars
       /\ SubSeq(stack', OperandBase(fp)' + 1, SP') = Append(a[l].ops, w)
  <2>1. FrameTemps(fp)' = FrameTemps(g)' /\ OperandBase(fp)' = OperandBase(g)'
    BY <1>3, <1>18, Zenon DEF FrameTemps, TempCount, frame_temp, OperandBase, Frame, block_closure_for_frame
  <2> QED BY <1>16, <1>18, <1>19, <1>20, <2>1
<1>22. ip'.pc = a[l].pc + 1
  <2>1. ip \in Ip
    <3>1. At("closure")
      BY DEF PushClosure
    <3> QED BY <3>1, NextIp
  <2>2. ip'.pc = ip.pc + 1
    BY <1>3, <2>1 DEF Next1, Ip
  <2> QED BY <1>16, <2>2
<1>23. b = LastIs(a, l, Changed(a[l], a[l].vars, Append(a[l].ops, w), a[l].pc + 1))
  <2>1. FrameSet' = {f \in FrameSet : f <= u[l]}
    <3>1. \A f \in FrameSet : f <= fp
      BY <1>3, RunningTop
    <3> QED BY <1>11, <1>16, <3>1
  <2>2. SameBelow(u[l]) /\ fp' = u[l]
    BY <1>3, <1>11, <1>16
  <2>3. ActsOfFrames' =
           LastIs(ActsOfFrames, l,
                  Changed(ActsOfFrames[l], FrameTemps(fp)', SubSeq(stack', OperandBase(fp)' + 1, SP'), ip'.pc))
    BY <1>3, <1>4, <1>14, <1>16, <2>1, <2>2, BackInActs
  <2> QED BY <1>15, <1>21, <1>22, <2>3, Zenon
<1>24. b = PushTop(a, w)
  <2>1. PICK q : q = a[l]
    OBVIOUS
  <2>2. \A y : PushTop(a, y) = LastIs(a, l, Changed(q, q.vars, Append(q.ops, y), q.pc + 1))
    BY <1>16, <2>1, TopShapes
  <2> QED BY <1>23, <2>1, <2>2, Zenon
<1>25. PICK k1, k2 : k1 = BlocksOfClosures /\ k2 = BlocksOfClosures'
  OBVIOUS
<1>26. Len(k1) = C /\ k2 = Append(k1, [code |-> d, home |-> Frame(fp).home, vals |-> FrameArgs(fp) \o FrameTemps(fp)])
  <2>1. PICK x : x = [code |-> d, home |-> Frame(fp).home, vals |-> FrameArgs(fp) \o FrameTemps(fp)]
    OBVIOUS
  <2>2. k1 = [i \in 1..C |-> [code |-> closures[i].method, home |-> closures[i].homeId, vals |-> closures[i].copied]]
    BY <1>5, <1>25 DEF BlocksOfClosures
  <2>3. k2 = [i \in 1..(C + 1) |-> [code |-> closures'[i].method, home |-> closures'[i].homeId, vals |-> closures'[i].copied]]
    BY <1>6, <1>25 DEF BlocksOfClosures
  <2>4. PICK W : W = {k1[i] : i \in 1..C}
    OBVIOUS
  <2>5. k1 \in Seq(W) /\ Len(k1) = C
    <3>1. \A i \in 1..C : k1[i] \in W
      BY <2>4
    <3>2. k1 = [i \in 1..C |-> k1[i]]
      BY <2>2, Zenon
    <3> QED BY <3>1, <3>2
  <2>6. Append(k1, x) = [i \in 1..(C + 1) |-> IF i = C + 1 THEN x ELSE k1[i]]
    <3>1. Append(k1, x) = Longer(k1, C, x)
      BY <2>5, AppendedSeq
    <3> QED BY <3>1, Zenon DEF Longer
  <2>7. ASSUME NEW i \in 1..(C + 1)
        PROVE  [code |-> closures'[i].method, home |-> closures'[i].homeId, vals |-> closures'[i].copied]
                 = IF i = C + 1 THEN x ELSE k1[i]
    <3>1. CASE i = C + 1
      <4>1. r.method = d /\ r.homeId = Frame(fp).home /\ r.copied = FrameArgs(fp) \o FrameTemps(fp)
        BY <1>2
      <4> QED BY <1>6, <2>1, <3>1, <4>1, Zenon
    <3>2. CASE i # C + 1
      <4>1. i \in 1..C
        BY <3>2
      <4> QED BY <1>6, <2>2, <3>2, <4>1
    <3> QED BY <3>1, <3>2
  <2>8. k2 = Append(k1, x)
    BY <2>3, <2>6, <2>7, Zenon
  <2> QED BY <2>1, <2>5, <2>8
<1>27. /\ k2 = Append(k1, [code |-> d, home |-> a[Len(a)].home, vals |-> a[Len(a)].args \o a[Len(a)].vars])
       /\ b = PushTop(a, [k |-> "block", v |-> Len(k1) + 1])
  <2>1. w = [k |-> "block", v |-> Len(k1) + 1]
    BY <1>7, <1>26 DEF Blk
  <2> QED BY <1>16, <1>24, <1>26, <2>1, Zenon
<1> QED
  BY <1>2, <1>3, <1>15, <1>25, <1>27, Zenon DEF Act!MakeBlock, Act!Top, PushTop

\* The callers of the running frame, and the calls of the entries.
LEMMA RunningCaller ==
  IInv /\ Running =>
    /\ CallerOK(fp) /\ \A f \in FrameSet : f \in Nat /\ f > 0
    /\ \A k \in 2..Len(calls) : CallsAt(calls[k].entry) = {k} /\ CallAt(calls[k].entry) = calls[k]
    /\ \A f \in FrameSet : Entry < f => CallsAt(f) = {}
<1> SUFFICES ASSUME IInv, Running
             PROVE  /\ CallerOK(fp) /\ \A f \in FrameSet : f \in Nat /\ f > 0
                    /\ \A k \in 2..Len(calls) :
                         CallsAt(calls[k].entry) = {k} /\ CallAt(calls[k].entry) = calls[k]
                    /\ \A f \in FrameSet : Entry < f => CallsAt(f) = {}
  OBVIOUS
<1>1. CallerOK(fp)
  BY RunningFacts DEF FramesInv
<1>2. \A f \in FrameSet : f \in Nat /\ f > 0
  BY RunningFrames
<1>3. /\ \A k \in 2..Len(calls) :
           CallsAt(calls[k].entry) = {k} /\ CallAt(calls[k].entry) = calls[k]
      /\ \A f \in FrameSet : Entry < f => CallsAt(f) = {}
  BY CallOfEntry
<1> QED BY <1>1, <1>2, <1>3

\* The same of the next state.
LEMMA RunningCallerNext ==
  (IInv /\ Running =>
    /\ CallerOK(fp) /\ \A f \in FrameSet : f \in Nat /\ f > 0
    /\ \A k \in 2..Len(calls) : CallsAt(calls[k].entry) = {k} /\ CallAt(calls[k].entry) = calls[k]
    /\ \A f \in FrameSet : Entry < f => CallsAt(f) = {})'
BY RunningCaller, PTL

\* The frames when control is in a new frame x above the frame g.
LEMMA EnteredFrames ==
  ASSUME IInv, Running, IInv', Running', NEW g \in FrameSet, KeptTo(g), NEW x \in Nat, g < x,
         fp' = x, stack'[x].savedFp = g
  PROVE  FrameSet' = {f \in FrameSet : f <= g} \cup {x}
<1>1. /\ fp' \in FrameSet' /\ \A f \in FrameSet' : f <= fp'
  BY RunningTopNext
<1>2. CallerOK(fp)' /\ \A f \in FrameSet' : f \in Nat
  BY RunningCallerNext
<1>3. g \in Nat /\ g > 0 /\ g \in 1..SP /\ SP \in Nat
  BY RunningFrames
<1>4. /\ g <= SP' /\ SP' \in Nat /\ \A p \in 1..g : stack'[p] = stack[p]
  BY DEF KeptTo
<1>5. g # Bottom
  BY <1>3, BottomAssumption DEF NULL, CAFE
<1>6. \A f \in FrameSet' : f <= g \/ x <= f
  BY <1>2, <1>5 DEF CallerOK, Frame
<1>7. \A p \in 1..g : p \in FrameSet' <=> p \in FrameSet
  BY <1>3, <1>4 DEF FrameSet
<1>8. ASSUME NEW f \in FrameSet' PROVE f \in {h \in FrameSet : h <= g} \cup {x}
  <2>1. f \in Nat /\ f <= x /\ (f <= g \/ x <= f) /\ f > 0
    BY <1>1, <1>2, <1>6 DEF FrameSet
  <2>2. ASSUME f <= g PROVE f \in FrameSet
    <3>1. f \in 1..g
      BY <1>3, <2>1, <2>2
    <3> QED BY <1>7, <3>1
  <2> QED BY <2>1, <2>2
<1>9. ASSUME NEW f \in {h \in FrameSet : h <= g} \cup {x} PROVE f \in FrameSet'
  <2>1. CASE f = x
    BY <1>1, <2>1
  <2>2. ASSUME f # x PROVE f \in FrameSet'
    <3>1. f \in FrameSet /\ f <= g
      BY <2>2
    <3>2. f \in 1..g
      BY <1>3, <3>1, RunningFrames
    <3> QED BY <1>7, <3>1, <3>2
  <2> QED BY <2>1, <2>2
<1> QED
  BY <1>8, <1>9

\* The activations then, if the caller's words up to e are the same.
LEMMA EnterActs ==
  ASSUME IInv, Running, IInv', Running', NEW u, NEW l, Order(u, l), NEW m \in 1..l,
         NEW g, g = u[m], KeptTo(g), SameBelow(g), NEW x \in Nat, g < x,
         fp' = x, stack'[x].savedFp = g,
         NEW e \in Nat, EndBelow(x)' = e, e <= SP, e <= SP', OperandBase(g) <= e,
         \A p \in (g + 1)..e : stack'[p] = stack[p]
  PROVE  ActsOfFrames' =
           NewOn(ActsOfFrames, m,
                 Changed(ActsOfFrames[m], FrameTemps(g), SubSeq(stack, OperandBase(g) + 1, e),
                         stack'[x].savedIp.pc),
                 Innermost')
<1>1. g \in FrameSet /\ g <= g
  <2>1. g \in FrameSet
    BY DEF Order
  <2> QED BY <2>1, RunningFrames
<1>2. FrameSet' = {f \in FrameSet : f <= g} \cup {x}
  BY <1>1, EnteredFrames
<1>3. ActsOfFrames' =
           NewOn(ActsOfFrames, m,
                 Changed(ActsOfFrames[m], FrameTemps(u[m])',
                         SubSeq(stack', OperandBase(u[m]) + 1, EndBelow(x)'), stack'[x].savedIp.pc),
                 Innermost')
  <2>1. SameBelow(u[m]) /\ u[m] < x /\ FrameSet' = {f \in FrameSet : f <= u[m]} \cup {x}
    BY <1>2
  <2> QED BY <2>1, NewInActs
<1>4. g \in FrameSet' /\ TempCount(g)' = TempCount(g)
  BY <1>1, SameParts
<1>5. /\ FrameTemps(g)' = FrameTemps(g)
      /\ SubSeq(stack', OperandBase(g) + 1, e) = SubSeq(stack, OperandBase(g) + 1, e)
  BY <1>1, <1>4, SameOperands
<1>6. FrameTemps(u[m])' = FrameTemps(g)' /\ OperandBase(u[m]) = OperandBase(g)
  BY Zenon
<1> QED
  BY <1>3, <1>5, <1>6, Zenon

\* The new activation, of code c with n arguments and t temporaries.
LEMMA EnteredTop ==
  ASSUME NEW x \in Nat, NEW t \in Nat, fp' = x, SP' = x + 1 + t, TempCount(x)' = t, ip'.pc = 0, SP' \in Nat,
         NEW W, stack' \in Seq(W)
  PROVE  Innermost' =
           [code |-> stack'[x].method, id |-> stack'[x].id, home |-> stack'[x].home,
            args |-> [i \in 1..stack'[x].numArgs |-> stack'[x - stack'[x].numArgs + (i - 1)]],
            vars |-> [i \in 1..t |-> stack'[x + 2 + (i - 1)]],
            ops |-> <<>>, pc |-> 0, then |-> Then(x)']
<1>1. OperandBase(fp)' = SP'
  BY DEF OperandBase, TempCount, Frame, block_closure_for_frame
<1>2. SubSeq(stack', SP' + 1, SP') = <<>>
  <2>1. PICK s, h : s = stack' /\ h = SP'
    OBVIOUS
  <2>2. s \in Seq(W) /\ h \in Nat /\ h = Len(s)
    BY <2>1 DEF SP
  <2>3. SubSeq(s, h + 1, h) = <<>>
    BY <2>2
  <2> QED BY <2>1, <2>3
<1>3. FrameArgs(fp)' = [i \in 1..stack'[x].numArgs |-> stack'[x - stack'[x].numArgs + (i - 1)]]
  BY DEF FrameArgs, frame_arg, Frame
<1>4. FrameTemps(fp)' = [i \in 1..t |-> stack'[x + 2 + (i - 1)]]
  <2>1. FrameTemps(fp)' = FrameTemps(x)'
    BY Zenon DEF FrameTemps, TempCount, frame_temp, Frame, block_closure_for_frame
  <2> QED BY <2>1 DEF FrameTemps, frame_temp
<1>5. Then(fp)' = Then(x)'
  BY Zenon DEF Then, CallsAt, CallAt
<1>6. Frame(fp)' = stack'[x]
  BY DEF Frame
<1> QED
  BY <1>1, <1>2, <1>3, <1>4, <1>5, <1>6, Zenon DEF Innermost, Activation

\* The temporaries of the frame of a method are 0.
LEMMA MethodTemps ==
  ASSUME HeapInv, NEW st, NEW g, NEW i, NEW c, NEW n, NEW t, Activatable(st, g, i, c, n, t)
  PROVE  \A j \in 1..t : activate_method(st, g, i, c, n, t)[Len(st) + 2 + j] = Zero
<1> USE DEF Activatable
<1>1. PICK h \in Nat : h = Len(st)
  OBVIOUS
<1>2. PICK w : w = [k |-> "frame", savedIp |-> i, savedFp |-> g, method |-> c,
                    numArgs |-> n, isBlock |-> FALSE, link |-> Zero,
                    id |-> born + 1, home |-> born + 1]
  OBVIOUS
<1>3. PICK z, r : z = Zeros(t) /\ r = st[Len(st) - n]
  OBVIOUS
<1>4. PICK o : o = Zero
  OBVIOUS
<1>5. PICK W : W = Held \cup FrameWord \cup {w, r, o}
  OBVIOUS
<1>6. st \in Seq(W) /\ w \in W /\ r \in W /\ o \in W
  BY <1>5, WiderSeq
<1>7. z \in Seq(W) /\ Len(z) = t /\ \A j \in 1..t : z[j] = o
  <2>1. z = [j \in 1..t |-> o]
    BY <1>3, <1>4 DEF Zeros
  <2>2. z \in [1..t -> W]
    BY <1>6, <2>1
  <2> QED BY <2>1, <2>2
<1>8. PICK u : u = st \o <<w, r>>
  OBVIOUS
<1>9. u \in Seq(W) /\ Len(u) = h + 2
  BY <1>1, <1>6, <1>8
<1>10. activate_method(st, g, i, c, n, t) = u \o z
  BY <1>2, <1>3, <1>8 DEF activate_method
<1>11. PICK y : y = u \o z
  OBVIOUS
<1>12. \A j \in 1..Len(z) : y[Len(u) + j] = z[j]
  BY <1>7, <1>9, <1>11
<1> QED
  BY <1>1, <1>4, <1>7, <1>9, <1>10, <1>11, <1>12

\* The temporaries of the frame of block b: what its closure copied, and 0.
BlockVars(b) == closures[b].copied \o Zeros(NumTemps[closures[b].method])

\* activate_block_call lays them out above the receiver.
LEMMA BlockTempWords ==
  ASSUME HeapInv, NEW st, NEW g, NEW i, NEW n, NEW b, Callable(st, g, i, b, n)
  PROVE  \A j \in 1..BlockTemps(b) :
           activate_block_call(st, g, i, b, n)[Len(st) + 2 + j] = BlockVars(b)[j]
<1> USE DEF Callable
<1>1. PICK h \in Nat : h = Len(st)
  OBVIOUS
<1>2. PICK x \in Closure : x = closures[b]
  BY DEF HeapInv
<1>3. x.receiver \in Held /\ x.method \in Code /\ x.copied \in Seq(Held) /\ NumTemps[x.method] \in Nat
  BY CodeAssumption DEF Closure, Code
<1>4. PICK l \in Nat, k \in Nat, q \in Seq(Held) : l = Len(x.copied) /\ k = NumTemps[x.method] /\ q = x.copied
  <2>1. Len(x.copied) \in Nat
    BY <1>3
  <2> QED BY <1>3, <2>1
<1>5. PICK t \in Nat : t = k + l
  OBVIOUS
<1>6. BlockTemps(b) = t
  BY <1>2, <1>4, <1>5 DEF BlockTemps
<1>7. PICK u : u = [st EXCEPT ![Len(st) - n] = x.receiver]
  OBVIOUS
<1>8. u \in Seq(Held \cup FrameWord) /\ Len(u) = h /\ u[Len(u) - n] \in Held
  BY <1>1, <1>3, <1>7
<1>9. PICK all : all = activate_method(u, g, i, x.method, n, t)
  OBVIOUS
<1>10. (\A j \in 1..t : all[h + 2 + j] = Zero) /\ Len(all) = h + 2 + t
  <2>0. PICK c \in Code : c = x.method
    BY <1>3
  <2>1. Activatable(u, g, i, c, n, t)
    BY <1>1, <1>3, <1>8, <2>0 DEF Activatable
  <2> HIDE DEF Callable
  <2>2. \A j \in 1..t : activate_method(u, g, i, c, n, t)[Len(u) + 2 + j] = Zero
    BY <2>1, MethodTemps
  <2>3. FrameWords(activate_method(u, g, i, c, n, t), u, g, i, c, n, t)
    BY <2>1, ActivateMethod
  <2>4. all = activate_method(u, g, i, c, n, t)
    BY <1>9, <2>0
  <2>5. Len(all) = Len(u) + 2 + t
    BY <2>3, <2>4, Zenon DEF FrameWords
  <2>6. \A j \in 1..t : all[Len(u) + 2 + j] = Zero
    BY <2>2, <2>4, Zenon
  <2> QED BY <1>8, <2>5, <2>6
<1>11. PICK a : a = activate_block_call(st, g, i, b, n)
  OBVIOUS
<1>12. PICK w : w = [all[h + 1] EXCEPT !.isBlock = TRUE, !.link = Blk(b), !.home = x.homeId]
  OBVIOUS
<1>13. a = [p \in 1..Len(all) |->
              IF p = h + 1 THEN w
              ELSE IF p \in (h + 3)..(h + 2 + l) THEN q[p - (h + 1) - 1] ELSE all[p]]
  <2>1. Len(st) + 1 = h + 1 /\ (h + 1) + 2 = h + 3 /\ (h + 1) + 1 + Len(x.copied) = h + 2 + l
    BY <1>1, <1>4
  <2>2. all = activate_method([st EXCEPT ![Len(st) - n] = x.receiver], g, i, x.method, n,
                              NumTemps[x.method] + Len(x.copied))
    BY <1>4, <1>5, <1>7, <1>9
  <2> QED BY <1>1, <1>2, <1>4, <1>11, <1>12, <2>1, <2>2 DEF activate_block_call
<1>14. PICK v, z : z = Zeros(k) /\ v = q \o z
  OBVIOUS
<1>15. (\A j \in 1..l : v[j] = q[j]) /\ \A j \in 1..k : v[l + j] = Zero
  <2>1. PICK W, o : o = Zero /\ W = Held \cup {o}
    OBVIOUS
  <2>2. q \in Seq(W) /\ Len(q) = l
    BY <1>3, <1>4, <2>1, WiderSeq
  <2>3. z \in Seq(W) /\ Len(z) = k /\ \A j \in 1..k : z[j] = o
    <3>1. z = [j \in 1..k |-> o]
      BY <1>14, <2>1 DEF Zeros
    <3>2. z \in [1..k -> W]
      BY <2>1, <3>1
    <3> QED BY <3>1, <3>2
  <2>4. \A j \in 1..Len(z) : v[Len(q) + j] = z[j]
    BY <1>14, <2>2, <2>3
  <2>5. \A j \in 1..Len(q) : v[j] = q[j]
    BY <1>14, <2>2, <2>3
  <2> QED BY <2>1, <2>2, <2>3, <2>4, <2>5
<1>16. \A j \in 1..t : a[h + 2 + j] = v[j]
  <2> TAKE j \in 1..t
  <2>1. h + 2 + j \in 1..Len(all) /\ h + 2 + j # h + 1
    BY <1>10
  <2>2. CASE j \in 1..l
    <3>1. PICK p : p = h + 2 + j
      OBVIOUS
    <3>2. p \in (h + 3)..(h + 2 + l) /\ p - (h + 1) - 1 = j
      BY <2>2, <3>1
    <3>3. a[p] = q[p - (h + 1) - 1]
      BY <1>13, <2>1, <3>1, <3>2
    <3>4. a[p] = q[j]
      BY <3>2, <3>3
    <3> QED BY <1>15, <2>2, <3>1, <3>4
  <2>3. CASE j \notin 1..l
    <3>1. h + 2 + j \notin (h + 3)..(h + 2 + l) /\ j - l \in 1..k /\ l + (j - l) = j
      BY <1>5, <2>3
    <3>2. v[l + (j - l)] = Zero
      BY <1>15, <3>1
    <3>3. a[h + 2 + j] = all[h + 2 + j]
      BY <1>13, <2>1, <3>1
    <3> QED BY <1>10, <3>1, <3>2, <3>3
  <2> QED BY <2>2, <2>3
<1>17. BlockVars(b) = v
  BY <1>2, <1>4, <1>14, Zenon DEF BlockVars
<1> QED
  BY <1>1, <1>6, <1>11, <1>16, <1>17

\* The numbers of temporaries of a new frame.
LEMMA NewTempCount ==
  ASSUME NEW x, UNCHANGED closures
  PROVE  /\ stack'[x].link = Zero => TempCount(x)' = NumTemps[stack'[x].method] + 0
         /\ \A b : stack'[x].link = Blk(b) =>
              TempCount(x)' = NumTemps[stack'[x].method] + Len(closures[b].copied)
<1>1. ASSUME stack'[x].link = Zero PROVE TempCount(x)' = NumTemps[stack'[x].method] + 0
  <2>1. block_closure_for_frame(x)' = Nil
    BY <1>1 DEF block_closure_for_frame, Frame, Zero
  <2> QED BY <2>1 DEF TempCount, Frame
<1>2. ASSUME NEW b, stack'[x].link = Blk(b)
      PROVE  TempCount(x)' = NumTemps[stack'[x].method] + Len(closures[b].copied)
  <2>1. block_closure_for_frame(x)' = Blk(b)
    BY <1>2 DEF block_closure_for_frame, Frame, Blk
  <2>2. Blk(b) # Nil /\ Blk(b).v = b
    BY DEF Blk, Nil
  <2> QED BY <2>1, <2>2 DEF TempCount, Frame
<1> QED
  BY <1>1, <1>2

\* A sequence of t words, as a function.
Lists(v, t) == v = [j \in 1..t |-> v[j]]

\* The activation that is born.
NewAct(c, home, args, locals, then) ==
  [code |-> c, id |-> born + 1, home |-> home, args |-> args, vars |-> locals, ops |-> <<>>, pc |-> 0,
   then |-> then]

\* The words of a new frame x are above st: code c, n arguments that are the
\* last of st, and the t variables V.
FreshFrame(st, h, x, g, i, c, n, t, V) ==
  /\ h \in Nat /\ h = Len(st) /\ x \in Nat /\ x = h + 1 /\ n \in Nat /\ n < h /\ t \in Nat
  /\ FrameWords(stack', st, g, i, c, n, t) /\ fp' = x /\ ip'.pc = 0 /\ TempCount(x)' = t
  /\ Lists(V, t) /\ \A j \in 1..t : stack'[h + 2 + j] = V[j]
  /\ \A p \in (h - n + 1)..h : stack'[p] = st[p]

\* Its activation.
LEMMA EnteredActivation ==
  ASSUME IInv', Running', NEW st, NEW h, NEW x, NEW g, NEW i, NEW c, NEW n, NEW t, NEW V,
         FreshFrame(st, h, x, g, i, c, n, t, V)
  PROVE  /\ Innermost' = NewAct(c, stack'[x].home, LastOf(st, n), V, Then(x)')
         /\ SP' = h + 2 + t /\ stack'[x].savedFp = g /\ stack'[x].savedIp = i
<1> USE DEF FreshFrame
<1>1. x = h + 1
  OBVIOUS
<1>2. /\ Len(stack') = h + 2 + t
      /\ stack'[x].savedFp = g /\ stack'[x].savedIp = i /\ stack'[x].method = c /\ stack'[x].numArgs = n
      /\ stack'[x].id = born + 1
  BY <1>1 DEF FrameWords
<1>3. SP' = x + 1 + t /\ SP' \in Nat
  BY <1>1, <1>2 DEF SP
<1>4. PICK W : stack' \in Seq(W)
  BY DEF IInv, StackInv
<1>5. fp' = x /\ TempCount(x)' = t
  OBVIOUS
<1>6. Innermost' =
           [code |-> stack'[x].method, id |-> stack'[x].id, home |-> stack'[x].home,
            args |-> [j \in 1..stack'[x].numArgs |-> stack'[x - stack'[x].numArgs + (j - 1)]],
            vars |-> [j \in 1..t |-> stack'[x + 2 + (j - 1)]],
            ops |-> <<>>, pc |-> 0, then |-> Then(x)']
  BY <1>3, <1>4, <1>5, EnteredTop
<1>7. [j \in 1..stack'[x].numArgs |-> stack'[x - stack'[x].numArgs + (j - 1)]] = [j \in 1..n |-> st[h - n + j]]
  <2>1. \A j \in 1..n : stack'[x - n + (j - 1)] = st[h - n + j]
    <3> TAKE j \in 1..n
    <3>1. PICK p \in Int : p = h - n + j
      OBVIOUS
    <3>2. p \in (h - n + 1)..h /\ x - n + (j - 1) = p
      BY <1>1, <3>1
    <3> QED BY <3>1, <3>2
  <2> QED BY <1>2, <2>1, Zenon
<1>8. [j \in 1..t |-> stack'[x + 2 + (j - 1)]] = V
  <2>1. \A j \in 1..t : stack'[x + 2 + (j - 1)] = V[j]
    <3> TAKE j \in 1..t
    <3>1. x + 2 + (j - 1) = h + 2 + j
      BY <1>1
    <3> QED BY <3>1
  <2> QED BY <2>1, Zenon DEF Lists
<1>9. Innermost' = NewAct(c, stack'[x].home, LastOf(st, n), V, Then(x)')
  <2>1. LastOf(st, n) = [j \in 1..n |-> st[h - n + j]]
    BY Zenon DEF LastOf
  <2> QED BY <1>2, <1>5, <1>6, <1>7, <1>8, <2>1, Zenon DEF NewAct
<1>10. SP' = h + 2 + t
  BY <1>1, <1>3
<1> QED
  BY <1>1, <1>2, <1>9, <1>10

\* A method is activated.
LEMMA MethodEntered ==
  ASSUME IInv, Running, IInv', Running', NEW st \in Seq(Held \cup FrameWord), NEW h \in Nat, h = Len(st), NEW x \in Nat, x = h + 1,
         NEW c \in Methods, NEW n, n = NumArgs[c], NEW i, AboveFrame(st, h, fp, n), ResumesIn(i, fp),
         Enter(activate_method(st, fp, i, c, n, NumTemps[c]), h, c), UNCHANGED heap
  PROVE  /\ Innermost' = NewAct(c, born + 1, LastOf(st, n), Zeros(NumTemps[c]), Then(x)')
         /\ SP' = h + 2 + NumTemps[c] /\ stack'[x].savedFp = fp /\ stack'[x].savedIp = i
         /\ stack'[x].numArgs = n /\ \A p \in 1..h : stack'[p] = st[p]
<1>1. PICK t \in Nat, g \in {fp} : t = NumTemps[c] /\ g = fp
  BY CodeAssumption DEF Code
<1>2. AboveFrame(st, Len(st), g, n)
  BY <1>1
<1>3. /\ g \in FrameSet /\ g \in Nat /\ g \in 1..StackWords /\ n \in Nat /\ n < Len(st)
      /\ i \in Ip \cup {NoIp, After} /\ st[Len(st) - n] \in Held
  <2>1. ResumesIn(i, g)
    BY <1>1
  <2> HIDE DEF Ip, NoIp, After
  <2> QED BY <1>2, <2>1, BelowActivation
<1>4. Activatable(st, g, i, c, n, t) /\ HeapInv
  <2> HIDE DEF Ip, NoIp, After
  <2> QED BY <1>3, RunningFacts DEF Activatable, Code
<1>5. PICK a : a = activate_method(st, g, i, c, n, t)
  OBVIOUS
<1>6. /\ FrameWords(a, st, g, i, c, n, t)
      /\ \A p \in 1..h : a[p] = st[p]
      /\ a[x].link = Zero /\ a[x].home = a[x].id
  BY <1>4, <1>5, ActivateMethod
<1>7. \A j \in 1..t : a[h + 2 + j] = Zero
  BY <1>4, <1>5, MethodTemps
<1>8. stack' = a /\ fp' = x /\ ip'.pc = 0 /\ UNCHANGED closures
  BY <1>1, <1>5 DEF Enter, heap
<1>9. TempCount(x)' = t
  <2>1. stack'[x].link = Zero /\ stack'[x].method = c
    BY <1>6, <1>8 DEF FrameWords
  <2>2. TempCount(x)' = NumTemps[stack'[x].method] + 0
    BY <1>8, <2>1, NewTempCount
  <2> QED BY <1>1, <2>1, <2>2
<1>10. PICK V : V = Zeros(t)
  OBVIOUS
<1>11. Lists(V, t) /\ \A j \in 1..t : stack'[h + 2 + j] = V[j]
  <2>1. V = [j \in 1..t |-> Zero]
    BY <1>10, Zenon DEF Zeros
  <2>2. V = [j \in 1..t |-> V[j]] /\ \A j \in 1..t : V[j] = Zero
    BY <2>1, Zenon
  <2> QED BY <1>7, <1>8, <2>2, Zenon DEF Lists
<1>12. \A p \in (h - n + 1)..h : stack'[p] = st[p]
  <2>1. \A p \in (h - n + 1)..h : p \in 1..h
    BY <1>3
  <2> QED BY <1>6, <1>8, <2>1
<1>13. FrameWords(stack', st, g, i, c, n, t) /\ n < h /\ n \in Nat
  BY <1>3, <1>6, <1>8
<1>14. /\ Innermost' = NewAct(c, stack'[x].home, LastOf(st, n), V, Then(x)')
       /\ SP' = h + 2 + t /\ stack'[x].savedFp = g /\ stack'[x].savedIp = i
  <2>1. FreshFrame(st, h, x, g, i, c, n, t, V)
    BY <1>8, <1>9, <1>11, <1>12, <1>13 DEF FreshFrame
  <2> QED BY <2>1, EnteredActivation
<1>15. stack'[x].home = born + 1 /\ stack'[x].numArgs = n
  BY <1>6, <1>8 DEF FrameWords
<1> QED
  BY <1>1, <1>6, <1>8, <1>10, <1>14, <1>15, Zenon

\* A block is activated.
LEMMA BlockEntered ==
  ASSUME IInv, Running, IInv', Running', NEW st \in Seq(Held \cup FrameWord), NEW h \in Nat, h = Len(st), NEW x \in Nat, x = h + 1,
         NEW g, NEW i, NEW n, NEW b \in 1..Len(closures), AboveFrame(st, h, g, n), ResumesIn(i, g),
         Enter(activate_block_call(st, g, i, b, n), h, closures[b].method), UNCHANGED heap
  PROVE  /\ Innermost' = NewAct(closures[b].method, closures[b].homeId, LastOf(st, n), BlockVars(b), Then(x)')
         /\ BlockTemps(b) \in Nat
         /\ SP' = h + 2 + BlockTemps(b) /\ stack'[x].savedFp = g /\ stack'[x].savedIp = i
         /\ stack'[x].numArgs = n /\ \A p \in 1..h : p # h - n => stack'[p] = st[p]
<1>1. PICK t, c : t = BlockTemps(b) /\ c = closures[b].method
  OBVIOUS
<1>2. AboveFrame(st, Len(st), g, n)
  OBVIOUS
<1>3. /\ g \in FrameSet /\ g \in Nat /\ g \in 1..StackWords /\ n \in Nat /\ n < Len(st)
      /\ i \in Ip \cup {NoIp, After} /\ st[Len(st) - n] \in Held
  <2> HIDE DEF Ip, NoIp, After
  <2> QED BY <1>2, BelowActivation
<1>4. Callable(st, g, i, b, n) /\ HeapInv
  <2> HIDE DEF Ip, NoIp, After
  <2> QED BY <1>3, RunningFacts DEF Callable
<1>5. PICK a : a = activate_block_call(st, g, i, b, n)
  OBVIOUS
<1>6. BlockFrameWords(a, st, g, i, b, n)
  BY <1>4, <1>5, ActivateBlock
<1>7. /\ t \in Nat /\ FrameWords(a, st, g, i, c, n, t)
      /\ \A p \in 1..h : p # h - n => a[p] = st[p]
      /\ a[x].link = Blk(b) /\ a[x].home = closures[b].homeId
  BY <1>1, <1>6, Zenon DEF BlockFrameWords
<1>8. stack' = a /\ fp' = x /\ ip'.pc = 0 /\ UNCHANGED closures
  BY <1>5 DEF Enter, heap
<1>9. PICK V : V = BlockVars(b)
  OBVIOUS
<1>10. \A j \in 1..t : stack'[h + 2 + j] = V[j]
  <2>1. \A j \in 1..BlockTemps(b) : activate_block_call(st, g, i, b, n)[Len(st) + 2 + j] = BlockVars(b)[j]
    BY <1>4, BlockTempWords
  <2> QED BY <1>1, <1>5, <1>8, <1>9, <2>1, Zenon
<1>11. Lists(V, t)
  <2>1. PICK y \in Closure : y = closures[b]
    BY <1>4 DEF HeapInv
  <2>2. y.copied \in Seq(Held) /\ y.method \in Code
    BY DEF Closure, Code
  <2>3. PICK k \in Nat, z \in {Zeros(NumTemps[c])} : k = NumTemps[c] /\ z = Zeros(k)
    BY <1>1, <2>1, <2>2, CodeAssumption
  <2>4. z \in Seq(Held) /\ Len(z) = k
    <3>1. z = [j \in 1..k |-> Zero]
      BY <2>3 DEF Zeros
    <3>2. Zero \in Held
      BY HeldValues
    <3> HIDE DEF Held, Zero
    <3> QED BY <3>1, <3>2
  <2>5. PICK q : q = y.copied
    OBVIOUS
  <2>6. V = q \o z /\ t = Len(q) + Len(z)
    BY <1>1, <1>9, <2>1, <2>3, <2>4, <2>5 DEF BlockTemps, BlockVars
  <2>7. V \in Seq(Held) /\ Len(V) = t
    <3>1. q \in Seq(Held)
      BY <2>2, <2>5
    <3> QED BY <2>4, <2>6, <3>1, JoinedSeq
  <2>8. V = [j \in 1..Len(V) |-> V[j]]
    BY <2>7, SeqIsFunction
  <2> QED BY <2>7, <2>8, Zenon DEF Lists
<1>12. TempCount(x)' = t
  <2>1. stack'[x].link = Blk(b) /\ stack'[x].method = c
    BY <1>7, <1>8 DEF FrameWords
  <2>2. \A k : stack'[x].link = Blk(k) =>
           TempCount(x)' = NumTemps[stack'[x].method] + Len(closures[k].copied)
    BY <1>8, NewTempCount
  <2>3. TempCount(x)' = NumTemps[c] + Len(closures[b].copied)
    BY <2>1, <2>2
  <2> QED BY <1>1, <2>3 DEF BlockTemps
<1>13. \A p \in (h - n + 1)..h : stack'[p] = st[p]
  <2>1. \A p \in (h - n + 1)..h : p \in 1..h /\ p # h - n
    BY <1>3
  <2> QED BY <1>7, <1>8, <2>1
<1>14. FrameWords(stack', st, g, i, c, n, t) /\ n < h /\ n \in Nat
  BY <1>3, <1>7, <1>8
<1>15. /\ Innermost' = NewAct(c, stack'[x].home, LastOf(st, n), V, Then(x)')
       /\ SP' = h + 2 + t /\ stack'[x].savedFp = g /\ stack'[x].savedIp = i
  <2>1. FreshFrame(st, h, x, g, i, c, n, t, V)
    BY <1>7, <1>8, <1>10, <1>11, <1>12, <1>13, <1>14 DEF FreshFrame
  <2> QED BY <2>1, EnteredActivation
<1>16. stack'[x].home = closures[b].homeId /\ stack'[x].numArgs = n
  BY <1>7, <1>8 DEF FrameWords
<1> QED
  BY <1>1, <1>7, <1>8, <1>9, <1>15, <1>16, Zenon

\* A new frame x runs, called by the frame that ran, which keeps all but its
\* last n operands.
CallsFromTop(x, e, n) ==
  /\ KeptTo(fp) /\ SameBelow(fp) /\ x \in Nat /\ fp < x /\ fp' = x /\ stack'[x].savedFp = fp
  /\ e \in Nat /\ EndBelow(x)' = e /\ e <= SP /\ e <= SP' /\ OperandBase(fp) <= e
  /\ \A p \in (fp + 1)..e : stack'[p] = stack[p]
  /\ n \in Nat /\ n = SP - e

\* The running activation has called a new one.
LEMMA TopCalls ==
  ASSUME IInv, Running, IInv', Running', NEW u, NEW l, Order(u, l), NEW a, a = ActsOfFrames,
         NEW x, NEW e, NEW n, CallsFromTop(x, e, n)
  PROVE  ActsOfFrames' =
           NewOn(a, l, Changed(a[l], a[l].vars, SubSeq(a[l].ops, 1, Len(a[l].ops) - n), stack'[x].savedIp.pc),
                 Innermost')
<1>1. /\ Indexed(a, l) /\ l \in 1..l /\ u[l] = fp /\ a[l].vars = FrameTemps(fp)
      /\ a[l].ops = SubSeq(stack, OperandBase(fp) + 1, SP)
  BY TopParts
<1>2. PICK g : g = fp
  OBVIOUS
<1>3. g \in FrameSet /\ g \in Nat /\ OperandBase(g) \in Nat
  BY <1>2, RunningTop
<1>4. ActsOfFrames' =
           NewOn(ActsOfFrames, l,
                 Changed(ActsOfFrames[l], FrameTemps(g), SubSeq(stack, OperandBase(g) + 1, e),
                         stack'[x].savedIp.pc),
                 Innermost')
  <2>1. /\ g \in FrameSet /\ g = u[l] /\ KeptTo(g) /\ SameBelow(g) /\ x \in Nat /\ g < x
        /\ fp' = x /\ stack'[x].savedFp = g
        /\ e \in Nat /\ EndBelow(x)' = e /\ e <= SP /\ e <= SP' /\ OperandBase(g) <= e
        /\ \A p \in (g + 1)..e : stack'[p] = stack[p]
    BY <1>1, <1>2, <1>3 DEF CallsFromTop
  <2> QED BY <1>1, <2>1, EnterActs
<1>5. SubSeq(a[l].ops, 1, Len(a[l].ops) - n) = SubSeq(stack, OperandBase(g) + 1, e)
  <2>1. PICK W, s : W = Held \cup FrameWord /\ s = stack
    OBVIOUS
  <2>2. PICK b \in Nat, L \in Nat : b = OperandBase(g) /\ L = SP
    BY <1>3, RunningTop
  <2>3. PICK o : o = a[l].ops
    OBVIOUS
  <2>4. s \in Seq(W) /\ L = Len(s)
    BY <2>1, <2>2, RunningFacts DEF SP
  <2>5. o = SubSeq(s, b + 1, L)
    BY <1>1, <1>2, <2>1, <2>2, <2>3
  <2>6. e \in Nat /\ b <= e /\ e <= L /\ n \in Nat /\ n = L - e
    BY <1>2, <2>2 DEF CallsFromTop
  <2>7. SubSeq(o, 1, Len(o) - n) = SubSeq(s, b + 1, e)
    BY <2>4, <2>5, <2>6, FirstOperands
  <2> QED BY <2>1, <2>2, <2>3, <2>7
<1>6. FrameTemps(g) = a[l].vars
  BY <1>1, <1>2
<1> QED
  BY <1>4, <1>5, <1>6, Zenon

\* ... at the next bytecode, or after its last.
LEMMA TopCallsOn ==
  ASSUME IInv, Running, IInv', Running', NEW u, NEW l, Order(u, l), NEW a, a = ActsOfFrames,
         NEW x, NEW e, NEW n, CallsFromTop(x, e, n)
  PROVE  /\ stack'[x].savedIp.pc = ip.pc + 1 => ActsOfFrames' = Append(CallTop(a, n), Innermost')
         /\ stack'[x].savedIp.pc = -1 /\ n = 1 => ActsOfFrames' = Append(LastWords(a), Innermost')
<1>1. Indexed(a, l) /\ IsAct(a[l]) /\ a[l].pc = ip.pc
  BY TopParts
<1>2. ActsOfFrames' =
        NewOn(a, l, Changed(a[l], a[l].vars, SubSeq(a[l].ops, 1, Len(a[l].ops) - n), stack'[x].savedIp.pc),
              Innermost')
  BY TopCalls
<1>3. PICK r, y : r = a[l] /\ y = Innermost'
  OBVIOUS
<1>4. /\ \A k : CallTop(a, k) = LastIs(a, l, Changed(r, r.vars, SubSeq(r.ops, 1, Len(r.ops) - k), r.pc + 1))
      /\ LastWords(a) = LastIs(a, l, Changed(r, r.vars, SubSeq(r.ops, 1, Len(r.ops) - 1), -1))
  BY <1>1, <1>3, TopShapes
<1>5. \A z : Append(LastIs(a, l, z), y) = NewOn(a, l, z, y)
  BY <1>1, AppendedOn
<1>6. ASSUME stack'[x].savedIp.pc = ip.pc + 1 PROVE ActsOfFrames' = Append(CallTop(a, n), y)
  BY <1>1, <1>2, <1>3, <1>4, <1>5, <1>6, Zenon
<1>7. ASSUME stack'[x].savedIp.pc = -1, n = 1 PROVE ActsOfFrames' = Append(LastWords(a), y)
  BY <1>2, <1>3, <1>4, <1>5, <1>7, Zenon
<1> QED
  BY <1>3, <1>6, <1>7

\* The last n operands.
LEMMA LastOfOperands ==
  ASSUME IInv, Running, NEW u, NEW l, Order(u, l), NEW a, a = ActsOfFrames, NEW n \in Nat, n <= Operands
  PROVE  EndOf(a[l].ops, n) = LastOf(stack, n)
<1>1. a[l].ops = SubSeq(stack, OperandBase(fp) + 1, SP)
  BY TopParts
<1>2. PICK W, s : W = Held \cup FrameWord /\ s = stack
  OBVIOUS
<1>3. PICK b \in Nat, L \in Nat : b = OperandBase(fp) /\ L = SP
  BY RunningTop
<1>4. PICK o : o = a[l].ops
  OBVIOUS
<1>5. s \in Seq(W) /\ L = Len(s) /\ b <= L /\ b + n <= L /\ o = SubSeq(s, b + 1, L)
  BY <1>1, <1>2, <1>3, <1>4, RunningFacts DEF SP, Operands
<1>6. EndOf(o, n) = LastOf(s, n)
  <2>1. OperandsOf(o, s, W, b, L) /\ b + n <= L
    BY <1>5 DEF OperandsOf
  <2> QED BY <2>1, LastOperands
<1> QED
  BY <1>2, <1>4, <1>6

\* A call, in the activations' words.
LEMMA CallWithShape ==
  ASSUME NEW a, a = ActsOfFrames, NEW n, NEW act, ActsOfFrames' = Append(CallTop(a, n), act),
         born' = born + 1, UNCHANGED <<closures, outcome>>
  PROVE  Act!CallWith(n, act)
<1>1. BlocksOfClosures' = BlocksOfClosures
  BY Zenon DEF BlocksOfClosures
<1> QED
  BY <1>1, Zenon DEF Act!CallWith, CallTop

\* No primitive waits for a frame on top of those of the same interpret().
LEMMA UncalledTop ==
  ASSUME IInv, Running, IInv', Running', UNCHANGED calls, NEW x \in Nat, fp < x, fp' = x
  PROVE  /\ Then(x)' = [k |-> "push", w |-> Zero]
         /\ EndBelow(x)' = x - stack'[x].numArgs - 2
<1>1. x \in FrameSet'
  BY RunningTopNext
<1>2. Entry <= fp /\ fp \in Nat /\ Entry \in Nat /\ Entry' = Entry
  <2>1. Entry <= fp /\ fp \in Nat /\ Entry \in FrameSet
    BY RunningFacts
  <2>2. Entry \in Nat
    BY <2>1, RunningFrames
  <2> QED BY <2>1, <2>2 DEF Entry
<1>3. CallsAt(x)' = {}
  <2>1. Entry' < x
    BY <1>2
  <2>2. \A f \in FrameSet' : Entry' < f => CallsAt(f)' = {}
    BY RunningCallerNext
  <2> QED BY <1>1, <2>1, <2>2
<1>4. Then(x)' = [k |-> "push", w |-> Zero]
  BY <1>3, Zenon DEF Then
<1>5. EndBelow(x)' = x - stack'[x].numArgs - 2
  BY <1>3 DEF EndBelow, Frame
<1> QED
  BY <1>4, <1>5

\* A new frame x is on the stack, which perhaps has another receiver.
Sends(x, n) ==
  /\ UNCHANGED <<calls, heap>> /\ n \in Nat /\ Operands > n
  /\ x \in Nat /\ x = SP + 1 /\ fp' = x /\ SP' \in Nat /\ x <= SP'
  /\ stack'[x].savedFp = fp /\ stack'[x].numArgs = n /\ stack'[x].savedIp.pc = ip.pc + 1
  /\ \A p \in 1..SP : p # SP - n => stack'[p] = stack[p]

\* It hands over its receiver and n arguments.
LEMMA TopSends ==
  ASSUME IInv, Running, IInv', Running', NEW u, NEW l, Order(u, l), NEW a, a = ActsOfFrames,
         NEW x, NEW n, Sends(x, n)
  PROVE  /\ ActsOfFrames' = Append(CallTop(a, n + 1), Innermost')
         /\ Then(x)' = [k |-> "push", w |-> Zero]
<1> USE DEF Sends
<1>1. /\ SP \in Nat /\ fp \in FrameSet /\ fp \in Nat /\ fp \in 1..SP /\ Len(calls) \in Nat
      /\ OperandBase(fp) \in Nat /\ fp < OperandBase(fp) /\ OperandBase(fp) <= SP
  BY RunningTop
<1>2. PICK e \in Nat : e = SP - n - 1
  <2>1. SP - n - 1 \in Nat
    BY <1>1 DEF Operands
  <2> QED BY <2>1
<1>3. OperandBase(fp) <= e /\ e <= SP /\ e <= SP' /\ fp < e + 1 /\ fp < x /\ fp < SP - n
  BY <1>1, <1>2 DEF Operands
<1>4. KeptTo(fp)
  <2>1. \A p \in 1..fp : p \in 1..SP /\ p # SP - n
    BY <1>1, <1>3
  <2>2. fp <= SP'
    BY <1>1, <1>3
  <2> QED BY <1>1, <2>1, <2>2 DEF KeptTo
<1>5. SameBelow(fp)
  <2>1. PICK N \in Nat : N = Len(calls)
    BY <1>1
  <2>2. /\ N <= Len(calls) /\ N <= Len(calls') /\ Len(calls') \in Nat
        /\ \A k \in 1..N : calls'[k] = calls[k]
        /\ \A k \in (N + 1)..Len(calls) : fp < calls[k].entry
        /\ \A k \in (N + 1)..Len(calls') : fp < calls'[k].entry
    BY <2>1
  <2> QED BY <1>1, <1>4, <2>2, SameBelowKept
<1>6. Then(x)' = [k |-> "push", w |-> Zero] /\ EndBelow(x)' = x - stack'[x].numArgs - 2
  <2>1. UNCHANGED calls /\ x \in Nat /\ fp < x /\ fp' = x
    BY <1>3
  <2> QED BY <2>1, UncalledTop
<1>7. EndBelow(x)' = e
  BY <1>1, <1>2, <1>6
<1>8. \A p \in (fp + 1)..e : stack'[p] = stack[p]
  <2>1. \A p \in (fp + 1)..e : p \in 1..SP /\ p # SP - n
    BY <1>1, <1>2
  <2> QED BY <2>1
<1>9. CallsFromTop(x, e, n + 1)
  <2>1. n + 1 \in Nat /\ n + 1 = SP - e
    BY <1>1, <1>2
  <2> QED BY <1>3, <1>4, <1>5, <1>7, <1>8, <2>1 DEF CallsFromTop
<1>10. PICK m : m = n + 1
  OBVIOUS
<1>11. ActsOfFrames' = Append(CallTop(a, m), Innermost')
  <2>1. CallsFromTop(x, e, m)
    BY <1>9, <1>10
  <2>2. stack'[x].savedIp.pc = ip.pc + 1 => ActsOfFrames' = Append(CallTop(a, m), Innermost')
    BY <2>1, TopCallsOn
  <2> QED BY <2>2
<1> QED
  BY <1>6, <1>10, <1>11

\* send
LEMMA SendCalls ==
  ASSUME IInv, IInv', Send
  PROVE  Running /\ (Act!Call \/ Act!Stop)
<1>1. At("send") /\ Running
  BY DEF Send, At
<1>2. PICK c \in Methods :
        /\ Operands > NumArgs[c]
        /\ IF StackOverflow(SP, NumTemps[c]) THEN Overflow
           ELSE /\ Enter(activate_method(stack, fp, Next1(ip), c, NumArgs[c], NumTemps[c]), SP, c)
                /\ UNCHANGED <<calls, heap>>
  BY DEF Send
<1>3. CASE StackOverflow(SP, NumTemps[c])
  BY <1>1, <1>2, <1>3, StopBytecodesStop
<1>4. ASSUME ~StackOverflow(SP, NumTemps[c]) PROVE Act!Call
  <2>1. PICK n \in Nat, h \in Nat, x \in Nat : n = NumArgs[c] /\ h = SP /\ x = h + 1
    <3>1. NumArgs[c] \in Nat /\ SP \in Nat /\ SP + 1 \in Nat
      BY <1>1, CodeAssumption, RunningTop DEF Code
    <3> QED BY <3>1
  <2>2. Operands > n /\ h = Len(stack)
    BY <1>2, <2>1 DEF SP
  <2>3. stack \in Seq(Held \cup FrameWord) /\ AboveFrame(stack, h, fp, n)
    BY <1>1, <2>2, OperandsAbove
  <2>4. PICK i : i = Next1(ip)
    OBVIOUS
  <2>5. ResumesIn(i, fp) /\ ip \in Ip
    BY <1>1, <2>4, NextIp, RunningFacts DEF ResumesIn, TopInv
  <2>6. i.pc = ip.pc + 1
    BY <2>4, <2>5 DEF Next1, Ip
  <2>7. Enter(activate_method(stack, fp, i, c, n, NumTemps[c]), h, c) /\ UNCHANGED <<calls, heap>>
    BY <1>2, <1>4, <2>1, <2>4
  <2>8. Running' /\ born' = born + 1 /\ UNCHANGED <<closures, outcome>> /\ fp' = x
    BY <1>1, <2>1, <2>7 DEF Enter, Running, heap
  <2>9. /\ Innermost' = NewAct(c, born + 1, LastOf(stack, n), Zeros(NumTemps[c]), Then(x)')
        /\ SP' = h + 2 + NumTemps[c] /\ stack'[x].savedFp = fp /\ stack'[x].savedIp = i
        /\ stack'[x].numArgs = n /\ \A p \in 1..h : stack'[p] = stack[p]
    BY <1>1, <2>1, <2>2, <2>3, <2>5, <2>7, <2>8, MethodEntered
  <2>10. Sends(x, n)
    <3>1. NumTemps[c] \in Nat
      BY CodeAssumption DEF Code
    <3>2. SP' \in Nat /\ x <= SP'
      BY <2>1, <2>9, <3>1
    <3> QED BY <2>1, <2>2, <2>6, <2>7, <2>8, <2>9, <3>2 DEF Sends
  <2>11. PICK u, l : Order(u, l)
    BY <1>1, SomeOrder
  <2>12. PICK a : a = ActsOfFrames
    OBVIOUS
  <2>13. ActsOfFrames' = Append(CallTop(a, n + 1), Innermost') /\ Then(x)' = [k |-> "push", w |-> Zero]
    BY <1>1, <2>8, <2>10, <2>11, <2>12, TopSends
  <2>14. Act!CallWith(n + 1, Innermost')
    <3>1. PICK y, m : y = Innermost' /\ m = n + 1
      OBVIOUS
    <3>2. ActsOfFrames' = Append(CallTop(a, m), y)
      BY <2>13, <3>1
    <3>3. Act!CallWith(m, y)
      BY <2>8, <2>12, <3>2, CallWithShape
    <3> QED BY <3>1, <3>3, Zenon
  <2>15. Len(a) = l /\ Len(a[l].ops) = Operands /\ EndOf(a[l].ops, n) = LastOf(stack, n)
    <3>1. n <= Operands
      BY <1>1, <2>2, RunningTop DEF Operands
    <3>2. EndOf(a[l].ops, n) = LastOf(stack, n)
      BY <1>1, <2>11, <2>12, <3>1, LastOfOperands
    <3> QED BY <1>1, <2>11, <2>12, <3>2, TopParts
  <2>16. Innermost' = Act!Activation(c, born + 1, Act!LastArgs(n), Act!Zeros(NumTemps[c]), Act!Push)
    <3>1. Act!LastArgs(n) = LastOf(stack, n)
      BY <2>12, <2>15, Zenon DEF Act!LastArgs, Act!Top, EndOf
    <3>2. Act!Zeros(NumTemps[c]) = Zeros(NumTemps[c])
      BY Zenon DEF Act!Zeros, Zeros, Zero
    <3>3. Act!Push = [k |-> "push", w |-> Zero]
      BY Zenon DEF Act!Push, Zero
    <3> QED BY <2>9, <2>13, <3>1, <3>2, <3>3, Zenon DEF Act!Activation, NewAct
  <2>17. Len(Act!Top.ops) > n
    BY <2>2, <2>12, <2>15 DEF Act!Top
  <2> QED BY <2>1, <2>14, <2>16, <2>17, Zenon DEF Act!Call
<1> QED
  BY <1>1, <1>3, <1>4

\* The activation of a block in the activations' words.
LEMMA BlockActs ==
  ASSUME NEW b \in 1..Len(closures), NEW w, w = Blk(b), NEW args, NEW then
  PROVE  Act!BlockActivation(w, args, then)
           = NewAct(closures[b].method, closures[b].homeId, args, BlockVars(b), then)
<1>1. PICK r : r = BlocksOfClosures[b]
  OBVIOUS
<1>2. r = [code |-> closures[b].method, home |-> closures[b].homeId, vals |-> closures[b].copied]
  BY <1>1 DEF BlocksOfClosures
<1>3. r.code = closures[b].method /\ r.home = closures[b].homeId /\ r.vals = closures[b].copied
  BY <1>2
<1>4. w.v = b
  BY DEF Blk
<1>5. Act!Zeros(NumTemps[r.code]) = Zeros(NumTemps[r.code])
  BY Zenon DEF Act!Zeros, Zeros, Zero
<1> QED
  BY <1>1, <1>3, <1>4, <1>5, Zenon DEF Act!BlockActivation, Act!Activation, NewAct, BlockVars

\* value
LEMMA SendValueCalls ==
  ASSUME IInv, IInv', SendValue
  PROVE  Running /\ (Act!CallBlock \/ Act!Stop)
<1>1. At("call") /\ Running
  BY DEF SendValue, At
<1>2. PICK n \in 0..1 :
        /\ Operands > n /\ TopOp(n).k = "block"
        /\ IF StackOverflow(SP, NumTemps[closures[TopOp(n).v].method] + Len(closures[TopOp(n).v].copied))
             THEN Overflow
             ELSE /\ Enter(activate_block_call(stack, fp, Next1(ip), TopOp(n).v, n), SP,
                           closures[TopOp(n).v].method)
                  /\ UNCHANGED <<calls, heap>>
  BY DEF SendValue
<1>3. PICK b : b = TopOp(n).v
  OBVIOUS
<1>4. stack \in Seq(Held \cup FrameWord) /\ AboveFrame(stack, Len(stack), fp, n) /\ TopOp(n) \in Held
  BY <1>1, <1>2, OperandsAbove
<1>5. b \in 1..Len(closures) /\ TopOp(n) = Blk(b)
  BY <1>2, <1>3, <1>4, HeldKinds
<1>6. CASE StackOverflow(SP, NumTemps[closures[b].method] + Len(closures[b].copied))
  BY <1>1, <1>2, <1>3, <1>6, StopBytecodesStop
<1>7. ASSUME ~StackOverflow(SP, NumTemps[closures[b].method] + Len(closures[b].copied)) PROVE Act!CallBlock
  <2>1. PICK h \in Nat, x \in Nat : h = SP /\ x = h + 1
    <3>1. SP \in Nat /\ SP + 1 \in Nat
      BY <1>1, RunningTop
    <3> QED BY <3>1
  <2>2. h = Len(stack) /\ n \in Nat
    BY <2>1 DEF SP
  <2>3. AboveFrame(stack, h, fp, n)
    BY <1>4, <2>2
  <2>4. PICK i : i = Next1(ip)
    OBVIOUS
  <2>5. ResumesIn(i, fp) /\ ip \in Ip
    BY <1>1, <2>4, NextIp, RunningFacts DEF ResumesIn, TopInv
  <2>6. i.pc = ip.pc + 1
    BY <2>4, <2>5 DEF Next1, Ip
  <2>7. Enter(activate_block_call(stack, fp, i, b, n), h, closures[b].method) /\ UNCHANGED <<calls, heap>>
    BY <1>2, <1>3, <1>7, <2>1, <2>4
  <2>8. Running' /\ born' = born + 1 /\ UNCHANGED <<closures, outcome>> /\ fp' = x
    BY <1>1, <2>1, <2>7 DEF Enter, Running, heap
  <2>9. /\ Innermost' = NewAct(closures[b].method, closures[b].homeId, LastOf(stack, n), BlockVars(b), Then(x)')
        /\ BlockTemps(b) \in Nat
        /\ SP' = h + 2 + BlockTemps(b) /\ stack'[x].savedFp = fp /\ stack'[x].savedIp = i
        /\ stack'[x].numArgs = n /\ \A p \in 1..h : p # h - n => stack'[p] = stack[p]
    BY <1>1, <1>4, <1>5, <2>1, <2>2, <2>3, <2>5, <2>7, <2>8, BlockEntered
  <2>10. Sends(x, n)
    <3>1. SP' \in Nat /\ x <= SP'
      BY <2>1, <2>9
    <3> QED BY <1>2, <2>1, <2>2, <2>6, <2>7, <2>8, <2>9, <3>1 DEF Sends
  <2>11. PICK u, l : Order(u, l)
    BY <1>1, SomeOrder
  <2>12. PICK a : a = ActsOfFrames
    OBVIOUS
  <2>13. ActsOfFrames' = Append(CallTop(a, n + 1), Innermost') /\ Then(x)' = [k |-> "push", w |-> Zero]
    BY <1>1, <2>8, <2>10, <2>11, <2>12, TopSends
  <2>14. Act!CallWith(n + 1, Innermost')
    <3>1. PICK y, m : y = Innermost' /\ m = n + 1
      OBVIOUS
    <3>2. ActsOfFrames' = Append(CallTop(a, m), y)
      BY <2>13, <3>1
    <3>3. Act!CallWith(m, y)
      BY <2>8, <2>12, <3>2, CallWithShape
    <3> QED BY <3>1, <3>3, Zenon
  <2>15. Len(a) = l /\ Len(a[l].ops) = Operands /\ EndOf(a[l].ops, n) = LastOf(stack, n)
    <3>1. n <= Operands
      BY <1>1, <1>2, RunningTop DEF Operands
    <3>2. EndOf(a[l].ops, n) = LastOf(stack, n)
      BY <1>1, <2>2, <2>11, <2>12, <3>1, LastOfOperands
    <3> QED BY <1>1, <2>11, <2>12, <3>2, TopParts
  <2>16. a[l].ops[Operands - n] = TopOp(n)
    <3>1. n \in 0..(Operands - 1)
      BY <1>1, <1>2, RunningTop DEF Operands
    <3>2. \A k \in 0..(Operands - 1) : a[l].ops[Operands - k] = TopOp(k)
      BY <1>1, <2>11, <2>12, TopParts
    <3> QED BY <3>1, <3>2
  <2>17. Act!Top.ops[Len(Act!Top.ops) - n] = TopOp(n)
    BY <2>12, <2>15, <2>16, Zenon DEF Act!Top
  <2>18. Innermost' = Act!BlockActivation(TopOp(n), Act!LastArgs(n), Act!Push)
    <3>1. Act!LastArgs(n) = LastOf(stack, n)
      BY <2>12, <2>15, Zenon DEF Act!LastArgs, Act!Top, EndOf
    <3>2. Act!Push = Then(x)'
      BY <2>13, Zenon DEF Act!Push, Zero
    <3>3. \A args, then : Act!BlockActivation(TopOp(n), args, then)
                 = NewAct(closures[b].method, closures[b].homeId, args, BlockVars(b), then)
      BY <1>5, BlockActs
    <3> QED BY <2>9, <3>1, <3>2, <3>3, Zenon
  <2>19. Len(Act!Top.ops) > n /\ Act!Top.ops[Len(Act!Top.ops) - n].k = "block"
    <3>1. Len(Act!Top.ops) = Operands
      BY <2>12, <2>15, Zenon DEF Act!Top
    <3> QED BY <1>2, <2>17, <3>1
  <2> QED BY <2>14, <2>17, <2>18, <2>19, Zenon DEF Act!CallBlock
<1> QED
  BY <1>1, <1>6, <1>7

\* The identities of the activations, and what becomes of their values.
LEMMA ActIds ==
  ASSUME IInv, Running, NEW u, NEW l, Order(u, l), NEW a, a = ActsOfFrames
  PROVE  \A j \in 1..l : a[j].id = Frame(u[j]).id /\ a[j].then = Then(u[j])
<1>1. /\ l \in Nat /\ l > 0 /\ l \in 1..l /\ u[l] = fp /\ ActsOfFrames[l] = Activation(fp, SP, ip.pc)
      /\ \A m \in 1..(l - 1) :
           ActsOfFrames[m] = Activation(u[m], EndBelow(u[m + 1]), Frame(u[m + 1]).savedIp.pc)
  BY ActsAreActivations
<1>2. \A f, e, pc : Activation(f, e, pc).id = Frame(f).id /\ Activation(f, e, pc).then = Then(f)
  BY DEF Activation
<1> QED
  <2> TAKE j \in 1..l
  <2>1. CASE j = l
    BY <1>1, <1>2, <2>1
  <2>2. CASE j # l
    <3>1. j \in 1..(l - 1)
      BY <1>1, <2>2
    <3> QED BY <1>1, <1>2, <3>1
  <2> QED BY <2>1, <2>2

\* ^ with a home that is not found: no activation is the home.
LEMMA HomeIsGone ==
  ASSUME Uses = {}, IInv, MayReturnNonLocal, HomeFrames = {}
  PROVE  Act!HomeGone /\ Act!Top.ops # <<>>
<1>1. Running /\ Operands > 0 /\ InUses
  BY HomeOfBlock
<1>2. PICK b \in 1..Len(closures) :
        /\ block_home_context_for_frame(fp) = closures[b].homeContext
        /\ Frame(fp).home = closures[b].homeId
        /\ closures[b].homeContext \in {Nil} \cup SomeContext
  BY HomeOfBlock
<1>3. InChain(fp) = FrameSet
  BY <1>1, ChainWhole
<1>4. ASSUME NEW f \in FrameSet, Frame(f).id = Frame(fp).home PROVE FALSE
  <2>1. HomeAlive
    BY <1>3, <1>4 DEF HomeAlive
  <2>2. block_home_context_for_frame(fp) # Nil /\ ~contexts[block_home_context_for_frame(fp).v].isBlock
    BY <1>1, <2>1 DEF InUses
  <2>3. PICK x : x = closures[b].homeContext
    OBVIOUS
  <2>4. x \in SomeContext /\ x.k = "context" /\ ~contexts[x.v].isBlock
    BY <1>2, <2>2, <2>3 DEF SomeContext, Ctx
  <2>5. HistoryOK(f)
    BY <1>1 DEF IInv, MachineInv, HistoryInv
  <2>6. Frame(f).link = x
    BY <1>2, <1>4, <2>3, <2>4, <2>5 DEF HistoryOK
  <2>7. f \in HomeFrames
    BY <1>2, <1>3, <2>3, <2>4, <2>6 DEF HomeFrames
  <2> QED BY <2>7
<1>5. PICK u, l : Order(u, l)
  BY <1>1, SomeOrder
<1>6. PICK a : a = ActsOfFrames
  OBVIOUS
<1>7. /\ Len(a) = l /\ a[l].home = Frame(fp).home /\ Operands \in Nat /\ Len(a[l].ops) = Operands
  BY <1>1, <1>5, <1>6, TopParts
<1>8. \A j \in 1..l : a[j].id = Frame(u[j]).id /\ u[j] \in FrameSet
  <2>1. \A j \in 1..l : u[j] \in FrameSet
    BY <1>5 DEF Order
  <2> QED BY <1>1, <1>5, <1>6, <2>1, ActIds
<1>9. \A j \in 1..l : a[j].id # a[l].home
  BY <1>4, <1>7, <1>8
<1>10. Act!HomeGone
  BY <1>6, <1>7, <1>9, Zenon DEF Act!HomeGone, Act!Top
<1>11. Act!Top.ops # <<>>
  <2>1. Act!Top = a[l]
    BY <1>6, <1>7, Zenon DEF Act!Top
  <2>2. a[l].ops # <<>>
    BY <1>1, <1>7
  <2> QED BY <2>1, <2>2, Zenon
<1> QED
  BY <1>10, <1>11

\* The words that cannotReturn: is sent with.
LEMMA CannotReturnWords ==
  ASSUME IInv, Running, Operands > 0, Frame(fp).isBlock,
         NEW st, st = Append([stack EXCEPT ![SP] = block_closure_for_frame(fp)], TopOp(0))
  PROVE  /\ st \in Seq(Held \cup FrameWord) /\ Len(st) = SP + 1 /\ st[SP + 1] = TopOp(0)
         /\ \A p \in 1..(SP - 1) : st[p] = stack[p]
         /\ AboveFrame(st, Len(st), fp, 1)
<1>4. /\ stack \in Seq(Held \cup FrameWord) /\ AboveFrame(stack, Len(stack), fp, 0) /\ TopOp(0) \in Held
  BY OperandsAbove
<1>5. /\ SP \in Nat /\ SP = Len(stack) /\ fp \in FrameSet /\ fp \in Nat
      /\ TempCount(fp) \in Nat /\ OperandBase(fp) = fp + 1 + TempCount(fp) /\ fp \in 1..SP
      /\ FramesInv
  BY RunningFacts DEF SP
<1>6. PICK w \in Held : w = block_closure_for_frame(fp)
  <2>1. block_closure_for_frame(fp) \in SomeBlock
    BY <1>5 DEF FramesInv, ClosureOK
  <2> QED BY <2>1 DEF Held
<1>7. PICK top \in Held : top = TopOp(0)
  BY <1>4
<1>8. PICK u : u = [stack EXCEPT ![SP] = w]
  OBVIOUS
<1>9. /\ u \in Seq(Held \cup FrameWord) /\ Len(u) = SP
      /\ \A p \in 1..SP : u[p] = IF p = SP THEN w ELSE stack[p]
  BY <1>4, <1>5, <1>8
<1>10. /\ st \in Seq(Held \cup FrameWord) /\ Len(st) = SP + 1 /\ st[SP + 1] = top
       /\ \A p \in 1..SP : st[p] = u[p]
  <2>1. st = Append(u, top)
    BY <1>6, <1>7, <1>8
  <2>2. PICK W : W = Held \cup FrameWord
    OBVIOUS
  <2>3. u \in Seq(W) /\ top \in W /\ SP = Len(u)
    BY <1>9, <2>2
  <2>4. st \in Seq(W) /\ Len(st) = Len(u) + 1 /\ st[Len(u) + 1] = top
        /\ \A p \in 1..Len(u) : st[p] = u[p]
    BY ONLY <2>1, <2>3
  <2> QED BY <2>2, <2>3, <2>4
<1>11. AboveFrame(st, Len(st), fp, 1)
  <2>1. OperandBase(fp) + 1 + 1 <= SP + 1 /\ SP # fp
    BY <1>4, <1>5 DEF AboveFrame
  <2>2. (\A p \in 1..fp : stack[p] = stack[p] /\ p \in 1..SP /\ p # SP) /\ \A p \in (fp + 1)..SP : stack[p] \in Held
    BY <1>4, <1>5, <2>1 DEF AboveFrame
  <2>3. \A p \in 1..fp : st[p] = stack[p]
    BY <1>9, <1>10, <2>2
  <2>4. \A p \in (fp + 1)..(SP + 1) : st[p] \in Held
    <3> TAKE p \in (fp + 1)..(SP + 1)
    <3>1. p = SP + 1 \/ (p \in 1..SP /\ p \in (fp + 1)..SP)
      BY <1>5
    <3> QED BY <1>9, <1>10, <2>2, <3>1
  <2>5. SP + 1 \in Nat
    BY <1>5
  <2> QED BY <1>5, <1>10, <2>1, <2>3, <2>4, <2>5 DEF AboveFrame
<1>12. \A p \in 1..(SP - 1) : st[p] = stack[p]
  <2>1. \A p \in 1..(SP - 1) : p \in 1..SP /\ p # SP
    BY <1>5
  <2> QED BY <1>9, <1>10, <2>1
<1> QED
  BY <1>7, <1>10, <1>11, <1>12

\* cannotReturn:
LEMMA SendCannotReturnCalls ==
  ASSUME Uses = {}, IInv, IInv', SendCannotReturn
  PROVE  Running /\ (Act!CannotReturn \/ Act!Stop)
<1>1. MayReturnNonLocal /\ HomeFrames = {} /\ Running /\ Operands > 0 /\ Frame(fp).isBlock
  BY DEF SendCannotReturn, MayReturnNonLocal, At
<1>2. PICK st : st = Append([stack EXCEPT ![SP] = block_closure_for_frame(fp)], TopOp(0))
  OBVIOUS
<1>3. PICK c \in Methods :
        /\ NumArgs[c] = 1
        /\ IF StackOverflow(SP + 1, NumTemps[c]) THEN Overflow
           ELSE /\ Enter(activate_method(st, fp, After, c, 1, NumTemps[c]), SP + 1, c)
                /\ UNCHANGED <<calls, heap>>
  BY <1>2 DEF SendCannotReturn
<1>4. CASE StackOverflow(SP + 1, NumTemps[c])
  BY <1>1, <1>3, <1>4, StopBytecodesStop
<1>5. ASSUME ~StackOverflow(SP + 1, NumTemps[c]) PROVE Act!CannotReturn
  <2>1. /\ SP \in Nat /\ fp \in FrameSet /\ fp \in Nat /\ fp \in 1..SP /\ Len(calls) \in Nat
        /\ OperandBase(fp) \in Nat /\ fp < OperandBase(fp) /\ OperandBase(fp) <= SP
    BY <1>1, RunningTop
  <2>2. PICK h \in Nat, x \in Nat, n, e \in Nat : h = SP + 1 /\ x = h + 1 /\ n = 1 /\ e = SP - 1
    <3>1. SP + 1 \in Nat /\ SP + 1 + 1 \in Nat /\ SP - 1 \in Nat
      BY <2>1
    <3> QED BY <3>1
  <2>3. /\ st \in Seq(Held \cup FrameWord) /\ Len(st) = SP + 1 /\ st[SP + 1] = TopOp(0)
        /\ \A p \in 1..(SP - 1) : st[p] = stack[p]
        /\ AboveFrame(st, Len(st), fp, 1)
    BY <1>1, <1>2, CannotReturnWords
  <2>4. PICK i : i = After
    OBVIOUS
  <2>5. ResumesIn(i, fp) /\ i.pc = -1
    BY <2>4 DEF ResumesIn, After
  <2>6. Enter(activate_method(st, fp, i, c, n, NumTemps[c]), h, c) /\ UNCHANGED <<calls, heap>>
    BY <1>3, <1>5, <2>2, <2>4
  <2>7. Running' /\ born' = born + 1 /\ UNCHANGED <<closures, outcome>> /\ fp' = x
    BY <1>1, <2>2, <2>6 DEF Enter, Running, heap
  <2>8. /\ Innermost' = NewAct(c, born + 1, LastOf(st, n), Zeros(NumTemps[c]), Then(x)')
        /\ SP' = h + 2 + NumTemps[c] /\ stack'[x].savedFp = fp /\ stack'[x].savedIp = i
        /\ stack'[x].numArgs = n /\ \A p \in 1..h : stack'[p] = st[p]
    <3>1. h = Len(st) /\ AboveFrame(st, h, fp, n) /\ n = NumArgs[c]
      BY <1>3, <2>2, <2>3
    <3> QED BY <1>1, <2>2, <2>3, <2>5, <2>6, <2>7, <3>1, MethodEntered
  <2>9. SP' \in Nat /\ x <= SP' /\ fp <= e /\ OperandBase(fp) <= e /\ e <= SP /\ e <= SP' /\ fp < x /\ fp <= SP'
    <3>1. PICK t \in Nat : t = NumTemps[c]
      BY CodeAssumption DEF Code
    <3>2. OperandBase(fp) + 1 <= SP
      BY <1>1, <2>1 DEF Operands
    <3>3. SP' = SP + 3 + t
      BY <2>1, <2>2, <2>8, <3>1
    <3>4. SP' \in Nat /\ x <= SP' /\ e <= SP' /\ fp <= SP'
      BY <2>1, <2>2, <3>3
    <3> QED BY <2>1, <2>2, <3>2, <3>4
  <2>10. \A p \in 1..e : stack'[p] = stack[p]
    <3>1. \A p \in 1..e : p \in 1..h /\ p \in 1..(SP - 1)
      BY <2>1, <2>2
    <3> QED BY <2>3, <2>8, <3>1
  <2>11. KeptTo(fp)
    <3>1. \A p \in 1..fp : p \in 1..e
      BY <2>1, <2>9
    <3> QED BY <2>1, <2>6, <2>9, <2>10, <3>1 DEF KeptTo
  <2>12. SameBelow(fp)
    <3>1. PICK N \in Nat : N = Len(calls)
      BY <2>1
    <3>2. /\ N <= Len(calls) /\ N <= Len(calls') /\ Len(calls') \in Nat
          /\ \A k \in 1..N : calls'[k] = calls[k]
          /\ \A k \in (N + 1)..Len(calls) : fp < calls[k].entry
          /\ \A k \in (N + 1)..Len(calls') : fp < calls'[k].entry
      BY <2>6, <3>1
    <3> QED BY <1>1, <2>1, <2>11, <3>2, SameBelowKept
  <2>13. Then(x)' = [k |-> "push", w |-> Zero] /\ EndBelow(x)' = x - stack'[x].numArgs - 2
    BY <1>1, <2>6, <2>7, <2>9, UncalledTop
  <2>14. CallsFromTop(x, e, n)
    <3>1. EndBelow(x)' = e /\ n \in Nat /\ n = SP - e
      BY <2>1, <2>2, <2>8, <2>13
    <3>2. \A p \in (fp + 1)..e : stack'[p] = stack[p]
      <4>1. \A p \in (fp + 1)..e : p \in 1..e
        BY <2>1
      <4> QED BY <2>10, <4>1
    <3> QED BY <2>7, <2>8, <2>9, <2>11, <2>12, <3>1, <3>2 DEF CallsFromTop
  <2>15. PICK u, l : Order(u, l)
    BY <1>1, SomeOrder
  <2>16. PICK a : a = ActsOfFrames
    OBVIOUS
  <2>17. ActsOfFrames' = Append(LastWords(a), Innermost')
    <3>1. stack'[x].savedIp.pc = -1 /\ n = 1 => ActsOfFrames' = Append(LastWords(a), Innermost')
      BY <1>1, <2>7, <2>14, <2>15, <2>16, TopCallsOn
    <3> QED BY <2>2, <2>5, <2>8, <3>1
  <2>18. LastOf(st, n) = LastOf(stack, n)
    <3>1. LastOf(st, n) = [j \in 1..n |-> st[h - n + j]]
      BY <2>2, <2>3 DEF LastOf
    <3>2. LastOf(stack, n) = [j \in 1..n |-> stack[SP - n + j]]
      BY DEF LastOf, SP
    <3>3. \A j \in 1..n : st[h - n + j] = stack[SP - n + j]
      <4> TAKE j \in 1..n
      <4>1. h - n + j = SP + 1 /\ SP - n + j = SP /\ SP - 0 = SP
        BY <2>1, <2>2
      <4>2. st[SP + 1] = stack[SP - 0]
        BY <2>3 DEF TopOp
      <4> QED BY <4>1, <4>2
    <3> QED BY <3>1, <3>2, <3>3, Zenon
  <2>19. Len(a) = l /\ Len(a[l].ops) = Operands /\ EndOf(a[l].ops, n) = LastOf(stack, n)
    <3>1. n \in Nat /\ n <= Operands
      BY <1>1, <2>1, <2>2 DEF Operands
    <3>2. EndOf(a[l].ops, n) = LastOf(stack, n)
      BY <1>1, <2>15, <2>16, <3>1, LastOfOperands
    <3> QED BY <1>1, <2>15, <2>16, <3>2, TopParts
  <2>20. Innermost' = Act!Activation(c, born + 1, Act!LastArgs(1), Act!Zeros(NumTemps[c]), Act!Push)
    <3>1. Act!LastArgs(1) = LastOf(st, n)
      BY <2>2, <2>16, <2>18, <2>19, Zenon DEF Act!LastArgs, Act!Top, EndOf
    <3>2. Act!Zeros(NumTemps[c]) = Zeros(NumTemps[c])
      BY Zenon DEF Act!Zeros, Zeros, Zero
    <3>3. Act!Push = [k |-> "push", w |-> Zero]
      BY Zenon DEF Act!Push, Zero
    <3> QED BY <2>8, <2>13, <3>1, <3>2, <3>3, Zenon DEF Act!Activation, NewAct
  <2>21. Act!HomeGone /\ Act!Top.ops # <<>>
    BY <1>1, HomeIsGone
  <2>22. BlocksOfClosures' = BlocksOfClosures
    BY <2>7, Zenon DEF BlocksOfClosures
  <2> QED BY <2>7, <2>16, <2>17, <2>20, <2>21, <2>22, Zenon DEF Act!CannotReturn, LastWords
<1> QED
  BY <1>1, <1>4, <1>5

\* Block b is activated above the frame g, on st.
EntersBlock(st, h, x, g, i, n, b) ==
  /\ st \in Seq(Held \cup FrameWord) /\ h \in Nat /\ h = Len(st) /\ x \in Nat /\ x = h + 1
  /\ b \in 1..Len(closures) /\ AboveFrame(st, h, g, n) /\ ResumesIn(i, g)
  /\ Enter(activate_block_call(st, g, i, b, n), h, closures[b].method) /\ UNCHANGED heap

\* Its activation, and its frame.
LEMMA BlockEnters ==
  ASSUME IInv, Running, IInv', Running', NEW st, NEW h, NEW x, NEW g, NEW i, NEW n, NEW b,
         EntersBlock(st, h, x, g, i, n, b)
  PROVE  /\ Innermost' = NewAct(closures[b].method, closures[b].homeId, LastOf(st, n), BlockVars(b), Then(x)')
         /\ BlockTemps(b) \in Nat
         /\ SP' = h + 2 + BlockTemps(b) /\ stack'[x].savedFp = g /\ stack'[x].savedIp = i
         /\ stack'[x].numArgs = n /\ \A p \in 1..h : p # h - n => stack'[p] = st[p]
<1>1. /\ st \in Seq(Held \cup FrameWord) /\ h \in Nat /\ h = Len(st) /\ x \in Nat /\ x = h + 1
      /\ b \in 1..Len(closures) /\ AboveFrame(st, h, g, n) /\ ResumesIn(i, g)
      /\ Enter(activate_block_call(st, g, i, b, n), h, closures[b].method) /\ UNCHANGED heap
  BY Zenon DEF EntersBlock
<1> HIDE DEF Held, FrameWord
<1> QED
  BY <1>1, BlockEntered

\* What becomes of the value of the block that a primitive calls.
ThenOf(r) ==
  IF r.kind \in {"onDo", "transaction"} THEN [k |-> "push", w |-> Zero]
  ELSE IF r.kind = "ensure" THEN [k |-> "cleanup", w |-> r.cleanup]
  ELSE [k |-> "restore", w |-> r.result]

\* The new frame x of block b, for the call, above the frame g.
InvokedIn(x, g, b, call) ==
  /\ x \in Nat /\ g < x /\ fp' = x /\ stack'[x].savedFp = g /\ stack'[x].savedIp = call.ip
  /\ Innermost' = NewAct(closures[b].method, closures[b].homeId, <<>>, BlockVars(b), ThenOf(call))
  /\ KeptTo(g) /\ SameBelow(g)
  /\ EndBelow(x)' = call.savedSp /\ SP' \in Nat /\ call.savedSp <= SP'
  /\ \A p \in 1..call.savedSp : stack'[p] = stack[p]
  /\ born' = born + 1 /\ UNCHANGED <<closures, outcome>>

\* The last record of calls is that of the frame on top.
LEMMA CalledTop ==
  ASSUME IInv', Running', NEW k \in Nat, k >= 2, k = Len(calls'), NEW r, r = calls'[k], NEW x, r.entry = x
  PROVE  EndBelow(x)' = r.savedSp /\ Then(x)' = ThenOf(r)
<1>1. CallsAt(x)' = {k} /\ CallAt(x)' = r
  <2>1. \A j \in 2..Len(calls') : CallsAt(calls[j].entry)' = {j} /\ CallAt(calls[j].entry)' = calls'[j]
    BY RunningCallerNext
  <2>2. k \in 2..Len(calls')
    OBVIOUS
  <2>3. CallsAt(calls[k].entry)' = {k} /\ CallAt(calls[k].entry)' = calls'[k]
    BY <2>1, <2>2
  <2>4. calls'[k].entry = x
    OBVIOUS
  <2>5. CallsAt(calls[k].entry)' = CallsAt(x)' /\ CallAt(calls[k].entry)' = CallAt(x)'
    BY <2>4, Zenon DEF CallsAt, CallAt
  <2> QED BY <2>3, <2>5
<1>2. CallsAt(x)' # {}
  BY <1>1
<1>3. EndBelow(x)' = r.savedSp
  BY <1>1, <1>2, Zenon DEF EndBelow
<1>4. Then(x)' = ThenOf(r)
  BY <1>1, <1>2, Zenon DEF Then, ThenOf
<1> QED
  BY <1>3, <1>4

\* invoke_block_callable runs a block without arguments, or there is no room.
LEMMA InvokeActs ==
  ASSUME IInv, Running, IInv', NEW st, NEW g, NEW b, NEW call, NEW m, Invokes(st, g, b, call, m)
  PROVE  Overflow \/ (Running' /\ \E x : InvokedIn(x, g, b, call))
<1> USE DEF Invokes
<1>1. /\ HeapInv /\ StackInv /\ FramesInv /\ calls \in Seq(CallRecord)
      /\ g \in Nat /\ OperandBase(g) \in Nat /\ g < OperandBase(g)
  BY RunningFacts, FrameFacts
<1>2. PICK on : on = Append(st, Blk(b))
  OBVIOUS
<1>3. PICK e \in Nat, h \in Nat, x \in Nat : e = Len(st) /\ h = e + 1 /\ x = h + 1
  OBVIOUS
<1>4. Blk(b) \in Held
  BY DEF Held, SomeBlock
<1>5. /\ on \in Seq(Held \cup FrameWord) /\ Len(on) = h /\ on[h] = Blk(b)
      /\ \A p \in 1..e : on[p] = st[p]
  BY <1>2, <1>3, <1>4
<1>6. AboveFrame(on, h, g, 0)
  <2>1. OperandBase(g) + 0 + 1 <= h /\ h \in Nat
    BY <1>1, <1>3
  <2>2. ASSUME NEW p \in 1..g PROVE on[p] = stack[p]
    <3>1. p \in 1..e
      BY <1>1, <1>3
    <3> QED BY <1>5, <3>1
  <2>3. ASSUME NEW p \in (g + 1)..h PROVE on[p] \in Held
    <3>1. p = h \/ (p \in 1..e /\ p \in (g + 1)..e)
      BY <1>1, <1>3
    <3> QED BY <1>3, <1>4, <1>5, <3>1
  <2> QED BY <1>5, <2>1, <2>2, <2>3 DEF AboveFrame
<1>7. CASE StackOverflow(Len(on), NumTemps[closures[b].method] + Len(closures[b].copied))
  BY <1>2, <1>7 DEF Invoke
<1>8. CASE ~StackOverflow(Len(on), NumTemps[closures[b].method] + Len(closures[b].copied))
  <2>1. PICK r : r = [entry |-> x, kind |-> call.kind, savedSp |-> call.savedSp,
                      savedFp |-> g, ip |-> call.ip, base |-> call.base,
                      cleanup |-> call.cleanup, result |-> call.result]
    OBVIOUS
  <2>2. PICK i, n : i = call.ip /\ n = 0
    OBVIOUS
  <2>3. /\ Enter(activate_block_call(on, g, i, b, n), h, closures[b].method)
        /\ calls' = Append(SubSeq(calls, 1, m), r)
        /\ UNCHANGED heap
    <3>1. call.level - 1 = m
      OBVIOUS
    <3>2. /\ Enter(activate_block_call(on, g, call.ip, b, 0), Len(on), closures[b].method)
          /\ calls' = Append(SubSeq(calls, 1, call.level - 1),
                             [entry |-> Len(on) + 1, kind |-> call.kind, savedSp |-> call.savedSp,
                              savedFp |-> g, ip |-> call.ip, base |-> call.base,
                              cleanup |-> call.cleanup, result |-> call.result])
          /\ UNCHANGED heap
      BY <1>2, <1>8 DEF Invoke
    <3>3. Len(on) + 1 = x /\ Len(on) = h
      BY <1>3, <1>5
    <3> QED BY <2>1, <2>2, <3>1, <3>2, <3>3, Zenon
  <2>4. Running' /\ born' = born + 1 /\ UNCHANGED <<closures, outcome>> /\ fp' = x
    BY <1>3, <2>3 DEF Enter, Running, heap
  <2>5. ResumesIn(i, g)
    <3> HIDE DEF Ip, After
    <3> QED BY <2>2 DEF Waits, ResumesIn
  <2>6. /\ Innermost' = NewAct(closures[b].method, closures[b].homeId, LastOf(on, n), BlockVars(b), Then(x)')
        /\ BlockTemps(b) \in Nat
        /\ SP' = h + 2 + BlockTemps(b) /\ stack'[x].savedFp = g /\ stack'[x].savedIp = i
        /\ stack'[x].numArgs = n /\ \A p \in 1..h : p # h - n => stack'[p] = on[p]
    <3>1. h = Len(on) /\ AboveFrame(on, h, g, n)
      BY <1>5, <1>6, <2>2
    <3>2. EntersBlock(on, h, x, g, i, n, b)
      <4> HIDE DEF Held, FrameWord
      <4> QED BY <1>3, <1>5, <2>3, <2>5, <3>1 DEF EntersBlock
    <3> HIDE DEF Invokes
    <3> QED BY <2>4, <3>2, BlockEnters
  <2>7. \A p \in 1..e : stack'[p] = st[p]
    <3>1. \A p \in 1..e : p \in 1..h /\ p # h - n
      BY <1>3, <2>2
    <3> QED BY <1>5, <2>6, <3>1
  <2>8. SP' \in Nat /\ x <= SP'
    <3>1. PICK t \in Nat : t = BlockTemps(b)
      BY <2>6
    <3>2. SP' = h + 2 + t
      BY <2>6, <3>1
    <3> QED BY <1>3, <3>2
  <2>9. KeptTo(g)
    <3>1. (\A p \in 1..g : p \in 1..e) /\ g <= SP'
      BY <1>1, <1>3, <2>8
    <3>2. \A p \in 1..g : stack'[p] = stack[p]
      BY <2>7, <3>1
    <3> QED BY <2>3, <2>8, <3>1, <3>2 DEF KeptTo
  <2>10. PICK M \in Nat : M = m /\ M >= 1 /\ M <= Len(calls)
    BY <1>1
  <2>11. /\ Len(calls') = M + 1 /\ calls'[M + 1] = r /\ \A k \in 1..M : calls'[k] = calls[k]
    <3>1. PICK W : W = CallRecord \cup {r}
      OBVIOUS
    <3>2. calls \in Seq(W) /\ r \in W
      BY <1>1, <3>1, WiderSeq
    <3>3. PICK q : q = SubSeq(calls, 1, M)
      OBVIOUS
    <3>4. q \in Seq(W) /\ Len(q) = M /\ \A k \in 1..M : q[k] = calls[k]
      BY <2>10, <3>2, <3>3
    <3>5. calls' = Append(q, r)
      BY <2>3, <2>10, <3>3
    <3> QED BY <3>2, <3>4, <3>5
  <2>12. r.entry = x /\ r.kind = call.kind /\ r.savedSp = call.savedSp /\ r.cleanup = call.cleanup
         /\ r.result = call.result
    BY <2>1
  <2>13. SameBelow(g)
    <3>1. g < x
      BY <1>1, <1>3
    <3>2. /\ M <= Len(calls) /\ M <= Len(calls') /\ Len(calls') \in Nat
          /\ \A k \in 1..M : calls'[k] = calls[k]
          /\ \A k \in (M + 1)..Len(calls) : g < calls[k].entry
          /\ \A k \in (M + 1)..Len(calls') : g < calls'[k].entry
      BY <2>10, <2>11, <2>12, <3>1
    <3> QED BY <2>9, <3>2, SameBelowKept
  <2>14. EndBelow(x)' = call.savedSp /\ Then(x)' = ThenOf(call)
    <3>1. PICK K \in Nat : K = M + 1 /\ K >= 2
      BY <2>10
    <3>2. EndBelow(x)' = r.savedSp /\ Then(x)' = ThenOf(r)
      BY <2>4, <2>11, <2>12, <3>1, CalledTop
    <3>3. ThenOf(r) = ThenOf(call)
      BY <2>12, Zenon DEF ThenOf
    <3> QED BY <2>12, <3>2, <3>3
  <2>15. call.savedSp \in Nat /\ call.savedSp <= e /\ call.savedSp <= SP'
    <3>1. call.savedSp \in Nat /\ call.savedSp <= e
      BY <1>3 DEF Waits
    <3> QED BY <1>3, <2>8, <3>1
  <2>16. \A p \in 1..call.savedSp : stack'[p] = stack[p]
    <3>1. \A p \in 1..call.savedSp : p \in 1..e
      BY <2>15
    <3> QED BY <2>7, <3>1
  <2>17. Innermost' = NewAct(closures[b].method, closures[b].homeId, <<>>, BlockVars(b), ThenOf(call))
    <3>1. LastOf(on, n) = <<>>
      BY <2>2, LastOfNone
    <3> QED BY <2>6, <2>14, <3>1, Zenon
  <2>18. x \in Nat /\ g < x /\ fp' = x /\ stack'[x].savedFp = g /\ stack'[x].savedIp = call.ip
    BY <1>1, <1>3, <2>2, <2>4, <2>6
  <2>19. InvokedIn(x, g, b, call)
    BY <2>4, <2>8, <2>9, <2>13, <2>14, <2>15, <2>16, <2>17, <2>18, Zenon DEF InvokedIn
  <2> QED BY <2>4, <2>19
<1> QED
  BY <1>7, <1>8

\* ensure:, on:do: and transaction:
LEMMA SendProtectedProtects ==
  ASSUME IInv, IInv', SendProtected
  PROVE  Running /\ (Act!Protect \/ Act!Stop)
<1>1. PICK kind, n, i, b, call, st : Protecting(kind, n, i, b, call, st)
  BY ProtectedCall
<1>2. /\ Running /\ n \in 2..3 /\ i \in 1..n /\ n <= Operands /\ stack[SP - n + i] = Blk(b)
      /\ Invokes(st, fp, b, call, Len(calls))
      /\ call.kind = kind /\ kind \in {"ensure", "onDo", "transaction"}
      /\ call.savedSp = SP - n /\ call.ip.pc = ip.pc + 1
      /\ (kind = "ensure" => n = 2 /\ call.cleanup = stack[SP])
  BY <1>1, Zenon DEF Protecting
<1>3. Overflow \/ (Running' /\ \E x : InvokedIn(x, fp, b, call))
  BY <1>2, InvokeActs
<1>4. CASE Overflow
  BY <1>2, <1>4, StopBytecodesStop
<1>5. ASSUME Running', NEW x, InvokedIn(x, fp, b, call) PROVE Act!Protect
  <2>1. /\ x \in Nat /\ fp < x /\ fp' = x /\ stack'[x].savedFp = fp /\ stack'[x].savedIp = call.ip
        /\ Innermost' = NewAct(closures[b].method, closures[b].homeId, <<>>, BlockVars(b), ThenOf(call))
        /\ KeptTo(fp) /\ SameBelow(fp)
        /\ EndBelow(x)' = call.savedSp /\ SP' \in Nat /\ call.savedSp <= SP'
        /\ \A p \in 1..call.savedSp : stack'[p] = stack[p]
        /\ born' = born + 1 /\ UNCHANGED <<closures, outcome>>
    BY <1>5, Zenon DEF InvokedIn
  <2>2. b \in 1..Len(closures)
    BY <1>2, Zenon DEF Invokes
  <2>3. /\ SP \in Nat /\ fp \in Nat /\ OperandBase(fp) \in Nat /\ fp < OperandBase(fp)
        /\ Operands = SP - OperandBase(fp)
    BY <1>2, RunningTop DEF Operands
  <2>4. PICK e : e = SP - n
    OBVIOUS
  <2>5. e \in Nat /\ e <= SP /\ OperandBase(fp) <= e /\ n = SP - e /\ call.savedSp = e /\ n \in Nat
    BY <1>2, <2>3, <2>4
  <2>6. \A p \in (fp + 1)..e : stack'[p] = stack[p]
    <3>1. \A p \in (fp + 1)..e : p \in 1..call.savedSp
      BY <2>3, <2>5
    <3> QED BY <2>1, <3>1
  <2>7. CallsFromTop(x, e, n)
    BY <2>1, <2>5, <2>6, Zenon DEF CallsFromTop
  <2>8. PICK u, l : Order(u, l)
    BY <1>2, SomeOrder
  <2>9. PICK a : a = ActsOfFrames
    OBVIOUS
  <2>10. stack'[x].savedIp.pc = ip.pc + 1
    BY <1>2, <2>1
  <2>11. ActsOfFrames' = Append(CallTop(a, n), Innermost')
    <3>1. /\ stack'[x].savedIp.pc = ip.pc + 1 => ActsOfFrames' = Append(CallTop(a, n), Innermost')
          /\ stack'[x].savedIp.pc = -1 /\ n = 1 => ActsOfFrames' = Append(LastWords(a), Innermost')
      BY <1>2, <1>5, <2>7, <2>8, <2>9, TopCallsOn
    <3> QED BY <2>10, <3>1
  <2>12. Act!CallWith(n, Innermost')
    <3>1. PICK y : y = Innermost'
      OBVIOUS
    <3>2. Act!CallWith(n, y)
      BY <2>1, <2>9, <2>11, <3>1, CallWithShape
    <3> QED BY <3>1, <3>2
  <2>13. Len(a) = l /\ Len(a[l].ops) = Operands /\ EndOf(a[l].ops, n) = LastOf(stack, n)
    <3>1. EndOf(a[l].ops, n) = LastOf(stack, n)
      BY <1>2, <2>5, <2>8, <2>9, LastOfOperands
    <3> QED BY <1>2, <2>8, <2>9, <3>1, TopParts
  <2>14. PICK o : o = Act!LastArgs(n)
    OBVIOUS
  <2>15. o = LastOf(stack, n)
    BY <2>9, <2>13, <2>14, Zenon DEF Act!LastArgs, Act!Top, EndOf
  <2>16. o[i] = Blk(b) /\ (kind = "ensure" => o[2] = call.cleanup)
    <3>1. \A j \in 1..n : o[j] = stack[SP - n + j]
      BY <2>15 DEF LastOf, SP
    <3>2. kind = "ensure" => 2 \in 1..n /\ SP - n + 2 = SP
      BY <1>2, <2>3
    <3> QED BY <1>2, <3>1, <3>2
  <2>17. n <= Len(Act!Top.ops)
    BY <1>2, <2>9, <2>13 DEF Act!Top
  <2>18. \A then : Act!BlockActivation(o[i], <<>>, then)
                 = NewAct(closures[b].method, closures[b].homeId, <<>>, BlockVars(b), then)
    <3>1. PICK w : w = o[i]
      OBVIOUS
    <3>2. \A then : Act!BlockActivation(w, <<>>, then)
                 = NewAct(closures[b].method, closures[b].homeId, <<>>, BlockVars(b), then)
      BY <2>2, <2>16, <3>1, BlockActs
    <3> QED BY <3>1, <3>2
  <2>19. \/ ThenOf(call) = Act!Push
         \/ ThenOf(call) = Act!Cleanup(o[2]) /\ n = 2
    <3>1. CASE kind \in {"onDo", "transaction"}
      BY <1>2, <3>1, Zenon DEF ThenOf, Act!Push, Zero
    <3>2. CASE kind = "ensure"
      <4>1. ThenOf(call) = [k |-> "cleanup", w |-> call.cleanup]
        BY <1>2, <3>2 DEF ThenOf
      <4> QED BY <1>2, <2>16, <3>2, <4>1 DEF Act!Cleanup
    <3> QED BY <1>2, <3>1, <3>2
  <2>20. PICK j \in 1..n : \/ ThenOf(call) = Act!Push
                           \/ ThenOf(call) = Act!Cleanup(o[j])
    <3>1. 1 \in 1..n /\ 2 \in 1..n
      BY <1>2
    <3> QED BY <2>19, <3>1
  <2>21. \/ Act!CallWith(n, Act!BlockActivation(o[i], <<>>, Act!Push))
         \/ Act!CallWith(n, Act!BlockActivation(o[i], <<>>, Act!Cleanup(o[j])))
    <3>1. Innermost' = Act!BlockActivation(o[i], <<>>, ThenOf(call))
      BY <2>1, <2>18
    <3>2. Act!CallWith(n, Act!BlockActivation(o[i], <<>>, ThenOf(call)))
      BY <2>12, <3>1, Zenon
    <3> QED BY <2>20, <3>2, Zenon
  <2>22. o[i].k = "block" /\ i \in 1..3 /\ j \in 1..3 /\ i <= n /\ j <= n
    BY <1>2, <2>16 DEF Blk
  <2>23. n \in 2..3
    BY <1>2
  <2> QED BY <2>14, <2>17, <2>21, <2>22, <2>23, Zenon DEF Act!Protect
<1> QED
  BY <1>2, <1>3, <1>4, <1>5

\* Control is back in frame g: the frame f above it is gone, and its value v is
\* on the h words below.
BackWith(g, f, h, v) ==
  /\ KeptTo(g) /\ SameBelow(g) /\ fp' = g /\ ip'.pc = Frame(f).savedIp.pc
  /\ h \in Nat /\ h = EndBelow(f) /\ h <= SP /\ OperandBase(g) <= h /\ SP' = h + 1
  /\ stack'[h + 1] = v /\ \A p \in 1..h : stack'[p] = stack[p]

\* The frames then.
LEMMA BackFrames ==
  ASSUME IInv, Running, IInv', Running', NEW g \in FrameSet, KeptTo(g), fp' = g
  PROVE  FrameSet' = {h \in FrameSet : h <= g}
<1>1. /\ g \in Nat /\ g > 0 /\ HeapInv /\ StackInv /\ FramesInv /\ \A h \in FrameSet : h \in Nat /\ h > 0
  BY RunningFacts, FrameFacts
<1>2. \A p \in 1..g : p \in FrameSet' <=> p \in FrameSet
  BY <1>1, KeptFrames
<1>3. /\ SP' \in Nat /\ \A h \in FrameSet' : h <= g
  BY RunningTopNext
<1>4. \A h \in FrameSet' : h \in 1..g
  BY <1>1, <1>3 DEF FrameSet
<1>5. \A h \in FrameSet : h <= g => h \in 1..g
  BY <1>1
<1> QED
  BY <1>2, <1>3, <1>4, <1>5

\* The parts of an activation.
LEMMA ActParts ==
  ASSUME NEW f, NEW e, NEW pc, NEW r, r = Activation(f, e, pc)
  PROVE  r.vars = FrameTemps(f) /\ r.ops = SubSeq(stack, OperandBase(f) + 1, e) /\ r.pc = pc
<1>1. PICK o, w, s, n, y, z, t : /\ o = SubSeq(stack, OperandBase(f) + 1, e) /\ w = FrameTemps(f)
                              /\ s = FrameArgs(f) /\ n = Frame(f).id /\ y = Frame(f).home
                              /\ z = Frame(f).method /\ t = Then(f)
  OBVIOUS
<1>2. r = [code |-> z, id |-> n, home |-> y, args |-> s, vars |-> w, ops |-> o, pc |-> pc, then |-> t]
  BY <1>1, Zenon DEF Activation
<1>3. r.vars = w /\ r.ops = o /\ r.pc = pc
  BY ONLY <1>2
<1> QED
  BY <1>1, <1>3

\* The activation of g takes the value.
LEMMA BackDelivers ==
  ASSUME IInv, Running, IInv', Running', NEW u, NEW l, Order(u, l), NEW a, a = ActsOfFrames,
         NEW m \in 1..(l - 1), NEW g, g = u[m], NEW f, f = u[m + 1], NEW h, NEW v, BackWith(g, f, h, v)
  PROVE  ActsOfFrames' = DeliverTop(SubSeq(a, 1, m), v)
<1>1. /\ KeptTo(g) /\ SameBelow(g) /\ fp' = g /\ ip'.pc = Frame(f).savedIp.pc
      /\ h \in Nat /\ h = EndBelow(f) /\ h <= SP /\ OperandBase(g) <= h /\ SP' = h + 1
      /\ stack'[h + 1] = v /\ \A p \in 1..h : stack'[p] = stack[p]
  BY Zenon DEF BackWith
<1>2. l \in Nat /\ m \in 1..l /\ m \in Nat /\ m <= l /\ m > 0
  BY DEF Order
<1>3. g \in FrameSet /\ g \in Nat /\ OperandBase(g) \in Nat /\ g < OperandBase(g)
  BY <1>2, RunningFrames DEF Order
<1>4. FrameSet' = {x \in FrameSet : x <= g}
  BY <1>1, <1>3, BackFrames
<1>5. ActsOfFrames' =
           LastIs(ActsOfFrames, m,
                  Changed(ActsOfFrames[m], FrameTemps(fp)', SubSeq(stack', OperandBase(fp)' + 1, SP'), ip'.pc))
  BY <1>1, <1>2, <1>4, BackInActs
<1>6. g \in FrameSet' /\ OperandBase(g)' = OperandBase(g) /\ TempCount(g)' = TempCount(g)
  <2>1. g <= g
    BY <1>3
  <2> QED BY <1>1, <1>3, <2>1, SameParts
<1>7. /\ FrameTemps(g)' = FrameTemps(g)
      /\ SubSeq(stack', OperandBase(g) + 1, SP') =
           Append(SubSeq(stack, OperandBase(g) + 1, h), stack'[h + 1])
  <2>1. \A p \in (g + 1)..h : stack'[p] = stack[p]
    <3>1. \A p \in (g + 1)..h : p \in 1..h
      BY <1>1, <1>3
    <3> QED BY <1>1, <3>1
  <2> QED BY <1>1, <1>3, <1>6, <2>1, PushedOperands
<1>8. OperandBase(fp)' = OperandBase(g)' /\ FrameTemps(fp)' = FrameTemps(g)'
  BY <1>1, Zenon DEF OperandBase, FrameTemps, TempCount, frame_temp, block_closure_for_frame, Frame
<1>9. a[m] = Activation(g, h, Frame(f).savedIp.pc)
  BY <1>1, ActsAreActivations
<1>10. a[m].vars = FrameTemps(g) /\ a[m].ops = SubSeq(stack, OperandBase(g) + 1, h) /\ a[m].pc = Frame(f).savedIp.pc
  BY <1>9, ActParts
<1>11. PICK O, V, P : O = Append(a[m].ops, v) /\ V = a[m].vars /\ P = a[m].pc
  OBVIOUS
<1>12. ActsOfFrames' = LastIs(a, m, Changed(a[m], V, O, P))
  <2>1. FrameTemps(fp)' = V
    BY <1>7, <1>8, <1>10, <1>11, Zenon
  <2>2. SubSeq(stack', OperandBase(fp)' + 1, SP') = O
    BY <1>1, <1>6, <1>7, <1>8, <1>10, <1>11, Zenon
  <2>3. ip'.pc = P
    BY <1>1, <1>10, <1>11, Zenon
  <2> QED BY <1>5, <2>1, <2>2, <2>3, Zenon
<1>13. Indexed(a, l) /\ IsAct(a[m])
  BY <1>2, TopParts
<1>14. PICK r : r = SubSeq(a, 1, m)
  OBVIOUS
<1>15. r = [j \in 1..m |-> a[j]] /\ Indexed(r, m)
  BY <1>2, <1>13, <1>14, RestShape
<1>16. r[m] = a[m] /\ \A j \in 1..m : r[j] = a[j]
  BY <1>2, <1>15
<1>17. DeliverTop(r, v) = LastIs(r, m, Changed(r[m], V, O, P))
  <2>1. PICK y : y = r[m]
    OBVIOUS
  <2>2. \A w : DeliverTop(r, w) = LastIs(r, m, Changed(y, y.vars, Append(y.ops, w), y.pc))
    BY <1>13, <1>15, <1>16, <2>1, TopShapes
  <2>3. y.vars = V /\ y.pc = P /\ Append(y.ops, v) = O
    BY <1>11, <1>16, <2>1
  <2> QED BY <2>1, <2>2, <2>3
<1>18. LastIs(r, m, Changed(r[m], V, O, P)) = LastIs(a, m, Changed(a[m], V, O, P))
  <2>1. PICK y : y = Changed(a[m], V, O, P)
    OBVIOUS
  <2>2. LastIs(r, m, y) = LastIs(a, m, y)
    BY <1>16 DEF LastIs
  <2> QED BY <1>16, <2>1, <2>2
<1> QED
  BY <1>12, <1>14, <1>17, <1>18

\* The frame f is gone, and a block that must run first is above the frame g.
LEMMA CleanupDelivers ==
  ASSUME IInv, Running, IInv', Running', NEW u, NEW l, Order(u, l), NEW a, a = ActsOfFrames,
         NEW m \in 1..(l - 1), NEW g, g = u[m], NEW f, f = u[m + 1],
         NEW x, NEW b, NEW call, InvokedIn(x, g, b, call), call.savedSp = EndBelow(f),
         call.ip.pc = Frame(f).savedIp.pc
  PROVE  ActsOfFrames' = Append(SubSeq(a, 1, m), Innermost')
<1>1. /\ x \in Nat /\ g < x /\ fp' = x /\ stack'[x].savedFp = g /\ stack'[x].savedIp = call.ip
      /\ KeptTo(g) /\ SameBelow(g)
      /\ EndBelow(x)' = call.savedSp /\ call.savedSp <= SP'
      /\ \A p \in 1..call.savedSp : stack'[p] = stack[p]
  BY Zenon DEF InvokedIn
<1>2. l \in Nat /\ m \in 1..l /\ m \in Nat /\ m <= l /\ m > 0
  BY DEF Order
<1>3. g \in FrameSet /\ g \in Nat /\ OperandBase(g) \in Nat /\ g < OperandBase(g) /\ SP \in Nat
  BY <1>2, RunningFrames DEF Order
<1>4. PICK h : h = EndBelow(f)
  OBVIOUS
<1>5. h \in Nat /\ OperandBase(g) <= h /\ h <= SP
  <2>1. h \in Nat /\ OperandBase(g) <= h /\ h + 2 <= f
    BY <1>4, EndsBelow
  <2>2. f \in Nat /\ f \in 1..SP
    BY <1>2, RunningFrames DEF Order
  <2> QED BY <1>3, <2>1, <2>2
<1>6. \A p \in (g + 1)..h : stack'[p] = stack[p]
  <2>1. \A p \in (g + 1)..h : p \in 1..call.savedSp
    BY <1>3, <1>4, <1>5
  <2> QED BY <1>1, <2>1
<1>7. ActsOfFrames' =
           NewOn(ActsOfFrames, m,
                 Changed(ActsOfFrames[m], FrameTemps(g), SubSeq(stack, OperandBase(g) + 1, h),
                         stack'[x].savedIp.pc),
                 Innermost')
  <2>1. EndBelow(x)' = h /\ h <= SP'
    BY <1>1, <1>4
  <2> QED BY <1>1, <1>2, <1>5, <1>6, <2>1, EnterActs
<1>8. a[m] = Activation(g, h, Frame(f).savedIp.pc)
  BY <1>4, ActsAreActivations
<1>9. a[m].vars = FrameTemps(g) /\ a[m].ops = SubSeq(stack, OperandBase(g) + 1, h) /\ a[m].pc = Frame(f).savedIp.pc
  BY <1>8, ActParts
<1>10. Indexed(a, l) /\ IsAct(a[m])
  BY <1>2, TopParts
<1>11. Changed(a[m], FrameTemps(g), SubSeq(stack, OperandBase(g) + 1, h), stack'[x].savedIp.pc) = a[m]
  <2>1. Changed(a[m], a[m].vars, a[m].ops, a[m].pc) = a[m]
    BY <1>10, ChangedBack
  <2>2. stack'[x].savedIp.pc = a[m].pc
    BY <1>1, <1>9
  <2> QED BY <1>9, <2>1, <2>2, Zenon
<1>12. ActsOfFrames' = NewOn(a, m, a[m], Innermost')
  BY <1>7, <1>11, Zenon
<1>13. PICK r : r = SubSeq(a, 1, m)
  OBVIOUS
<1>14. r = [j \in 1..m |-> a[j]] /\ Indexed(r, m)
  BY <1>2, <1>10, <1>13, RestShape
<1>15. r[m] = a[m] /\ \A j \in 1..m : r[j] = a[j]
  BY <1>2, <1>14
<1>16. PICK y : y = Innermost'
  OBVIOUS
<1>17. Append(r, y) = Longer(r, m, y)
  BY <1>14, AppendedOn
<1>18. Longer(r, m, y) = NewOn(a, m, a[m], y)
  <2>1. \A j \in 1..(m + 1) : j # m + 1 => j \in 1..m
    BY <1>2
  <2> QED BY <1>15, <2>1 DEF Longer, NewOn
<1> QED
  BY <1>12, <1>13, <1>16, <1>17, <1>18

\* The value v of the e-th activation goes where it should.
DeliversFrom(a, e, v) == Act!Deliver(SubSeq(a, 1, e - 1), a[e].then, v)

\* There is nobody to take it but the host.
LEMMA DeliversToHost ==
  ASSUME NEW a, NEW l, Indexed(a, l), NEW v, a[1].then = [k |-> "push", w |-> Zero],
         outcome' = "done", UNCHANGED <<closures, born>>
  PROVE  DeliversFrom(a, 1, v)
<1>1. PICK rest, t : rest = SubSeq(a, 1, 1 - 1) /\ t = a[1].then
  OBVIOUS
<1>2. rest = <<>>
  <2>1. 1 - 1 = 0 /\ 0 \in Nat
    OBVIOUS
  <2>2. l \in Nat /\ 0 <= l
    BY DEF Indexed
  <2>3. SubSeq(a, 1, 0) = <<>>
    BY <2>1, <2>2, RestShape
  <2> QED BY <1>1, <2>1, <2>3
<1>3. t.k # "cleanup"
  BY <1>1
<1>4. ActsOfFrames' = <<>> /\ BlocksOfClosures' = BlocksOfClosures
  <2>1. ~Running'
    BY DEF Running
  <2> QED BY <2>1, Zenon DEF ActsOfFrames, BlocksOfClosures
<1>5. Act!Deliver(rest, t, v)
  BY <1>2, <1>3, <1>4 DEF Act!Deliver
<1> QED
  BY <1>1, <1>5, Zenon DEF DeliversFrom

\* It goes to the activation below, which may have waited for another one.
LEMMA DeliversBelow ==
  ASSUME NEW a, NEW l, Indexed(a, l), NEW m \in 1..(l - 1), NEW e, e = m + 1, NEW v, NEW w, NEW t, t = a[e].then,
         t.k # "cleanup", w = IF t.k = "restore" THEN t.w ELSE v,
         ActsOfFrames' = DeliverTop(SubSeq(a, 1, m), w),
         Running, UNCHANGED <<closures, born, outcome>>
  PROVE  DeliversFrom(a, e, v)
<1>1. PICK rest : rest = SubSeq(a, 1, m)
  OBVIOUS
<1>2. l \in Nat /\ m \in Nat /\ m <= l /\ m > 0 /\ e - 1 = m
  BY DEF Indexed
<1>3. rest # <<>>
  BY <1>1, <1>2, RestShape
<1>4. BlocksOfClosures' = BlocksOfClosures
  BY Zenon DEF BlocksOfClosures
<1>5. ActsOfFrames' = [rest EXCEPT ![Len(rest)].ops = Append(@, w)]
  BY <1>1, Zenon DEF DeliverTop
<1>6. outcome' = "running" /\ born' = born
  BY DEF Running
<1>7. Act!Deliver(rest, t, v)
  BY <1>3, <1>4, <1>5, <1>6, Zenon DEF Act!Deliver
<1> QED
  BY <1>1, <1>2, <1>7, Zenon DEF DeliversFrom

\* A block runs first, and keeps the value.
LEMMA DeliversAfter ==
  ASSUME NEW a, NEW m \in Nat, NEW e, e = m + 1, NEW v, NEW t, t = a[e].then, t.k = "cleanup",
         NEW b \in 1..Len(closures), t.w = Blk(b), NEW y, y = Innermost',
         y = NewAct(closures[b].method, closures[b].homeId, <<>>, BlockVars(b), [k |-> "restore", w |-> v]),
         ActsOfFrames' = Append(SubSeq(a, 1, m), y),
         born' = born + 1, UNCHANGED <<closures, outcome>>
  PROVE  DeliversFrom(a, e, v)
<1>1. PICK rest, w, then : rest = SubSeq(a, 1, m) /\ w = t.w /\ then = [k |-> "restore", w |-> v]
  OBVIOUS
<1>2. Act!BlockActivation(w, <<>>, then)
           = NewAct(closures[b].method, closures[b].homeId, <<>>, BlockVars(b), then)
  <2>1. w = Blk(b)
    BY <1>1
  <2> QED BY <2>1, BlockActs
<1>3. then = Act!Restore(v)
  BY <1>1, Zenon DEF Act!Restore
<1>4. ActsOfFrames' = Append(rest, Act!BlockActivation(t.w, <<>>, Act!Restore(v)))
  BY <1>1, <1>2, <1>3, Zenon
<1>5. BlocksOfClosures' = BlocksOfClosures
  BY Zenon DEF BlocksOfClosures
<1>6. Act!Deliver(rest, t, v)
  BY <1>4, <1>5, Zenon DEF Act!Deliver
<1>7. e - 1 = m
  OBVIOUS
<1> QED
  BY <1>1, <1>6, <1>7, Zenon DEF DeliversFrom

\* The frame that a primitive called: what it does with its value, and where
\* the words of the primitive end.
LEMMA CalledHere ==
  ASSUME IInv, Running, NEW k \in 2..Len(calls), NEW r, r = calls[k], NEW f, f = r.entry
  PROVE  EndBelow(f) = r.savedSp /\ Then(f) = ThenOf(r)
<1>1. CallsAt(f) = {k} /\ CallAt(f) = r
  BY RunningCaller
<1>2. CallsAt(f) # {}
  BY <1>1
<1>3. EndBelow(f) = r.savedSp
  BY <1>1, <1>2, Zenon DEF EndBelow
<1>4. Then(f) = ThenOf(r)
  BY <1>1, <1>2, Zenon DEF Then, ThenOf
<1> QED
  BY <1>3, <1>4

\* The frame below the e-th.
LEMMA CallerIndex ==
  ASSUME IInv, Running, NEW u, NEW l, Order(u, l), NEW e \in 1..l, NEW g \in FrameSet, Frame(u[e]).savedFp = g
  PROVE  \E m \in 1..(l - 1) : e = m + 1 /\ u[m] = g /\ u[m + 1] = u[e]
<1>1. l \in Nat /\ Frame(u[1]).savedFp = Bottom
  BY DEF Order
<1>2. Bottom \notin FrameSet
  <2>1. \A f \in FrameSet : f \in Nat /\ f > 0
    BY RunningCaller
  <2> QED BY <2>1, BottomAssumption DEF NULL, CAFE
<1>3. e # 1
  BY <1>1, <1>2
<1>4. PICK m \in 1..(l - 1) : e = m + 1
  <2>1. e - 1 \in 1..(l - 1) /\ e = (e - 1) + 1
    BY <1>1, <1>3
  <2> QED BY <2>1
<1>5. Frame(u[m + 1]).savedFp = u[m]
  BY DEF Order
<1> QED
  BY <1>4, <1>5

\* A value returned from a frame that the interpreter loop itself called.
LEMMA ResumeDelivers ==
  ASSUME IInv, Running, IInv', NEW u, NEW l, Order(u, l), NEW a, a = ActsOfFrames, NEW e \in 1..l,
         NEW f, f = u[e], Entry <= f, f # Entry, NEW v \in Held, ResumeCaller(f, v)
  PROVE  DeliversFrom(a, e, v)
<1>1. /\ HeapInv /\ StackInv /\ FramesInv /\ SP \in Nat /\ Entry \in FrameSet /\ Entry \in Nat
      /\ f \in FrameSet /\ f \in Nat /\ f \in 1..SP /\ Frame(f).numArgs \in Nat /\ Frame(f).numArgs + 2 <= f
      /\ Entry = calls[Len(calls)].entry /\ Len(calls) \in 1..Len(calls)
      /\ calls \in Seq(CallRecord) /\ Len(calls) \in Nat
  <2>1. f \in FrameSet
    BY DEF Order
  <2> QED BY <2>1, RunningFacts, FrameFacts
<1>2. PICK r : r = Returned(f, v)
  OBVIOUS
<1>3. PICK h \in Nat : h = f - Frame(f).numArgs - 2
  BY <1>1, ReturnedWords
<1>4. Len(r) = h + 1 /\ r[h + 1] = v /\ \A p \in 1..h : r[p] = stack[p]
  <2>1. h + 1 = f - Frame(f).numArgs - 1
    BY <1>1, <1>3
  <2>2. /\ Len(Returned(f, v)) = f - Frame(f).numArgs - 1
        /\ Returned(f, v)[f - Frame(f).numArgs - 1] = v
        /\ \A p \in 1..(f - Frame(f).numArgs - 2) : Returned(f, v)[p] = stack[p]
    BY <1>1, ReturnedWords
  <2> QED BY <1>2, <1>3, <2>1, <2>2
<1>5. ~ \A g \in FrameSet : f <= g
  BY <1>1
<1>6. PICK g \in FrameSet : g = Frame(f).savedFp
  BY <1>1, <1>5 DEF FramesInv, CallerOK
<1>7. PICK m \in 1..(l - 1) : e = m + 1 /\ u[m] = g /\ u[m + 1] = f
  BY <1>6, CallerIndex
<1>8. /\ g \in Nat /\ OperandBase(g) \in Nat /\ g < OperandBase(g) /\ g \notin {NULL, CAFE}
  <2>1. g \in Nat /\ g > 0 /\ OperandBase(g) \in Nat /\ g < OperandBase(g)
    BY <1>1, FrameFacts
  <2> QED BY <2>1 DEF NULL, CAFE
<1>9. /\ stack' = r /\ fp' = g /\ ip' = Frame(f).savedIp
      /\ outcome' = "running" /\ UNCHANGED <<calls, heap, contextClass, born>>
  BY <1>2, <1>6, <1>8 DEF ResumeCaller
<1>10. Running' /\ UNCHANGED <<closures, born, outcome>>
  BY <1>9 DEF Running, heap
<1>11. Entry < f
  BY <1>1
<1>12. CallsAt(f) = {} /\ Then(f) = [k |-> "push", w |-> Zero] /\ EndBelow(f) = h
  <2>1. CallsAt(f) = {}
    BY <1>1, <1>11, RunningCaller
  <2> QED BY <1>3, <2>1, Zenon DEF Then, EndBelow
<1>13. OperandBase(g) <= h /\ h <= SP
  <2>1. OperandBase(u[m]) <= EndBelow(u[m + 1]) /\ EndBelow(u[m + 1]) + 2 <= u[m + 1]
    BY EndsBelow
  <2> QED BY <1>1, <1>7, <1>12, <2>1
<1>14. SP' = h + 1
  BY <1>4, <1>9 DEF SP
<1>15. KeptTo(g)
  <2>1. \A p \in 1..g : p \in 1..h
    BY <1>8, <1>13
  <2>2. \A p \in 1..g : stack'[p] = stack[p]
    BY <1>4, <1>9, <2>1
  <2>3. SP' \in Nat /\ g <= SP'
    BY <1>8, <1>13, <1>14
  <2> QED BY <1>9, <2>2, <2>3 DEF KeptTo
<1>16. SameBelow(g)
  <2>1. PICK n \in Nat : n = Len(calls)
    BY <1>1
  <2>2. /\ n <= Len(calls) /\ n <= Len(calls') /\ Len(calls') \in Nat
        /\ \A k \in 1..n : calls'[k] = calls[k]
        /\ \A k \in (n + 1)..Len(calls) : g < calls[k].entry
        /\ \A k \in (n + 1)..Len(calls') : g < calls'[k].entry
    <3>1. calls' = calls
      BY <1>9
    <3>2. ASSUME NEW k \in (n + 1)..Len(calls) PROVE FALSE
      BY <2>1
    <3> QED BY <2>1, <3>1, <3>2
  <2> QED BY <1>15, <2>2, SameBelowKept
<1>17. BackWith(g, f, h, v)
  <2>1. ip'.pc = Frame(f).savedIp.pc
    BY <1>9
  <2> QED BY <1>4, <1>9, <1>12, <1>13, <1>14, <1>15, <1>16, <2>1 DEF BackWith
<1>18. ActsOfFrames' = DeliverTop(SubSeq(a, 1, m), v)
  BY <1>7, <1>10, <1>17, BackDelivers
<1>19. a[e].then = [k |-> "push", w |-> Zero] /\ Indexed(a, l)
  <2>1. a[e].then = Then(u[e])
    BY ActIds
  <2> QED BY <1>12, <2>1, TopParts
<1>20. PICK t : t = a[e].then
  OBVIOUS
<1>21. t.k # "cleanup" /\ v = IF t.k = "restore" THEN t.w ELSE v
  BY <1>19, <1>20
<1> QED
  BY <1>7, <1>10, <1>18, <1>19, <1>20, <1>21, DeliversBelow

\* interpret() answers v, with at least the words of its primitive on st.
Answers(st, v) ==
  /\ st \in Seq(Held \cup FrameWord) /\ v \in Held
  /\ calls[Len(calls)].kind # "host" =>
       Entry - 2 <= Len(st) /\ \A p \in 1..(Entry - 2) : st[p] = stack[p]
  /\ Answer(st, v)

\* The primitive that waits in frame g for the value v of the entry f of the
\* innermost interpret(); its words are under.
Waiting(call, f, g, h, m, under) ==
  /\ call = calls[Len(calls)] /\ call \in CallRecord /\ call.entry = f /\ f = Entry
  /\ g = call.savedFp /\ g \in FrameSet /\ g \in Nat /\ OperandBase(g) \in Nat /\ g < OperandBase(g)
  /\ Frame(f).savedFp = g /\ f \in Nat /\ f \in 1..SP /\ SP \in Nat
  /\ h = call.savedSp /\ h \in Nat /\ OperandBase(g) <= h /\ h + 2 <= f
  /\ call.ip \in Ip /\ call.ip.m = call.base /\ call.base = Frame(g).method
  /\ call.ip = Frame(f).savedIp
  /\ call.kind = "ensure" => IsThunk(call.cleanup)
  /\ m \in Nat /\ m > 0 /\ Len(calls) = m + 1 /\ calls[m].entry <= g /\ g < calls[m + 1].entry
  /\ under \in Seq(Held \cup FrameWord) /\ Len(under) = h
  /\ \A p \in 1..h : under[p] = stack[p]
  /\ \A p \in (g + 1)..h : under[p] \in Held

\* The frame that made the call waits with its operands.
LEMMA AnswerWaits ==
  ASSUME IInv, Running, NEW st, NEW v, Answers(st, v), NEW call, call = calls[Len(calls)],
         call.kind # "host", NEW under, under = Resized(st, call.savedSp)
  PROVE  \E f, g, h, m : Waiting(call, f, g, h, m, under)
<1>1. /\ Len(calls) \in 2..Len(calls) /\ CallOK(Len(calls)) /\ call \in CallRecord
      /\ call.savedFp \in FrameSet /\ call.savedFp \in Nat /\ OperandBase(call.savedFp) \in Nat
      /\ call.savedFp < OperandBase(call.savedFp) /\ OperandBase(call.savedFp) <= call.savedSp
      /\ call.savedSp \in Nat /\ call.savedSp + 2 <= Entry /\ call.entry = Entry /\ Entry \in Nat
      /\ \A p \in (call.savedFp + 1)..call.savedSp : p \in 1..SP /\ stack[p] \in Held
      /\ \A j \in 1..(Len(calls) - 1) : calls[j].entry <= call.savedFp
  BY WaitingCall
<1>2. /\ st \in Seq(Held \cup FrameWord)
      /\ Entry - 2 <= Len(st) /\ \A p \in 1..(Entry - 2) : st[p] = stack[p]
  BY DEF Answers
<1>3. PICK g \in Nat, h \in Nat, f \in Nat : g = call.savedFp /\ h = call.savedSp /\ f = Entry
  BY <1>1
<1>4. \A p \in 1..h : p \in 1..Len(st) /\ st[p] = stack[p]
  <2> TAKE p \in 1..h
  <2>1. p \in 1..(Entry - 2) /\ p \in 1..Len(st)
    BY <1>1, <1>2, <1>3
  <2> QED BY <1>2, <2>1
<1>5. /\ under \in Seq(Held \cup FrameWord) /\ Len(under) = h
      /\ \A p \in 1..h : under[p] = stack[p]
  <2>1. under = [i \in 1..h |-> IF i <= Len(st) THEN st[i] ELSE Junk]
    BY <1>3 DEF Resized
  <2>2. \A i \in 1..h : under[i] = st[i] /\ st[i] \in Held \cup FrameWord
    BY <1>2, <1>4, <2>1
  <2> QED BY <1>4, <2>1, <2>2
<1>6. g \in FrameSet /\ OperandBase(g) \in Nat /\ g < OperandBase(g) /\ OperandBase(g) <= h /\ h + 2 <= f
  BY <1>1, <1>3
<1>7. \A p \in (g + 1)..h : under[p] \in Held
  <2>1. \A p \in (g + 1)..h : p \in 1..h /\ stack[p] \in Held
    <3>1. \A p \in (g + 1)..h : stack[p] \in Held
      BY <1>1, <1>3
    <3>2. \A p \in (g + 1)..h : p \in 1..h
      BY <1>3
    <3> QED BY <3>1, <3>2
  <2> QED BY <1>5, <2>1
<1>8. PICK k \in Nat : k = Len(calls)
  BY RunningFacts
<1>9. k \in 2..k
  BY <1>1, <1>8
<1>10. PICK m \in 1..k : m = k - 1
  BY <1>9
<1>11. m \in 1..(k - 1) /\ m + 1 = k /\ m \in Nat /\ m > 0
  BY <1>9, <1>10
<1>12. calls[m].entry <= g /\ Len(calls) = m + 1
  BY <1>1, <1>3, <1>8, <1>11
<1>13. calls[m + 1] = call
  BY <1>8, <1>11
<1>14. g < f
  BY <1>3, <1>6
<1>15. /\ call.ip \in Ip /\ call.ip.m = call.base /\ call.base = Frame(g).method
       /\ Frame(f).savedFp = g /\ call.ip = Frame(f).savedIp
       /\ (call.kind = "ensure" => IsThunk(call.cleanup))
  BY <1>1, <1>3 DEF CallOK
<1>16. f \in 1..SP /\ SP \in Nat
  <2>1. f \in FrameSet
    BY <1>3, RunningFacts
  <2> QED BY <2>1, RunningFrames
<1>17. Waiting(call, f, g, h, m, under)
  <2> HIDE DEF Ip
  <2> QED BY <1>1, <1>3, <1>5, <1>6, <1>7, <1>11, <1>12, <1>13, <1>14, <1>15, <1>16 DEF Waiting
<1> QED
  BY <1>17

\* The primitive goes on, with the value w.
LEMMA WaitingResumes ==
  ASSUME IInv, Running, IInv', NEW call, NEW f, NEW g, NEW h, NEW m, NEW under,
         Waiting(call, f, g, h, m, under), NEW w,
         stack' = Append(under, w), fp' = call.savedFp, ip' = call.ip,
         calls' = SubSeq(calls, 1, Len(calls) - 1), UNCHANGED <<heap, born, outcome>>,
         EndBelow(f) = h
  PROVE  BackWith(g, f, h, w)
<1>1. /\ g = call.savedFp /\ g \in FrameSet /\ g \in Nat /\ OperandBase(g) \in Nat /\ g < OperandBase(g)
      /\ f \in Nat /\ f \in 1..SP /\ SP \in Nat
      /\ h \in Nat /\ OperandBase(g) <= h /\ h + 2 <= f
      /\ call.ip = Frame(f).savedIp
      /\ m \in Nat /\ m > 0 /\ Len(calls) = m + 1 /\ calls[m].entry <= g /\ g < calls[m + 1].entry
      /\ under \in Seq(Held \cup FrameWord) /\ Len(under) = h
      /\ \A p \in 1..h : under[p] = stack[p]
  BY DEF Waiting
<1>2. SP' = h + 1 /\ stack'[h + 1] = w /\ \A p \in 1..h : stack'[p] = stack[p]
  <2>1. PICK W : W = Held \cup FrameWord \cup {w}
    OBVIOUS
  <2>2. under \in Seq(W) /\ w \in W
    BY <1>1, <2>1, WiderSeq
  <2> QED BY <1>1, <2>2 DEF SP
<1>3. KeptTo(g)
  <2>1. \A p \in 1..g : p \in 1..h
    BY <1>1
  <2>2. \A p \in 1..g : stack'[p] = stack[p]
    BY <1>2, <2>1
  <2>3. SP' \in Nat /\ g <= SP'
    BY <1>1, <1>2
  <2> QED BY <1>1, <2>2, <2>3 DEF KeptTo
<1>4. Len(calls') = m /\ \A k \in 1..m : calls'[k] = calls[k]
  <2>1. calls \in Seq(CallRecord) /\ Len(calls) - 1 = m
    BY <1>1, RunningFacts
  <2>2. PICK q : q = SubSeq(calls, 1, m)
    OBVIOUS
  <2>3. Len(q) = m /\ \A k \in 1..m : q[k] = calls[k]
    BY <1>1, <2>1, <2>2
  <2> QED BY <2>1, <2>2, <2>3
<1>5. SameBelow(g)
  <2>1. \A k \in (m + 1)..Len(calls) : k = m + 1
    BY <1>1
  <2>2. /\ m <= Len(calls) /\ m <= Len(calls') /\ Len(calls') \in Nat
        /\ \A k \in 1..m : calls'[k] = calls[k]
        /\ \A k \in (m + 1)..Len(calls) : g < calls[k].entry
        /\ \A k \in (m + 1)..Len(calls') : g < calls'[k].entry
    <3>1. \A k \in (m + 1)..Len(calls') : FALSE
      BY <1>1, <1>4
    <3> QED BY <1>1, <1>4, <2>1, <3>1
  <2> QED BY <1>1, <1>3, <2>2, SameBelowKept
<1>6. h <= SP
  BY <1>1
<1> QED
  BY <1>1, <1>2, <1>3, <1>5, <1>6 DEF BackWith

\* The cleanup block runs first.
LEMMA WaitingInvokes ==
  ASSUME IInv, Running, NEW call, NEW f, NEW g, NEW h, NEW m, NEW under,
         Waiting(call, f, g, h, m, under), NEW v \in Held, call.kind = "ensure",
         NEW rec, rec = [level |-> Len(calls), kind |-> "cleanup", savedSp |-> call.savedSp,
                         ip |-> call.ip, base |-> call.base, cleanup |-> Zero, result |-> v],
         Invoke(under, call.cleanup.v, call.savedFp, rec)
  PROVE  \E b : /\ b \in 1..Len(closures) /\ call.cleanup = Blk(b) /\ Invokes(under, g, b, rec, m)
                /\ rec.savedSp = h /\ rec.ip = call.ip /\ ThenOf(rec) = [k |-> "restore", w |-> v]
<1>1. /\ g = call.savedFp /\ g \in FrameSet /\ g \in Nat /\ OperandBase(g) \in Nat /\ g < OperandBase(g)
      /\ h = call.savedSp /\ h \in Nat /\ OperandBase(g) <= h
      /\ call.ip \in Ip /\ call.ip.m = call.base /\ call.base = Frame(g).method
      /\ IsThunk(call.cleanup) /\ call \in CallRecord
      /\ m \in Nat /\ m > 0 /\ Len(calls) = m + 1 /\ calls[m].entry <= g /\ g < calls[m + 1].entry
      /\ under \in Seq(Held \cup FrameWord) /\ Len(under) = h
      /\ \A p \in 1..h : under[p] = stack[p]
      /\ \A p \in (g + 1)..h : under[p] \in Held
  <2> HIDE DEF Ip
  <2> QED BY DEF Waiting
<1>2. call.cleanup \in Held
  BY <1>1 DEF CallRecord
<1>3. PICK b \in 1..Len(closures) : b = call.cleanup.v
  BY <1>1, <1>2, Thunks
<1>4. call.cleanup = Blk(b)
  <2>1. call.cleanup.k = "block"
    BY <1>1 DEF IsThunk
  <2> QED BY <1>2, <1>3, <2>1, HeldKinds
<1>5. /\ rec.kind = "cleanup" /\ rec.savedSp = h /\ rec.ip = call.ip /\ rec.base = call.base
      /\ rec.cleanup = Zero /\ rec.result = v /\ rec.level = m + 1
  BY <1>1
<1>6. Waits(rec, g, Len(under))
  <2>1. Zero \in Held
    BY HeldValues
  <2> HIDE DEF Ip, Zero
  <2> QED BY <1>1, <1>5, <2>1 DEF Waits
<1>7. \A p \in 1..g : under[p] = stack[p]
  <2>1. \A p \in 1..g : p \in 1..h
    BY <1>1
  <2> QED BY <1>1, <2>1
<1>8. m \in 1..Len(calls) /\ \A k \in (m + 1)..Len(calls) : g < calls[k].entry
  <2>1. m \in 1..Len(calls) /\ \A k \in (m + 1)..Len(calls) : k = m + 1
    BY <1>1
  <2> QED BY <1>1, <2>1
<1>9. \A p \in 1..rec.savedSp : under[p] = stack[p]
  BY <1>1, <1>5
<1>10. Invoke(under, b, g, rec)
  BY <1>1, <1>3
<1>11. Invokes(under, g, b, rec, m)
  BY <1>1, <1>3, <1>5, <1>6, <1>7, <1>8, <1>9, <1>10 DEF Invokes
<1>12. ThenOf(rec) = [k |-> "restore", w |-> v]
  BY <1>5 DEF ThenOf
<1> QED
  BY <1>3, <1>4, <1>5, <1>11, <1>12

\* The value that an interpret() answers.
LEMMA AnswerDelivers ==
  ASSUME IInv, Running, IInv', NEW u, NEW l, Order(u, l), NEW a, a = ActsOfFrames, NEW e \in 1..l,
         u[e] = Entry, NEW st, NEW v, Answers(st, v)
  PROVE  DeliversFrom(a, e, v) \/ Act!Stop
<1>1. PICK call : call = calls[Len(calls)]
  OBVIOUS
<1>2. PICK under : under = Resized(st, call.savedSp)
  OBVIOUS
<1>3. Answer(st, v) /\ v \in Held
  BY DEF Answers
<1>4. /\ CallsInv /\ Len(calls) \in Nat /\ Len(calls) \in 1..Len(calls) /\ Entry = calls[Len(calls)].entry
  BY RunningFacts
<1>5. Indexed(a, l) /\ l \in Nat
  BY TopParts DEF Indexed
<1>6. a[e].then = Then(u[e])
  BY ActIds
<1>7. CASE call.kind = "host"
  <2>1. outcome' = "done" /\ UNCHANGED <<registers, calls, heap, contextClass, born>>
    BY <1>1, <1>3, <1>7 DEF Answer
  <2>2. PICK k \in Nat : k = Len(calls)
    BY <1>4
  <2>3. k \in 1..k /\ ~(k \in 2..k)
    BY <1>1, <1>4, <1>7, <2>2 DEF CallsInv, CallOK
  <2>4. k = 1
    BY <2>3
  <2>5. u[e] = u[1] /\ u[1] = calls[1].entry
    BY <1>1, <1>4, <2>2, <2>4 DEF Order
  <2>6. e = 1
    <3>1. \A i, j \in 1..l : i < j => u[i] < u[j]
      BY DEF Order
    <3>2. \A i \in 1..l : u[i] \in Nat
      BY DEF Order
    <3>3. 1 \in 1..l /\ e \in Nat
      BY <1>5
    <3>4. ~(1 < e)
      <4>1. 1 < e => u[1] < u[e]
        BY <3>1, <3>3
      <4> QED BY <2>5, <3>2, <3>3, <4>1
    <3> QED BY <3>4
  <2>7. a[1].then = [k |-> "push", w |-> Zero]
    <3>1. CallsAt(calls[1].entry) = {}
      BY CallOfEntry
    <3>2. CallsAt(u[e]) = {}
      BY <2>5, <3>1
    <3> QED BY <1>6, <2>6, <3>2, Zenon DEF Then
  <2>8. DeliversFrom(a, 1, v)
    <3>1. UNCHANGED <<closures, born>>
      BY <2>1 DEF heap
    <3> QED BY <1>5, <2>1, <2>7, <3>1, DeliversToHost
  <2> QED BY <2>6, <2>8
<1>8. CASE call.kind # "host"
  <2>1. PICK f, g, h, m : Waiting(call, f, g, h, m, under)
    BY <1>1, <1>2, <1>8, AnswerWaits
  <2>2. /\ call \in CallRecord /\ call.entry = f /\ f = Entry
        /\ g = call.savedFp /\ g \in FrameSet /\ Frame(f).savedFp = g
        /\ h = call.savedSp /\ call.ip = Frame(f).savedIp
        /\ m \in Nat /\ m > 0 /\ Len(calls) = m + 1
    BY <2>1 DEF Waiting
  <2>3. EndBelow(f) = call.savedSp /\ Then(f) = ThenOf(call)
    <3>1. PICK k \in 2..Len(calls) : k = Len(calls)
      BY <2>2
    <3> QED BY <1>1, <2>2, <3>1, CalledHere
  <2>4. PICK M \in 1..(l - 1) : e = M + 1 /\ u[M] = g /\ u[M + 1] = f
    BY <2>2, CallerIndex
  <2>5. PICK t : t = a[e].then
    OBVIOUS
  <2>6. t = ThenOf(call)
    BY <1>6, <2>2, <2>3, <2>5
  <2>7. CASE call.kind = "ensure"
    <3>1. PICK rec : rec = [level |-> Len(calls), kind |-> "cleanup", savedSp |-> call.savedSp,
                            ip |-> call.ip, base |-> call.base, cleanup |-> Zero, result |-> v]
      OBVIOUS
    <3>2. Invoke(under, call.cleanup.v, call.savedFp, rec)
      BY <1>1, <1>2, <1>3, <2>7, <3>1 DEF Answer
    <3>3. PICK b : /\ b \in 1..Len(closures) /\ call.cleanup = Blk(b) /\ Invokes(under, g, b, rec, m)
                   /\ rec.savedSp = h /\ rec.ip = call.ip /\ ThenOf(rec) = [k |-> "restore", w |-> v]
      BY <1>3, <2>1, <2>7, <3>1, <3>2, WaitingInvokes
    <3>4. Overflow \/ (Running' /\ \E x : InvokedIn(x, g, b, rec))
      BY <3>3, InvokeActs
    <3>5. CASE Overflow
      BY <3>5, StopBytecodesStop
    <3>6. ASSUME Running', NEW x, InvokedIn(x, g, b, rec) PROVE DeliversFrom(a, e, v)
      <4>1. rec.savedSp = EndBelow(f) /\ rec.ip.pc = Frame(f).savedIp.pc
        BY <2>2, <2>3, <3>3
      <4>2. ActsOfFrames' = Append(SubSeq(a, 1, M), Innermost')
        BY <2>4, <3>6, <4>1, CleanupDelivers
      <4>3. /\ Innermost' = NewAct(closures[b].method, closures[b].homeId, <<>>, BlockVars(b), ThenOf(rec))
            /\ born' = born + 1 /\ UNCHANGED <<closures, outcome>>
        BY <3>6, Zenon DEF InvokedIn
      <4>4. PICK y : y = Innermost'
        OBVIOUS
      <4>5. y = NewAct(closures[b].method, closures[b].homeId, <<>>, BlockVars(b), [k |-> "restore", w |-> v])
        BY <3>3, <4>3, <4>4, Zenon
      <4>6. t.k = "cleanup" /\ t.w = Blk(b)
        <5>1. t = [k |-> "cleanup", w |-> call.cleanup]
          BY <2>6, <2>7 DEF ThenOf
        <5> QED BY <3>3, <5>1
      <4>7. M \in Nat
        BY <1>5
      <4> HIDE DEF NewAct
      <4> QED BY <2>4, <2>5, <3>3, <4>2, <4>3, <4>4, <4>5, <4>6, <4>7, DeliversAfter
    <3> QED BY <3>4, <3>5, <3>6
  <2>8. CASE call.kind # "ensure"
    <3>1. PICK w : w = IF call.kind = "cleanup" THEN call.result ELSE v
      OBVIOUS
    <3>2. /\ stack' = Append(under, w) /\ fp' = call.savedFp /\ ip' = call.ip
          /\ calls' = SubSeq(calls, 1, Len(calls) - 1)
          /\ UNCHANGED <<heap, born, outcome>>
      BY <1>1, <1>2, <1>3, <1>8, <2>8, <3>1 DEF Answer
    <3>3. BackWith(g, f, h, w)
      <4>1. EndBelow(f) = h
        BY <2>2, <2>3
      <4> QED BY <2>1, <3>2, <4>1, WaitingResumes
    <3>4. Running' /\ UNCHANGED <<closures, born, outcome>>
      BY <3>2 DEF Running, heap
    <3>5. ActsOfFrames' = DeliverTop(SubSeq(a, 1, M), w)
      BY <2>4, <3>3, <3>4, BackDelivers
    <3>6. t.k # "cleanup" /\ w = IF t.k = "restore" THEN t.w ELSE v
      <4>1. CASE call.kind \in {"onDo", "transaction"}
        <5>1. t = [k |-> "push", w |-> Zero]
          BY <2>6, <4>1 DEF ThenOf
        <5> QED BY <3>1, <4>1, <5>1
      <4>2. CASE call.kind = "cleanup"
        <5>1. t = [k |-> "restore", w |-> call.result]
          BY <2>6, <4>2 DEF ThenOf
        <5> QED BY <3>1, <4>2, <5>1
      <4> QED BY <1>8, <2>2, <2>8, <4>1, <4>2 DEF CallRecord
    <3> QED BY <1>5, <2>4, <2>5, <3>4, <3>5, <3>6, DeliversBelow
  <2> QED BY <2>7, <2>8
<1> QED
  BY <1>7, <1>8

\* The stack that a returning entry leaves.
LEMMA ReturnedAnswers ==
  ASSUME IInv, Running, NEW f \in FrameSet, f = Entry, NEW v \in Held, Answer(Returned(f, v), v)
  PROVE  Answers(Returned(f, v), v)
<1>1. PICK r : r = Returned(f, v)
  OBVIOUS
<1>2. f \in Nat /\ Frame(f).numArgs \in Nat
  BY RunningFrames
<1>3. PICK h \in Nat : h = f - Frame(f).numArgs - 2
  BY ReturnedWords
<1>4. r \in Seq(Held \cup FrameWord) /\ Len(r) = h + 1 /\ \A p \in 1..h : r[p] = stack[p]
  <2>1. h + 1 = f - Frame(f).numArgs - 1
    BY <1>2, <1>3
  <2> QED BY <1>1, <1>3, <2>1, ReturnedWords
<1>5. calls[Len(calls)].kind # "host" => h = Entry - 2
  <2>1. ASSUME calls[Len(calls)].kind # "host" PROVE Frame(f).numArgs = 0
    <3>1. LET c == calls[Len(calls)] IN c.entry = Entry /\ Frame(c.entry).numArgs = 0
      BY <2>1, WaitingCall
    <3> QED BY <3>1
  <2> QED BY <1>2, <1>3, <2>1
<1>6. calls[Len(calls)].kind # "host" =>
        Entry - 2 <= Len(r) /\ \A p \in 1..(Entry - 2) : r[p] = stack[p]
  BY <1>4, <1>5
<1> QED
  BY <1>1, <1>4, <1>6 DEF Answers

\* The value of any frame of the innermost interpret().
LEMMA ReturnDelivers ==
  ASSUME IInv, Running, IInv', NEW u, NEW l, Order(u, l), NEW a, a = ActsOfFrames, NEW e \in 1..l,
         NEW f, f = u[e], Entry <= f, NEW v \in Held,
         (f = Entry /\ Answer(Returned(f, v), v)) \/ (f # Entry /\ ResumeCaller(f, v))
  PROVE  DeliversFrom(a, e, v) \/ Act!Stop
<1>1. CASE f = Entry /\ Answer(Returned(f, v), v)
  <2>1. f \in FrameSet
    BY DEF Order
  <2>2. Answers(Returned(f, v), v)
    BY <1>1, <2>1, ReturnedAnswers
  <2> QED BY <1>1, <2>2, AnswerDelivers
<1>2. CASE f # Entry /\ ResumeCaller(f, v)
  BY <1>2, ResumeDelivers
<1> QED
  BY <1>1, <1>2

\* The value that the running activation hands over.
LEMMA TopValue ==
  ASSUME IInv, Running, Operands > 0, NEW u, NEW l, Order(u, l), NEW a, a = ActsOfFrames
  PROVE  /\ Len(a) = l /\ l \in Nat /\ l > 0 /\ l \in 1..l /\ u[l] = fp /\ Act!Top = a[l]
         /\ a[l].ops # <<>> /\ a[l].ops[Len(a[l].ops)] = TopOp(0)
<1>1. /\ Len(a) = l /\ l \in 1..l /\ u[l] = fp
      /\ Operands \in Nat /\ Len(a[l].ops) = Operands
      /\ \A n \in 0..(Operands - 1) : a[l].ops[Operands - n] = TopOp(n)
  BY TopParts
<1>2. l \in Nat /\ l > 0
  BY DEF Order
<1>3. 0 \in 0..(Operands - 1) /\ Operands - 0 = Operands
  BY <1>1
<1>4. a[l].ops[Operands] = TopOp(0)
  BY <1>1, <1>3
<1>5. Act!Top = a[l]
  BY <1>1, Zenon DEF Act!Top
<1>6. a[l].ops # <<>>
  <2>1. Len(a[l].ops) # Len(<<>>)
    BY <1>1
  <2> QED BY <2>1
<1> QED
  BY <1>1, <1>2, <1>4, <1>5, <1>6

\* return
LEMMA ReturnReturns ==
  ASSUME IInv, IInv', Return
  PROVE  Running /\ (Act!Return \/ Act!Stop)
<1>1. Running /\ Operands > 0
  BY DEF Return, At
<1>2. IF Frame(fp).savedFp = NULL \/ fp = Entry
        THEN Answer(Returned(fp, TopOp(0)), TopOp(0)) ELSE ResumeCaller(fp, TopOp(0))
  BY DEF Return
<1>3. TopOp(0) \in Held
  BY <1>1, OperandsAbove
<1>4. /\ StackInv /\ HeapInv /\ FramesInv /\ fp \in FrameSet /\ fp \in Nat /\ Entry \in FrameSet
      /\ Entry <= fp
  BY <1>1, RunningFacts
<1>5. Frame(fp).savedFp = NULL => fp = Entry
  <2>1. ASSUME Frame(fp).savedFp = NULL PROVE fp <= Entry
    <3>1. \A g \in FrameSet : g \in Nat /\ g > 0
      BY <1>4, FrameFacts
    <3>2. Frame(fp).savedFp \notin FrameSet
      BY <2>1, <3>1 DEF NULL
    <3> QED BY <1>4, <3>2 DEF FramesInv, CallerOK
  <2>2. Entry \in Nat
    BY <1>4, FrameFacts
  <2> QED BY <1>4, <2>1, <2>2
<1>6. PICK v \in Held : v = TopOp(0)
  BY <1>3
<1>7. PICK f : f = fp
  OBVIOUS
<1>8. (f = Entry /\ Answer(Returned(f, v), v)) \/ (f # Entry /\ ResumeCaller(f, v))
  BY <1>2, <1>5, <1>6, <1>7
<1>9. PICK u, l : Order(u, l)
  BY <1>1, SomeOrder
<1>10. PICK a : a = ActsOfFrames
  OBVIOUS
<1>11. /\ Len(a) = l /\ l \in Nat /\ l > 0 /\ l \in 1..l /\ u[l] = fp /\ Act!Top = a[l]
       /\ a[l].ops # <<>> /\ a[l].ops[Len(a[l].ops)] = TopOp(0)
  BY <1>1, <1>9, <1>10, TopValue
<1>12. DeliversFrom(a, l, v) \/ Act!Stop
  BY <1>1, <1>4, <1>7, <1>8, <1>9, <1>10, <1>11, ReturnDelivers
<1>13. ASSUME DeliversFrom(a, l, v) PROVE Act!Return
  BY <1>6, <1>10, <1>11, <1>13, Zenon DEF DeliversFrom, Act!Return
<1> QED
  BY <1>1, <1>12, <1>13

\* ^ to a home on the stack.
LEMMA ReturnToHomeReturns ==
  ASSUME PlainUses, IInv, IInv', ReturnToHome
  PROVE  Running /\ (Act!NonLocalReturn \/ Act!Stop)
<1>1. MayReturnNonLocal
  BY DEF ReturnToHome
<1>2. PICK f \in HomeFrames :
        IF f = Entry THEN Answer(Returned(f, TopOp(0)), TopOp(0)) ELSE ResumeCaller(f, TopOp(0))
  BY DEF ReturnToHome
<1>3. Running /\ Operands > 0 /\ InUses /\ TopOp(0) \in Held /\ Frame(fp).isBlock
  BY <1>1, HomeOfBlock DEF MayReturnNonLocal
<1>4. PICK b \in 1..Len(closures) :
        block_home_context_for_frame(fp) = closures[b].homeContext /\ Frame(fp).home = closures[b].homeId
  BY <1>1, HomeOfBlock
<1>5. f \in InChain(fp) /\ Frame(f).link.k = "context" /\ Frame(f).link = closures[b].homeContext
  BY <1>4 DEF HomeFrames
<1>6. f \in FrameSet /\ FramesInv
  BY <1>3, <1>5, ChainWhole, RunningFacts
<1>7. ~Frame(f).isBlock
  <2>1. closures[b].homeContext # Nil
    BY <1>5 DEF Nil
  <2>2. ~contexts[Frame(f).link.v].isBlock
    BY <1>3, <1>4, <1>5, <2>1 DEF InUses, PlainUses
  <2>3. HistoryOK(f)
    BY <1>3, <1>6 DEF IInv, MachineInv, HistoryInv
  <2> QED BY <1>5, <2>2, <2>3 DEF HistoryOK
<1>8. Frame(f).id = Frame(fp).home
  <2>1. Frame(f).home = Frame(f).id
    BY <1>6, <1>7 DEF FramesInv, ClosureOK
  <2>2. closures[b].homeId = Frame(f).home
    BY <1>5, <1>6 DEF FramesInv, LinkOK
  <2> QED BY <1>4, <2>1, <2>2
<1>9. Entry <= f
  <2>1. f >= Entry
    BY <1>3, <1>5, <1>8 DEF InUses, PlainUses
  <2>2. Entry \in Nat /\ f \in Nat
    BY <1>3, <1>6, RunningFacts, FrameFacts
  <2> QED BY <2>1, <2>2
<1>10. PICK v \in Held : v = TopOp(0)
  BY <1>3
<1>11. (f = Entry /\ Answer(Returned(f, v), v)) \/ (f # Entry /\ ResumeCaller(f, v))
  BY <1>2, <1>10
<1>12. PICK u, l : Order(u, l)
  BY <1>3, SomeOrder
<1>13. PICK a : a = ActsOfFrames
  OBVIOUS
<1>14. /\ Len(a) = l /\ l \in Nat /\ l > 0 /\ l \in 1..l /\ u[l] = fp /\ Act!Top = a[l]
       /\ a[l].ops # <<>> /\ a[l].ops[Len(a[l].ops)] = TopOp(0)
  BY <1>3, <1>12, <1>13, TopValue
<1>15. PICK e \in 1..l : f = u[e]
  BY <1>6, <1>12 DEF Order
<1>16. DeliversFrom(a, e, v) \/ Act!Stop
  BY <1>3, <1>9, <1>11, <1>12, <1>13, <1>15, ReturnDelivers
<1>17. e \in 1..(l - 1)
  <2>1. e # l
    BY <1>3, <1>7, <1>14, <1>15
  <2> QED BY <1>14, <2>1
<1>18. a[e].id = Act!Top.home
  <2>1. a[e].id = Frame(u[e]).id
    BY <1>3, <1>12, <1>13, ActIds
  <2>2. a[l].home = Frame(fp).home
    BY <1>3, <1>12, <1>13, TopParts
  <2> QED BY <1>8, <1>14, <1>15, <2>1, <2>2
<1>19. ASSUME DeliversFrom(a, e, v) PROVE Act!NonLocalReturn
  <2>1. Act!Deliver(SubSeq(a, 1, e - 1), a[e].then, Act!Top.ops[Len(Act!Top.ops)])
    BY <1>10, <1>14, <1>19, Zenon DEF DeliversFrom
  <2>2. Act!Top.ops # <<>> /\ e \in 1..(Len(a) - 1)
    BY <1>14, <1>17, Zenon
  <2> QED BY <1>13, <1>18, <2>1, <2>2, Zenon DEF Act!NonLocalReturn
<1> QED
  BY <1>3, <1>16, <1>19

\* The host starts with one activation.
LEMMA InitActs ==
  ASSUME Init
  PROVE  Act!Init
<1>1. PICK c \in Methods :
        /\ stack = <<SmallInt(0)>> \o Zeros(NumArgs[c]) \o
                   <<[k |-> "frame", savedIp |-> NoIp, savedFp |-> Bottom, method |-> c,
                      numArgs |-> NumArgs[c], isBlock |-> FALSE, link |-> Zero, id |-> 1, home |-> 1],
                     SmallInt(0)>> \o Zeros(NumTemps[c])
        /\ fp = NumArgs[c] + 2
        /\ ip = [m |-> c, pc |-> 0]
        /\ calls = <<[entry |-> NumArgs[c] + 2, kind |-> "host", savedSp |-> 0, savedFp |-> Bottom,
                      ip |-> NoIp, base |-> c, cleanup |-> Zero, result |-> Zero]>>
        /\ closures = <<>> /\ born = 1 /\ outcome = "running"
  BY DEF Init
<1>2. PICK n \in Nat, t \in Nat : n = NumArgs[c] /\ t = NumTemps[c]
  BY CodeAssumption DEF Code
<1>3. PICK w : w = [k |-> "frame", savedIp |-> NoIp, savedFp |-> Bottom, method |-> c,
                    numArgs |-> n, isBlock |-> FALSE, link |-> Zero, id |-> 1, home |-> 1]
  OBVIOUS
<1>4. /\ w.savedFp = Bottom /\ w.method = c
      /\ w.numArgs = n /\ w.link = Zero /\ w.id = 1 /\ w.home = 1
  BY <1>3
<1>5. PICK W, s, z : s = SmallInt(0) /\ z = Zero /\ W = {s, z, w}
  OBVIOUS
<1>6. PICK st : st = <<s>> \o [i \in 1..n |-> z] \o <<w, s>> \o [i \in 1..t |-> z]
  OBVIOUS
<1>7. /\ st \in Seq(W) /\ Len(st) = n + 3 + t /\ st[n + 2] = w
      /\ (\A i \in 1..n : st[1 + i] = z) /\ \A i \in 1..t : st[n + 3 + i] = z
  <2>1. HostsStack(st, W, s, z, w, n, t)
    BY <1>5, <1>6 DEF HostsStack
  <2>2. /\ st \in Seq(W) /\ Len(st) = n + 3 + t /\ st[n + 2] = w
        /\ \A p \in 1..(n + 3 + t) : p # n + 2 => st[p] \in {s, z}
        /\ (\A i \in 1..n : st[1 + i] = z) /\ \A i \in 1..t : st[n + 3 + i] = z
    <3>1. HostsWords(st, W, s, z, w, n, t)
      BY <2>1, FirstWords
    <3> QED BY <3>1 DEF HostsWords
  <2> QED BY <2>2
<1>8. stack = st
  BY <1>1, <1>2, <1>3, <1>5, <1>6 DEF Zeros
<1>9. IInv /\ Running
  BY <1>1, InitIInv DEF Running
<1>10. fp = n + 2 /\ Frame(fp) = w /\ SP = n + 3 + t
  BY <1>1, <1>2, <1>7, <1>8 DEF Frame, SP
<1>11. TempCount(fp) = t /\ OperandBase(fp) = SP
  <2>1. block_closure_for_frame(fp) = Nil
    BY <1>4, <1>10 DEF block_closure_for_frame, Zero
  <2>2. TempCount(fp) = NumTemps[c] + 0
    BY <1>4, <1>10, <2>1, Zenon DEF TempCount
  <2>3. TempCount(fp) = t
    BY <1>2, <2>2
  <2> QED BY <1>10, <2>3 DEF OperandBase
<1>12. PICK k, v : k = [i \in 1..n |-> Zero] /\ v = [i \in 1..t |-> Zero]
  OBVIOUS
<1>13. FrameArgs(fp) = k
  <2>1. \A i \in 1..n : frame_arg(fp, i - 1) = Zero
    <3> TAKE i \in 1..n
    <3>1. fp - n + (i - 1) = 1 + i
      BY <1>10
    <3> QED BY <1>4, <1>5, <1>7, <1>8, <1>10, <3>1 DEF frame_arg
  <2> QED BY <1>4, <1>10, <1>12, <2>1 DEF FrameArgs
<1>14. FrameTemps(fp) = v
  <2>1. \A i \in 1..t : frame_temp(fp, i - 1) = Zero
    <3> TAKE i \in 1..t
    <3>1. fp + 2 + (i - 1) = n + 3 + i
      BY <1>10
    <3> QED BY <1>5, <1>7, <1>8, <3>1 DEF frame_temp
  <2> QED BY <1>11, <1>12, <2>1 DEF FrameTemps
<1>15. SubSeq(stack, OperandBase(fp) + 1, SP) = <<>>
  <2>1. PICK h \in Nat : h = SP
    BY <1>10
  <2>2. SubSeq(st, h + 1, h) = <<>>
    BY <1>7, <1>8, <1>10, <2>1
  <2> QED BY <1>8, <1>11, <2>1, <2>2
<1>16. Then(fp) = [k |-> "push", w |-> Zero]
  <2>1. Len(calls) = 1
    BY <1>1
  <2>2. CallsAt(fp) = {}
    BY <2>1 DEF CallsAt
  <2> QED BY <2>2, Zenon DEF Then
<1>17. Innermost = [code |-> c, id |-> 1, home |-> 1, args |-> k, vars |-> v, ops |-> <<>>, pc |-> 0,
                    then |-> [k |-> "push", w |-> Zero]]
  <2>1. ip.pc = 0
    BY <1>1
  <2> QED BY <1>4, <1>10, <1>13, <1>14, <1>15, <1>16, <2>1, Zenon DEF Innermost, Activation
<1>18. PICK u, l : Order(u, l)
  BY <1>9, SomeOrder
<1>19. l = 1
  <2>1. l \in Nat /\ l > 0 /\ u[l] = fp /\ \A j \in 1..l : u[j] \in FrameSet
    BY <1>18 DEF Order
  <2>2. Bottom \notin FrameSet
    <3>1. \A f \in FrameSet : f \in Nat /\ f > 0
      BY <1>9, RunningCaller
    <3> QED BY <3>1, BottomAssumption DEF NULL, CAFE
  <2>3. ASSUME l # 1 PROVE FALSE
    <3>1. PICK m \in 1..(l - 1) : m + 1 = l
      <4>1. l - 1 \in 1..(l - 1) /\ (l - 1) + 1 = l
        BY <2>1, <2>3
      <4> QED BY <4>1
    <3>2. Frame(u[m + 1]).savedFp = u[m] /\ m \in 1..l
      BY <1>18 DEF Order
    <3> QED BY <1>4, <1>10, <2>1, <2>2, <3>1, <3>2
  <2> QED BY <2>3
<1>20. ActsOfFrames = <<Innermost>>
  <2>1. PICK y : y = Innermost
    OBVIOUS
  <2>2. ActsOfFrames = [j \in 1..l |-> IF j = l THEN Innermost ELSE Suspended(u[j], u[j + 1])]
    BY <1>9, <1>18, ActsOfOrder
  <2>3. ActsOfFrames = [j \in 1..1 |-> y]
    BY <1>19, <2>1, <2>2
  <2>4. [j \in 1..1 |-> y] = <<y>>
    OBVIOUS
  <2> QED BY <2>1, <2>3, <2>4
<1>21. BlocksOfClosures = <<>>
  <2>1. Len(closures) = 0
    BY <1>1
  <2>2. BlocksOfClosures = [i \in 1..0 |-> [code |-> closures[i].method, home |-> closures[i].homeId,
                                            vals |-> closures[i].copied]]
    BY <2>1 DEF BlocksOfClosures
  <2>3. PICK q : q = [i \in 1..0 |-> [code |-> closures[i].method, home |-> closures[i].homeId,
                                            vals |-> closures[i].copied]]
    OBVIOUS
  <2>4. q = <<>>
    BY <2>3
  <2> QED BY <2>2, <2>3, <2>4
<1>22. k = Act!Zeros(NumArgs[c]) /\ v = Act!Zeros(NumTemps[c]) /\ Act!Push = [k |-> "push", w |-> Zero]
  BY <1>2, <1>12, Zenon DEF Act!Zeros, Act!Push, Zero
<1> QED
  BY <1>1, <1>17, <1>20, <1>21, <1>22, Zenon DEF Act!Init

\* Nothing happens: while the machine runs, that is a step of the innermost
\* activation by itself.
LEMMA StutterActs ==
  ASSUME IInv, IInv', UNCHANGED vars
  PROVE  (Running /\ Act!Local) \/ UNCHANGED Act!vars
<1>1. UNCHANGED <<stack, fp, heap, calls, born, outcome>> /\ Running' = Running
  BY Zenon DEF vars, registers, Running
<1>2. BlocksOfClosures' = BlocksOfClosures
  BY <1>1, Zenon DEF heap, BlocksOfClosures
<1>3. CASE Running
  <2>1. Running' /\ \A p \in 1..fp : stack'[p] = stack[p]
    BY <1>1, <1>3
  <2> QED BY <1>1, <1>3, <2>1, LocalFromWords
<1>4. CASE ~Running
  <2>1. ActsOfFrames = <<>>
    BY <1>4, Zenon DEF ActsOfFrames
  <2>2. ~Running'
    BY <1>1, <1>4
  <2>3. ActsOfFrames' = <<>>
    BY <2>2, Zenon DEF ActsOfFrames
  <2> QED BY <1>1, <1>2, <2>1, <2>3, Zenon DEF Act!vars
<1> QED
  BY <1>3, <1>4

\* Every step of the machine is one of the activations, or a ^ past a dead home.
LEMMA StepActs ==
  ASSUME Uses = {}, IInv, IInv', [Next]_vars
  PROVE  [Act!Next \/ DeadHomeReturn]_(Act!vars)
<1>1. PlainUses
  BY DEF PlainUses
<1>3. ASSUME Running, \/ Act!Local \/ Act!MakeBlock \/ Act!Call \/ Act!CallBlock \/ Act!Protect
                      \/ Act!Return \/ Act!NonLocalReturn \/ Act!CannotReturn \/ Act!Stop
      PROVE  Act!Next
  BY <1>3, Zenon DEF Running, Act!Next
<1>2. CASE UNCHANGED vars
  <2>1. (Running /\ Act!Local) \/ UNCHANGED Act!vars
    BY <1>2, StutterActs
  <2> QED BY <1>3, <2>1
<1>4. CASE \/ PushValue \/ PushTemp \/ PushArg \/ PushSelf \/ Duplicate \/ Pop \/ StoreTemp
           \/ Jump \/ DataPrimitive
  <2>1. Running /\ Act!Local
    BY <1>4, DataLocal
  <2> QED BY <1>3, <2>1
<1>5. CASE PushThisContext
  <2>1. Running /\ Act!Local
    BY <1>5, ThisContextLocal
  <2> QED BY <1>3, <2>1
<1>6. CASE PushClosure
  <2>1. Running /\ Act!MakeBlock
    BY <1>6, PushClosureMakes
  <2> QED BY <1>3, <2>1
<1>7. CASE Trap \/ Halt
  <2>1. Running
    BY <1>7 DEF Trap, Halt, At
  <2>2. Act!Stop
    BY <1>7, <2>1, StopBytecodesStop
  <2> QED BY <1>3, <2>1, <2>2
<1>8. CASE Send
  <2>1. Running /\ (Act!Call \/ Act!Stop)
    BY <1>8, SendCalls
  <2> QED BY <1>3, <2>1
<1>9. CASE SendValue
  <2>1. Running /\ (Act!CallBlock \/ Act!Stop)
    BY <1>9, SendValueCalls
  <2> QED BY <1>3, <2>1
<1>10. CASE SendProtected
  <2>1. Running /\ (Act!Protect \/ Act!Stop)
    BY <1>10, SendProtectedProtects
  <2> QED BY <1>3, <2>1
<1>11. CASE Return
  <2>1. Running /\ (Act!Return \/ Act!Stop)
    BY <1>11, ReturnReturns
  <2> QED BY <1>3, <2>1
<1>12. CASE ReturnToHome
  <2>1. Running /\ (Act!NonLocalReturn \/ Act!Stop)
    BY <1>1, <1>12, ReturnToHomeReturns
  <2> QED BY <1>3, <2>1
<1>13. CASE ReturnPastDeadHome \/ ResumeSender
  BY <1>13, Zenon DEF DeadHomeReturn
<1>15. CASE SendCannotReturn
  <2>1. Running /\ (Act!CannotReturn \/ Act!Stop)
    BY <1>15, SendCannotReturnCalls
  <2> QED BY <1>3, <2>1
<1> QED
  BY <1>2, <1>4, <1>5, <1>6, <1>7, <1>8, <1>9, <1>10, <1>11, <1>12, <1>13, <1>15 DEF Next

\* Frames, saved registers, nested interpret()s and home contexts implement the
\* stack of activations, for every program without a ^ in a block made by a
\* block, out of a protected block or without contexts: every step but the ^
\* past a dead home, where interpret() does not do what is promised.
THEOREM FramesImplementActivations ==
  ASSUME Uses = {}
  PROVE  Spec => Implements
<1>1. PlainUses
  BY DEF PlainUses
<1>2. Init => Act!Init
  BY InitActs
<1>3. Spec => []IInv
  BY <1>1, Invariant
<1>4. IInv /\ IInv' /\ [Next]_vars => [Act!Next \/ DeadHomeReturn]_(Act!vars)
  BY StepActs
<1> QED
  BY <1>2, <1>3, <1>4, PTL DEF Spec, Implements

=============================================================================
