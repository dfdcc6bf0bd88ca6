------------------------------- MODULE Frames -------------------------------
(***************************************************************************)
(* The Smalltalk stack of the interpreter: frames (src/c_vm/frame.c), the  *)
(* bytecodes of interpret() that push, call, return and make closures      *)
(* (src/c_vm/interpret.c), and the heap contexts that frames are given     *)
(* when a block or thisContext needs one (src/c/primitives.c).             *)
(*                                                                         *)
(* The stack grows upwards here.  The saved ip, saved fp, method, flags    *)
(* and context words of a frame are one word, the position of which is fp. *)
(* A program is any sequence of bytecodes the compiler could emit: it pops *)
(* no more than it pushed and sends with as many arguments as the callee   *)
(* takes.  The fields id and home of frames and homeId of closures are     *)
(* history: no action reads them except to restrict the programs to Uses.  *)
(***************************************************************************)
EXTENDS Integers, Sequences

CONSTANTS
  Methods, Blocks,     \* the code units: compiled methods, and methods of blocks
  NumArgs, NumTemps,   \* CM_NUM_ARGS and CM_NUM_TEMPS of each
  Values,              \* what literals, fields and globals hold
  StackWords,          \* bound: smalltalk_stack_limit_low, as a height
  MaxContexts,         \* bound: the contexts the heap has room for
  MaxClosures, MaxActs, \* bounds: the closures and the activations of a run
  Program, MaxPc,      \* for each code unit, the bytecodes it may have at each place; its length
  ContextClasses,      \* may global_context_class be set, be NULL
  Bottom,              \* the fp the host starts with: NULL or 0xCAFE
  Uses                 \* what blocks with ^ do: "nested", "contextless", "protected"

Code == Methods \cup Blocks
NULL == 0
CAFE == -1

ASSUME CodeAssumption ==
  /\ Methods \cap Blocks = {} /\ {"none", "after"} \cap Code = {}
  /\ \A c \in Code : NumArgs[c] \in Nat /\ NumTemps[c] \in Nat /\ Len(Program[c]) \in 0..MaxPc
ASSUME BoundAssumption ==
  /\ MaxContexts \in Nat /\ MaxClosures \in Nat /\ MaxActs \in Nat /\ MaxPc \in Nat
  /\ StackWords \in Nat
  /\ \A c \in Methods : NumArgs[c] + NumTemps[c] + 3 <= StackWords   \* the host's stack
ASSUME BottomAssumption == Bottom \in {NULL, CAFE}
ASSUME UsesAssumption == /\ ContextClasses \subseteq BOOLEAN
                         /\ Uses \subseteq {"nested", "contextless", "protected"}

\* Oops, and the word 0 that activate_method stores into temporaries.
Zero   == [k |-> "zero", v |-> 0]
Nil    == [k |-> "nil", v |-> 0]
SmallInt(n) == [k |-> "int", v |-> n]
Blk(i) == [k |-> "block", v |-> i]
Ctx(i) == [k |-> "context", v |-> i]
Oop    == {Zero, Nil} \cup {SmallInt(n) : n \in Values \cup 0..MaxPc}
          \cup {Blk(i) : i \in 1..MaxClosures} \cup {Ctx(i) : i \in 1..MaxContexts}

\* An instruction pointer: a code unit and an offset into its bytecodes.
NoIp  == [m |-> "none", pc |-> 0]          \* 0, as the host passes it
After == [m |-> "after", pc |-> -1]         \* cannot_return_after_bytecodes
Ip    == [m : Code, pc : 0..MaxPc]

VARIABLES
  stack,      \* the words of the Smalltalk stack up to sp
  fp, ip,     \* the frame and the next bytecode
  base,       \* bytecode_base: the code unit jumps are relative to
  calls,      \* the active interpret()s and the primitives that called them
  closures, contexts,
  contextClass,
  born,       \* history: activations so far
  outcome     \* "running", or how the outermost interpret() ended

registers == <<stack, fp, ip, base>>
heap      == <<closures, contexts>>
vars      == <<registers, calls, heap, contextClass, born, outcome>>

\* ------------------------------------------------------------------ frames

SP       == Len(stack)
Entry    == calls[Len(calls)].entry
Frame(f) == stack[f]

\* The frame f and its callers, the way NonLocalReturn and the contexts walk:
\* down the stack to the frame whose saved fp is the host's.
Chain(f) ==
  LET From[g \in 1..StackWords] ==
        <<g>> \o IF Frame(g).savedFp \in 1..(g - 1) THEN From[Frame(g).savedFp] ELSE <<>>
  IN IF f \in {NULL, CAFE} THEN <<>> ELSE From[f]

InChain(f) == {Chain(f)[i] : i \in 1..Len(Chain(f))}

frame_arg(f, i)  == stack[f - Frame(f).numArgs + i]     \* i counts from 0
frame_temp(f, i) == stack[f + 2 + i]
FrameArgs(f)     == [i \in 1..Frame(f).numArgs |-> frame_arg(f, i - 1)]

block_closure_for_frame(f) ==
  CASE Frame(f).link.k = "context" -> contexts[Frame(f).link.v].closure
    [] Frame(f).link.k = "block"   -> Frame(f).link
    [] OTHER                       -> Nil

block_home_context_for_frame(f) ==
  CASE Frame(f).link.k = "context" -> contexts[Frame(f).link.v].home
    [] Frame(f).link.k = "block"   -> closures[Frame(f).link.v].homeContext
    [] OTHER                       -> Nil

\* The temporaries of a frame: copied values first in the frame of a block.
TempCount(f) ==
  LET b == block_closure_for_frame(f)
  IN NumTemps[Frame(f).method] + IF b = Nil THEN 0 ELSE Len(closures[b.v].copied)

FrameTemps(f)  == [i \in 1..TempCount(f) |-> frame_temp(f, i - 1)]
OperandBase(f) == f + 1 + TempCount(f)
Operands       == SP - OperandBase(fp)
TopOp(n)       == stack[SP - n]             \* sp[n]

Zeros(n) == [i \in 1..n |-> Zero]

\* activate_method: the words it pushes on st.
activate_method(st, savedFp, savedIp, c, n, temps) ==
  st \o <<[k |-> "frame", savedIp |-> savedIp, savedFp |-> savedFp, method |-> c,
           numArgs |-> n, isBlock |-> FALSE, link |-> Zero,
           id |-> born + 1, home |-> born + 1],
          st[Len(st) - n]>> \o Zeros(temps)

\* Mutant: the temporaries of the new frame are not counted.
StackOverflowWithoutTemps(height, temps) == height + 2 > StackWords

StackOverflow(height, temps) == height + 2 + temps > StackWords

\* activate_block_call: the receiver of the home in place of the block, the
\* copied values in the first temporaries, the closure in the context slot.
activate_block_call(st, savedFp, savedIp, b, n) ==
  LET c     == closures[b]
      under == [st EXCEPT ![Len(st) - n] = c.receiver]
      all   == activate_method(under, savedFp, savedIp, c.method, n,
                               NumTemps[c.method] + Len(c.copied))
      f     == Len(st) + 1
  IN [i \in 1..Len(all) |->
        IF i = f THEN [all[f] EXCEPT !.isBlock = TRUE, !.link = Blk(b), !.home = c.homeId]
        ELSE IF i \in (f + 2)..(f + 1 + Len(c.copied)) THEN c.copied[i - f - 1]
        ELSE all[i]]

\* Mutant: the arguments of the send stay on the stack.
ReturnedAboveArguments(f, v) == Append(SubSeq(stack, 1, f - 2), v)

\* frame_return: the value replaces the receiver of the send that made frame f.
Returned(f, v) == Append(SubSeq(stack, 1, f - Frame(f).numArgs - 2), v)

\* ---------------------------------------------------------------- contexts

\* Mutant: the caller of a frame is given no context.
MissingOne(f) == IF Frame(f).link.k = "context" THEN <<>> ELSE <<f>>

\* The frames ensure_frame_context gives a context to: f and its callers, up
\* to the first that has one, and no more than om_alloc has room for.
Missing(f) ==
  LET c == Chain(f)
      n == CHOOSE m \in 0..Len(c) :
             /\ \A i \in 1..m : Frame(c[i]).link.k # "context"
             /\ m = Len(c) \/ Frame(c[m + 1]).link.k = "context"
  IN SubSeq(c, 1, n)

\* Mutant: a context is made whether or not om_alloc has room for it.
MadeAnyway(f) == Len(Missing(f))

Smaller(a, b) == IF a < b THEN a ELSE b
Made(f) == Smaller(Len(Missing(f)), MaxContexts - Len(contexts))

context_ip_for_frame(f) ==
  IF Frame(f).savedIp.m = Frame(f).method THEN SmallInt(Frame(f).savedIp.pc) ELSE Nil

\* The i-th context made: only the first frame's operands are saved, for its
\* callers are materialized without a stack pointer.
NewContext(f, i) ==
  LET g      == Missing(f)[i]
      b      == block_closure_for_frame(g)
      saved  == NumTemps[Frame(g).method]
      caller == Frame(g).savedFp
      sender == IF i < Made(f) THEN Ctx(Len(contexts) + i + 1)
                ELSE IF i = Len(Missing(f)) /\ caller \notin {NULL, CAFE} THEN Frame(caller).link
                ELSE Nil
  IN [sender |-> sender, ip |-> context_ip_for_frame(g), method |-> Frame(g).method,
      receiver |-> stack[g + 1], closure |-> b,
      home |-> IF b = Nil THEN Nil ELSE closures[b.v].homeContext,
      isBlock |-> Frame(g).isBlock, args |-> FrameArgs(g),
      temps |-> [j \in 1..saved |-> frame_temp(g, j - 1)],
      rest |-> IF i = 1 THEN SubSeq(stack, g + 2 + saved, SP) ELSE <<>>]

ContextsWith(f) == contexts \o [i \in 1..Made(f) |-> NewContext(f, i)]

StackMarried(f) ==
  [p \in 1..SP |->
     IF \E i \in 1..Made(f) : Missing(f)[i] = p
       THEN [Frame(p) EXCEPT !.link =
               Ctx(Len(contexts) + (CHOOSE i \in 1..Made(f) : Missing(f)[i] = p))]
       ELSE stack[p]]

HasContextAfter(f) == Frame(f).link.k = "context" \/ (contextClass /\ Made(f) > 0)

\* activate_context: a frame on st for the context c, with no caller.
activate_context(st, c) ==
  LET x   == contexts[c]
      all == activate_method(st \o <<x.receiver>> \o x.args, NULL, NoIp, x.method,
                             Len(x.args), 0)
      f   == Len(st) + Len(x.args) + 2
  IN [all EXCEPT ![f] = [@ EXCEPT !.link = Ctx(c), !.isBlock = x.isBlock]] \o x.temps \o x.rest

\* -------------------------------------------------------------- the machine

Running   == outcome = "running"
Next1(i)  == [i EXCEPT !.pc = @ + 1]
At(op)    == /\ Running /\ ip.m \in Code
             /\ ip.pc < Len(Program[ip.m]) /\ op \in Program[ip.m][ip.pc + 1]
Continue  == UNCHANGED <<calls, contextClass, born, outcome>>

Init ==
  \E c \in Methods :
    /\ stack = <<SmallInt(0)>> \o Zeros(NumArgs[c]) \o
               <<[k |-> "frame", savedIp |-> NoIp, savedFp |-> Bottom, method |-> c,
                  numArgs |-> NumArgs[c], isBlock |-> FALSE, link |-> Zero, id |-> 1, home |-> 1],
                 SmallInt(0)>> \o Zeros(NumTemps[c])
    /\ fp = NumArgs[c] + 2
    /\ ip = [m |-> c, pc |-> 0]
    /\ base = c
    /\ calls = <<[entry |-> NumArgs[c] + 2, kind |-> "host", savedSp |-> 0, savedFp |-> Bottom,
                  ip |-> NoIp, base |-> c, cleanup |-> Zero, result |-> Zero]>>
    /\ closures = <<>>
    /\ contexts = <<>>
    /\ contextClass \in ContextClasses
    /\ born = 1
    /\ outcome = "running"

Bytecode(st, i) ==
  /\ stack' = st
  /\ ip' = i
  /\ UNCHANGED <<fp, base, heap>>
  /\ Continue

\* PUSH_LITERAL, PUSH_INST_VAR, PUSH_GLOBAL; and a primitive on data, which
\* replaces receiver and arguments by its answer.
PushValue == At("value") /\ \E n \in Values : Bytecode(Append(stack, SmallInt(n)), Next1(ip))

PushTemp ==
  At("temp") /\ \E i \in 0..(TempCount(fp) - 1) :
    Bytecode(Append(stack, frame_temp(fp, i)), Next1(ip))

PushArg ==
  At("arg") /\ \E i \in 0..(Frame(fp).numArgs - 1) :
    Bytecode(Append(stack, frame_arg(fp, i)), Next1(ip))

PushSelf == At("self") /\ Bytecode(Append(stack, stack[fp + 1]), Next1(ip))

Duplicate == At("dup") /\ Operands > 0 /\ Bytecode(Append(stack, TopOp(0)), Next1(ip))

Pop == At("pop") /\ Operands > 0 /\ Bytecode(SubSeq(stack, 1, SP - 1), Next1(ip))

StoreTemp ==
  /\ At("store") /\ Operands > 0
  /\ \E i \in 0..(TempCount(fp) - 1) :
       Bytecode(SubSeq([stack EXCEPT ![fp + 2 + i] = TopOp(0)], 1, SP - 1), Next1(ip))

\* BC_JUMP pops nothing; the conditional jumps pop a condition and may also go
\* on at the next bytecode.  Other operands may wait below.
Jump ==
  /\ At("jump")
  /\ \E n \in 0..1, t \in 0..(Len(Program[base]) - 1) :
       /\ Operands >= n
       /\ Bytecode(SubSeq(stack, 1, SP - n), [m |-> base, pc |-> t])

\* A primitive on data replaces its receiver and n arguments by the answer.
DataPrimitive ==
  /\ At("prim")
  /\ \E n \in 0..1, v \in Values :
       /\ Operands > n
       /\ Bytecode(Append(SubSeq(stack, 1, SP - n - 1), SmallInt(v)), Next1(ip))

PushThisContext ==
  /\ At("this") /\ HasContextAfter(fp)
  /\ IF Frame(fp).link.k = "context"
       THEN stack' = Append(stack, Frame(fp).link) /\ UNCHANGED contexts
       ELSE /\ stack' = Append(StackMarried(fp), Ctx(Len(contexts) + 1))
            /\ contexts' = ContextsWith(fp)
  /\ ip' = Next1(ip)
  /\ UNCHANGED <<fp, base, closures>>
  /\ Continue

\* BC_PUSH_CLOSURE: the home is the context of the frame that runs, and the
\* arguments and temporaries of that frame are copied.
PushClosure ==
  /\ At("closure") /\ Len(closures) < MaxClosures
  /\ contextClass => HasContextAfter(fp)
  /\ \E c \in Blocks :
       LET married == contextClass /\ Frame(fp).link.k # "context"
       IN /\ stack' = Append(IF married THEN StackMarried(fp) ELSE stack, Blk(Len(closures) + 1))
          /\ contexts' = IF married THEN ContextsWith(fp) ELSE contexts
          /\ closures' = Append(closures,
               [homeContext |-> IF married THEN Ctx(Len(contexts) + 1)
                                ELSE IF Frame(fp).link.k = "context" THEN Frame(fp).link ELSE Nil,
                receiver |-> stack[fp + 1], method |-> c,
                copied |-> FrameArgs(fp) \o FrameTemps(fp), homeId |-> Frame(fp).home])
  /\ ip' = Next1(ip)
  /\ UNCHANGED <<fp, base>>
  /\ Continue

\* unsupported_bytecode: not understood, halt, and what the heap has no room for.
Trap ==
  /\ At("trap")
  /\ outcome' = "trap"
  /\ UNCHANGED <<registers, calls, heap, contextClass, born>>

\* BC_HALT, which only the host's own code has.
Halt ==
  /\ At("halt") /\ Len(calls) = 1 /\ Operands > 0
  /\ outcome' = "halt"
  /\ UNCHANGED <<registers, calls, heap, contextClass, born>>

\* Control enters code c in the frame at the word after the height h.
Enter(st, h, c) ==
  /\ stack' = st
  /\ fp' = h + 1
  /\ ip' = [m |-> c, pc |-> 0]
  /\ base' = c
  /\ born' = born + 1
  /\ UNCHANGED <<contextClass, outcome>>

Overflow ==
  /\ outcome' = "trap"
  /\ UNCHANGED <<registers, calls, heap, contextClass, born>>

\* A send whose method has no primitive, or whose primitive failed.
Send ==
  /\ At("send") /\ born < MaxActs
  /\ \E c \in Methods :
       /\ Operands > NumArgs[c]
       /\ IF StackOverflow(SP, NumTemps[c]) THEN Overflow
          ELSE /\ Enter(activate_method(stack, fp, Next1(ip), c, NumArgs[c], NumTemps[c]), SP, c)
               /\ UNCHANGED <<calls, heap>>

\* value and value: run the block in the same interpret().
SendValue ==
  /\ At("call") /\ born < MaxActs
  /\ \E n \in 0..1 :
       /\ Operands > n
       /\ TopOp(n).k = "block"
       /\ LET b == TopOp(n).v
              c == closures[b].method
          IN /\ NumArgs[c] = n
             /\ IF StackOverflow(SP, NumTemps[c] + Len(closures[b].copied)) THEN Overflow
                ELSE /\ Enter(activate_block_call(stack, fp, Next1(ip), b, n), SP, c)
                     /\ UNCHANGED <<calls, heap>>

\* invoke_block_closure from a primitive: a new interpret() whose first frame
\* is the block's.  st is the stack it pushes the block on.
Invoke(st, b, savedFp, call) ==
  LET on == Append(st, Blk(b))
      c  == closures[b].method
  IN IF StackOverflow(Len(on), NumTemps[c] + Len(closures[b].copied)) THEN Overflow
     ELSE /\ Enter(activate_block_call(on, savedFp, call.ip, b, 0), Len(on), c)
          /\ calls' = Append(SubSeq(calls, 1, call.level - 1),
                             [entry |-> Len(on) + 1, kind |-> call.kind, savedSp |-> call.savedSp,
                              savedFp |-> savedFp, ip |-> call.ip, base |-> call.base,
                              cleanup |-> call.cleanup, result |-> call.result])
          /\ UNCHANGED heap

IsThunk(w) == w.k = "block" /\ NumArgs[closures[w.v].method] = 0

\* try_block_primitive and try_transaction_primitive.
SendProtected ==
  /\ At("protect") /\ Operands > 1 /\ born < MaxActs
  /\ \E kind \in {"ensure", "onDo", "transaction"} :
       LET n     == IF kind = "onDo" THEN 3 ELSE 2
           block == IF kind = "transaction" THEN TopOp(0) ELSE TopOp(n - 1)
           under == SubSeq(stack, 1, SP - n)
       IN /\ Operands >= n
          /\ IsThunk(block)
          /\ kind = "ensure" => IsThunk(TopOp(0))
          /\ Invoke(IF kind = "onDo" THEN under ELSE stack, block.v, fp,
                    [level |-> Len(calls) + 1, kind |-> kind, savedSp |-> SP - n,
                     ip |-> Next1(ip), base |-> base, result |-> Zero,
                     cleanup |-> IF kind = "ensure" THEN TopOp(0) ELSE Zero])

\* interpret() answers v to its caller: the host, or a primitive that goes on
\* with the stack and the frame it saved.  Words above st are lost.
Junk == [k |-> "junk", v |-> 0]
Resized(st, n) == [i \in 1..n |-> IF i <= Len(st) THEN st[i] ELSE Junk]

Answer(st, v) ==
  LET call  == calls[Len(calls)]
      under == Resized(st, call.savedSp)
  IN CASE call.kind = "host" ->
            /\ outcome' = "done"
            /\ UNCHANGED <<registers, calls, heap, contextClass, born>>
       [] call.kind = "ensure" ->
            Invoke(under, call.cleanup.v, call.savedFp,
                   [level |-> Len(calls), kind |-> "cleanup", savedSp |-> call.savedSp,
                    ip |-> call.ip, base |-> call.base, cleanup |-> Zero, result |-> v])
       [] OTHER ->
            /\ stack' = Append(under, IF call.kind = "cleanup" THEN call.result ELSE v)
            /\ fp' = call.savedFp
            /\ ip' = call.ip
            /\ base' = call.base
            /\ calls' = SubSeq(calls, 1, Len(calls) - 1)
            /\ UNCHANGED <<heap, contextClass, born, outcome>>

\* Mutant: bytecode_base is that of the callee.
ResumeCallerKeepingBase(f, v) ==
  /\ stack' = Returned(f, v)
  /\ fp' = Frame(f).savedFp
  /\ ip' = Frame(f).savedIp
  /\ outcome' = IF fp' \in {NULL, CAFE} THEN "wild" ELSE "running"
  /\ UNCHANGED <<base, calls, heap, contextClass, born>>

\* The loop goes on in the caller of frame f, with f's words off the stack.
\* Without a caller there is no ip to go on at: the fetch is undefined.
ResumeCaller(f, v) ==
  /\ stack' = Returned(f, v)
  /\ fp' = Frame(f).savedFp
  /\ ip' = Frame(f).savedIp
  /\ base' = IF fp' \in {NULL, CAFE} THEN base ELSE Frame(fp').method
  /\ outcome' = IF fp' \in {NULL, CAFE} THEN "wild" ELSE "running"
  /\ UNCHANGED <<calls, heap, contextClass, born>>

\* BC_RETURN_STACK_TOP.
Return ==
  /\ At("return") \/ (Running /\ ip.m = "after")
  /\ Operands > 0
  /\ IF Frame(fp).savedFp = NULL \/ fp = Entry
       THEN Answer(Returned(fp, TopOp(0)), TopOp(0))
       ELSE ResumeCaller(fp, TopOp(0))

\* The programs of this instance: what blocks with a ^ may do.
HomeAlive == \E f \in InChain(fp) : Frame(f).id = Frame(fp).home
InUses ==
  /\ "nested" \notin Uses /\ block_home_context_for_frame(fp) # Nil =>
       ~contexts[block_home_context_for_frame(fp).v].isBlock
  /\ "contextless" \in Uses \/ ~HomeAlive \/ block_home_context_for_frame(fp) # Nil
  /\ "protected" \in Uses \/ \A f \in InChain(fp) : Frame(f).id = Frame(fp).home => f >= Entry

HomeFrames ==
  {f \in InChain(fp) : Frame(f).link.k = "context" /\ Frame(f).link = block_home_context_for_frame(fp)}

MayReturnNonLocal == At("^") /\ Frame(fp).isBlock /\ Operands > 0 /\ InUses

\* BC_RETURN_NON_LOCAL with the home on the stack of frames.
ReturnToHome ==
  /\ MayReturnNonLocal
  /\ \E f \in HomeFrames :
       /\ \A g \in HomeFrames : g <= f
       /\ IF f = Entry THEN Answer(Returned(f, TopOp(0)), TopOp(0))
          ELSE ResumeCaller(f, TopOp(0))

\* ... with a home that has returned and had no sender: interpret() answers.
ReturnPastDeadHome ==
  /\ MayReturnNonLocal /\ HomeFrames = {}
  /\ block_home_context_for_frame(fp).k = "context"
  /\ contexts[block_home_context_for_frame(fp).v].sender = Nil
  /\ Answer(stack, TopOp(0))

\* ... with a sender: resume_sender_context, which takes the CONTEXT_IP field, a
\* SmallInteger or nil, for an address.
ResumeSender ==
  /\ MayReturnNonLocal /\ HomeFrames = {}
  /\ block_home_context_for_frame(fp).k = "context"
  /\ LET sender == contexts[block_home_context_for_frame(fp).v].sender
     IN /\ sender.k = "context"
        /\ stack' = Append(activate_context(stack, sender.v), TopOp(0))
        /\ fp' = SP + Len(contexts[sender.v].args) + 2
        /\ base' = contexts[sender.v].method
  /\ ip' = NoIp
  /\ outcome' = "wild"
  /\ UNCHANGED <<calls, heap, contextClass, born>>

\* ... and without contexts: the closure is sent cannotReturn:.
SendCannotReturn ==
  /\ MayReturnNonLocal /\ HomeFrames = {} /\ born < MaxActs
  /\ block_home_context_for_frame(fp) = Nil
  /\ \E c \in Methods :
       LET st == Append([stack EXCEPT ![SP] = block_closure_for_frame(fp)], TopOp(0))
       IN /\ NumArgs[c] = 1
          /\ IF StackOverflow(SP + 1, NumTemps[c]) THEN Overflow
             ELSE /\ Enter(activate_method(st, fp, After, c, 1, NumTemps[c]), SP + 1, c)
                  /\ UNCHANGED <<calls, heap>>

Next ==
  \/ PushValue \/ PushTemp \/ PushArg \/ PushSelf \/ Duplicate \/ Pop \/ StoreTemp
  \/ Jump \/ DataPrimitive \/ PushThisContext \/ PushClosure \/ Trap \/ Halt
  \/ Send \/ SendValue \/ SendProtected \/ Return
  \/ ReturnToHome \/ ReturnPastDeadHome \/ ResumeSender \/ SendCannotReturn

Spec == Init /\ [][Next]_vars

\* -------------------------------------------------------------- properties

FrameWord ==
  [k : {"frame"}, savedIp : Ip \cup {NoIp, After}, savedFp : {NULL, CAFE} \cup 1..StackWords,
   method : Code, numArgs : Nat, isBlock : BOOLEAN, link : Oop, id : Nat, home : Nat]

\* Types: above all, no word of a frame and no lost word is ever an operand.
TypeOK ==
  /\ \A p \in 1..SP : stack[p] \in Oop \/ stack[p] \in FrameWord
  /\ fp \in {NULL, CAFE} \cup 1..SP
  /\ ip \in Ip \cup {NoIp, After}
  /\ base \in Code
  /\ Len(closures) <= MaxClosures /\ Len(contexts) <= MaxContexts
  /\ outcome \in {"running", "done", "trap", "halt", "wild"}
  /\ outcome = "running" => \A i \in 0..(Operands - 1) : TopOp(i) \in Oop

\* activate_method looks at the limit once for a frame and push never does: what
\* lies beyond the limit is at most the operands of the frame that runs.
FramesWithinLimit ==
  Running => \A f \in InChain(fp) : OperandBase(f) <= StackWords

\* Jumps are relative to the code of the frame that runs, after every kind of
\* call, return, ^ and nested interpret(): bytecode_base is reloaded in time.
IpInMethod ==
  Running => /\ base = Frame(fp).method
             /\ ip.m \in Code => ip.m = base

\* The sender of a frame's context is the context of its caller.  It is missing
\* only at the bottom, or when the heap was full as the contexts were made.
SendersFollowFrames ==
  Running => \A f \in InChain(fp) :
    Frame(f).link.k = "context" =>
      LET x == contexts[Frame(f).link.v]
          c == Frame(f).savedFp
      IN /\ x.method = Frame(f).method /\ x.args = FrameArgs(f)
         /\ IF c \in {NULL, CAFE} THEN x.sender = Nil
            ELSE x.sender = Nil \/ (x.sender.k = "context" /\ x.sender = Frame(c).link)
         /\ x.sender = Nil /\ c \notin {NULL, CAFE} => Len(contexts) = MaxContexts

\* The call that runs frame f first, if a primitive made it.
CallsAt(f) == {k \in 2..Len(calls) : calls[k].entry = f}
CallAt(f)  == calls[CHOOSE k \in CallsAt(f) : TRUE]

\* What becomes of the value of frame f.
Then(f) ==
  IF CallsAt(f) = {} \/ CallAt(f).kind \in {"onDo", "transaction"} THEN [k |-> "push", w |-> Zero]
  ELSE IF CallAt(f).kind = "ensure" THEN [k |-> "cleanup", w |-> CallAt(f).cleanup]
  ELSE [k |-> "restore", w |-> CallAt(f).result]

\* Where the operands of the caller of frame f end while it waits.
EndBelow(f) == IF CallsAt(f) = {} THEN f - Frame(f).numArgs - 2 ELSE CallAt(f).savedSp

\* The activation of frame f, with its operands up to end, at pc.
Activation(f, end, pc) ==
  [code |-> Frame(f).method, id |-> Frame(f).id, home |-> Frame(f).home,
   args |-> FrameArgs(f), vars |-> FrameTemps(f), ops |-> SubSeq(stack, OperandBase(f) + 1, end),
   pc |-> pc, then |-> Then(f)]

\* Those of the frame that runs, and of the caller f of frame g.
Innermost       == Activation(fp, SP, ip.pc)
Suspended(f, g) == Activation(f, EndBelow(g), Frame(g).savedIp.pc)

\* The activations the frames stand for, the running one last.
ActsOfFrames ==
  IF Running
    THEN LET c == Chain(fp)
             n == Len(c)
         IN [j \in 1..n |->
               IF j = n THEN Innermost ELSE Suspended(c[n + 1 - j], c[n - j])]
    ELSE <<>>

BlocksOfClosures ==
  [i \in 1..Len(closures) |->
     [code |-> closures[i].method, home |-> closures[i].homeId, vals |-> closures[i].copied]]

Act == INSTANCE Activations WITH acts <- ActsOfFrames, blocks <- BlocksOfClosures, status <- outcome

\* A ^ whose home has returned but left a context behind: no cannotReturn: is
\* sent.  The value goes to the caller of the interpret() that runs, or the
\* machine goes on nowhere (README, deviation 10).
DeadHomeReturn == ReturnPastDeadHome \/ ResumeSender

\* Frames, saved registers, nested interpret()s and home contexts implement the
\* stack of activations, but for one kind of step: callers are untouched until
\* their callee returns, a value lands on the operands of the right caller, at
\* the right bytecode, and a ^ returns from the home of its block or sends
\* cannotReturn:, unless it is a DeadHomeReturn, of which nothing is said.
Implements == Act!Init /\ [][Act!Next \/ DeadHomeReturn]_(Act!vars)

\* The same without the exception, as tests/test_blocks.c:806 has it: an escaped ^
\* sends cannotReturn:.  interpret() breaks it where there are contexts (README,
\* deviation 10); no run checks it.
ImplementsStrictly == Act!Spec

=============================================================================
