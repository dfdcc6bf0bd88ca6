-------------------------- MODULE ProtectedBlocks --------------------------
(***************************************************************************)
(* The control and the memory of one interpreter that runs Smalltalk code  *)
(* inside `on:do:`, `ensure:` and `Transaction` blocks                     *)
(* (src/c_vm/interpret.c, src/arm/txn.s).                                  *)
(*                                                                         *)
(* Each of those primitives calls interpret() for its block, so the C      *)
(* stack holds one activation per open primitive: `stack`.  Three global   *)
(* pointers chain the activations that took part in setjmp or own a log.   *)
(* The program is arbitrary: at any moment the running block may read,     *)
(* store, open another protected block, signal or finish.                  *)
(***************************************************************************)
EXTENDS TxnLog, FiniteSets

CONSTANTS
  ExceptionClass,                  \* classes of exceptions and of handlers
  Handles,                         \* <<h, c>>: `h handlesSignalClass: c` is true
  InitialHeap,                     \* the objects before the program runs
  Absent,                          \* "no pending write" of the abstract store
  TRANSACTION_LOG_ENTRY_CAPACITY,  \* triples the on-stack log has room for
  MaxDepth                         \* bound: protected blocks open at once

ASSUME HandlesAssumption == Handles \subseteq ExceptionClass \X ExceptionClass
ASSUME CapacityAssumption == TRANSACTION_LOG_ENTRY_CAPACITY \in Nat
ASSUME InitialHeapAssumption == InitialHeap \in Heap
ASSUME AbsentAssumption == Absent \notin Oop
ASSUME MaxDepthAssumption == MaxDepth \in Nat

NoClass == "none"

ASSUME NoClassAssumption == NoClass \notin ExceptionClass

TransactionMode == {"atomic", "durable", "readOnly"}

(***************************************************************************)
(* An activation is named for the block its interpret() is running:        *)
(*   onDo    the receiver of on:do:        handler  its handler block      *)
(*   ensure  the receiver of ensure:       cleanup  its ensure block after *)
(*   a normal end,  unwind  its ensure block because of a signal           *)
(*   atomic, durable, readOnly  a transaction that owns its log            *)
(*   joined  a transaction block opened inside another one                 *)
(* `class` is the exception class of on:do:, or the signal an unwind block *)
(* will go on with; `logged` says that txn_log is not NULL in the block;   *)
(* `previous` is the length of the chain the activation was pushed on.     *)
(***************************************************************************)
Kind == {"onDo", "handler", "ensure", "cleanup", "unwind", "joined"}
          \cup TransactionMode
Activation == [kind : Kind, class : ExceptionClass \cup {NoClass},
               logged : BOOLEAN, previous : Nat]

VARIABLES
  heap,       \* the objects
  log,        \* the triples of the open transaction's log
  stack,      \* C activations of the block primitives, outermost first
  handlers,   \* current_exception_handler and its `previous` chain, as depths
              \* in stack; 0 is a frame whose C activation is gone
  ensures,    \* current_ensure_frame and its chain, as depths in stack
  txnFrame,   \* current_transaction_log_frame, as a depth; 0 is NULL
  status,     \* what the interpreter is doing
  signal,     \* class of the signal being propagated
  installed,  \* triples _txn_commit has installed
  answer,     \* what the last read pushed on the operand stack
  committed   \* history: the heap without the open transaction

vars == <<heap, log, stack, handlers, ensures, txnFrame, status, signal,
          installed, answer, committed>>
chains == <<handlers, ensures, txnFrame>>
memory == <<heap, log, installed, answer, committed>>

Status == {"running", "signaling", "committing", "trapped", "undefined"}

TypeOK ==
  /\ heap \in Heap
  /\ log \in Seq(Entry)
  /\ stack \in Seq(Activation)
  /\ handlers \in Seq(Nat)
  /\ ensures \in Seq(Nat)
  /\ txnFrame \in Nat
  /\ status \in Status
  /\ signal \in ExceptionClass \cup {NoClass}
  /\ installed \in Nat
  /\ answer \in Oop \cup Answers
  /\ committed \in Heap

Init ==
  /\ heap = InitialHeap
  /\ log = <<>>
  /\ stack = <<>>
  /\ handlers = <<>>
  /\ ensures = <<>>
  /\ txnFrame = 0
  /\ status = "running"
  /\ signal = NoClass
  /\ installed = 0
  /\ answer = TAGGED_NIL
  /\ committed = heap

-----------------------------------------------------------------------------
(* Helpers on the stack and the chains. *)

Top == stack[Len(stack)]

\* The txn_log argument of the running interpret().
Logged == stack # <<>> /\ Top.logged

Prefix(chain, n) == SubSeq(chain, 1, n)

Activate(kind, class, logged, previous) ==
  [kind |-> kind, class |-> class, logged |-> logged, previous |-> previous]

\* longjmp to the activation at `depth`, which goes on as `act`.
Resume(depth, act) == Append(SubSeq(stack, 1, depth - 1), act)

\* The handler frames above `depth` are on a part of the C stack that is gone.
Abandon(chain, depth) ==
  [i \in DOMAIN chain |-> IF chain[i] > depth THEN 0 ELSE chain[i]]

\* The first handler frame, from the top of the chain, at which the search of
\* propagate_signal stops: a match, or memory that is no longer a frame.
StopsSearch(i, class) ==
  handlers[i] # 0 => <<stack[handlers[i]].class, class>> \in Handles

Found(i, class) ==
  /\ i \in DOMAIN handlers
  /\ StopsSearch(i, class)
  /\ \A j \in DOMAIN handlers : j > i => ~StopsSearch(j, class)

-----------------------------------------------------------------------------
(* Reads and stores of the running block. *)

\* BC_PUSH_INST_VAR and at:.
ValueRead(s) ==
  IF Logged /\ txn_log_found(log, s) THEN txn_log_read(log, s)
  ELSE Fetched(heap, s)

Read(s) ==
  /\ status = "running"
  /\ answer' = ValueRead(s)
  /\ UNCHANGED <<heap, log, installed, committed, stack, chains, status, signal>>

\* BC_STORE_INST_VAR and at:put: in a transaction.  Nothing checks that there
\* is room: one triple too many is written past the end of the array.
LoggedStore(s, v) ==
  /\ status = "running" /\ Logged
  /\ IF Len(log) < TRANSACTION_LOG_ENTRY_CAPACITY
     THEN log' = txn_log_write(log, s, v) /\ UNCHANGED status
     ELSE status' = "undefined" /\ UNCHANGED log
  /\ UNCHANGED <<heap, installed, answer, committed, stack, chains, signal>>

\* The same outside a transaction; at:put: of a byte fails unless it is one.
DirectStore(s, v) ==
  /\ status = "running" /\ ~Logged
  /\ s \in ByteSlot => is_smallint_value(v) /\ untag_smallint(v) \in Byte
  /\ heap' = [heap EXCEPT ![s] = Stored(s, v)]
  /\ committed' = heap'
  /\ UNCHANGED <<log, installed, answer, stack, chains, status, signal>>

-----------------------------------------------------------------------------
(* Opening a protected block: the running block calls a primitive. *)

Open(act) ==
  /\ status = "running"
  /\ Len(stack) < MaxDepth
  /\ stack' = Append(stack, act)
  /\ UNCHANGED <<status, signal>>

OnDo(class) ==
  /\ Open(Activate("onDo", class, Logged, Len(handlers)))
  /\ handlers' = Append(handlers, Len(stack) + 1)
  /\ UNCHANGED <<memory, ensures, txnFrame>>

\* Mutant: the frame is linked one below the chain it is pushed on.
EnsureLinkedTooLow ==
  /\ Open(Activate("ensure", NoClass, Logged, Len(ensures) - 1))
  /\ ensures' = Append(ensures, Len(stack) + 1)
  /\ UNCHANGED <<memory, handlers, txnFrame>>

Ensure ==
  /\ Open(Activate("ensure", NoClass, Logged, Len(ensures)))
  /\ ensures' = Append(ensures, Len(stack) + 1)
  /\ UNCHANGED <<memory, handlers, txnFrame>>

\* With a log already open the block just runs on it, whatever the mode.
JoinTransaction ==
  /\ txnFrame # 0
  /\ Open(Activate("joined", NoClass, TRUE, 0))
  /\ UNCHANGED <<memory, chains>>

BeginTransaction(mode) ==
  /\ txnFrame = 0
  /\ Open(Activate(mode, NoClass, TRUE, Len(ensures)))
  /\ log' = <<>>
  /\ installed' = 0
  /\ txnFrame' = Len(stack) + 1
  /\ ensures' = Append(ensures, Len(stack) + 1)
  /\ UNCHANGED <<heap, answer, committed, handlers>>

-----------------------------------------------------------------------------
(* The running block ends normally: the rest of its primitive. *)

Ends(kinds) ==
  /\ status = "running"
  /\ stack # <<>> /\ Top.kind \in kinds

Pop == stack' = Prefix(stack, Len(stack) - 1)

\* Mutant: current_exception_handler is not restored.
EndOnDoKeepsHandler ==
  /\ Ends({"onDo", "handler"})
  /\ Pop
  /\ UNCHANGED <<memory, chains, status, signal>>

EndOnDo ==
  /\ Ends({"onDo", "handler"})
  /\ Pop
  /\ handlers' = Prefix(handlers, Top.previous)
  /\ UNCHANGED <<memory, ensures, txnFrame, status, signal>>

\* An ensure block that followed a normal end, a joined transaction: nothing
\* is left to do.
EndPlain ==
  /\ Ends({"cleanup", "joined"})
  /\ Pop
  /\ UNCHANGED <<memory, chains, status, signal>>

\* Mutant: the ensure block runs with its own frame still in the chain.
EndEnsureKeepsFrame ==
  /\ Ends({"ensure"})
  /\ stack' = Resume(Len(stack), Activate("cleanup", NoClass, Top.logged, 0))
  /\ UNCHANGED <<memory, chains, status, signal>>

\* The protected block of ensure: is done; its ensure block runs unprotected.
EndEnsure ==
  /\ Ends({"ensure"})
  /\ ensures' = Prefix(ensures, Top.previous)
  /\ stack' = Resume(Len(stack), Activate("cleanup", NoClass, Top.logged, 0))
  /\ UNCHANGED <<memory, handlers, txnFrame, status, signal>>

\* The ensure block of an unwinding ensure: is done; the signal goes on.
EndUnwind ==
  /\ Ends({"unwind"})
  /\ Pop
  /\ status' = "signaling"
  /\ signal' = Top.class
  /\ UNCHANGED <<memory, chains>>

\* Mutant: the count of the log is not reset.
TxnAbortKeepsLog ==
  /\ txnFrame' = 0
  /\ UNCHANGED <<heap, log, installed, answer, committed>>

\* _txn_abort and the pop of the transaction frame.
txn_abort ==
  /\ log' = <<>>
  /\ txnFrame' = 0
  /\ UNCHANGED <<heap, installed, answer, committed>>

EndReadOnly ==
  /\ Ends({"readOnly"})
  /\ Pop
  /\ ensures' = Prefix(ensures, Top.previous)
  /\ txn_abort
  /\ UNCHANGED <<handlers, status, signal>>

\* txn_log_append_fsync answered 0: abort, then SIGTRAP.
DurableFails ==
  /\ Ends({"durable"})
  /\ Pop
  /\ ensures' = Prefix(ensures, Top.previous)
  /\ txn_abort
  /\ status' = "trapped"
  /\ UNCHANGED <<handlers, signal>>

\* An atomic block ended, or a durable one whose record reached the disk.
StartCommit ==
  /\ Ends({"atomic", "durable"})
  /\ ensures' = Prefix(ensures, Top.previous)
  /\ status' = "committing"
  /\ installed' = 0
  /\ UNCHANGED <<heap, log, answer, committed, stack, handlers, txnFrame, signal>>

\* Mutant: the youngest triple first.
CommitEntryBackwards ==
  /\ status = "committing"
  /\ installed < Len(log)
  /\ heap' = InstallEntry(heap, log[Len(log) - installed])
  /\ installed' = installed + 1
  /\ UNCHANGED <<log, answer, committed, stack, chains, status, signal>>

CommitEntry ==
  /\ status = "committing"
  /\ installed < Len(log)
  /\ heap' = InstallEntry(heap, log[installed + 1])
  /\ installed' = installed + 1
  /\ UNCHANGED <<log, answer, committed, stack, chains, status, signal>>

\* Mutant: the loop over the log does not see its end.
FinishCommitNever ==
  /\ status = "committing"
  /\ installed = Len(log)
  /\ UNCHANGED vars

FinishCommit ==
  /\ status = "committing"
  /\ installed = Len(log)
  /\ log' = <<>>
  /\ installed' = 0
  /\ committed' = heap
  /\ txnFrame' = 0
  /\ Pop
  /\ status' = "running"
  /\ UNCHANGED <<heap, answer, handlers, ensures, signal>>

-----------------------------------------------------------------------------
(* Signals. *)

\* Exception>>signal (primitive 37): propagate if anything is there to catch
\* the signal or to run before it is known that nothing does.
Signal(class) ==
  /\ status = "running"
  /\ ensures # <<>> \/ \E i \in DOMAIN handlers : Found(i, class)
  /\ status' = "signaling"
  /\ signal' = class
  /\ UNCHANGED <<memory, stack, chains>>

\* Otherwise the primitive fails and defaultAction halts.
SignalUnhandled(class) ==
  /\ status = "running"
  /\ ensures = <<>> /\ ~\E i \in DOMAIN handlers : Found(i, class)
  /\ status' = "trapped"
  /\ UNCHANGED <<memory, stack, chains, signal>>

InnermostEnsure == ensures[Len(ensures)]

\* Mutant: the ensure block is dropped and the signal goes on.
PropagateSkipsEnsureBlock ==
  /\ status = "signaling" /\ ensures # <<>>
  /\ LET depth == InnermostEnsure
         act   == stack[depth]
     IN  /\ act.kind = "ensure"
         /\ stack' = Prefix(stack, depth - 1)
         /\ ensures' = Prefix(ensures, act.previous)
         /\ handlers' = Abandon(handlers, depth)
  /\ UNCHANGED <<memory, txnFrame, status, signal>>

\* longjmp to an ensure: frame, which runs its ensure block.
PropagateToEnsure ==
  /\ status = "signaling" /\ ensures # <<>>
  /\ LET depth == InnermostEnsure
         act   == stack[depth]
     IN  /\ act.kind = "ensure"
         /\ stack' = Resume(depth, Activate("unwind", signal, act.logged, 0))
         /\ ensures' = Prefix(ensures, act.previous)
         /\ handlers' = Abandon(handlers, depth)
  /\ status' = "running"
  /\ signal' = NoClass
  /\ UNCHANGED <<memory, txnFrame>>

\* longjmp to a transaction, which aborts and propagates again.
PropagateToTransaction ==
  /\ status = "signaling" /\ ensures # <<>>
  /\ LET depth == InnermostEnsure
         act   == stack[depth]
     IN  /\ act.kind \in TransactionMode
         /\ stack' = Prefix(stack, depth - 1)
         /\ ensures' = Prefix(ensures, act.previous)
         /\ handlers' = Abandon(handlers, depth)
  /\ txn_abort
  /\ UNCHANGED <<status, signal>>

\* No ensure frame is left: the handler chain is searched.  The primitive fails
\* instead of running a handler block of two or more arguments, which leaves the
\* chains as the end of a handler block does.
PropagateToHandler ==
  /\ status = "signaling" /\ ensures = <<>>
  /\ \E i \in DOMAIN handlers :
       /\ Found(i, signal)
       /\ IF handlers[i] = 0
          THEN status' = "undefined" /\ UNCHANGED <<stack, handlers>>
          ELSE LET depth == handlers[i]
                   act   == stack[depth]
               IN  /\ status' = "running"
                   /\ stack' = Resume(depth, Activate("handler", NoClass,
                                                      act.logged, act.previous))
                   /\ handlers' = Prefix(handlers, act.previous)
  /\ signal' = NoClass
  /\ UNCHANGED <<memory, ensures, txnFrame>>

\* Mutant: the search of the handlers starts again at their end.
PropagateAgain ==
  /\ status = "signaling" /\ ensures = <<>>
  /\ ~\E i \in DOMAIN handlers : Found(i, signal)
  /\ UNCHANGED vars

PropagateToNobody ==
  /\ status = "signaling" /\ ensures = <<>>
  /\ ~\E i \in DOMAIN handlers : Found(i, signal)
  /\ status' = "trapped"
  /\ signal' = NoClass
  /\ UNCHANGED <<memory, stack, chains>>

propagate_signal ==
  \/ PropagateToEnsure
  \/ PropagateToTransaction
  \/ PropagateToHandler
  \/ PropagateToNobody

-----------------------------------------------------------------------------
\* The process is dead (SIGTRAP), or what it does is no longer defined.
Stopped ==
  /\ status \in {"trapped", "undefined"}
  /\ UNCHANGED vars

EndBlock ==
  \/ EndOnDo \/ EndPlain \/ EndEnsure \/ EndUnwind \/ EndReadOnly
  \/ DurableFails \/ StartCommit

Next ==
  \/ \E s \in Slot : Read(s)
  \/ \E s \in Slot, v \in Oop : LoggedStore(s, v) \/ DirectStore(s, v)
  \/ \E c \in ExceptionClass : OnDo(c) \/ Signal(c) \/ SignalUnhandled(c)
  \/ Ensure
  \/ JoinTransaction
  \/ \E m \in TransactionMode : BeginTransaction(m)
  \/ EndBlock
  \/ CommitEntry
  \/ FinishCommit
  \/ propagate_signal
  \/ Stopped

Spec == Init /\ [][Next]_vars

\* longjmp and the commit loop do not wait for anything: once started they go on.
Fairness == WF_vars(propagate_signal) /\ WF_vars(CommitEntry \/ FinishCommit)

FairSpec == Spec /\ Fairness

-----------------------------------------------------------------------------
(* Properties. *)

Catching == {"ensure"} \cup TransactionMode

\* The ensure: and transaction frames that still wait for their block to end.
Waiting ==
  {d \in DOMAIN stack : /\ stack[d].kind \in Catching
                        /\ ~(status = "committing" /\ d = Len(stack))}

\* The ensure chain holds exactly the frames that wait for their block, each
\* linked to the one below it: propagate_signal never jumps to a dead ensure
\* frame and misses none, however blocks, signals and commits are interleaved.
EnsureChainSound ==
  /\ \A i \in DOMAIN ensures :
       /\ ensures[i] \in Waiting
       /\ stack[ensures[i]].previous = i - 1
  /\ \A d \in Waiting :
       /\ stack[d].previous + 1 \in DOMAIN ensures
       /\ ensures[stack[d].previous + 1] = d
  /\ \A i, j \in DOMAIN ensures : i < j => ensures[i] < ensures[j]

\* The on:do: activations whose block runs, and those whose handler block runs.
OnDos == {d \in DOMAIN stack : stack[d].kind = "onDo"}
HandlerBlocks == {d \in DOMAIN stack : stack[d].kind = "handler"}

\* Every on:do: whose block runs is an entry of the chain, at the place where it
\* was pushed, and the entries that are not dead are such on:do:s.
HandlersLinked ==
  /\ \A i \in DOMAIN handlers : handlers[i] # 0 =>
       handlers[i] \in OnDos /\ stack[handlers[i]].previous = i - 1
  /\ \A d \in OnDos : /\ stack[d].previous + 1 \in DOMAIN handlers
                      /\ handlers[stack[d].previous + 1] = d
  /\ \A d \in HandlerBlocks : stack[d].previous <= Len(handlers)
  /\ \A e \in OnDos \cup HandlerBlocks :
       /\ \A d \in OnDos : d < e => stack[d].previous < stack[e].previous
       /\ \A d \in HandlerBlocks : d < e => stack[d].previous <= stack[e].previous

\* The ensure block a signal runs at depth u lies between the on:do:s below
\* entry i of the chain and those above it.
Separates(u, i) ==
  /\ u \in DOMAIN stack
  /\ stack[u].kind = "unwind"
  /\ \A j \in DOMAIN handlers : handlers[j] # 0 =>
       (j < i => handlers[j] < u) /\ (j > i => handlers[j] > u)

\* Where the chain is dead: an entry whose C frame is gone belongs to an
\* on:do: that a signal left for an ensure block, and only while that block
\* runs, or the signal goes on after it, is the entry in the chain.
DeadHandlersConfined ==
  /\ status \in {"running", "committing"} =>
       \A i \in DOMAIN handlers :
         handlers[i] = 0 => \E u \in DOMAIN stack : Separates(u, i)
  /\ status = "signaling" =>
       \A i \in DOMAIN handlers : handlers[i] = 0 =>
         \/ \E u \in DOMAIN stack : Separates(u, i)
         \/ \A j \in DOMAIN handlers : j > i => handlers[j] = 0

\* The chain of current_exception_handler holds every on:do: whose block
\* runs, in the order they were opened, and what a finished on:do: or handler
\* block restores never cuts one off.  While the program runs and no ensure
\* block is run by a signal the chain holds nothing else, so each of them is
\* reached over live frames.  While one is, the on:do:s opened in it are linked
\* to one another over live frames, and dead frames lie between them and those
\* around it; when the signal goes on, dead frames are at the head of the chain.
\* Then what is around it is reached through dead frames only (README, deviation 23).
HandlerChainSound == HandlersLinked /\ DeadHandlersConfined

\* Exactly the code inside the outermost open transaction works on its log:
\* handler blocks, ensure blocks and nested transactions in it do, code
\* around it never does, and a closed transaction leaves no triple behind.
\* What commits is the transaction on top of the stack, never a read-only one.
LogInScope ==
  /\ txnFrame # 0 => txnFrame \in DOMAIN stack
  /\ \A d \in DOMAIN stack :
       /\ stack[d].logged <=> (txnFrame # 0 /\ d >= txnFrame)
       /\ stack[d].kind \in TransactionMode <=> d = txnFrame
  /\ txnFrame = 0 => log = <<>>
  /\ status = "committing" =>
       txnFrame # 0 /\ txnFrame = Len(stack) /\ Top.kind # "readOnly"

\* While the commit loop runs the heap is the committed heap with the first
\* `installed` triples applied, the youngest triple of a slot winning; at any
\* other time it is the committed heap.
InstalledPrefix ==
  /\ status # "committing" => installed = 0
  /\ installed <= Len(log)
  /\ \A s \in Slot :
       \/ /\ \A i \in 1..installed : log[i].slot # s
          /\ heap[s] = committed[s]
       \/ \E i \in 1..installed :
            /\ log[i].slot = s
            /\ \A j \in (i + 1)..installed : log[j].slot # s
            /\ heap[s] = Stored(s, log[i].value)

\* A slot that is in the log has a youngest triple for txn_log_read to find.
YoungestExists ==
  \A s \in Slot : txn_log_found(log, s) =>
    \E i \in DOMAIN log : /\ log[i].slot = s
                         /\ \A j \in DOMAIN log : j > i => log[j].slot # s

\* The inductive invariant.
IInv ==
  /\ TypeOK
  /\ EnsureChainSound
  /\ HandlersLinked
  /\ LogInScope
  /\ InstalledPrefix
  /\ YoungestExists

\* No step discards an ensure: activation without starting its ensure block:
\* a signal that passes it, a commit or a handler never skips it.
EnsureNeverSkipped ==
  [][\A d \in DOMAIN stack : stack[d].kind = "ensure" =>
       /\ d \in DOMAIN stack'
       /\ stack'[d].kind \in {"ensure", "cleanup", "unwind"}]_vars

\* The log, its backward scan, the install loop, the joins and the aborts are
\* an all-or-nothing overlay on the store.
Overlay == [s \in Slot |-> IF txn_log_found(log, s) THEN txn_log_read(log, s)
                           ELSE Absent]
OpenMode == IF txnFrame = 0 THEN "none" ELSE stack[txnFrame].kind

AS == INSTANCE AtomicStore
        WITH store <- committed, overlay <- Overlay, mode <- OpenMode

RefinesAtomicStore == AS!ASpec

\* No dead frame can stop the search: an ensure: still waits, whose block runs
\* first, or every handler frame is live and outside the transaction.
Sheltered ==
  \/ \E e \in DOMAIN ensures : stack[ensures[e]].kind = "ensure"
  \/ \A i \in DOMAIN handlers :
       handlers[i] # 0 /\ (txnFrame # 0 => handlers[i] < txnFrame)

\* A signal that finds no dead handler frame on its way reaches a block that
\* runs or stops the process with a trap: unwinding through ensures and aborts
\* neither goes round in circles nor makes a live frame dead before the search.
SignalLands ==
  (status = "signaling" /\ Sheltered) ~> (status \in {"running", "trapped"})

\* The same of every signal.  propagate_signal breaks it where it jumps to a
\* handler frame that is gone (README, deviation 23); no run checks it.
EverySignalLands ==
  (status = "signaling") ~> (status \in {"running", "trapped"})

\* A commit that started ends with the transaction closed.
CommitEnds == (status = "committing") ~> (status = "running" /\ txnFrame = 0)

\* A signal is taken by the innermost enclosing handler that handles its
\* class: no step of its propagation abandons such an on:do: activation.
\* propagate_signal breaks it (README, deviation 1); no run checks it.
InnerHandlerWins ==
  [][\A d \in DOMAIN stack :
       (/\ status = "signaling"
        /\ stack[d].kind = "onDo" /\ <<stack[d].class, signal>> \in Handles
        /\ \A e \in DOMAIN stack : e > d =>
             ~(stack[e].kind = "onDo" /\ <<stack[e].class, signal>> \in Handles))
       => /\ d \in DOMAIN stack'
          /\ stack'[d].kind \in {"onDo", "handler"}]_vars

\* The value of a triple for a byte slot is a tagged SmallInteger.
\* at:put: in a transaction breaks it (README, deviation 2); no run checks it.
ByteTriplesAreSmallInts ==
  \A i \in DOMAIN log : log[i].slot \in ByteSlot => is_smallint_value(log[i].value)

=============================================================================
