---------------------------- MODULE AtomicStore ----------------------------
(***************************************************************************)
(* What `Transaction atomic:`, `durable:` and `readOnly:` promise to a     *)
(* Smalltalk program, whatever the program nests inside them: at most one  *)
(* transaction is open; its writes are collected in a private overlay; the *)
(* overlay reaches the store all at once or not at all; a read-only        *)
(* transaction never reaches it.                                           *)
(***************************************************************************)
EXTENDS TxnLog

CONSTANT Absent     \* "no pending write"; not an Oop

Mode == {"none", "atomic", "durable", "readOnly"}
NoWrites == [s \in Slot |-> Absent]

VARIABLES store, overlay, mode, answer

avars == <<store, overlay, mode, answer>>

AInit ==
  /\ store \in Heap
  /\ overlay = NoWrites
  /\ mode = "none"
  /\ answer = TAGGED_NIL

\* The transaction's own writes first, then the store.
ARead(s) ==
  /\ answer' = IF overlay[s] = Absent THEN Fetched(store, s) ELSE overlay[s]
  /\ UNCHANGED <<store, overlay, mode>>

ABegin ==
  /\ mode = "none"
  /\ mode' \in Mode \ {"none"}
  /\ UNCHANGED <<store, overlay, answer>>

\* Outside a transaction a write goes to the store; a byte slot takes bytes only.
AWriteThrough(s, v) ==
  /\ mode = "none"
  /\ s \in ByteSlot => is_smallint_value(v) /\ untag_smallint(v) \in Byte
  /\ store' = [store EXCEPT ![s] = Stored(s, v)]
  /\ UNCHANGED <<overlay, mode, answer>>

AWrite(s, v) ==
  /\ mode # "none"
  /\ overlay' = [overlay EXCEPT ![s] = v]
  /\ UNCHANGED <<store, mode, answer>>

ACommit ==
  /\ mode \in {"atomic", "durable"}
  /\ store' = [s \in Slot |-> IF overlay[s] = Absent THEN store[s]
                              ELSE Stored(s, overlay[s])]
  /\ overlay' = NoWrites
  /\ mode' = "none"
  /\ UNCHANGED answer

ADiscard ==
  /\ mode # "none"
  /\ overlay' = NoWrites
  /\ mode' = "none"
  /\ UNCHANGED <<store, answer>>

ANext ==
  \/ ABegin
  \/ \E s \in Slot : ARead(s)
  \/ \E s \in Slot, v \in Oop : AWriteThrough(s, v) \/ AWrite(s, v)
  \/ ACommit
  \/ ADiscard

ASpec == AInit /\ [][ANext]_avars

=============================================================================
