------------------------------- MODULE TxnLog -------------------------------
(***************************************************************************)
(* The transaction log of src/arm/txn.s: a counted array of (object,       *)
(* field index, value) triples.  An (object, field index) pair is a slot.  *)
(* Bit 63 of the field index says that the slot is a byte of a byte        *)
(* object; ByteSlot is the set of those slots and WordSlot the rest.       *)
(***************************************************************************)
EXTENDS Tagged, Sequences

CONSTANTS
  WordSlot,   \* slots that hold a whole Oop (fields, indexable elements)
  ByteSlot,   \* slots that hold one byte of a FORMAT_BYTES object
  Oop         \* the values Smalltalk code stores

ASSUME SlotAssumption == WordSlot \cap ByteSlot = {}
ASSUME OopAssumption  == Oop \subseteq Int

Slot  == WordSlot \cup ByteSlot
Byte  == 0..255
Entry == [slot : Slot, value : Oop]
Heap  == {h \in [Slot -> Oop \cup Byte] :
            /\ \A s \in WordSlot : h[s] \in Oop
            /\ \A s \in ByteSlot : h[s] \in Byte}

\* _txn_log_write: append one triple.
txn_log_write(log, s, v) == Append(log, [slot |-> s, value |-> v])

\* _txn_log_read scans backwards and stops at the first match: `found` ...
txn_log_found(log, s) == \E i \in DOMAIN log : log[i].slot = s

\* Mutant: scan forwards.
txn_log_read_oldest(log, s) ==
  log[CHOOSE i \in DOMAIN log :
        /\ log[i].slot = s
        /\ \A j \in DOMAIN log : j < i => log[j].slot # s].value

\* ... and the value of the youngest triple for the slot.
txn_log_read(log, s) ==
  log[CHOOSE i \in DOMAIN log :
        /\ log[i].slot = s
        /\ \A j \in DOMAIN log : j > i => log[j].slot # s].value

\* What a store of Oop v leaves in slot s: the word itself, or (strb) the low
\* eight bits of the untagged value, whatever the tag was.
Stored(s, v) == IF s \in ByteSlot THEN untag_smallint(v) % 256 ELSE v

\* What a read of slot s in the heap answers: a byte becomes a SmallInteger.
Fetched(heap, s) == IF s \in ByteSlot THEN tag_smallint(heap[s]) ELSE heap[s]

\* The Oops those reads answer for bytes, and nil.
Answers == {tag_smallint(b) : b \in Byte} \cup {TAGGED_NIL}

\* One iteration of the loop of _txn_commit.
InstallEntry(heap, e) == [heap EXCEPT ![e.slot] = Stored(e.slot, e.value)]

=============================================================================
