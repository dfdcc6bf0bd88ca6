------------------------- MODULE MCProtectedBlocks -------------------------
(* TLC instances of ProtectedBlocks: one word slot, one byte slot. *)
EXTENDS ProtectedBlocks

\* Error is a subclass of Exception: a handler for Exception takes both.
MCExceptionClass == {"Exception", "Error"}
MCHandles == {<<"Exception", "Exception">>, <<"Exception", "Error">>,
              <<"Error", "Error">>}

OneClass == {"Error"}
OneHandles == {<<"Error", "Error">>}

\* The control runs leave the memory out.
NoSlot == {}
EmptyHeap == [s \in {} |-> 0]

MCWordSlot == {"field"}
MCByteSlot == {"byte"}

\* A byte, a SmallInteger that is not a byte (300 % 256 = 44), an object.
MCOop == {tag_smallint(7), tag_smallint(300), 8}

\* Two of them, for the deeper run.
TwoOops == {tag_smallint(7), tag_smallint(300)}

MCInitialHeap == [s \in {"field", "byte"} |-> IF s = "byte" THEN 7 ELSE tag_smallint(7)]

=============================================================================
