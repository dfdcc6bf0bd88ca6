--------------------------- MODULE MCObjectMemory ---------------------------
(* TLC instances of ObjectMemory. *)
EXTENDS ObjectMemory

\* One unit, a page less one, a page, and more than a page.
MCUnits == {1, 2, 3, 4}
=============================================================================
