------------------------------- MODULE Tagged -------------------------------
(***************************************************************************)
(* Tagged object pointers (Oops): the two low bits of a word say what the  *)
(* word is.  An Oop is an integer here, so the C shifts and masks are      *)
(* arithmetic: `\div 4` is the arithmetic shift and `% 4` the tag mask.    *)
(***************************************************************************)
EXTENDS Integers

TAG_OBJECT == 0
TAG_SMALLINT == 1
TAGGED_NIL == 3

Tag(oop) == oop % 4

tag_smallint(n) == 4 * n + TAG_SMALLINT

untag_smallint(oop) == oop \div 4

is_smallint_value(oop) == Tag(oop) = TAG_SMALLINT

is_object_value(oop) == Tag(oop) = TAG_OBJECT

=============================================================================
