---------------------------- MODULE ClassLoader ----------------------------
(***************************************************************************)
(* The class loader of the bootstrap compiler (src/src/c/                  *)
(* bootstrap_compiler.c): how a source file becomes classes, methods and   *)
(* entries of the Smalltalk dictionary of an image.                        *)
(*                                                                         *)
(* A host call loads one file.  The call defines the classes the file      *)
(* declares, splits the rest into method chunks and installs the methods   *)
(* one by one, so a failure leaves everything done before it in the image. *)
(* Names are resolved first in the class bindings the host passes, then in *)
(* the Smalltalk dictionary.  Objects come from om_alloc, which answers    *)
(* NULL once the object memory is full: room counts the objects it still   *)
(* has space for.                                                          *)
(*                                                                         *)
(* A source file is a record: the declarations of its preamble, the        *)
(* segments between its exclamation marks, whether it can be read, and,    *)
(* for the properties, the methods its author meant.  What a method does   *)
(* is left out except for the names it mentions.                           *)
(***************************************************************************)
EXTENDS Integers, SequencesExt

CONSTANTS
  Calls,            \* The loads the host makes, each once: <<entry point, file>>.
  Snapshot,         \* Whether the host binds every class of the dictionary,
                    \* taken before the call, or passes HostBindings.
  HostBindings,     \* [set of names -> class].
  Registered,       \* The kernel classes that are in the dictionary at first.
  InitialCapacity,  \* Size of the first association array (8 in the code).
  MaxSymbols,       \* Slots of the symbol table.
  MaxChunks,        \* Methods a file may hold (128 in the code).
  Rooms             \* How many objects the object memory has space for at first.

ASSUME LoaderAssumption ==
  /\ Snapshot \in BOOLEAN
  /\ InitialCapacity \in Nat \ {0}
  /\ MaxSymbols \in Nat
  /\ MaxChunks \in Nat
  /\ Rooms \subseteq Nat
  /\ Registered \subseteq {"Object", "Class"}
  /\ Cardinality(Registered) <= InitialCapacity /\ Cardinality(Registered) <= MaxSymbols

Sides == {"instance", "class"}

\* What a file is made of: declarations, and the segments between its
\* exclamation marks, of which there is one at least.
Declaration == [name : STRING, super : STRING, ivars : Seq(STRING), format : STRING]
Segment ==
  [kind : {"blank", "text"}]
  \cup [kind : {"header"}, class : STRING, side : Sides]
  \cup [kind : {"method"}, sel : STRING, uses : Seq(STRING),
        header : {"ok", "long", "bad"}, body : {"ok", "bad"}]

ASSUME FilesAssumption ==
  \A c \in Calls :
    /\ c[2].decls \in Seq(Declaration)
    /\ c[2].segs \in Seq(Segment) /\ c[2].segs # <<>>

VARIABLES
  classes,   \* The class objects, in the order of their allocation.
  image,     \* [room, symbols, capacity, globals, assocs]: the rest of the image.
  active,    \* bc_active_class_bindings.
  made,      \* The calls the host has made.
  call       \* The call in progress, or the last one.

vars == <<classes, image, active, made, call>>

Nil == 0
Object == 1
Class == 2
NoBindings == [n \in {} |-> Nil]

(***************************************************************************)
(* A class knows its superclass, its own class (the metaclass), the names  *)
(* of the variables it adds, the size and format of its instances and its  *)
(* method dictionary, a sequence of (selector, method) pairs.              *)
(***************************************************************************)
NewClass(super, meta, ivars, size, format) ==
  [super |-> super, meta |-> meta, ivars |-> ivars, size |-> size,
   format |-> format, dict |-> <<>>]

\* The kernel the host sets up: the class of Object and of Class is Class.
Kernel == <<NewClass(Nil, Class, <<>>, 0, "fields"), NewClass(Nil, Class, <<>>, 5, "fields")>>

\* The host binds names to the classes of the kernel.
ASSUME HostAssumption == \A n \in DOMAIN HostBindings : HostBindings[n] \in {Object, Class}

KernelClass(name) == IF name = "Object" THEN Object ELSE Class

Idle == [stage |-> "idle", kind |-> "none", file |-> Nil, bound |-> NoBindings,
         saved |-> NoBindings, step |-> 1, answer |-> Nil]

Init ==
  /\ classes = Kernel
  /\ \E room \in Rooms :
       LET names == SetToSeq(Registered)
       IN  image = [room |-> room, symbols |-> Registered,
                    capacity |-> IF Registered = {} THEN 0 ELSE InitialCapacity,
                    globals |-> [j \in DOMAIN names |-> j],
                    assocs |-> [j \in DOMAIN names |->
                                  [key |-> names[j], value |-> KernelClass(names[j])]]]
  /\ active = NoBindings
  /\ made = {}
  /\ call = Idle

-----------------------------------------------------------------------------
(***************************************************************************)
(* Names.                                                                  *)
(***************************************************************************)

\* The place of the association of a name in the dictionary; 0 if there is none.
PlaceOf(im, name) ==
  SelectInSeq(im.globals, LAMBDA a : im.assocs[a].key = name)

bc_lookup_smalltalk_global(im, name) ==
  LET j == PlaceOf(im, name)
  IN  IF name \notin im.symbols \/ j = 0 THEN Nil ELSE im.assocs[im.globals[j]].value

bc_lookup_class_named(bound, im, name) ==
  IF name \in DOMAIN bound THEN bound[name] ELSE bc_lookup_smalltalk_global(im, name)

\* The bindings the host passes: of every class in the dictionary, or its own.
CollectBindings ==
  IF Snapshot
  THEN [n \in {image.assocs[image.globals[j]].key : j \in DOMAIN image.globals}
          |-> bc_lookup_smalltalk_global(image, n)]
  ELSE HostBindings

\* The slot of a variable in an instance, the inherited ones first; -1 if there
\* is no variable of that name.
bc_class_total_inst_var_count(c) ==
  LET total[d \in 0 .. Len(classes)] ==
        IF d = Nil THEN 0 ELSE total[classes[d].super] + Len(classes[d].ivars)
  IN  total[c]

\* Mutant: the inherited variables are not counted.
OwnSlotsFromZero(c, name) == SelectInSeq(classes[c].ivars, LAMBDA v : v = name) - 1

bc_class_inst_var_index(c, name) ==
  LET index[d \in 0 .. Len(classes)] ==
        IF d = Nil THEN -1
        ELSE LET inherited == index[classes[d].super]
                 own == SelectInSeq(classes[d].ivars, LAMBDA v : v = name)
             IN  IF inherited >= 0 THEN inherited
                 ELSE IF own = 0 THEN -1
                 ELSE bc_class_total_inst_var_count(classes[d].super) + own - 1
  IN  index[c]

md_lookup(dict, sel) == SelectInSeq(dict, LAMBDA pair : pair.sel = sel)

NoMethod == [text |-> [kind |-> "none"], fields |-> {}, refs |-> {}]

\* The method an instance of a class runs for a selector.
class_lookup(c, sel) ==
  LET found[d \in 0 .. Len(classes)] ==
        IF d = Nil THEN NoMethod
        ELSE LET j == md_lookup(classes[d].dict, sel)
             IN  IF j # 0 THEN classes[d].dict[j].method ELSE found[classes[d].super]
  IN  found[c]

-----------------------------------------------------------------------------
(***************************************************************************)
(* Allocating operations work on a record of the image and a status.  A    *)
(* failed allocation that the code checks makes the operation answer       *)
(* failure; one that it does not check writes through NULL.                *)
(***************************************************************************)
Start(im) == [status |-> "ok", image |-> im, refs |-> <<>>]

Allocate(r, n, otherwise) ==
  IF r.status # "ok" THEN r
  ELSE IF r.image.room >= n THEN [r EXCEPT !.image.room = @ - n]
  ELSE [r EXCEPT !.status = otherwise, !.image.room = 0]

Checked(r, n) == Allocate(r, n, "failed")
Unchecked(r, n) == Allocate(r, n, "crashed")

\* Applies Op once r has succeeded.
Then(r, Op(_)) == IF r.status = "ok" THEN Op(r) ELSE r

\* A symbol is allocated before a free slot of the table is looked for.
intern_cstring_symbol(r, name) ==
  LET Enter(s) ==
        IF Cardinality(s.image.symbols) >= MaxSymbols THEN [s EXCEPT !.status = "failed"]
        ELSE [s EXCEPT !.image.symbols = @ \cup {name}]
  IN  IF r.status # "ok" \/ name \in r.image.symbols THEN r ELSE Then(Checked(r, 1), Enter)

\* Mutant: the array grows one association too late.
GrowArrayLate(r) ==
  IF Len(r.image.globals) <= r.image.capacity THEN r
  ELSE Then(Checked(r, 1), LAMBDA s : [s EXCEPT !.image.capacity = 2 * @])

\* Makes the dictionary's array, or one twice as large once it is full.
EnsureArray(r) ==
  IF r.image.capacity # 0 THEN r
  ELSE Then(Checked(r, 1), LAMBDA s : [s EXCEPT !.image.capacity = InitialCapacity])

GrowArray(r) ==
  IF Len(r.image.globals) < r.image.capacity THEN r
  ELSE Then(Checked(r, 1), LAMBDA s : [s EXCEPT !.image.capacity = 2 * @])

\* Mutant: the dictionary is not searched first.
AssociationAdded(r, name, value) ==
  LET a == Len(r.image.assocs) + 1
      Add(s) == [s EXCEPT !.image.assocs = Append(@, [key |-> name, value |-> value]),
                          !.image.globals = Append(@, a), !.refs = Append(@, a)]
      Put(s) == Then(Checked(GrowArray(s), 1), Add)
  IN  Then(Then(intern_cstring_symbol(r, name), EnsureArray), Put)

\* The association of a name in the dictionary, given the value.
bc_global_association_oop(r, name, value) ==
  LET Update(s) ==
        LET a == s.image.globals[PlaceOf(s.image, name)]
        IN  [s EXCEPT !.image.assocs[a].value = value, !.refs = Append(@, a)]
      Add(s) ==
        LET a == Len(s.image.assocs) + 1
        IN  [s EXCEPT !.image.assocs = Append(@, [key |-> name, value |-> value]),
                      !.image.globals = Append(@, a),
                      !.refs = Append(@, a)]
      Put(s) ==
        IF PlaceOf(s.image, name) # 0 THEN Update(s)
        ELSE Then(Checked(GrowArray(s), 1), Add)
  IN  Then(Then(intern_cstring_symbol(r, name), EnsureArray), Put)

-----------------------------------------------------------------------------
(***************************************************************************)
(* Declarations.  A declaration is [name, super, ivars, format].           *)
(***************************************************************************)

\* A file that declares one class: any text after the declaration is refused.
bc_parse_class_declaration(f) == IF Len(f.decls) = 1 THEN f.decls ELSE <<>>

\* The objects a class is made of: metaclass, class, variable names.
ObjectsOf(d) == 2 + (IF d.ivars = <<>> THEN 0 ELSE 1 + Len(d.ivars))

\* Mutant: the name is registered before the class is complete.
DefineNameFirst(d, super) ==
  LET meta == NewClass(IF super = Nil THEN Class ELSE classes[super].meta, Class, <<>>, 0, "fields")
      klass == NewClass(super, Len(classes) + 1, d.ivars,
                        (IF super = Nil THEN 0 ELSE classes[super].size) + Len(d.ivars), d.format)
      named == bc_global_association_oop(Start(image), d.name, Len(classes) + 2)
      built == Checked(named, ObjectsOf(d))
  IN  [result |-> built,
       classes |-> IF built.status = "ok" THEN classes \o <<meta, klass>> ELSE classes]

\* The metaclass inherits from the superclass's metaclass, the class from the
\* superclass, and the name is registered last.
bc_define_class(d, super) ==
  LET meta == NewClass(IF super = Nil THEN Class ELSE classes[super].meta, Class, <<>>, 0, "fields")
      klass == NewClass(super, Len(classes) + 1, d.ivars,
                        (IF super = Nil THEN 0 ELSE classes[super].size) + Len(d.ivars), d.format)
      built == Checked(Start(image), ObjectsOf(d))
      named == Then(built, LAMBDA s : bc_global_association_oop(s, d.name, Len(classes) + 2))
  IN  [result |-> named,
       classes |-> IF built.status = "ok" THEN classes \o <<meta, klass>> ELSE classes]

SuperclassOf(d, bound) ==
  IF d.super = "nil" THEN Nil ELSE bc_lookup_class_named(bound, image, d.super)

bc_class_matches_declaration(c, super, d) ==
  /\ classes[c].super = super
  /\ classes[c].size = (IF super = Nil THEN 0 ELSE classes[super].size) + Len(d.ivars)
  /\ classes[c].format = d.format
  /\ classes[c].ivars = d.ivars

\* The class a declaration describes, if the image has it already.
bc_attach_class_from_source(d, bound) ==
  LET c == bc_lookup_class_named(bound, image, d.name)
      super == SuperclassOf(d, bound)
  IN  IF /\ c # Nil
         /\ d.super = "nil" \/ super # Nil
         /\ bc_class_matches_declaration(c, super, d)
      THEN c ELSE Nil

-----------------------------------------------------------------------------
(***************************************************************************)
(* Chunks.  The segments of a file are the texts between exclamation       *)
(* marks: blank, the header of a class, a method, or any other text.       *)
(* Segment k is followed by an exclamation mark unless it is the last.     *)
(***************************************************************************)
NoHeader == [class |-> "none", side |-> "instance"]

Headers(segs) ==
  {NoHeader} \cup {[class |-> segs[k].class, side |-> segs[k].side] :
                     k \in {j \in DOMAIN segs : segs[j].kind = "header"}}

\* The text of a header where a method is expected is no method header.
AsMethod(seg) ==
  IF seg.kind = "method" THEN seg
  ELSE [kind |-> "method", sel |-> "none", uses |-> <<>>, header |-> "bad", body |-> "ok"]

\* Mutant: a blank between a method and the next header ends the class.
BlankEndsClass(segs) ==
  LET n == Len(segs)
      from[p \in (1 .. n) \X Headers(segs)] ==
        LET k == p[1]
        IN  IF k = n \/ (p[2] # NoHeader /\ segs[k].kind = "blank")
            THEN [ok |-> TRUE, chunks |-> <<>>]
            ELSE IF p[2] # NoHeader
            THEN LET rest == from[<<k + 1, p[2]>>]
                 IN  [rest EXCEPT !.chunks = <<[at |-> p[2], method |-> AsMethod(segs[k])]>> \o @]
            ELSE IF k + 1 = n THEN [ok |-> FALSE, chunks |-> <<>>]
            ELSE IF segs[k + 1].kind = "header"
            THEN from[<<k + 2, [class |-> segs[k + 1].class, side |-> segs[k + 1].side]>>]
            ELSE from[<<k + 2, p[2]>>]
  IN  from[<<1, NoHeader>>]

\* From the start of segment p[1], with the class of the last header p[2]: a
\* text before any header is skipped, a blank leads to the next header, any
\* other text is a method.  The mark that opens a header must be closed; a text
\* after the last mark is dropped.
bc_parse_method_chunks(segs) ==
  LET n == Len(segs)
      from[p \in (1 .. n) \X Headers(segs)] ==
        LET k == p[1]
        IN  IF k = n THEN [ok |-> TRUE, chunks |-> <<>>]
            ELSE IF p[2] # NoHeader /\ segs[k].kind # "blank"
            THEN LET rest == from[<<k + 1, p[2]>>]
                 IN  [rest EXCEPT !.chunks = <<[at |-> p[2], method |-> AsMethod(segs[k])]>> \o @]
            ELSE IF k + 1 = n THEN [ok |-> FALSE, chunks |-> <<>>]
            ELSE IF segs[k + 1].kind = "header"
            THEN from[<<k + 2, [class |-> segs[k + 1].class, side |-> segs[k + 1].side]>>]
            ELSE from[<<k + 2, p[2]>>]
      all == from[<<1, NoHeader>>]
  IN  IF all.ok /\ Len(all.chunks) <= MaxChunks THEN all ELSE [ok |-> FALSE, chunks |-> <<>>]

Chunks == bc_parse_method_chunks(call.file.segs).chunks

\* The two-step interface compiles every method before it installs the first.
bc_compile_method_chunks(chunks) ==
  \A j \in DOMAIN chunks : chunks[j].method.header = "ok" /\ chunks[j].method.body = "ok"

-----------------------------------------------------------------------------
(***************************************************************************)
(* Methods.  A name that is no variable of the class compiles into a       *)
(* literal that holds the association of a class.                          *)
(***************************************************************************)
bc_target_class_for_method(c, chunk) ==
  IF chunk.at.side = "instance" THEN c ELSE classes[c].meta

FirstUse(uses, name) == SelectInSeq(uses, LAMBDA n : n = name)

\* The slot of a name: of the class the method is compiled for, or, when the
\* method is compiled before its class is known, in the order the method first
\* mentions its names.
cg_inst_var_index(uses, target, name) ==
  IF target # Nil THEN bc_class_inst_var_index(target, name)
  ELSE Cardinality({uses[j] : j \in 1 .. FirstUse(uses, name) - 1})

\* The names of a method that are variables, with their slots, and the others.
Fields(uses, target) ==
  {[name |-> n, slot |-> cg_inst_var_index(uses, target, n)] :
     n \in {m \in ToSet(uses) : cg_inst_var_index(uses, target, m) >= 0}}

ClassRefs(uses, target) ==
  LET AddLiteral(literals, n) ==
        IF cg_inst_var_index(uses, target, n) >= 0 \/ Contains(literals, n)
        THEN literals ELSE Append(literals, n)
  IN  FoldLeft(AddLiteral, <<>>, uses)

\* The literal of a class reference: the association of the name, which from
\* now on has the class the name was resolved to as its value.
bc_literal_token_to_oop(r, name) ==
  LET c == bc_lookup_class_named(active, r.image, name)
  IN  IF r.status # "ok" THEN r
      ELSE IF c = Nil THEN [r EXCEPT !.status = "failed"]
      ELSE bc_global_association_oop(r, name, c)

bc_build_literal_array(r, refs) ==
  IF refs = <<>> THEN r
  ELSE FoldLeft(bc_literal_token_to_oop, Unchecked(r, 1), refs)

\* Literals, source text (the one allocation that is checked), bytecodes, method.
bc_materialize_compiled_method(r, refs) ==
  Unchecked(Checked(bc_build_literal_array(r, refs), 1), 2)

\* The new pair goes behind the old ones, in a larger dictionary.
bc_append_method_dict(dict, sel, method) == Append(dict, [sel |-> sel, method |-> method])

-----------------------------------------------------------------------------
(***************************************************************************)
(* Calls.                                                                  *)
(***************************************************************************)
End(stage) == call' = [call EXCEPT !.stage = stage]
Restore == active' = call.saved

\* The host calls an entry point; a file that cannot be read, or is too large,
\* or has no declaration where one is needed, fails at once.
Load(kind, f) ==
  LET bound == CollectBindings
      decl == bc_parse_class_declaration(f)
      attached == IF decl # <<>> THEN bc_attach_class_from_source(decl[1], bound) ELSE Nil
      stage == CASE ~f.readable -> "failed"
                 [] kind = "class" -> IF decl # <<>> THEN "define" ELSE "failed"
                 [] kind = "classes" -> IF f.decls # <<>> THEN "define" ELSE "failed"
                 [] kind = "existing" -> IF attached # Nil THEN "parse" ELSE "failed"
                 [] OTHER -> "parse"
  IN  /\ call.stage \in {"idle", "answered", "failed"}
      /\ <<kind, f>> \in Calls \ made
      /\ made' = made \cup {<<kind, f>>}
      /\ call' = [stage |-> stage, kind |-> kind, file |-> f, bound |-> bound,
                  saved |-> active, step |-> 1,
                  answer |-> IF kind = "existing" THEN attached ELSE Nil]
      /\ UNCHANGED <<classes, image, active>>

\* One declaration: bc_define_class_from_source.
Define ==
  LET d == call.file.decls[call.step]
      super == SuperclassOf(d, call.bound)
      defined == bc_define_class(d, super)
  IN  /\ call.stage = "define"
      /\ IF d.super # "nil" /\ super = Nil
         THEN /\ End("failed")
              /\ UNCHANGED <<classes, image>>
         ELSE /\ classes' = defined.classes
              /\ image' = defined.result.image
              /\ IF defined.result.status # "ok" THEN End("failed")
                 ELSE call' = [call EXCEPT
                        !.stage = IF call.step = Len(call.file.decls) THEN "parse" ELSE "define",
                        !.step = IF call.step = Len(call.file.decls) THEN 1 ELSE call.step + 1,
                        !.answer = Len(defined.classes)]
      /\ UNCHANGED <<active, made>>

\* The bindings come into force, unless the chunks cannot be parsed (or, in the
\* two-step interface, compiled).
Parse ==
  LET parsed == bc_parse_method_chunks(call.file.segs)
      good == parsed.ok /\ (call.kind = "compiled" => bc_compile_method_chunks(parsed.chunks))
  IN  /\ call.stage = "parse"
      /\ End(IF good THEN "install" ELSE "failed")
      /\ active' = IF good THEN call.bound ELSE active
      /\ UNCHANGED <<classes, image, made>>

\* A method that cannot be compiled or installed ends the call.  A header of 256
\* bytes or more leaves the caller's bindings in force.
Refuse ==
  LET m == Chunks[call.step].method
      c == bc_lookup_class_named(call.bound, image, Chunks[call.step].at.class)
  IN  /\ call.stage = "install"
      /\ call.step <= Len(Chunks)
      /\ c = Nil \/ m.header # "ok" \/ m.body # "ok"
      /\ End("failed")
      /\ IF c # Nil /\ m.header = "long" THEN UNCHANGED active ELSE Restore
      /\ UNCHANGED <<classes, image, made>>

Install ==
  LET chunk == Chunks[call.step]
      m == chunk.method
      c == bc_lookup_class_named(call.bound, image, chunk.at.class)
      target == bc_target_class_for_method(c, chunk)
      against == IF call.kind = "compiled" THEN Nil ELSE target
      refs == ClassRefs(m.uses, against)
      compiled == bc_materialize_compiled_method(
                    intern_cstring_symbol(Start(image), m.sel), refs)
      done == Unchecked(compiled, 1)
      method == [text |-> m, fields |-> Fields(m.uses, against), refs |-> ToSet(done.refs)]
  IN  /\ call.stage = "install"
      /\ call.step <= Len(Chunks)
      /\ c # Nil
      /\ m.header = "ok"
      /\ m.body = "ok"
      /\ image' = done.image
      /\ IF done.status = "ok"
         THEN /\ classes' = [classes EXCEPT ![target].dict = bc_append_method_dict(@, m.sel, method)]
              /\ call' = [call EXCEPT !.step = @ + 1]
              /\ UNCHANGED active
         ELSE /\ End(done.status)
              /\ IF done.status = "failed" THEN Restore ELSE UNCHANGED active
              /\ UNCHANGED classes
      /\ UNCHANGED made

Answer ==
  /\ call.stage = "install"
  /\ call.step > Len(Chunks)
  /\ End("answered")
  /\ Restore
  /\ UNCHANGED <<classes, image, made>>

\* The host has nothing more to load, or the process is gone.
Stop ==
  /\ call.stage = "crashed" \/ (call.stage \in {"idle", "answered", "failed"} /\ made = Calls)
  /\ UNCHANGED vars

Next ==
  \/ \E c \in Calls : Load(c[1], c[2])
  \/ Define
  \/ Parse
  \/ Refuse
  \/ Install
  \/ Answer
  \/ Stop

Spec == Init /\ [][Next]_vars

-----------------------------------------------------------------------------
(***************************************************************************)
(* Properties.                                                             *)
(***************************************************************************)
\* Every method in the image.
Methods == UNION {{classes[c].dict[j].method : j \in DOMAIN classes[c].dict} : c \in DOMAIN classes}

\* The type invariant of the loader's state.
TypeOK ==
  /\ \A c \in DOMAIN classes :
       /\ classes[c].super \in 0 .. c - 1
       /\ classes[c].meta \in DOMAIN classes
       /\ classes[c].size \in Nat
  /\ image.room \in Nat
  /\ Len(image.globals) <= image.capacity
  /\ Cardinality(image.symbols) <= MaxSymbols
  /\ ToSet(image.globals) \subseteq DOMAIN image.assocs
  /\ \A n \in DOMAIN active : active[n] \in DOMAIN classes
  /\ made \subseteq Calls
  /\ call.stage \in {"idle", "define", "parse", "install", "answered", "failed", "crashed"}
  /\ call.answer \in 0 .. Len(classes)

\* The class a name stands for once the call has answered.
Meaning(name) ==
  LET g == bc_lookup_smalltalk_global(image, name)
  IN  IF g # Nil THEN g ELSE call.bound[name]

\* A load that answers success has taken effect (bc_compile_and_install_*): a
\* class it answers is the one its name stands for, and an instance of the class
\* a method was written for (or the class itself, for a class method) runs that
\* method.  The calls come in any order, after loads that succeeded or failed, but
\* the host takes no snapshot of bindings and no file defines a selector twice:
\* there the code answers success without effect (README, deviations 18 and 19).
LoadTakesEffect ==
  call.stage = "answered" =>
    /\ call.kind = "class" => Meaning(call.file.decls[1].name) = call.answer
    /\ \A j \in DOMAIN call.file.meant :
         LET m == call.file.meant[j]
             c == Meaning(m.at.class)
             receiver == IF m.at.side = "instance" THEN c ELSE classes[c].meta
         IN  class_lookup(receiver, m.method.sel).text = m.method

\* A name has one association in the dictionary, and every reference compiled
\* into a method is that association, so all code sees the class the name is
\* bound to now (bc_global_association_oop reuses the association, through
\* growing arrays and failed loads).
ReferencesFollowGlobals ==
  /\ \A i, j \in DOMAIN image.globals :
       image.assocs[image.globals[i]].key = image.assocs[image.globals[j]].key => i = j
  /\ \A m \in Methods : m.refs \subseteq ToSet(image.globals)

\* The dictionary names nothing but classes that were built to the end, even
\* when the object memory fills up in the middle of a declaration.
GlobalsAreWhole ==
  \A j \in DOMAIN image.globals :
    /\ image.assocs[image.globals[j]].value \in DOMAIN classes
    /\ image.assocs[image.globals[j]].key \in image.symbols

\* The variables of an instance as its class and superclasses declare them.
Layout(c) ==
  LET all[d \in 0 .. Len(classes)] ==
        IF d = Nil THEN <<>> ELSE all[classes[d].super] \o classes[d].ivars
  IN  all[c]

\* Whatever class inherits a method, the slot compiled for a variable exists in
\* its instances and holds the variable of that name, whichever order classes
\* and superclasses were defined and redefined in.
FieldsMatchLayout ==
  \A c \in DOMAIN classes :
    \A sel \in {m.text.sel : m \in Methods} :
      \A field \in class_lookup(c, sel).fields :
        /\ field.slot < classes[c].size
        /\ field.slot < Len(Layout(c))
        /\ Layout(c)[field.slot + 1] = field.name

\* An object memory that is full makes a load fail, and the host hears of it.
\* Answers that are not looked at break it (README, deviation 21); no run
\* checks it.
FullMemoryIsReported == call.stage # "crashed"

=============================================================================
