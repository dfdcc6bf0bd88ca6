--------------------------- MODULE MCClassLoader ---------------------------
(***************************************************************************)
(* Source files for the runs of ClassLoader.  A file written in the form   *)
(* the repository's .st files have is given by its groups: a class header  *)
(* and the methods under it.                                               *)
(***************************************************************************)
EXTENDS ClassLoader

Blank == [kind |-> "blank"]
Header(class, side) == [kind |-> "header", class |-> class, side |-> side]
Method(sel, uses) == [kind |-> "method", sel |-> sel, uses |-> uses, header |-> "ok", body |-> "ok"]
Bad(sel, header, body) == [kind |-> "method", sel |-> sel, uses |-> <<>>, header |-> header, body |-> body]
Decl(super, name, ivars) == [name |-> name, super |-> super, ivars |-> ivars, format |-> "fields"]

\* The methods of one group, and the segments it is written as: a blank, the
\* header, the methods.
GroupMethods(g) ==
  [j \in DOMAIN g.methods |-> [at |-> [class |-> g.class, side |-> g.side], method |-> g.methods[j]]]
GroupSegs(g) == <<Blank, Header(g.class, g.side)>> \o g.methods
Group(class, side, methods) == [class |-> class, side |-> side, methods |-> methods]

Written(decls, groups) ==
  [decls |-> decls, readable |-> TRUE,
   segs |-> FlattenSeq([j \in DOMAIN groups |-> GroupSegs(groups[j])]) \o <<Blank>>,
   meant |-> FlattenSeq([j \in DOMAIN groups |-> GroupMethods(groups[j])])]

\* Segs given one by one.
Raw(decls, segs, meant) == [decls |-> decls, readable |-> TRUE, segs |-> segs, meant |-> meant]

-----------------------------------------------------------------------------
\* Point, with class methods and references to itself and to Object.
Point == Written(<<Decl("Object", "Point", <<"x", "y">>)>>,
                 <<Group("Point", "class", <<Method("new", <<"Point">>)>>),
                   Group("Point", "instance", <<Method("y", <<"y">>), Method("isPoint", <<"x", "Object", "Point">>)>>)>>)

\* A subclass that declares an inherited name again, and one of a class that the
\* same file declares.
Shapes == Written(<<Decl("Point", "Dot", <<"x", "colour">>), Decl("Dot", "Spot", <<"size">>)>>,
                  <<Group("Dot", "instance", <<Method("colour", <<"x", "colour">>)>>),
                    Group("Spot", "instance", <<Method("size", <<"size", "Dot", "y">>)>>)>>)

\* A description of Point that matches the class.
PointMore == Written(<<Decl("Object", "Point", <<"x", "y">>)>>,
                     <<Group("Point", "instance", <<Method("swap", <<"y", "x">>)>>)>>)

\* Broken files: an overlong header after a good method, a class nobody declares,
\* a superclass nobody declares over a body that does not compile, a class closed
\* with a mark of its own.
LongHeader == Written(<<>>, <<Group("Object", "instance",
                                    <<Method("first", <<>>), Bad("long", "long", "ok")>>)>>)
Unknown == Written(<<>>, <<Group("Object", "instance", <<Method("third", <<"Missing">>)>>),
                           Group("Missing", "instance", <<Method("fourth", <<>>)>>)>>)
BadBody == Written(<<Decl("Missing", "Lost", <<>>)>>,
                   <<Group("Object", "instance", <<Bad("wrong", "ok", "bad")>>)>>)
Closed == Raw(<<>>, <<Blank, Header("Object", "instance"), Method("fifth", <<>>), Blank, Blank,
                      Header("Class", "instance"), Method("sixth", <<>>), Blank>>,
              <<[at |-> [class |-> "Object", side |-> "instance"], method |-> Method("fifth", <<>>)],
                [at |-> [class |-> "Class", side |-> "instance"], method |-> Method("sixth", <<>>)]>>)
\* One method more than a file may hold.
Crowded == Written(<<>>, <<Group("Object", "instance",
                                 <<Method("a", <<>>), Method("b", <<>>), Method("c", <<>>), Method("d", <<>>)>>)>>)

-----------------------------------------------------------------------------
\* Point declared again, with its variables in other slots.
PointWider == Written(<<Decl("Object", "Point", <<"z", "y", "x">>)>>,
                      <<Group("Point", "instance", <<Method("z", <<"z", "x">>)>>)>>)

\* The calls of the run: new classes, one of them declared twice, methods for
\* classes that are there and that are not, a description of a
\* class that exists, and the broken files.
LoaderCalls ==
  {<<"class", Point>>, <<"class", PointWider>>, <<"classes", Shapes>>, <<"methods", Unknown>>,
   <<"existing", PointMore>>, <<"methods", LongHeader>>, <<"methods", Crowded>>,
   <<"compiled", Closed>>, <<"classes", BadBody>>}

\* The objects the memory has room for: from none to more than the calls allocate.
LoaderRooms == 0 .. 60
=============================================================================
