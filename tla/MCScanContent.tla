----------------------------- MODULE MCScanContent -----------------------------
(***************************************************************************)
(* A root element r, elements a and p:a, two entities; texts put together  *)
(* from pieces of markup, cut also in the middle of tags and references.   *)
(***************************************************************************)
EXTENDS ScanContent

MCNames == {"r", "a", "p:a", "x", "y"}
MCEntities == {"x", "y"}
MCDecls == {"xmlns=1", "xmlns:p=2"}
MCPrefix == [g \in MCNames \cup MCDecls |-> IF g \in {"p:a", "xmlns:p=2"} THEN "p" ELSE ""]
MCNamespace == [g \in MCDecls |-> IF g = "xmlns=1" THEN "1" ELSE "2"]

UpTo(n, pieces) == {FlattenSeq(s) : s \in SeqOf(pieces, n)}

Whole == {<<"<", "a", ">">>, <<"<", "/", "a", ">">>, <<"<", "/", "p:a", ">">>}
X == <<"&", "x", ";">>
Y == <<"&", "y", ";">>

Pieces ==
  Whole \cup {X, <<"<">>, <<"a", ">">>, <<">">>, <<"&">>, <<"x", ";">>,
             <<"<", "p:a", "xmlns:p=2", ">">>, <<"t">>}

Around == Pieces \ {X, <<"t">>, <<"<", "a", ">">>}

\* up to two pieces, or a reference between two
Bodies == UpTo(2, Pieces) \cup {p \o X \o q : p \in Around, q \in Around}

InRoot(s) == <<"<", "r", ">">> \o s \o <<"<", "/", "r", ">">>

Few == {InRoot(<<>>), InRoot(<<"<", "a", ">", "<", "/", "a", ">">>), InRoot(X),
        <<"<", "r", ">">>, <<" ", "<", "r", "xmlns=1", " ", "/", ">", " ">>, <<>>,
        InRoot(<<>>) \o X, InRoot(<<>>) \o InRoot(<<>>), X, <<"<", "/", "r", ">">>}

MCDocuments == <<{InRoot(b) : b \in Bodies} \cup Few, Few>>

MCReplacements ==
  [e \in MCEntities |->
     IF e = "x"
     THEN UpTo(2, Whole \cup {X, Y, <<"<", "a">>, <<">">>, <<"<">>, <<"&">>,
                              <<"<", "a", "/", ">">>, <<"<", "p:a", ">">>, <<"<", "a", "xmlns=1", ">">>})
     ELSE {<<>>, X, Y} \cup Whole]
=============================================================================
