------------------------ MODULE MCIdentityConstraints ------------------------
(***************************************************************************)
(* Grammars with a root r, elements e that nest and have an attribute x,   *)
(* elements g around them, and elements b with a text.                     *)
(***************************************************************************)
EXTENDS IdentityConstraints

Self == Step("self", "*")
Below == Step("descendant", "*")
E == Step("child", "e")
B == Step("child", "b")
Star == Step("child", "*")
X == Step("attribute", "x")

Constraint(name, type, on, selector, fields, refers) ==
  [name |-> name, type |-> type, on |-> on, selector |-> selector, fields |-> fields, refers |-> refers]

Unique(on, selector, fields) == Constraint("u", "unique", on, selector, fields, "u")
Key(on, selector, fields) == Constraint("k", "key", on, selector, fields, "k")
Keyref(on, selector, fields) == Constraint("q", "keyref", on, selector, fields, "k")

AtX == <<<<Self, X>>>>
AtB == <<<<Self, B>>>>
Text == <<<<Self>>>>
Es == <<<<Self, E>>>>
Bs == <<<<Self, B>>>>
AllEs == <<<<Self, Below, E>>>>
AllBs == <<<<Self, Below, B>>>>

MCSchemas ==
  { <<Unique("r", Es, <<AtX>>)>>,
    <<Key("r", Es, <<AtX, AtB>>), Unique("r", AllBs, <<Text>>)>>,
    <<Key("r", AllEs, <<AtX>>)>>,
    <<Key("e", Es, <<AtX \o AtB>>), Unique("r", Bs \o <<<<Self, E, B>>>>, <<Text>>)>>,
    <<Key("r", Es, <<AllBs>>)>>,
    <<Key("r", Es, <<AtX>>), Keyref("r", AllBs, <<Text>>)>>,
    <<Keyref("r", AllBs, <<Text>>), Key("e", <<<<Self>>>>, <<AtX>>)>>,
    <<Key("e", Bs, <<Text>>), Keyref("e", <<<<Self>>>>, <<AtX>>)>>,
    <<Keyref("r", Es, <<AtX>>), Key("e", Bs, <<Text>>)>>,
    <<Key("r", <<<<Self, E, E>>>>, <<AtX>>), Keyref("r", <<<<Self, E, B>>>>, <<Text>>)>> }
=============================================================================
