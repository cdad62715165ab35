------------------------ MODULE MCSchemaDocuments ------------------------
(***************************************************************************)
(* Two namespaces of one document each, and a third document without a     *)
(* namespace that either of them may include.                              *)
(***************************************************************************)
EXTENDS SchemaDocuments

MCDocs == {"a.xsd", "b.xsd", "c.xsd"}
MCNamespaces == {"A", "B"}
MCTargetNS == [d \in MCDocs |-> CASE d = "a.xsd" -> "A" [] d = "b.xsd" -> "B" [] OTHER -> NoNS]
MCDeclares == [d \in MCDocs |-> CASE d = "a.xsd" -> <<"g">> [] d = "b.xsd" -> <<"h", "g">> [] OTHER -> <<"h">>]
MCLocationOf == [ns \in MCNamespaces |-> IF ns = "A" THEN "a.xsd" ELSE "b.xsd"]

Include(d) == [kind |-> "include", doc |-> d]
Import(ns, d) == [kind |-> "import", ns |-> ns, doc |-> d]

MCLinks == {Include("a.xsd"), Include("c.xsd"), Import("A", "a.xsd"), Import("B", "b.xsd"),
            Import("B", NoSource), Import("B", "c.xsd")}
=============================================================================
