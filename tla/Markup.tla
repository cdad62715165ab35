---------------------------------- MODULE Markup ----------------------------------
(***************************************************************************)
(* What XML 1.0 and Namespaces call a well-formed document, and the events *)
(* a parse of it has to deliver.  Defined text by text: the replacement    *)
(* text of every entity is read by itself, and references are expanded     *)
(* after that.  A text is a sequence of glyphs: markup characters, white   *)
(* space, names of elements and entities, one glyph for each namespace     *)
(* declaration (with its leading space), and any other character.          *)
(***************************************************************************)
EXTENDS Integers, SequencesExt

CONSTANTS Names,       \* glyphs that are names
          Entities,    \* the names that are declared as entities
          Decls,       \* glyphs that are namespace declarations
          Prefix,      \* the prefix of a name, and the one a declaration binds
          Namespace    \* the namespace a declaration binds it to

ASSUME MarkupAssumption ==
  /\ Entities \subseteq Names
  /\ Names \cap Decls = {}
  /\ DOMAIN Prefix = Names \cup Decls
  /\ DOMAIN Namespace = Decls

Bad == <<"bad">>

IsName(s) == s # <<>> /\ ToSet(s) \subseteq Names

RECURSIVE Trimmed(_)
Trimmed(s) == IF s # <<>> /\ Last(s) = " " THEN Trimmed(Front(s)) ELSE s

\* a name, declarations and white space: the inside of a tag
TagOf(kind, s) ==
  LET n == Trimmed(SelectSeq(s, LAMBDA g : g \notin Decls))
      d == SelectSeq(s, LAMBDA g : g \in Decls)
      k == CHOOSE i \in 0..Len(s) : (i = Len(s) \/ s[i + 1] \notin Names) /\
                                    \A j \in 1..i : s[j] \in Names
  IN  IF IsName(n) /\ k = Len(n) /\ IsInjective([i \in DOMAIN d |-> Prefix[d[i]]])
      THEN <<kind, n, d>> ELSE Bad

\* the markup between < and >
Tag(s) ==
  IF s = <<>> \/ "<" \in ToSet(s) THEN Bad
  ELSE IF Head(s) = "/"
       THEN IF IsName(Trimmed(Tail(s))) THEN <<"end", Trimmed(Tail(s))>> ELSE Bad
  ELSE IF Last(s) = "/" THEN TagOf("empty", Front(s)) ELSE TagOf("start", s)

Reference(s) == IF Len(s) = 1 /\ s[1] \in Entities THEN <<"ref", s[1]>> ELSE Bad

\* the tokens of a text, or one that is bad
RECURSIVE Tokens(_)
Tokens(t) ==
  IF t = <<>> THEN <<>>
  ELSE IF Head(t) \in {"<", "&"}
  THEN LET ends == {i \in DOMAIN t : t[i] = IF Head(t) = "<" THEN ">" ELSE ";"}
           n == Min(ends)
           inside == SubSeq(t, 2, n - 1)
       IN  IF ends = {} THEN <<Bad>>
           ELSE <<IF Head(t) = "<" THEN Tag(inside) ELSE Reference(inside)>>
                \o Tokens(SubSeq(t, n + 1, Len(t)))
  ELSE <<<<"char", Head(t)>>>> \o Tokens(Tail(t))

-----------------------------------------------------------------------------
(* element structure of a list of tokens *)

Opens(k, i) == k[i][1] = "start"
Closes(k, i) == k[i][1] = "end"

Depth(k, i) ==   \* the elements open before token i
  Cardinality({j \in 1..(i - 1) : Opens(k, j)}) - Cardinality({j \in 1..(i - 1) : Closes(k, j)})

\* the start tag an end tag closes
StartOf(k, i) == Max({j \in 1..(i - 1) : Opens(k, j) /\ Depth(k, j) = Depth(k, i) - 1})

Balanced(k) ==
  /\ Depth(k, Len(k) + 1) = 0
  /\ \A i \in DOMAIN k : Closes(k, i) => Depth(k, i) > 0 /\ k[StartOf(k, i)][2] = k[i][2]

\* well-formed by itself, and all it refers to; "within" is being expanded
RECURSIVE WellFormedText(_, _, _)
WellFormedText(t, texts, within) ==
  LET k == Tokens(t)
      refs == {k[i][2] : i \in {j \in DOMAIN k : k[j][1] = "ref"}}
  IN  /\ \A i \in DOMAIN k : k[i] # Bad
      /\ Balanced(k)
      /\ \A e \in refs : e \notin within /\ WellFormedText(texts[e], texts, within \cup {e})

\* one root element and white space about it
RootedText(t) ==
  LET k == Tokens(t)
      tops == {i \in DOMAIN k : Depth(k, i) = 0}
  IN  /\ Cardinality({i \in tops : k[i][1] \in {"start", "empty"}}) = 1
      /\ \A i \in tops : k[i][1] \in {"start", "empty"} \/ k[i] = <<"char", " ">>

\* all tokens, with the ends of the entities marked
RECURSIVE Expanded(_, _)
Expanded(t, texts) ==
  LET item(k) == IF k[1] = "ref"
                 THEN <<<<"startRef", k[2]>>>> \o Expanded(texts[k[2]], texts) \o <<<<"endRef", k[2]>>>>
                 ELSE <<k>>
      ks == Tokens(t)
  IN  FlattenSeq([i \in DOMAIN ks |-> item(ks[i])])

-----------------------------------------------------------------------------
(* namespaces and events of an expanded document *)

Encloses(k, j, i) ==   \* is token i inside the element token j starts?
  j < i /\ Opens(k, j) /\ \A l \in (j + 1)..i : Depth(k, l) > Depth(k, j)

Declares(k, j, prefix) ==
  {d \in ToSet(k[j][3]) : Prefix[d] = prefix}

ScopesOf(k, i, prefix) ==
  {j \in 1..i : (j = i \/ Encloses(k, j, i)) /\ k[j][1] \in {"start", "empty"}
                /\ Declares(k, j, prefix) # {}}

URI(k, i) ==
  LET prefix == Prefix[k[i][2][1]]
      scopes == ScopesOf(k, i, prefix)
  IN  IF scopes # {} THEN Namespace[CHOOSE d \in Declares(k, Max(scopes), prefix) : TRUE]
      ELSE IF prefix = "" THEN "" ELSE "unknown"

Element(k, i) == <<k[i][2], URI(k, i)>>

ElementsIn(k, j, i) ==   \* the children of the element from token j to token i
  LET kids == {l \in (j + 1)..(i - 1) : k[l][1] \in {"start", "empty"} /\ Depth(k, l) = Depth(k, j) + 1}
      nth == SetToSortSeq(kids, <)
  IN  [n \in DOMAIN nth |-> Element(k, nth[n])]

EventsAt(k, i) ==
  CASE k[i][1] = "start" -> <<<<"startElement", Element(k, i)>>>>
    [] k[i][1] = "empty" -> <<<<"startElement", Element(k, i)>>, <<"endElement", Element(k, i), <<>>>>>>
    [] k[i][1] = "end" -> LET j == StartOf(k, i)
                          IN  <<<<"endElement", Element(k, j), ElementsIn(k, j, i)>>>>
    [] k[i][1] = "char" -> IF Depth(k, i) > 0 THEN <<<<"characters", k[i][2]>>>> ELSE <<>>
    [] k[i][1] = "startRef" -> <<<<"startEntityReference", k[i][2]>>>>
    [] k[i][1] = "endRef" -> <<<<"endEntityReference", k[i][2]>>>>

Bound(k) == \A i \in DOMAIN k : k[i][1] \in {"start", "empty"} => URI(k, i) # "unknown"

WellFormed(t, texts) ==
  /\ WellFormedText(t, texts, {})
  /\ RootedText(t)
  /\ Bound(Expanded(t, texts))

Events(t, texts) ==
  LET k == Expanded(t, texts) IN FlattenSeq([i \in DOMAIN k |-> EventsAt(k, i)])
=============================================================================
