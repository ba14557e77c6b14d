------------------------------ MODULE XmlTree ------------------------------
(***************************************************************************)
(* The document tree of the configuration's XML library: what              *)
(* src/base/component/xmlparse/tinyxml.cpp does to its nodes.  A node has  *)
(* five links (parent, first and last child, previous and next sibling),   *)
(* and every operation mends them by hand; d.n is the heap, a function     *)
(* from the nodes allocated to their fields, and deleting a node takes it  *)
(* and everything below it out of d.n.  d.err is the document's first      *)
(* error, d.abort says that an assert failed (the build does not define    *)
(* NDEBUG).  Values and names are sequences of words; positions in the     *)
(* text (TiXmlCursor), user data and the encoding of characters beyond     *)
(* ASCII are left out.                                                     *)
(*                                                                         *)
(* The module is definitions only: ProcessConfig.tla and XmlParse.tla use  *)
(* them, and TLC checks them there.                                        *)
(***************************************************************************)
EXTENDS Naturals, FiniteSets, SequencesExt

Null == 0
Doc == 1        \* the document's own node

(* TiXmlNode::TiXmlNode: a node without links; attrs is the attribute set  *)
(* of an element in order, decl the three texts of a declaration.          *)
NewNode(type, value) ==
  [type |-> type, value |-> value, parent |-> Null, first |-> Null, last |-> Null,
   prev |-> Null, next |-> Null, attrs |-> <<>>, cdata |-> FALSE, decl |-> <<>>]

EmptyDocument == [n |-> (Doc :> NewNode("document", <<>>)), err |-> "none", abort |-> FALSE]

(***************************************************************************)
(* Walking the links.                                                      *)
(***************************************************************************)
\* node and what follows it along one link
Chain(d, node, link) ==
  LET from[x \in DOMAIN d.n \union {Null}] == IF x = Null THEN <<>> ELSE <<x>> \o from[d.n[x][link]]
  IN from[node]

\* node and the siblings after it, before it; the children
Onward(d, node) == Chain(d, node, "next")
Backward(d, node) == Chain(d, node, "prev")
Children(d, this) == Onward(d, d.n[this].first)

\* what the destructors of this delete, this included
Below(d, this) ==
  LET from[x \in DOMAIN d.n] == {x} \union UNION {from[c] : c \in ToSet(Children(d, x))}
  IN from[this]

GetDocument(d, node) ==
  LET up == Chain(d, node, "parent")
      i == SelectInSeq(up, LAMBDA x : d.n[x].type = "document")
  IN IF i = 0 THEN Null ELSE up[i]

FirstOr(seq) == IF seq = <<>> THEN Null ELSE Head(seq)
Valued(d, seq, value) == SelectSeq(seq, LAMBDA c : d.n[c].value = value)
Elements(d, seq) == SelectSeq(seq, LAMBDA c : d.n[c].type = "element")

FirstChild(d, this, value) == FirstOr(Valued(d, Children(d, this), value))
LastChild(d, this, value) == FirstOr(Valued(d, Backward(d, d.n[this].last), value))
NextSibling(d, node, value) == FirstOr(Valued(d, Onward(d, d.n[node].next), value))
PreviousSibling(d, node, value) == FirstOr(Valued(d, Backward(d, d.n[node].prev), value))
IterateChildren(d, this, previous) ==
  IF previous = Null THEN d.n[this].first ELSE d.n[previous].next
IterateValue(d, this, value, previous) ==
  IF previous = Null THEN FirstChild(d, this, value) ELSE NextSibling(d, previous, value)

FirstElement(d, this) == FirstOr(Elements(d, Children(d, this)))
FirstChildElement(d, this, value) == FirstOr(Elements(d, Valued(d, Children(d, this), value)))
NextElement(d, node) == FirstOr(Elements(d, Onward(d, d.n[node].next)))
NextSiblingElement(d, node, value) ==
  FirstOr(Elements(d, Valued(d, Onward(d, d.n[node].next), value)))
RootElement(d) == FirstElement(d, Doc)

\* TiXmlHandle::Child and ChildElement: the count-th after the first
Nth(seq, count) == IF count < Len(seq) THEN seq[count + 1] ELSE Null
HandleChild(d, node, count) == IF node = Null THEN Null ELSE Nth(Children(d, node), count)
HandleChildValue(d, node, value, count) ==
  IF node = Null THEN Null ELSE Nth(Valued(d, Children(d, node), value), count)
HandleElement(d, node, count) ==
  IF node = Null THEN Null ELSE Nth(Elements(d, Children(d, node)), count)
HandleElementValue(d, node, value, count) ==
  IF node = Null THEN Null ELSE Nth(Elements(d, Valued(d, Children(d, node), value)), count)

(***************************************************************************)
(* Errors, allocation, deletion.                                           *)
(***************************************************************************)
\* the first error in a chain is more accurate: it is not set again
SetError(d, err) == IF d.err = "none" THEN [d EXCEPT !.err = err] ELSE d
\* a node reports to the document it hangs in, if it hangs in one
Report(d, node, err) == IF GetDocument(d, node) = Null THEN d ELSE SetError(d, err)
Asserted(d, holds) == [d EXCEPT !.abort = @ \/ ~holds]

\* a free place of the heap
Fresh(d) == CHOOSE i \in 1 .. Cardinality(DOMAIN d.n) + 1 : i \notin DOMAIN d.n
New(d, fields) == [d EXCEPT !.n = @ @@ (Fresh(d) :> fields)]
Without(d, nodes) == [d EXCEPT !.n = [i \in DOMAIN @ \ nodes |-> @[i]]]
Delete_SlipChildren(d, node) == Without(d, {node})
Delete(d, node) == Without(d, Below(d, node))
Clear(d, this) ==
  [Without(d, Below(d, this) \ {this}) EXCEPT !.n[this].first = Null, !.n[this].last = Null]

\* one link of one node, where there is such a node
Set(d, node, link, to) == IF node = Null THEN d ELSE [d EXCEPT !.n[node][link] = to]

(***************************************************************************)
(* Linking, cloning, inserting, replacing, removing.                       *)
(***************************************************************************)
RefuseDocument(d, this) == Report(d, this, "documentTopOnly")

LinkEndChild(d, this, node) ==
  LET e == Asserted(d, /\ d.n[node].parent \in {Null, this}
                     /\ GetDocument(d, node) \in {Null, GetDocument(d, this)})
      last == d.n[this].last
      tied == [e EXCEPT !.n[node].parent = this, !.n[node].prev = last,
                        !.n[node].next = Null, !.n[this].last = node]
  IN IF d.n[node].type = "document" THEN RefuseDocument(Delete(e, node), this)
     ELSE IF last = Null THEN Set(tied, this, "first", node)
     ELSE Set(tied, last, "next", node)

(* Clone and CopyTo: a node with the same fields, then a clone of every    *)
(* child linked to it.                                                     *)
Clone_SlipShallow(d, node) ==
  LET f == d.n[node]
  IN New(d, [NewNode(f.type, f.value) EXCEPT !.attrs = f.attrs, !.cdata = f.cdata, !.decl = f.decl])

RECURSIVE Clone(_, _)
Clone(d, node) ==
  LET f == d.n[node]
      copy == [NewNode(f.type, f.value) EXCEPT !.attrs = f.attrs, !.cdata = f.cdata, !.decl = f.decl]
      Add(e, c) == LinkEndChild(Clone(e, c), Fresh(d), Fresh(e))
  IN FoldLeft(Add, New(d, copy), Children(d, node))

InsertEndChild(d, this, addThis) ==
  IF d.n[addThis].type = "document" THEN RefuseDocument(d, this)
  ELSE LinkEndChild(Clone(d, addThis), this, Fresh(d))

InsertBeforeChild(d, this, beforeThis, addThis) ==
  LET node == Fresh(d)
      prev == d.n[beforeThis].prev
      tied == [Asserted(Clone(d, addThis), prev # Null \/ d.n[this].first = beforeThis)
               EXCEPT !.n[node].parent = this, !.n[node].next = beforeThis,
                      !.n[node].prev = prev, !.n[beforeThis].prev = node]
  IN IF beforeThis = Null \/ d.n[beforeThis].parent # this THEN d
     ELSE IF d.n[addThis].type = "document" THEN RefuseDocument(d, this)
     ELSE IF prev = Null THEN Set(tied, this, "first", node) ELSE Set(tied, prev, "next", node)

InsertAfterChild(d, this, afterThis, addThis) ==
  LET node == Fresh(d)
      next == d.n[afterThis].next
      tied == [Asserted(Clone(d, addThis), next # Null \/ d.n[this].last = afterThis)
               EXCEPT !.n[node].parent = this, !.n[node].prev = afterThis,
                      !.n[node].next = next, !.n[afterThis].next = node]
  IN IF afterThis = Null \/ d.n[afterThis].parent # this THEN d
     ELSE IF d.n[addThis].type = "document" THEN RefuseDocument(d, this)
     ELSE IF next = Null THEN Set(tied, this, "last", node) ELSE Set(tied, next, "prev", node)

\* the neighbours of node, or the ends of this, now point past it to heir
PointPast(d, this, node, heirNext, heirPrev) ==
  LET next == d.n[node].next
      prev == d.n[node].prev
      e == IF next = Null THEN Set(d, this, "last", heirPrev) ELSE Set(d, next, "prev", heirPrev)
  IN IF prev = Null THEN Set(e, this, "first", heirNext) ELSE Set(e, prev, "next", heirNext)

ReplaceChild(d, this, replaceThis, withThis) ==
  LET node == Fresh(d)
      tied == [Clone(d, withThis) EXCEPT !.n[node].next = d.n[replaceThis].next,
                                         !.n[node].prev = d.n[replaceThis].prev]
      past == PointPast(tied, this, replaceThis, node, node)
  IN IF replaceThis = Null \/ d.n[replaceThis].parent # this THEN d
     ELSE IF d.n[withThis].type = "document" THEN RefuseDocument(d, this)
     ELSE Set(Delete(past, replaceThis), node, "parent", this)

RemoveChild(d, this, removeThis) ==
  IF removeThis = Null THEN d
  ELSE IF d.n[removeThis].parent # this THEN Asserted(d, FALSE)
  ELSE Delete(PointPast(d, this, removeThis, d.n[removeThis].next, d.n[removeThis].prev), removeThis)

(***************************************************************************)
(* Attributes: TiXmlAttributeSet is a ring around a sentinel, a sequence   *)
(* here, whose Add asserts that the name is new.                           *)
(***************************************************************************)
Find(attrs, name) == SelectInSeq(attrs, LAMBDA a : a.name = name)
Add(d, node, name, value) ==
  [Asserted(d, Find(d.n[node].attrs, name) = 0)
   EXCEPT !.n[node].attrs = Append(@, [name |-> name, value |-> value])]
SetAttribute(d, node, name, value) ==
  LET i == Find(d.n[node].attrs, name)
  IN IF i = 0 THEN Add(d, node, name, value) ELSE [d EXCEPT !.n[node].attrs[i].value = value]
RemoveAttribute(d, node, name) ==
  LET i == Find(d.n[node].attrs, name)
  IN IF i = 0 THEN d ELSE [d EXCEPT !.n[node].attrs = RemoveAt(@, i)]
\* TiXmlElement::Attribute: no value, or the one
Attribute(d, node, name) ==
  LET i == Find(d.n[node].attrs, name) IN IF i = 0 THEN <<>> ELSE <<d.n[node].attrs[i].value>>

=============================================================================
