----------------------------- MODULE XmlForest -----------------------------
(***************************************************************************)
(* What a client of the XML library is promised: a document is a tree in   *)
(* which every node has a sequence of children and a set of named values,  *)
(* and an edit changes one place of it and nothing else.  No links, no     *)
(* heap, no order of attributes.  ProcessConfig.tla shows that the linked  *)
(* nodes of XmlTree.tla implement it.                                      *)
(*                                                                         *)
(* asked is the client's last request: what to do, to the node at the end  *)
(* of which path (the places of its ancestors among their siblings), at    *)
(* which place among its children, and with which new tree.                *)
(***************************************************************************)
EXTENDS Naturals, SequencesExt

VARIABLES tree, asked

vars == <<tree, asked>>

Nothing == [type |-> "document", value |-> <<>>, values |-> <<>>, kids |-> <<>>]
NoRequest == [kind |-> "none", path |-> <<>>, at |-> 0, new |-> Nothing]

RECURSIVE Apply(_, _)

\* t after request r
Apply(t, r) ==
  IF r.path # <<>> THEN [t EXCEPT !.kids[Head(r.path)] = Apply(@, [r EXCEPT !.path = Tail(@)])]
  ELSE CASE r.kind = "insert" -> [t EXCEPT !.kids = InsertAt(@, r.at, r.new)]
         [] r.kind = "replace" -> [t EXCEPT !.kids[r.at] = r.new]
         [] r.kind = "remove" -> [t EXCEPT !.kids = RemoveAt(@, r.at)]
         [] r.kind = "set" -> [t EXCEPT !.values = r.new @@ @]
         [] r.kind = "unset" -> [t EXCEPT !.values = [n \in DOMAIN @ \ {r.new} |-> @[n]]]

Init == tree = Nothing /\ asked = NoRequest

(* A request is carried out at its place, or refused and changes nothing.  *)
Edit == /\ asked'.kind \in {"insert", "replace", "remove", "set", "unset"}
        /\ tree' = Apply(tree, asked')

\* reading a file makes any tree of it, and closing it leaves nothing
Open == tree = Nothing /\ asked'.kind = "open" /\ tree' = asked'.new
Close == tree' = Nothing /\ asked' = NoRequest

Next == Edit \/ Open \/ Close

Spec == Init /\ [][Next]_vars

=============================================================================
