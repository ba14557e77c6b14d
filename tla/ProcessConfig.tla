--------------------------- MODULE ProcessConfig ---------------------------
(***************************************************************************)
(* The configuration of a process (src/base/process/process_config.cpp),   *)
(* from the file process.xml to the addresses a process listens on: the    *)
(* file is written by hand or with the XML library (XmlTree.tla,           *)
(* XmlParse.tla, XmlStream.tla), may be cut short by a copy or a save      *)
(* that ended early, and is read once, when the process starts.            *)
(*                                                                         *)
(*   file    what the file holds                                           *)
(*   whole   the last complete text that was to be in it                   *)
(*   doc     the document of a client that edits the file                  *)
(*   asked   that client's last request, in the terms of XmlForest.tla     *)
(*   edits   how many it has made                                          *)
(*   up      the process: not started yet, refused, aborted or up, and     *)
(*           then with what it read                                        *)
(***************************************************************************)
EXTENDS XmlStream

CONSTANTS Texts,      \* files written by hand
          Names,      \* what a client sets: names of attributes,
          Values,     \* their values,
          Leaves,     \* and nodes without links to put into a document
          Processes,  \* the name and id of the processes that start
          MaxEdits,   \* bound on the edits between two loads
          MaxNodes,   \* no edit of a document with more nodes than this,
          MaxFirst    \* unless it is the first one

VARIABLES file, whole, doc, asked, edits, up

vars == <<file, whole, doc, asked, edits, up>>

Down == [state |-> "down"]

(***************************************************************************)
(* A document as a nested tree, and a node's place in it.                  *)
(***************************************************************************)
ValuesOf(attrs) == [n \in {attrs[i].name : i \in DOMAIN attrs} |-> attrs[Find(attrs, n)].value]

Nest(d, node) ==
  LET tree[x \in DOMAIN d.n] ==
        LET kids == Children(d, x)
        IN [type |-> d.n[x].type, value |-> d.n[x].value, values |-> ValuesOf(d.n[x].attrs),
            kids |-> [i \in DOMAIN kids |-> tree[kids[i]]]]
  IN tree[node]

Place(d, node) == SelectInSeq(Children(d, d.n[node].parent), LAMBDA c : c = node)
PathTo(d, node) ==
  LET path[x \in DOMAIN d.n] ==
        IF d.n[x].parent = Null THEN <<>> ELSE Append(path[d.n[x].parent], Place(d, x))
  IN path[node]

Forest == INSTANCE XmlForest WITH tree <- Nest(doc, Doc)

Request(kind, this, at, new) ==
  [kind |-> kind, path |-> PathTo(doc, this), at |-> at, new |-> new]

(***************************************************************************)
(* Reading the configuration.                                              *)
(***************************************************************************)
\* XmlParseNode: a node or none, its children, attributes and successor
getChild(d, node, name) == IF node = Null THEN Null ELSE FirstChildElement(d, node, name)
NextNode(d, node) == NextSiblingElement(d, node, d.n[node].value)
getAttr(d, node, name) ==
  IF node = Null \/ Attribute(d, node, name) = <<>> THEN <<>> ELSE Attribute(d, node, name)[1]
\* an attribute as a number: its figures after blanks, 0 if it has none
Number(value) ==
  LET w == SelectSeq(value, LAMBDA c : c \notin Blanks)
  IN IF w # <<>> /\ w[1] \in Figures THEN w[1] ELSE "0"

\* splitString: the pieces between delimiters, empty ones left out
SplitString(str, delimiter) ==
  LET RECURSIVE Split(_)
      Split(rest) ==
        LET i == SelectInSeq(rest, LAMBDA c : c = delimiter)
            piece == IF i = 0 THEN rest ELSE SubSeq(rest, 1, i - 1)
        IN (IF piece = <<>> THEN <<>> ELSE <<piece>>)
             \o (IF i = 0 THEN <<>> ELSE Split(SubSeq(rest, i + 1, Len(rest))))
  IN Split(str)

\* Endpoint::fromString, which throws on fewer than two parts
IsEndpoint(str) == Len(SplitString(str, ":")) >= 2
Endpoint(str) == [ip |-> SplitString(str, ":")[1], port |-> Number(SplitString(str, ":")[2])]
EndpointList(str) == ToSet(SplitString(str, " "))

(* What load() takes from one processType node: a listener or none, the    *)
(* addresses to dial, those to listen on for clients.                      *)
Private(d, node) == getChild(d, node, <<"private">>)
Listen(d, node) == getAttr(d, Private(d, node), <<"listen">>)
Connect(d, node) == EndpointList(getAttr(d, Private(d, node), <<"connect", "Process">>))
Public(d, node) == EndpointList(getAttr(d, getChild(d, node, <<"public">>), <<"listen">>))
DbNode(d, node) == getChild(d, node, <<"db", "connection">>)
Id(d, node) == Number(getAttr(d, node, <<"id">>))
Is(d, node, me) == getAttr(d, node, <<"name">>) = me.name /\ Id(d, node) = me.id

MySql(d) ==
  LET node == getChild(d, RootElement(d), <<"mysql">>)
  IN [dbName |-> getAttr(d, node, <<"db", "Name">>), host |-> getAttr(d, node, <<"host">>),
      user |-> getAttr(d, node, <<"user", "Name">>), pwd |-> getAttr(d, node, <<"pwd">>),
      port |-> Number(getAttr(d, node, <<"port">>))]

\* the processType nodes in the order of the loop
RECURSIVE NodesFrom(_, _)
NodesFrom(d, node) == IF node = Null THEN <<>> ELSE <<node>> \o NodesFrom(d, NextNode(d, node))
ProcessTypes(d) ==
  NodesFrom(d, getChild(d, getChild(d, RootElement(d), <<"all", "Processes">>), <<"process", "Type">>))

\* the last node with the process' own name and id
Own(d, me) == SelectLastInSeq(ProcessTypes(d), LAMBDA x : Is(d, x, me))

(* load(): everything that throws.  The file is used whether or not        *)
(* LoadFile succeeded: XmlParseDoc does not look at the document's error.  *)
Throws(d, me) ==
  LET types == ProcessTypes(d)
      own == types[Own(d, me)]
      Listening == {i \in DOMAIN types : Listen(d, types[i]) # <<>>}
  IN \/ RootElement(d) = Null
     \/ getChild(d, RootElement(d), <<"mysql">>) = Null
     \/ getChild(d, RootElement(d), <<"all", "Processes">>) = Null
     \/ \E i \in DOMAIN types : Private(d, types[i]) = Null
     \/ \E i \in Listening : ~IsEndpoint(Listen(d, types[i]))
     \/ \E i, j \in Listening : i # j /\ Id(d, types[i]) = Id(d, types[j])
     \/ Own(d, me) = 0
     \/ \E str \in Connect(d, own) \union Public(d, own) : ~IsEndpoint(str)

(* What a process that comes up has read.  Without a dbconnection node     *)
(* m_dbRead and m_dbWrite are never written: they hold anything.           *)
Loaded(d, me) ==
  LET own == ProcessTypes(d)[Own(d, me)]
      db == DbNode(d, own)
      True(name) == IF db = Null THEN BOOLEAN ELSE {getAttr(d, db, name) = <<"true">>}
  IN {[state |-> "up", me |-> me, mysql |-> MySql(d),
       listen |-> IF Listen(d, own) = <<>> THEN {} ELSE {Endpoint(Listen(d, own))},
       connect |-> {Endpoint(str) : str \in Connect(d, own)},
       public |-> {Endpoint(str) : str \in Public(d, own)},
       dbRead |-> read, dbWrite |-> write] : read \in True(<<"read">>), write \in True(<<"write">>)}

(* Process::init and the handler in Process::start that ends the process. *)
(* The client is not at work then: it shares nothing but the file with it. *)
Start ==
  LET d == LoadFile(file, EmptyDocument)
  IN /\ up = Down /\ asked.kind = "none"
     /\ \E me \in Processes :
          up' \in IF d.abort THEN {[state |-> "aborted"]}
                 ELSE IF Throws(d, me) THEN {[state |-> "refused"]}
                 ELSE Loaded(d, me)
     /\ UNCHANGED <<file, whole, doc, asked, edits>>

(***************************************************************************)
(* The client of the library.                                              *)
(***************************************************************************)
Init == /\ file \in Texts
        /\ whole = file
        /\ doc = EmptyDocument
        /\ asked = Forest!NoRequest
        /\ edits = 0
        /\ up = Down

Load == /\ up = Down /\ edits = 0 /\ doc = EmptyDocument
        /\ doc' = LoadFile(file, doc)
        /\ asked' = [Forest!NoRequest EXCEPT !.kind = "open", !.new = Nest(doc', Doc)]
        /\ UNCHANGED <<file, whole, edits, up>>

Size(d) == Cardinality(DOMAIN d.n)
Parents == {x \in DOMAIN doc.n : doc.n[x].type \in {"document", "element"}}

CanEdit == /\ up = Down /\ asked.kind # "none" /\ ~doc.abort
           /\ edits < MaxEdits
           /\ Size(doc) <= (IF edits = 0 THEN MaxFirst ELSE MaxNodes)

\* an edit made d of the document; r is what was asked, unless it was refused
Edited(d, r) ==
  /\ doc' = d
  /\ asked' = IF Nest(doc', Doc) = Nest(doc, Doc) THEN asked ELSE r
  /\ edits' = edits + 1
  /\ UNCHANGED <<file, whole, up>>

\* the node to be cloned: one of the document, or one of the client's own,
\* which goes when the client is done
FromDocument(Op(_, _)) == \E x \in DOMAIN doc.n : Op(doc, x)
FromClient(Op(_, _)) == \E leaf \in Leaves : Op(New(doc, leaf), Fresh(doc))
Dropped(d, x) == IF x \in DOMAIN doc.n THEN d ELSE Delete(d, x)

Cloned(Op(_, _)) == FromDocument(Op) \/ FromClient(Op)

LinkEnd == /\ CanEdit
           /\ \E this \in Parents, leaf \in Leaves :
                Edited(LinkEndChild(New(doc, leaf), this, Fresh(doc)),
                       Request("insert", this, Len(Children(doc, this)) + 1,
                               Nest(New(doc, leaf), Fresh(doc))))

InsertEnd == /\ CanEdit
             /\ \E this \in Parents :
                  Cloned(LAMBDA d, x :
                    Edited(Dropped(InsertEndChild(d, this, x), x),
                           Request("insert", this, Len(Children(doc, this)) + 1, Nest(d, x))))

\* an edit beside child, asked of its parent or, by mistake, of the document
Beside(child) == {doc.n[child].parent, Doc}

InsertBefore == /\ CanEdit
                /\ \E child \in DOMAIN doc.n \ {Doc} : \E this \in Beside(child) :
                     Cloned(LAMBDA d, x :
                       Edited(Dropped(InsertBeforeChild(d, this, child, x), x),
                              Request("insert", this, Place(doc, child), Nest(d, x))))

InsertAfter == /\ CanEdit
               /\ \E child \in DOMAIN doc.n \ {Doc} : \E this \in Beside(child) :
                    Cloned(LAMBDA d, x :
                      Edited(Dropped(InsertAfterChild(d, this, child, x), x),
                             Request("insert", this, Place(doc, child) + 1, Nest(d, x))))

ReplaceNode == /\ CanEdit
               /\ \E child \in DOMAIN doc.n \ {Doc} : \E this \in Beside(child) :
                    Cloned(LAMBDA d, x :
                      Edited(Dropped(ReplaceChild(d, this, child, x), x),
                             Request("replace", this, Place(doc, child), Nest(d, x))))

RemoveNode == /\ CanEdit
              /\ \E child \in DOMAIN doc.n \ {Doc} :
                   Edited(RemoveChild(doc, doc.n[child].parent, child),
                          Request("remove", doc.n[child].parent, Place(doc, child), Forest!Nothing))

Elems == {x \in DOMAIN doc.n : doc.n[x].type = "element"}

SetAttr == /\ CanEdit
           /\ \E this \in Elems, name \in Names, value \in Values :
                Edited(SetAttribute(doc, this, name, value), Request("set", this, 0, name :> value))

RemoveAttr == /\ CanEdit
              /\ \E this \in Elems, name \in Names :
                   Edited(RemoveAttribute(doc, this, name), Request("unset", this, 0, name))

(* SaveFile, complete or ended by a crash: any beginning of the text may   *)
(* be in the file, which was truncated when it was opened.                 *)
Closed == doc' = EmptyDocument /\ asked' = Forest!NoRequest /\ edits' = MaxEdits

Save == /\ up = Down /\ asked.kind # "none"
        /\ file' = PrintDocument(doc) /\ whole' = file'
        /\ Closed /\ UNCHANGED up

TornSave == /\ up = Down /\ asked.kind # "none" /\ edits = 0
            /\ whole' = PrintDocument(doc)
            /\ \E k \in 0 .. Len(whole') - 1 : file' = SubSeq(whole', 1, k)
            /\ Closed /\ UNCHANGED up

\* the file is copied to the machine, and the copy ends early
CopyEndsEarly == /\ up = Down /\ file = whole /\ asked.kind = "none" /\ edits = 0
                 /\ \E k \in 0 .. Len(file) - 1 : file' = SubSeq(file, 1, k)
                 /\ edits' = MaxEdits
                 /\ UNCHANGED <<whole, doc, asked, up>>

Next == \/ Load \/ LinkEnd \/ InsertEnd \/ InsertBefore \/ InsertAfter \/ ReplaceNode
        \/ RemoveNode \/ SetAttr \/ RemoveAttr \/ Save \/ TornSave \/ CopyEndsEarly \/ Start

Spec == Init /\ [][Next]_vars

(***************************************************************************)
(* Properties.                                                             *)
(***************************************************************************)
(* Every way to come by x gives x: from the sibling before it, the one of  *)
(* its value or the element before it, and by its count among its          *)
(* siblings, those of its value, the elements, the elements of its value.  *)
FoundEverywhere(x) ==
  LET f == doc.n[x]
      older == Reverse(Backward(doc, f.prev))
      Same == Valued(doc, older, f.value)
  IN /\ IterateChildren(doc, f.parent, f.prev) = x
     /\ IterateValue(doc, f.parent, f.value, PreviousSibling(doc, x, f.value)) = x
     /\ HandleChild(doc, f.parent, Len(older)) = x
     /\ HandleChildValue(doc, f.parent, f.value, Len(Same)) = x
     /\ NextSibling(doc, x, f.value) = Null => LastChild(doc, f.parent, f.value) = x
     /\ f.type = "element" =>
          LET elder == Elements(doc, older)
          IN /\ HandleElement(doc, f.parent, Len(elder)) = x
             /\ HandleElementValue(doc, f.parent, f.value, Len(Elements(doc, Same))) = x
             /\ x = IF elder = <<>> THEN FirstElement(doc, f.parent)
                    ELSE NextElement(doc, Last(elder))

(* The tree an edit leaves: the two directions of every list of siblings   *)
(* agree, with each other and with the parent's ends; every node that is   *)
(* not deleted hangs in the document, once; a search forwards, a search    *)
(* backwards and a count find the same nodes.                              *)
TreeSound ==
  /\ doc.n[Doc].parent = Null
  /\ DOMAIN doc.n = Below(doc, Doc)
  /\ \A x \in DOMAIN doc.n :
       LET kids == Children(doc, x)
       IN /\ Backward(doc, doc.n[x].last) = Reverse(kids)
          /\ \A i \in DOMAIN kids : doc.n[kids[i]].parent = x
          /\ kids # <<>> => x \in Parents
          /\ Cardinality(ToSet(kids)) = Len(kids)
  /\ \A x \in DOMAIN doc.n \ {Doc} : FoundEverywhere(x)

TypeOK ==
  /\ up.state \in {"down", "refused", "aborted", "up"}
  /\ edits \in 0 .. MaxEdits

(* A client's document is a tree after every edit and every load, and no   *)
(* assert of the library fails while it edits.                             *)
XmlInv ==
  /\ TypeOK
  /\ TreeSound
  /\ doc.abort => asked.kind = "open"

(* Linked nodes implement the forest: an edit changes exactly the place    *)
(* that was asked for.                                                     *)
ImplementsForest == Forest!Spec

(***************************************************************************)
(* What the format cannot hold: documents in which one of these occurs do  *)
(* not come back from a file as they were written.                         *)
(***************************************************************************)
Adjacent(seq, a, b) == \E i \in 1 .. Len(seq) - 1 : seq[i] = a /\ seq[i + 1] = b
IsName(value) == value # <<>> /\ ReadName(value, 1) = [p |-> Len(value) + 1, name |-> value]

\* white space at either end or twice in a row is lost, an ampersand that
\* seems to begin a reference becomes one
PlainText(value) ==
  /\ ~Blank(value)
  /\ value[1] # " " /\ Last(value) # " "
  /\ ~Adjacent(value, " ", " ")
  /\ ~Adjacent(value, "&", "#x0A;")

PlainNode(d, node) ==
  LET f == d.n[node]
      kids == Children(d, node)
      IsText(c) == d.n[c].type = "text" /\ ~d.n[c].cdata
  IN /\ \A i \in 1 .. Len(kids) - 1 : ~(IsText(kids[i]) /\ IsText(kids[i + 1]))
     /\ CASE f.type = "document" -> \A c \in ToSet(kids) : ~IsText(c)
          [] f.type = "element" ->
               /\ IsName(f.value)
               /\ \A a \in ToSet(f.attrs) : IsName(a.name) /\ ~Adjacent(a.value, "&", "#x0A;")
          [] f.type = "text" ->
               IF f.cdata THEN ~Adjacent(f.value, "]]", ">") /\ CR \notin ToSet(f.value)
               ELSE PlainText(f.value)
          [] f.type = "comment" -> ~Adjacent(f.value, "--", ">") /\ CR \notin ToSet(f.value)
          [] f.type = "declaration" ->
               \A i \in DOMAIN f.decl : ToSet(f.decl[i]) \subseteq Words \union Figures \union {"-", "."}
          [] f.type = "unknown" ->
               /\ ToSet(f.value) \intersect {">", CR} = {}
               /\ f.value # <<>> => ~IsAlpha(f.value[1]) /\ f.value[1] \notin {"/", "?xml"}
               /\ ~StringEqual(f.value, 1, <<"!", "--">>) /\ ~StringEqual(f.value, 1, <<"!", "[CDATA[">>)

Plain(d) == \A x \in DOMAIN d.n : PlainNode(d, x)

\* and what a stream cannot: a comment that begins with ">" or with "->" seems
\* to end there, since StreamIn looks at the last two characters only, also at
\* those that open it; an unknown node that begins with a blank may seem to be
\* an end tag
PlainInStream(d) ==
  \A x \in DOMAIN d.n :
    LET v == d.n[x].value
    IN /\ d.n[x].type = "comment" =>
            ~StringEqual(v, 1, <<">">>) /\ ~StringEqual(v, 1, <<"-", ">">>)
       /\ d.n[x].type = "unknown" => v = <<>> \/ v[1] \notin Blanks

UpToRoot(kids) ==
  SubSeq(kids, 1, SelectInSeq(kids, LAMBDA k : k.type = "element"))

(* A document that can be written comes back as it was: from the file that *)
(* SaveFile leaves, and up to its root from a stream in which two copies   *)
(* of it stand one behind the other, with line breaks or without.  Print,  *)
(* EncodeString and the printer undo what Parse, ReadText and GetEntity    *)
(* do, and StreamIn takes no more and no less than one document.           *)
SavedReadsBack ==
  LET Back(d, kids) == ~d.abort /\ d.err = "none" /\ Nest(d, Doc).kids = kids
      kept == Nest(doc, Doc).kids
  IN Plain(doc) /\ kept # <<>> =>
       /\ Back(LoadFile(PrintDocument(doc), EmptyDocument), kept)
       /\ PlainInStream(doc) /\ RootElement(doc) # Null =>
            \A pretty \in BOOLEAN :
              LET s == Printed(doc, Doc, 0, pretty)
              IN Back(ReadStream(s \o s, EmptyDocument), UpToRoot(kept))

Root(d) == IF RootElement(d) = Null THEN {} ELSE {Nest(d, RootElement(d))}

(* A file that ends early shows it: what reads without an error, and       *)
(* without an assert that fails, has the whole root element or none.  (The *)
(* process does not look: ConfigSound.)                                    *)
CutShows ==
  LET d == LoadFile(file, EmptyDocument)
      w == LoadFile(whole, EmptyDocument)
  IN up = Down /\ file # whole /\ w.err = "none" /\ d.err = "none" /\ ~d.abort => Root(d) \subseteq Root(w)

(* A process that comes up, be it from a file cut short, runs on addresses *)
(* and a database the whole file gives to its name and id: load() may miss *)
(* some of them, but never takes one that is not there.                    *)
ConfigSound ==
  up.state = "up" =>
    LET w == LoadFile(whole, EmptyDocument)
        Given(x) == IF Listen(w, x) = <<>> THEN {} ELSE {Endpoint(Listen(w, x))}
        List(strs) == {Endpoint(str) : str \in strs}
        Nowhere == [dbName |-> <<>>, host |-> <<>>, user |-> <<>>, pwd |-> <<>>, port |-> "0"]
    IN /\ \A f \in DOMAIN up.mysql : up.mysql[f] \in {MySql(w)[f], Nowhere[f]}
       /\ \E x \in ToSet(ProcessTypes(w)) :
            /\ Is(w, x, up.me)
            /\ up.listen \subseteq Given(x)
            /\ up.connect \subseteq List(Connect(w, x))
            /\ up.public \subseteq List(Public(w, x))
            /\ file = whole /\ DbNode(w, x) # Null =>
                 up.dbRead = (getAttr(w, DbNode(w, x), <<"read">>) = <<"true">>)

=============================================================================
