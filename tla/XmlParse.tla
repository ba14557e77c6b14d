------------------------------ MODULE XmlParse ------------------------------
(***************************************************************************)
(* Reading and writing a document: tinyxmlparser.cpp and the Print and     *)
(* SaveFile functions of tinyxml.cpp.  A text is a sequence of tokens: the *)
(* characters the parser looks at one by one ("<", "=", the quotes, white  *)
(* space, "&"), and pieces it never looks into: words and figures, the     *)
(* openings "?xml", "--" and "[CDATA[", an entity such as "&lt;".  A name  *)
(* is a run of such pieces, so a file cut short can end inside one.        *)
(*                                                                         *)
(* A position p is an index into the text; 0 is the null pointer, and a    *)
(* position past the end is the terminating zero of the buffer.  A parse   *)
(* function gets the text, the position and the document, and returns the  *)
(* position behind what it read and the document as it left it.            *)
(* Characters beyond ASCII, the byte order mark and the encoding that is   *)
(* found in a declaration are left out: they change no token used here.    *)
(***************************************************************************)
EXTENDS XmlTree

CONSTANTS Words,      \* pieces of names and values that begin with a letter
          Figures     \* pieces that begin with a digit

NL == "\n"
CR == "\r"
Blanks == {" ", "    ", NL, CR}
Entities == [c \in {"<", ">", "&", "\"", "'"} |->
               CASE c = "<" -> "&lt;" [] c = ">" -> "&gt;" [] c = "&" -> "&amp;"
                 [] c = "\"" -> "&quot;" [] c = "'" -> "&apos;"]
References == ("&#x0A;" :> NL) @@ ("&#x0D;" :> CR)
Broken == "&#x"       \* a reference without its end: GetEntity returns 0

At(s, p) == IF p \in 1 .. Len(s) THEN s[p] ELSE "end"
More(s, p) == At(s, p) # "end"                \* p && *p
StringEqual(s, p, tag) == \A i \in DOMAIN tag : At(s, p + i - 1) = tag[i]

\* the first position from p on at which Stop holds, or the end
Scan(s, p, Stop(_)) ==
  LET from[q \in p .. Len(s) + 1] == IF q > Len(s) \/ Stop(q) THEN q ELSE from[q + 1]
  IN from[p]

SkipWhiteSpace(s, p) == IF More(s, p) THEN Scan(s, p, LAMBDA i : s[i] \notin Blanks) ELSE 0

IsAlpha(c) == c \in Words \union {"_"}
InName(c) == IsAlpha(c) \/ c \in Figures \union {"-", "--", ".", ":"}
ReadName(s, p) ==
  IF IsAlpha(At(s, p))
  THEN LET q == Scan(s, p, LAMBDA i : ~InName(s[i])) IN [p |-> q, name |-> SubSeq(s, p, q - 1)]
  ELSE [p |-> 0, name |-> <<>>]

(* GetChar and GetEntity: the next character of a value.  An ampersand     *)
(* that begins no entity is read over, and a broken reference ends the     *)
(* reading with a null pointer.                                            *)
GetChar(s, p) ==
  CASE s[p] \in DOMAIN References -> [p |-> p + 1, text |-> <<References[s[p]]>>]
    [] s[p] = Broken -> [p |-> 0, text |-> <<>>]
    [] \E c \in DOMAIN Entities : Entities[c] = s[p] ->
         [p |-> p + 1, text |-> <<CHOOSE c \in DOMAIN Entities : Entities[c] = s[p]>>]
    [] s[p] = "&" -> [p |-> p + 1, text |-> <<>>]
    [] OTHER -> [p |-> p + 1, text |-> <<s[p]>>]

(* ReadText up to endTag.  With trim, leading white space goes and any     *)
(* other becomes one blank before the next character.  It returns null     *)
(* when nothing follows the end tag.                                       *)
ReadText(s, p, trim, endTag) ==
  LET RECURSIVE Take(_, _, _)
      Take(q, text, blank) ==
        IF ~More(s, q) \/ StringEqual(s, q, endTag) THEN [p |-> q, text |-> text]
        ELSE IF trim /\ s[q] \in Blanks THEN Take(q + 1, text, TRUE)
        ELSE LET c == GetChar(s, q)
             IN Take(c.p, text \o (IF blank THEN <<" ">> ELSE <<>>) \o c.text, FALSE)
      r == Take(IF trim THEN SkipWhiteSpace(s, p) ELSE p, <<>>, FALSE)
      behind == IF More(s, r.p) THEN r.p + Len(endTag) ELSE r.p
  IN [r EXCEPT !.p = IF More(s, behind) THEN behind ELSE 0]

\* the text up to endTag as it stands, entities and all
ReadRaw(s, p, endTag) ==
  LET RECURSIVE To(_)
      To(q) == IF ~More(s, q) \/ StringEqual(s, q, endTag) THEN q ELSE To(q + 1)
  IN [p |-> To(p), text |-> SubSeq(s, p, To(p) - 1)]

(***************************************************************************)
(* The parse functions of the nodes.                                       *)
(***************************************************************************)
Read(p, d) == [p |-> p, d |-> d]
Fail(d, node, err) == Read(0, Report(d, node, err))

\* the kind of node that a "<" at q begins
Kind(s, q) == IF StringEqual(s, q, <<"<", "?xml">>) THEN "declaration"
              ELSE IF StringEqual(s, q, <<"<", "!", "--">>) THEN "comment"
              ELSE IF StringEqual(s, q, <<"<", "!", "[CDATA[">>) THEN "text"
              ELSE IF StringEqual(s, q, <<"<", "!">>) THEN "unknown"
              ELSE IF IsAlpha(At(s, q + 1)) THEN "element"
              ELSE "unknown"

(* TiXmlNode::Identify: what begins at p, as a node whose parent is set,   *)
(* so that it can report errors; no node (0) where nothing begins.         *)
Identify(s, p, d, this) ==
  LET q == SkipWhiteSpace(s, p)
      kind == Kind(s, q)
  IN IF At(s, q) # "<" THEN [node |-> Null, d |-> d]
     ELSE [node |-> Fresh(d),
           d |-> New(d, [NewNode(kind, <<>>) EXCEPT !.parent = this, !.cdata = kind = "text"])]

(* TiXmlAttribute::Parse: name, "=", value in either quotes or in none.    *)
(* A null position means the attribute is of no use; err is what it tells  *)
(* the document it was given, if it was given one.                         *)
Quotes == {"'", "\""}
Bad(value) == [p |-> 0, value |-> value, err |-> "readingAttributes"]
Quoted(r) == [p |-> r.p, value |-> r.text, err |-> "none"]
Bare(s, q, to) ==
  IF At(s, to) \in Quotes THEN Bad(SubSeq(s, q, to - 1))
  ELSE [p |-> to, value |-> SubSeq(s, q, to - 1), err |-> "none"]
AttributeValue(s, q) ==
  IF ~More(s, q) THEN Bad(<<>>)
  ELSE IF s[q] \in Quotes THEN Quoted(ReadText(s, q + 1, FALSE, <<s[q]>>))
  ELSE Bare(s, q, Scan(s, q, LAMBDA i : s[i] \in Blanks \union {"/", ">"} \union Quotes))
AfterName(s, eq) == IF At(s, eq) = "=" THEN AttributeValue(s, SkipWhiteSpace(s, eq + 1)) ELSE Bad(<<>>)
Named(s, r) == (IF More(s, r.p) THEN AfterName(s, SkipWhiteSpace(s, r.p)) ELSE Bad(<<>>))
                 @@ [name |-> r.name]
ParseAttribute(s, p) ==
  IF More(s, p) THEN Named(s, ReadName(s, p)) ELSE [Bad(<<>>) EXCEPT !.err = "none"] @@ [name |-> <<>>]

ParseComment(s, p, d, node) ==
  LET r == ReadRaw(s, SkipWhiteSpace(s, p) + 3, <<"--", ">">>)
  IN Read(IF More(s, r.p) THEN r.p + 2 ELSE r.p, [d EXCEPT !.n[node].value = r.text])

ParseUnknown(s, p, d, node) ==
  LET r == ReadRaw(s, SkipWhiteSpace(s, p) + 1, <<">">>)
  IN Read(IF More(s, r.p) THEN r.p + 1 ELSE r.p, [d EXCEPT !.n[node].value = r.text])

ParseCDATA(s, p, d, node) ==
  LET r == ReadRaw(s, p + 3, <<"]]", ">">>)
  IN Read(ReadText(s, r.p, FALSE, <<"]]", ">">>).p, [d EXCEPT !.n[node].value = r.text])

(* TiXmlDeclaration::Parse.  The attributes have no document to tell an    *)
(* error to; a text that ends after a blank makes StringEqual assert, and  *)
(* one that ends before ">" returns null without an error.                 *)
Fields == <<<<"version">>, <<"encoding">>, <<"standalone">>>>
DeclField(a, d, node, i) == Read(a.p, [d EXCEPT !.n[node].decl[i] = a.value])

RECURSIVE ParseFields(_, _, _)
ParseFields(s, at, node) ==
  LET q == SkipWhiteSpace(s, at.p)
      i == SelectInSeq(Fields, LAMBDA f : StringEqual(s, q, f))
  IN IF ~More(s, at.p) THEN Read(0, at.d)
     ELSE IF s[at.p] = ">" THEN Read(at.p + 1, at.d)
     ELSE IF ~More(s, q) THEN Read(0, Asserted(at.d, FALSE))
     ELSE IF i > 0 THEN ParseFields(s, DeclField(ParseAttribute(s, q), at.d, node, i), node)
     ELSE ParseFields(s, Read(Scan(s, q, LAMBDA j : s[j] \in Blanks \union {">"}), at.d), node)

ParseDeclaration(s, p, d, node) ==
  ParseFields(s, Read(SkipWhiteSpace(s, p) + 2, [d EXCEPT !.n[node].decl = <<<<>>, <<>>, <<>>>>]), node)

\* TiXmlText::Blank
Blank(value) == ToSet(value) \subseteq Blanks

RECURSIVE ParseNode(_, _, _, _), ParseAttributes(_, _, _), ReadValue(_, _, _)

\* What Parse has made of a node is linked whatever became of the parse.
Linked(r, this, node) == Read(r.p, LinkEndChild(r.d, this, node))
ParseLinked(s, p, i, this) == Linked(ParseNode(s, p, i.d, i.node), this, i.node)
\* A text has no parent while it is read and cannot report.
TextLinked(s, r, d, this) ==
  Read(IF More(s, r.p) THEN r.p - 1 ELSE 0,
       IF Blank(r.text) THEN d
       ELSE LinkEndChild(New(d, NewNode("text", r.text)), this, Fresh(d)))

\* TiXmlElement::ReadValue: texts and nodes until an end tag
ReadValue(s, at, this) ==
  LET q == SkipWhiteSpace(s, at.p)
  IN IF q = 0 THEN Fail(at.d, this, "readingElementValue")
     ELSE IF ~More(s, q) \/ StringEqual(s, q, <<"<", "/">>) THEN Read(q, at.d)
     ELSE IF s[q] # "<"
          THEN ReadValue(s, TextLinked(s, ReadText(s, q, TRUE, <<"<">>), at.d, this), this)
     ELSE ReadValue(s, ParseLinked(s, q, Identify(s, q, at.d, this), this), this)

(* The end of TiXmlElement::Parse: the end tag must begin like the         *)
(* element's own and be closed after blanks.                               *)
ParseEndTag(s, at, this) ==
  LET endTag == <<"<", "/">> \o at.d.n[this].value
      q == SkipWhiteSpace(s, at.p + Len(endTag))
  IN IF More(s, at.p) /\ StringEqual(s, at.p, endTag) /\ At(s, q) = ">" THEN Read(q + 1, at.d)
     ELSE Fail(at.d, this, "readingEndTag")

(* The loop of TiXmlElement::Parse: attributes, then "/>" or ">" with the  *)
(* element's value and its end tag.  An attribute the text ends in is      *)
(* dropped, and so is one whose name the element already has.              *)
TakeAttribute_SlipKeep(s, a, d, this) ==
  IF Find(d.n[this].attrs, a.name) # 0 THEN Fail(d, this, "parsingElement")
  ELSE ParseAttributes(s, Read(a.p, Add(d, this, a.name, a.value)), this)
TakeAttribute(s, a, d, this) ==
  IF ~More(s, a.p) \/ Find(d.n[this].attrs, a.name) # 0
  THEN Fail(IF a.err = "none" THEN d ELSE Report(d, this, a.err), this, "parsingElement")
  ELSE ParseAttributes(s, Read(a.p, Add(d, this, a.name, a.value)), this)

ParseAttributes(s, at, this) ==
  LET q == SkipWhiteSpace(s, at.p)
  IN IF ~More(s, at.p) THEN at
     ELSE IF ~More(s, q) THEN Fail(at.d, this, "readingAttributes")
     ELSE IF s[q] = ">" THEN ParseEndTag(s, ReadValue(s, Read(q + 1, at.d), this), this)
     ELSE IF s[q] # "/" THEN TakeAttribute(s, ParseAttribute(s, q), at.d, this)
     ELSE IF At(s, q + 1) = ">" THEN Read(q + 2, at.d)
     ELSE Fail(at.d, this, "parsingEmpty")

Begun(s, r, d, this) ==
  IF More(s, r.p) THEN ParseAttributes(s, Read(r.p, [d EXCEPT !.n[this].value = r.name]), this)
  ELSE Fail([d EXCEPT !.n[this].value = r.name], this, "failedToReadElementName")
ParseElement(s, p, d, this) ==
  Begun(s, ReadName(s, SkipWhiteSpace(s, SkipWhiteSpace(s, p) + 1)), d, this)

ParseNode(s, p, d, node) ==
  CASE d.n[node].type = "element" -> ParseElement(s, p, d, node)
    [] d.n[node].type = "comment" -> ParseComment(s, p, d, node)
    [] d.n[node].type = "text" -> ParseCDATA(s, p, d, node)
    [] d.n[node].type = "declaration" -> ParseDeclaration(s, p, d, node)
    [] OTHER -> ParseUnknown(s, p, d, node)

(* TiXmlDocument::Parse: nodes until the text ends, a parse fails, or      *)
(* something other than a node begins, which is silently left unread.      *)
RECURSIVE ParseNodes(_, _)
ParseNodes(s, at) ==
  LET p == SkipWhiteSpace(s, at.p)
  IN IF At(s, p) # "<" THEN at.d ELSE ParseNodes(s, ParseLinked(s, p, Identify(s, p, at.d, Doc), Doc))

NotEmpty(d) == IF d.n[Doc].first = Null THEN SetError(d, "documentEmpty") ELSE d
ParseDocument(s, d) == NotEmpty(ParseNodes(s, Read(1, [d EXCEPT !.err = "none"])))

\* the end-of-line handling of LoadFile: CR LF and CR alone become LF
Normalised(file) ==
  LET upTo[i \in 0 .. Len(file)] ==
        CASE i = 0 -> <<>>
          [] At(file, i) = CR -> Append(upTo[i - 1], NL)
          [] At(file, i) = NL /\ At(file, i - 1) = CR -> upTo[i - 1]
          [] OTHER -> Append(upTo[i - 1], file[i])
  IN upTo[Len(file)]

LoadFile(file, d) ==
  IF file = <<>> THEN SetError(Clear(d, Doc), "documentEmpty")
  ELSE ParseDocument(Normalised(file), Clear(d, Doc))

(***************************************************************************)
(* Writing.                                                                *)
(***************************************************************************)
\* what Text makes of the members of seq, one behind the other
Joined(Text(_), seq) == FoldLeft(LAMBDA text, x : text \o Text(x), <<>>, seq)

(* EncodeString: a reference in hexadecimal passes unchanged, so a value   *)
(* that only looks like one comes back as another.                         *)
EncodeString_SlipQuotes(value) ==
  Joined(LAMBDA c : IF c \in {"<", ">", "&"} THEN <<Entities[c]>> ELSE <<c>>, value)
EncodeString(value) ==
  LET Code(i) ==
        IF value[i] = "&" /\ At(value, i + 1) = "#x0A;" THEN <<>>
        ELSE IF value[i] = "#x0A;" /\ i > 1 /\ value[i - 1] = "&" THEN <<"&#x0A;">>
        ELSE IF value[i] \in DOMAIN Entities THEN <<Entities[value[i]]>>
        ELSE IF \E r \in DOMAIN References : References[r] = value[i]
             THEN <<CHOOSE r \in DOMAIN References : References[r] = value[i]>>
        ELSE <<value[i]>>
  IN Joined(Code, [i \in DOMAIN value |-> i])

PrintAttribute(a) ==
  LET quote == IF "\"" \in ToSet(a.value) THEN "'" ELSE "\""
  IN EncodeString(a.name) \o <<"=", quote>> \o EncodeString(a.value) \o <<quote>>

PrintAttributes(attrs) == Joined(LAMBDA a : <<" ">> \o PrintAttribute(a), attrs)

PrintDeclaration(decl) ==
  LET Field(name, value) ==
        IF value = <<>> THEN <<>> ELSE <<name, "=", "\"">> \o value \o <<"\"", " ">>
  IN <<"<", "?xml", " ">> \o Field("version", decl[1]) \o Field("encoding", decl[2])
       \o Field("standalone", decl[3]) \o <<"?", ">">>

Indent(depth) == [i \in 1 .. depth |-> "    "]

RECURSIVE PrintNode(_, _, _)

(* TiXmlElement::Print: "<name />" without children, one line with a       *)
(* single text, else every child that is not a text on a line of its own.  *)
PrintElement(d, this, depth) ==
  LET f == d.n[this]
      open == Indent(depth) \o <<"<">> \o f.value \o PrintAttributes(f.attrs)
      close == <<"<", "/">> \o f.value \o <<">">>
      Line(c) == (IF d.n[c].type = "text" THEN <<>> ELSE <<NL>>) \o PrintNode(d, c, depth + 1)
      kids == Children(d, this)
  IN IF kids = <<>> THEN open \o <<" ", "/", ">">>
     ELSE IF f.first = f.last /\ d.n[f.first].type = "text"
          THEN open \o <<">">> \o PrintNode(d, f.first, depth + 1) \o close
     ELSE open \o <<">">> \o Joined(Line, kids) \o <<NL>> \o Indent(depth) \o close

PrintText(f, depth) ==
  IF f.cdata THEN <<NL>> \o Indent(depth) \o <<"<", "!", "[CDATA[">> \o f.value \o <<"]]", ">", NL>>
  ELSE EncodeString(f.value)

PrintNode(d, node, depth) ==
  LET f == d.n[node]
  IN CASE f.type = "element" -> PrintElement(d, node, depth)
       [] f.type = "text" -> PrintText(f, depth)
       [] f.type = "comment" -> Indent(depth) \o <<"<", "!", "--">> \o f.value \o <<"--", ">">>
       [] f.type = "declaration" -> PrintDeclaration(f.decl)
       [] f.type = "unknown" -> Indent(depth) \o <<"<">> \o f.value \o <<">">>

\* TiXmlDocument::Print, which SaveFile calls: every node on a line
PrintDocument(d) ==
  Joined(LAMBDA c : PrintNode(d, c, 0) \o <<NL>>, Children(d, Doc))

=============================================================================
