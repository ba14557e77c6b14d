----------------------------- MODULE XmlStream -----------------------------
(***************************************************************************)
(* The second way in and out of a document: TiXmlPrinter, which visits the *)
(* nodes, with line breaks or without (operator<<), and operator>>, which  *)
(* takes the characters of one document off a stream (the StreamIn         *)
(* functions) and then parses what it has taken.                           *)
(*                                                                         *)
(* StreamIn appends every character it takes to one buffer, so that what   *)
(* has been taken of the stream s is always a beginning of s: a function   *)
(* here gets the position of the next character and returns the position   *)
(* at which it stops.  The errors it sets are left out: Parse, which       *)
(* follows in any case, clears them.                                       *)
(***************************************************************************)
EXTENDS XmlParse

RECURSIVE Printed(_, _, _, _), StreamContent(_, _)

(* Accept and the Visit functions.  A text alone in its element, unless it *)
(* is CDATA, is printed without breaks (simpleTextPrint).                  *)
Printed(d, node, depth, pretty) ==
  LET f == d.n[node]
      kids == Children(d, node)
      Pad == IF pretty THEN Indent(depth) ELSE <<>>
      Break == IF pretty THEN <<NL>> ELSE <<>>
      Kids(inner) == Joined(LAMBDA c : Printed(d, c, inner, pretty), kids)
      Tag == <<"<">> \o f.value \o PrintAttributes(f.attrs)
      Simple == Len(kids) = 1 /\ d.n[kids[1]].type = "text" /\ ~d.n[kids[1]].cdata
      Content == IF Simple THEN EncodeString(d.n[kids[1]].value)
                 ELSE Break \o Kids(depth + 1) \o Pad
  IN CASE f.type = "document" -> Kids(0)
       [] f.type = "element" ->
            Pad \o Tag \o (IF kids = <<>> THEN <<" ", "/", ">">>
                           ELSE <<">">> \o Content \o <<"<", "/">> \o f.value \o <<">">>) \o Break
       [] f.type = "text" ->
            Pad \o (IF f.cdata THEN <<"<", "!", "[CDATA[">> \o f.value \o <<"]]", ">">>
                    ELSE EncodeString(f.value)) \o Break
       [] OTHER -> Pad \o PrintNode(d, node, 0) \o Break

(***************************************************************************)
(* Taking a document off a stream.                                         *)
(***************************************************************************)
\* TiXmlBase::StreamTo, and StreamWhiteSpace
StreamTo(s, p, character) == Scan(s, p, LAMBDA i : s[i] = character)
StreamWhiteSpace(s, p) == Scan(s, p, LAMBDA i : s[i] \notin Blanks)

\* past a ">", wherever it stands or only behind end
StreamPast(s, p, end) ==
  LET q == Scan(s, p, LAMBDA i : s[i] = ">" /\ (end = "" \/ s[i - 1] = end))
  IN IF More(s, q) THEN q + 1 ELSE q

(* TiXmlElement::StreamIn: to the end of the tag, and unless that was "/>" *)
(* on to the end tag.                                                      *)
StreamElement(s, p) ==
  LET q == StreamPast(s, p, "")
  IN IF At(s, q - 1) # ">" \/ s[q - 2] = "/" THEN q ELSE StreamContent(s, q)

StreamNode(s, p, kind) ==
  CASE kind = "element" -> StreamElement(s, p)
    [] kind = "comment" -> StreamPast(s, p, "--")
    [] kind = "text" -> StreamPast(s, p, "]]")
    [] OTHER -> StreamPast(s, p, "")

(* The loop of TiXmlElement::StreamIn: texts, nodes, and the end tag, each *)
(* told by what stands before its first ">", or before the "[CDATA[" of a  *)
(* text.                                                                   *)
StreamContent(s, p) ==
  LET q == StreamWhiteSpace(s, p)
      IsCDATA(i) == i >= 3 /\ StringEqual(s, i - 2, <<"<", "!", "[CDATA[">>)
      stop == Scan(s, q, LAMBDA i : s[i] = ">" \/ IsCDATA(i))
  IN IF ~More(s, q) THEN q
     ELSE IF s[q] # "<" THEN StreamContent(s, StreamTo(s, q, "<"))
     ELSE IF ~More(s, stop) THEN stop
     ELSE IF At(s, StreamWhiteSpace(s, q + 1)) = "/" THEN stop + 1
     ELSE StreamContent(s, StreamNode(s, IF s[stop] = ">" THEN stop ELSE stop + 1, Kind(s, q)))

(* TiXmlDocument::StreamIn: to the end of the first element.  A node that  *)
(* seems to end early leaves something that is none, where it gives up.    *)
StreamDocument(s) ==
  LET RECURSIVE Nodes(_)
      Nodes(p) ==
        LET stop == StreamTo(s, p, ">")
            q == StreamWhiteSpace(s, p)
        IN IF ~More(s, stop) \/ At(s, q) # "<" THEN stop
           ELSE IF Kind(s, q) = "element" THEN StreamElement(s, stop)
           ELSE Nodes(StreamNode(s, stop, Kind(s, q)))
      begin == StreamTo(s, 1, "<")
  IN IF More(s, begin) THEN Nodes(begin) ELSE begin

\* operator>> for a document: what it has taken is parsed into d
ReadStream(s, d) == ParseDocument(SubSeq(s, 1, StreamDocument(s) - 1), d)

=============================================================================
