-------------------------- MODULE MCProcessConfig --------------------------
(***************************************************************************)
(* Small files for ProcessConfig.tla: the repository's process.xml with    *)
(* two of its three processes, the same configuration in an order and a    *)
(* spelling of its own, and small documents with every kind of node and    *)
(* the characters that have to be encoded.                                 *)
(***************************************************************************)
EXTENDS ProcessConfig

MCWords == {"version", "encoding", "standalone", "UTF", "root", "mysql", "db", "Name", "host",
            "user", "pwd", "port", "all", "process", "Processes", "Type", "name", "id", "private",
            "public", "listen", "connect", "connection", "ion", "Process", "game", "read", "write",
            "true", "bc", "jj", "a", "b", "note"}
MCFigures == {"1", "3", "8", "3306", "7001", "7003", "8002", "8003"}

\* pieces of a file
Attr(name, value) == <<" ">> \o name \o <<"=", "\"">> \o value \o <<"\"">>
Empty(name, attrs) == <<"<">> \o name \o attrs \o <<"/", ">">>
Open(name, attrs) == <<"<">> \o name \o attrs \o <<">">>
Shut(name) == <<"<", "/">> \o name \o <<">">>
At7001 == <<"local", ":", "7001">>
At7003 == <<"local", ":", "7003">>
AtAny(port) == <<"any", ":", port>>

Header == <<"<", "?xml">> \o Attr(<<"version">>, <<"1", ".", "8">>)
            \o Attr(<<"encoding">>, <<"UTF", "-", "8">>) \o <<"?", ">", NL>>

MySqlTag == <<"<", "mysql">> \o Attr(<<"db", "Name">>, <<"bc", "jj">>)
              \o <<" ", "host", " ", "=", "\"", "local", "\"">> \o Attr(<<"user", "Name">>, <<"bc", "jj">>)
              \o Attr(<<"pwd">>, <<"bc", "jj">>) \o Attr(<<"port">>, <<"3306">>) \o <<"/", ">", NL>>

Type(name, id) == Open(<<"process", "Type">>, Attr(<<"name">>, <<name>>) \o Attr(<<"id">>, <<id>>))

\* process.xml: a data server, and the game with its database threads
ProcessXml ==
  Header \o Open(<<"root">>, <<>>) \o <<NL, "    ">> \o MySqlTag \o Open(<<"all", "Processes">>, <<>>)
    \o <<NL, "<", "!", "--", "note", "--", ">">>
    \o Type("db", "1") \o Empty(<<"private">>, Attr(<<"listen">>, At7001)) \o Shut(<<"process", "Type">>)
    \o <<NL>> \o Type("game", "3") \o Empty(<<"private">>, Attr(<<"listen">>, At7003))
    \o Empty(<<"public">>, Attr(<<"listen">>, AtAny("8002")))
    \o Empty(<<"db", "connection">>, Attr(<<"read">>, <<"true">>) \o Attr(<<"write">>, <<"true">>))
    \o Shut(<<"process", "Type">>) \o <<CR, NL>> \o Shut(<<"all", "Processes">>) \o Shut(<<"root">>) \o <<NL>>

\* the database last, no declaration, lists of addresses, a name in single quotes
OtherOrder ==
  Open(<<"root">>, <<>>) \o Open(<<"all", "Processes">>, <<>>)
    \o <<"<", "process", "Type", " ", "name", "=", "'", "game", "'", " ", "id", "=", "3", " ", ">">>
    \o Empty(<<"private">>, Attr(<<"connect", "Process">>, At7001 \o <<" ", " ">> \o At7003))
    \o Empty(<<"public">>, Attr(<<"listen">>, AtAny("8002") \o <<" ">> \o AtAny("8003")))
    \o Shut(<<"process", "Type">>) \o Shut(<<"all", "Processes">>) \o MySqlTag \o Shut(<<"root">>)

\* a configuration small enough to be edited
Tiny == Open(<<"root">>, <<>>) \o Empty(<<"mysql">>, <<>>) \o Open(<<"all", "Processes">>, <<>>)
          \o Type("db", "1") \o Empty(<<"private">>, Attr(<<"listen">>, At7001))
          \o Shut(<<"process", "Type">>) \o Shut(<<"all", "Processes">>) \o Shut(<<"root">>)

\* small documents
Kinds == <<"<", "!", "note", ">">> \o Open(<<"a">>, Attr(<<"id">>, <<"&lt;", "&#x0A;", "b">>))
           \o <<"b", " ", NL, " ", "&amp;", "&", "b", "<", "!", "[CDATA[", "<", "]]", ">">> \o Shut(<<"a">>)
Comment == Open(<<"a">>, <<>>) \o Empty(<<"b">>, <<>>) \o <<"<", "!", "--", "<", "--", ">", CR, "b">> \o Shut(<<"a">>)
Twice == Open(<<"a">>, Attr(<<"id">>, <<"1">>) \o Attr(<<"id">>, <<"3">>)) \o Shut(<<"a">>)

\* texts that are no documents: tags crossed, a reference without its end, an
\* attribute without a value, a bare value that ends in a quote, no node at all
Crossed == Open(<<"a">>, <<>>) \o Open(<<"b">>, <<>>) \o Shut(<<"a">>) \o Shut(<<"b">>)
Endless == Open(<<"a">>, Attr(<<"id">>, <<"&#x">>)) \o Shut(<<"a">>)
NoValue == Empty(<<"a">>, <<" ", "id">>)
HalfQuoted == Empty(<<"a">>, <<" ", "id", "=", "3", "'">>)
NoNode == <<"note", "<", "a", "/", ">">>

MCTexts == {ProcessXml, OtherOrder, Tiny, Kinds, Comment, Twice,
            Crossed, Endless, NoValue, HalfQuoted, NoNode}
MCNames == {<<"id">>, <<"listen">>}
MCValues == {<<"3">>, <<NL, "\"", "&", "<", ">", "'">>}
MCLeaves == {NewNode("element", <<"a">>),
             NewNode("text", <<"b", "<", "&", "b">>),
             NewNode("text", <<" ">>),
             [NewNode("text", <<"&">>) EXCEPT !.cdata = TRUE],
             NewNode("comment", <<"--", "b">>)}
MCProcesses == {[name |-> <<"game">>, id |-> "3"], [name |-> <<"db">>, id |-> "1"]}

=============================================================================
