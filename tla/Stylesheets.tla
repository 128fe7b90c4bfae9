---------------------------- MODULE Stylesheets ----------------------------
(***************************************************************************)
(* What xsltproc makes of a BNC document with the four stylesheets that    *)
(* produce plain text; XMLExtract runs justTheText.xsl.  A stylesheet is a *)
(* table from kinds of nodes to the instructions of the template that      *)
(* matches them.  The processor, which is not part of src/, keeps the work *)
(* still to do and writes its output as it goes.                           *)
(*                                                                         *)
(* A document is the sequence of its nodes in document order, each with    *)
(* its kind and the place of its parent; node 1 is the element bncDoc.     *)
(***************************************************************************)
EXTENDS Naturals, Sequences, FiniteSets

CONSTANTS
  Documents,  \* the documents that are transformed
  Sheets      \* the stylesheets that are used

VARIABLES
  doc,      \* the input document
  sheet,    \* the stylesheet
  pending,  \* what is still to be done, each an instruction and its node
  output    \* what has been written, each a value and the node it is from

vars == <<doc, sheet, pending, output>>

\* Words and punctuation are text, and so is the white space between elements.
TextNode == {"word", "blank"}
Token == {"w", "c"}
Element == {"bncDoc", "teiHeader", "wtext", "stext", "p", "s"} \cup Token

\* Node n of document d and all that it is in.
UpIn(d, n) ==
  LET up[m \in 0 .. Len(d)] == IF m = 0 THEN {} ELSE {m} \cup up[d[m].parent]
  IN  up[n]

\* In document order a node is a child of the one before it, or of what that is in.
\* Only elements have children; no token is in a token and no sentence in a sentence.
IsDocument(d) ==
  /\ d \in Seq([kind : Element \cup TextNode, parent : Nat]) /\ d # <<>>
  /\ d[1].parent = 0
  /\ \A n \in 2 .. Len(d) :
       /\ d[n].parent < n /\ d[n].parent \in UpIn(d, n - 1)
       /\ d[d[n].parent].kind \in Element
       /\ \A m \in UpIn(d, d[n].parent) :
            /\ d[n].kind \in Token => d[m].kind \notin Token
            /\ d[n].kind = "s" => d[m].kind # "s"

ASSUME StylesheetsAssumption ==
  /\ \A d \in Documents : IsDocument(d)
  /\ Sheets \subseteq {"justTheText", "justTheWords", "justTheCodes", "oneWordPerLine"}

-----------------------------------------------------------------------------
(* The stylesheets.                                                        *)

Given(kinds, template) == [k \in kinds |-> template]
rules ++ others ==
  [k \in DOMAIN rules \cup DOMAIN others |-> IF k \in DOMAIN rules THEN rules[k] ELSE others[k]]

\* The rules of XSLT for nodes without a template: elements are passed through,
\* text is copied.
BuiltIn == Given(TextNode, <<"text">>) ++ Given(Element, <<"children">>)

\* Mutant: the header is not ignored.
NoHeader == Given({"teiHeader"}, <<"children">>)

Header == Given({"teiHeader"}, <<>>)
NoText == Given(TextNode, <<>>)
Body == Given({"wtext", "stext"}, <<"children">>)

JustTheText == Header ++ NoText ++ Body ++ BuiltIn

\* Mutant: text is suppressed, as justTheText.xsl does it.
JustNoWords == Header ++ NoText ++ Given({"wtext"}, <<"children">>) ++ BuiltIn

\* There is no element of the name "text"; "stext" is left to the built-in rule.
JustTheWords == Header ++ Given({"wtext"}, <<"children">>) ++ BuiltIn

\* Mutant: the number of a sentence follows its words.
JustTheCodesNumberLast ==
  Header ++ Body ++ Given({"s"}, <<"children", "id", "n">>) ++ Given(Token, <<"c5">>) ++ BuiltIn

JustTheCodes ==
  Header ++ Body ++ Given({"s"}, <<"id", "n", "children">>) ++ Given(Token, <<"c5">>) ++ BuiltIn

\* The columns of the line of a token.
Line == <<"id", "s/n", ".", "hw", "c5", "pos">>

\* Mutant: white space is not suppressed.
OneWordPerLineWithBlanks == Header ++ Body ++ Given(Token, Line) ++ BuiltIn

OneWordPerLine == Header ++ NoText ++ Body ++ Given(Token, Line) ++ BuiltIn

Template(k) ==
  CASE sheet = "justTheText" -> JustTheText[k]
    [] sheet = "justTheWords" -> JustTheWords[k]
    [] sheet = "justTheCodes" -> JustTheCodes[k]
    [] sheet = "oneWordPerLine" -> OneWordPerLine[k]

-----------------------------------------------------------------------------
(* The processor.                                                          *)

Node == DOMAIN doc
Children(n) == {c \in Node : doc[c].parent = n}
InOrder(nodes) ==
  {seq \in [1 .. Cardinality(nodes) -> nodes] : \A i, j \in DOMAIN seq : i < j => seq[i] < seq[j]}

Each(do, nodes) == [i \in DOMAIN nodes |-> [do |-> do, node |-> nodes[i]]]

Init ==
  /\ doc \in Documents
  /\ sheet \in Sheets
  /\ pending = Each("apply", <<1>>)
  /\ output = <<>>

Now(do) == pending # <<>> /\ Head(pending).do = do
Current == Head(pending).node

\* The template of a node is found and takes the node's place.
Apply ==
  /\ Now("apply")
  /\ LET template == Template(doc[Current].kind) IN
     pending' = [i \in DOMAIN template |-> [do |-> template[i], node |-> Current]] \o Tail(pending)
  /\ UNCHANGED output

\* Mutant: the nodes that follow are taken, not the children alone.
DescendFollowing ==
  /\ Now("children")
  /\ pending' = Each("apply", [i \in 1 .. Len(doc) - Current |-> Current + i]) \o Tail(pending)
  /\ UNCHANGED output

Descend ==
  /\ Now("children")
  /\ \E children \in InOrder(Children(Current)) :
       pending' = Each("apply", children) \o Tail(pending)
  /\ UNCHANGED output

Write ==
  /\ pending # <<>>
  /\ Head(pending).do \notin {"apply", "children"}
  /\ output' = Append(output, [value |-> Head(pending).do, of |-> Current])
  /\ pending' = Tail(pending)

Step == (Apply \/ Descend \/ Write) /\ UNCHANGED <<doc, sheet>>

Finished == pending = <<>> /\ UNCHANGED vars

Next == Step \/ Finished
Spec == Init /\ [][Next]_vars

-----------------------------------------------------------------------------
(* Properties.                                                             *)

Done == pending = <<>>
UpFrom(n) == UpIn(doc, n)
Inside(n, kind) == \E m \in UpFrom(n) : doc[m].kind = kind
BodyNodes(kinds) == {n \in Node : doc[n].kind \in kinds /\ ~Inside(n, "teiHeader")}

\* The nodes that have been written out, in document order and none left out.
OneByOne(places, nodes) ==
  /\ \A i \in places : output[i].of \in nodes
  /\ \A i, j \in places : i < j => output[i].of < output[j].of
  /\ \A i \in places, n \in nodes : n < output[i].of => \E j \in places : output[j].of = n
  /\ Done => \A n \in nodes : \E i \in places : output[i].of = n

Values == UNION {{"text"}, {"id", "n", "c5"}, {Line[i] : i \in DOMAIN Line}}

\* Types; what is to be done never grows beyond the nodes and the columns of a line.
TypeOK ==
  /\ sheet \in Sheets
  /\ pending \in Seq([do : {"apply", "children"} \cup Values, node : Node])
  /\ Len(pending) <= Len(doc) + Len(Line)
  /\ output \in Seq([value : Values, of : Node])

(* The metadata of a text never gets among its words: the empty template   *)
(* for teiHeader cuts off all that is below it, in every stylesheet.       *)
HeaderStaysOut == \A i \in DOMAIN output : ~Inside(output[i].of, "teiHeader")

(* justTheWords.xsl: all text of the body and nothing else comes out, in   *)
(* the order of the document, whatever elements it is in ("outputs the     *)
(* text content of every element found", justTheWords.xsl:21-22).          *)
AllWordsInOrder ==
  sheet = "justTheWords" =>
    /\ \A i \in DOMAIN output : output[i].value = "text"
    /\ OneByOne(DOMAIN output, BodyNodes(TextNode))

(* justTheCodes.xsl: every token gives one code, in the order of the       *)
(* document, and it stands under the number of its own sentence.           *)
CodesUnderTheirSentence ==
  sheet = "justTheCodes" =>
    LET codes == {i \in DOMAIN output : output[i].value = "c5"} IN
    /\ OneByOne(codes, BodyNodes(Token))
    /\ \A i \in codes : Inside(output[i].of, "s") =>
         \E j \in 1 .. i - 1 :
           /\ output[j].value = "n" /\ output[j].of \in UpFrom(output[i].of)
           /\ \A k \in j + 1 .. i - 1 : output[k].value # "n"

(* oneWordPerLine.xsl feeds a database: one line per token, all columns    *)
(* in each, and nothing between the lines.                                 *)
OneLinePerToken ==
  sheet = "oneWordPerLine" =>
    LET column(i) == ((i - 1) % Len(Line)) + 1
        lines == {i \in DOMAIN output : column(i) = 1}
    IN  /\ OneByOne(lines, BodyNodes(Token))
        /\ \A i \in DOMAIN output : output[i].value = Line[column(i)]
        /\ \A i \in DOMAIN output \ lines : output[i].of = output[i - 1].of
        /\ Done => column(Len(output) + 1) = 1

(* "The text content will be output as plain text" (justTheText.xsl:22-23).*)
TextComesOut ==
  Done /\ sheet = "justTheText" =>
    \A n \in BodyNodes({"word"}) : \E i \in DOMAIN output : output[i].of = n

=============================================================================
