------------------------- MODULE StylesheetsProofs --------------------------
(***************************************************************************)
(* Theorems about Stylesheets, for every document and each of the four     *)
(* stylesheets that produce text: what comes out, from which nodes and in  *)
(* which order.                                                            *)
(***************************************************************************)
EXTENDS Stylesheets, SequenceTheorems, FiniteSetTheorems, TLAPS

-----------------------------------------------------------------------------
(* Documents.                                                              *)

\* A least number: an induction that the provers can do.
LEMMA Least ==
  ASSUME NEW S \in SUBSET Nat, S # {}
  PROVE  \E n \in S : \A m \in S : n <= m
<1> PICK top \in S : TRUE
  OBVIOUS
<1> DEFINE Upto == {1 .. k : k \in S \cap 0 .. top}
<1>1. IsFiniteSet(1 .. top)
  BY FS_Interval
<1>2. Upto \subseteq FiniteSubsetsOf(1 .. top) /\ Upto # {}
  BY <1>1, FS_Subset DEF FiniteSubsetsOf
<1>3. PICK x \in Upto : \A y \in Upto : <<y, x>> \notin StrictSubsetOrdering(1 .. top)
  <2> HIDE DEF Upto
  <2> QED BY <1>1, <1>2, FS_StrictSubsetOrderingWellFounded, WFMin
<1>4. PICK n \in S \cap 0 .. top : x = 1 .. n
  BY <1>3
<1>5. ASSUME NEW m \in S, m < n
      PROVE  FALSE
  <2>1. 1 .. m \in Upto
    BY <1>4, <1>5
  <2>2. n \in 1 .. n /\ n \notin 1 .. m /\ 1 .. m \subseteq 1 .. n
    BY <1>4, <1>5
  <2>3. <<1 .. m, x>> \in StrictSubsetOrdering(1 .. top)
    BY <1>4, <1>5, <2>2 DEF StrictSubsetOrdering
  <2> QED BY <1>3, <2>1, <2>3
<1> QED BY <1>4, <1>5

\* A node has its parent before it, and the first node has none.
LEMMA ParentFirst ==
  ASSUME NEW d, IsDocument(d)
  PROVE  /\ Len(d) \in Nat \ {0} /\ DOMAIN d = 1 .. Len(d)
         /\ \A n \in 1 .. Len(d) : /\ d[n].kind \in Element \cup TextNode
                                   /\ d[n].parent \in 0 .. n - 1
<1>1. Len(d) \in Nat \ {0} /\ DOMAIN d = 1 .. Len(d)
  BY EmptySeq DEF IsDocument
<1>2. ASSUME NEW n \in 1 .. Len(d)
      PROVE  d[n].kind \in Element \cup TextNode /\ d[n].parent \in 0 .. n - 1
  <2>1. d \in Seq([kind : Element \cup TextNode, parent : Nat])
    BY DEF IsDocument
  <2>3. d[n] \in [kind : Element \cup TextNode, parent : Nat]
    BY <2>1, ElementOfSeq
  <2>2. n = 1 \/ n \in 2 .. Len(d)
    BY <1>1
  <2> QED BY <2>2, <2>3 DEF IsDocument
<1> QED BY <1>1, <1>2

\* The function that UpIn defines by recursion exists: the least sets with a node
\* that are closed under parents are one.
LEMMA UpStep ==
  ASSUME NEW d, IsDocument(d)
  PROVE  /\ UpIn(d, 0) = {}
         /\ \A n \in 1 .. Len(d) : UpIn(d, n) = {n} \cup UpIn(d, d[n].parent)
<1> DEFINE Closed(S) == \A k \in S : d[k].parent # 0 => d[k].parent \in S
           Above(n) == {x \in 1 .. Len(d) : \A S \in SUBSET (1 .. Len(d)) : n \in S /\ Closed(S) => x \in S}
           Climb(up) == [m \in 0 .. Len(d) |-> IF m = 0 THEN {} ELSE {m} \cup up[d[m].parent]]
           up0 == [m \in 0 .. Len(d) |-> IF m = 0 THEN {} ELSE Above(m)]
<1>1. ASSUME NEW n \in 1 .. Len(d)
      PROVE  Above(n) = {n} \cup (IF d[n].parent = 0 THEN {} ELSE Above(d[n].parent))
  <2> DEFINE p == d[n].parent
  <2>1. p \in 0 .. Len(d)
    BY ParentFirst
  <2>2. ASSUME NEW x \in Above(n)
        PROVE  x = n \/ (p # 0 /\ x \in Above(p))
    <3>1. CASE p = 0
      <4>1. {n} \in SUBSET (1 .. Len(d)) /\ Closed({n})
        BY <3>1
      <4> QED BY <2>2, <4>1
    <3>2. CASE p # 0 /\ x # n
      <4>1. ASSUME NEW S \in SUBSET (1 .. Len(d)), p \in S, Closed(S)
            PROVE  x \in S
        <5>1. Closed(S \cup {n}) /\ S \cup {n} \in SUBSET (1 .. Len(d))
          BY <4>1
        <5> QED BY <2>2, <3>2, <5>1
      <4> QED BY <2>2, <3>2, <4>1
    <3> QED BY <3>1, <3>2
  <2>3. ASSUME NEW x, x = n \/ (p # 0 /\ x \in Above(p))
        PROVE  x \in Above(n)
    BY <2>1, <2>3
  <2> QED BY <2>2, <2>3
<1>2. up0 = Climb(up0)
  <2>1. ASSUME NEW m \in 0 .. Len(d)
        PROVE  up0[m] = IF m = 0 THEN {} ELSE {m} \cup up0[d[m].parent]
    <3>1. Len(d) \in Nat
      BY ParentFirst
    <3>2. CASE m = 0
      BY <3>1, <3>2
    <3>3. CASE m # 0
      <4>1. m \in 1 .. Len(d) /\ d[m].parent \in 0 .. Len(d)
        BY <3>1, <3>3, ParentFirst
      <4>2. Above(m) = {m} \cup (IF d[m].parent = 0 THEN {} ELSE Above(d[m].parent))
        BY <1>1, <4>1
      <4> HIDE DEF Above
      <4> QED BY <3>3, <4>1, <4>2
    <3> QED BY <3>2, <3>3
  <2> HIDE DEF up0
  <2> QED BY <2>1 DEF up0
<1> DEFINE up1 == CHOOSE up : up = Climb(up)
<1>3. up1 = Climb(up1)
  <2> HIDE DEF up0, Climb
  <2> QED BY <1>2
<1>4. \A n \in 0 .. Len(d) : UpIn(d, n) = up1[n]
  BY DEF UpIn
<1>5. \A n \in 0 .. Len(d) : up1[n] = IF n = 0 THEN {} ELSE {n} \cup up1[d[n].parent]
  <2> HIDE DEF up1
  <2> QED BY <1>3
<1>6. Len(d) \in Nat /\ \A n \in 1 .. Len(d) : n # 0 /\ d[n].parent \in 0 .. Len(d)
  BY ParentFirst
<1> HIDE DEF up1
<1>7. UpIn(d, 0) = {}
  <2>1. 0 \in 0 .. Len(d)
    BY <1>6
  <2>2. UpIn(d, 0) = up1[0] /\ up1[0] = {}
    BY <1>4, <1>5, <2>1
  <2> QED BY <2>2
<1>8. ASSUME NEW n \in 1 .. Len(d)
      PROVE  UpIn(d, n) = {n} \cup UpIn(d, d[n].parent)
  <2>1. n \in 0 .. Len(d) /\ n # 0 /\ d[n].parent \in 0 .. Len(d)
    BY <1>6
  <2>2. UpIn(d, n) = up1[n] /\ UpIn(d, d[n].parent) = up1[d[n].parent]
    BY <1>4, <2>1
  <2>3. up1[n] = {n} \cup up1[d[n].parent]
    BY <1>5, <2>1
  <2> QED BY <2>2, <2>3
<1> QED BY <1>7, <1>8

\* What a node is in comes before it.
LEMMA UpBefore ==
  ASSUME NEW d, IsDocument(d)
  PROVE  \A n \in 1 .. Len(d) : n \in UpIn(d, n) /\ UpIn(d, n) \subseteq 1 .. n
<1>1. Len(d) \in Nat /\ \A n \in 1 .. Len(d) : d[n].parent \in 0 .. n - 1
  BY ParentFirst
<1> DEFINE Wrong == {n \in 1 .. Len(d) : ~(UpIn(d, n) \subseteq 1 .. n)}
<1>2. Wrong = {}
  <2> SUFFICES ASSUME Wrong # {} PROVE FALSE
    OBVIOUS
  <2>1. PICK n \in Wrong : \A m \in Wrong : n <= m
    <3>1. Wrong \in SUBSET Nat
      BY <1>1
    <3> HIDE DEF Wrong
    <3> QED BY <3>1, Least
  <2>2. d[n].parent = 0 \/ (d[n].parent \in 1 .. Len(d) /\ d[n].parent \notin Wrong /\ d[n].parent < n)
    BY <1>1, <2>1
  <2>3. UpIn(d, d[n].parent) \subseteq 1 .. n
    BY <1>1, <2>1, <2>2, UpStep
  <2> QED BY <1>1, <2>1, <2>3, UpStep
<1> QED BY <1>1, <1>2, UpStep

\* To be in something is transitive.
LEMMA UpUp ==
  ASSUME NEW d, IsDocument(d), NEW n \in 1 .. Len(d), NEW m \in UpIn(d, n)
  PROVE  UpIn(d, m) \subseteq UpIn(d, n)
<1>1. Len(d) \in Nat /\ \A k \in 1 .. Len(d) : d[k].parent \in 0 .. k - 1
  BY ParentFirst
<1> DEFINE Wrong == {k \in 1 .. Len(d) : m \in UpIn(d, k) /\ ~(UpIn(d, m) \subseteq UpIn(d, k))}
<1>2. Wrong = {}
  <2> SUFFICES ASSUME Wrong # {} PROVE FALSE
    OBVIOUS
  <2>1. PICK k \in Wrong : \A j \in Wrong : k <= j
    <3>1. Wrong \in SUBSET Nat
      BY <1>1
    <3> HIDE DEF Wrong
    <3> QED BY <3>1, Least
  <2>2. UpIn(d, k) = {k} \cup UpIn(d, d[k].parent)
    BY <2>1, UpStep
  <2>3. m # k /\ m \in UpIn(d, d[k].parent)
    BY <2>1, <2>2
  <2>4. d[k].parent \in 1 .. Len(d) /\ d[k].parent < k
    BY <1>1, <2>1, <2>3, UpStep
  <2>5. UpIn(d, m) \subseteq UpIn(d, d[k].parent)
    <3>1. d[k].parent \notin Wrong
      <4> HIDE DEF Wrong
      <4>1. k \in Nat
        BY <1>1, <2>1 DEF Wrong
      <4> QED BY <2>1, <2>4, <4>1
    <3> QED BY <2>3, <2>4, <3>1
  <2> QED BY <2>1, <2>2, <2>5
<1> QED BY <1>2

\* What is in a node stands together.
LEMMA TogetherIn ==
  ASSUME NEW d, IsDocument(d), NEW n \in 1 .. Len(d), NEW m \in 1 .. Len(d),
         n \in UpIn(d, m)
  PROVE  \A k \in n .. m : n \in UpIn(d, k)
<1>1. Len(d) \in Nat
  BY ParentFirst
<1> DEFINE Out == {j \in 0 .. m : m - j \in n .. m /\ n \notin UpIn(d, m - j)}
<1>2. Out = {}
  <2> SUFFICES ASSUME Out # {} PROVE FALSE
    OBVIOUS
  <2>1. PICK j \in Out : \A i \in Out : j <= i
    <3>1. Out \in SUBSET Nat
      BY <1>1
    <3> HIDE DEF Out
    <3> QED BY <3>1, Least
  <2>2. j # 0 /\ j - 1 \in 0 .. m /\ m - (j - 1) \in n .. m /\ j - 1 \notin Out
    BY <1>1, <2>1
  <2> DEFINE k == m - j + 1
  <2>3. k \in 1 .. Len(d) /\ k - 1 \in 1 .. Len(d) /\ n < k /\ k = m - (j - 1) /\ k - 1 = m - j
    BY <1>1, <2>1, <2>2, UpBefore
  <2>4. n \in UpIn(d, k)
    BY <2>2, <2>3
  <2>5. n \in UpIn(d, d[k].parent) /\ k \in 2 .. Len(d)
    BY <2>3, <2>4, UpStep
  <2>6. d[k].parent \in UpIn(d, k - 1)
    BY <2>5 DEF IsDocument
  <2>7. n \in UpIn(d, k - 1)
    BY <2>3, <2>5, <2>6, UpUp
  <2> QED BY <2>1, <2>3, <2>7
<1>3. ASSUME NEW k \in n .. m
      PROVE  n \in UpIn(d, k)
  <2>1. m - k \in 0 .. m /\ m - (m - k) = k
    BY <1>1
  <2> QED BY <1>2, <2>1
<1> QED BY <1>3

\* From a node to what is in it the way leads through a child.
LEMMA ThroughAChild ==
  ASSUME NEW d, IsDocument(d), NEW n \in 1 .. Len(d), NEW m \in 1 .. Len(d),
         n \in UpIn(d, m), n # m
  PROVE  \E c \in 1 .. Len(d) : d[c].parent = n /\ c \in UpIn(d, m)
<1>1. Len(d) \in Nat /\ \A k \in 1 .. Len(d) : d[k].parent \in 0 .. k - 1
  BY ParentFirst
<1> DEFINE Below == {k \in 1 .. Len(d) : n \in UpIn(d, k) /\ n # k /\ k \in UpIn(d, m)}
<1>2. PICK c \in Below : \A k \in Below : c <= k
  <2>1. Below \in SUBSET Nat /\ m \in Below
    BY <1>1, UpBefore
  <2> HIDE DEF Below
  <2> QED BY <2>1, Least
<1>3. n \in UpIn(d, d[c].parent) /\ d[c].parent \in 1 .. Len(d) /\ d[c].parent < c
  BY <1>1, <1>2, UpStep
<1>4. d[c].parent \in UpIn(d, m)
  BY <1>2, <1>3, UpUp, UpStep, UpBefore
<1> QED BY <1>2, <1>3, <1>4

-----------------------------------------------------------------------------
(* The inductive invariant.                                                *)

ToDo == [do : {"apply", "children"} \cup Values, node : Node]
Result == [value : Values, of : Node]

Typed ==
  /\ doc \in Documents
  /\ sheet \in Sheets
  /\ pending \in Seq(ToDo)
  /\ output \in Seq(Result)

\* What waits comes after all that is in what is before it.
Below(n) == {m \in Node : n \in UpFrom(m)}
InLine ==
  \A i, j \in DOMAIN pending :
    i < j /\ pending[j].do = "apply" => \A m \in Below(pending[i].node) : m < pending[j].node

\* The header itself may wait, but nothing in it.
HeaderClosed ==
  \A i \in DOMAIN pending : \A m \in UpFrom(pending[i].node) :
    doc[m].kind = "teiHeader" => m = pending[i].node /\ pending[i].do = "apply"

\* The nodes a stylesheet is to write out, and what it writes first of them.
Wanted ==
  CASE sheet = "justTheText" -> {}
    [] sheet = "justTheWords" -> TextNode
    [] OTHER -> Token
First ==
  CASE sheet = "justTheCodes" -> "c5"
    [] sheet = "oneWordPerLine" -> "id"
    [] OTHER -> "text"
Firsts == {i \in DOMAIN output : output[i].value = First}

\* Something waits that will lead to the first value of node n.
Leads(e, n) ==
  \/ e.do = First /\ e.node = n
  \/ e.do = "apply" /\ e.node \in UpFrom(n)
  \/ e.do = "children" /\ e.node \in UpFrom(n) \ {n}

OnTheWay ==
  /\ \A i \in DOMAIN output, j \in DOMAIN pending :
       /\ output[i].of <= pending[j].node
       /\ pending[j].do \in {"apply", First} => output[i].of # pending[j].node
  /\ \A i \in Firsts : output[i].of \in BodyNodes(Wanted)
  /\ \A i, j \in Firsts : i < j => output[i].of < output[j].of
  /\ \A n \in BodyNodes(Wanted) :
       \/ \E j \in DOMAIN pending : Leads(pending[j], n)
       \/ \E i \in Firsts : output[i].of = n

\* Of the template of node p all but the first c instructions are in front; what is
\* behind them are nodes.
Front(p, c) ==
  LET template == Template(doc[p].kind) IN
  /\ c \in 0 .. Len(template)
  /\ \A j \in 1 .. Len(template) - c :
       j \in DOMAIN pending /\ pending[j] = [do |-> template[c + j], node |-> p]
  /\ \A j \in DOMAIN pending : j > Len(template) - c => pending[j].do = "apply"

\* justTheWords.xsl writes nothing but text.
TextAlone == sheet = "justTheWords" => \A i \in DOMAIN output : output[i].value = "text"

\* oneWordPerLine.xsl: what has been written are whole lines and the columns that
\* are not in front.
Columns(p, c) ==
  sheet = "oneWordPerLine" =>
    /\ Len(output) % Len(Line) = IF doc[p].kind \in Token THEN c % Len(Line) ELSE 0
    /\ doc[p].kind \in Token /\ c \in 1 .. Len(Line) - 1 => output[Len(output)].of = p
Lines ==
  sheet = "oneWordPerLine" =>
    \A i \in DOMAIN output :
      /\ output[i].value = Line[((i - 1) % Len(Line)) + 1]
      /\ (i - 1) % Len(Line) # 0 => output[i].of = output[i - 1].of

\* justTheCodes.xsl: whatever is in a sentence comes after its number, and
\* before the next.
NumberOf(n) ==
  \E i \in DOMAIN output :
    /\ output[i].value = "n" /\ output[i].of \in UpFrom(n)
    /\ \A k \in i + 1 .. Len(output) : output[k].value # "n"
InASentence(n) == \E m \in UpFrom(n) \ {n} : doc[m].kind = "s"
Numbered(p, c) ==
  LET template == Template(doc[p].kind) IN
  sheet = "justTheCodes" /\ c < Len(template) /\ template[c + 1] \in {"children", "c5"} =>
    (Inside(p, "s") => NumberOf(p))
Numbers ==
  sheet = "justTheCodes" =>
    /\ \A i \in DOMAIN output : output[i].value = "n" => doc[output[i].of].kind = "s"
    /\ \A j \in DOMAIN pending :
         pending[j].do = "apply" /\ InASentence(pending[j].node) => NumberOf(pending[j].node)
    /\ \A i \in Firsts : Inside(output[i].of, "s") =>
         \E j \in 1 .. i - 1 :
           /\ output[j].value = "n" /\ output[j].of \in UpFrom(output[i].of)
           /\ \A k \in j + 1 .. i - 1 : output[k].value # "n"

AtWork == \E p \in Node, c \in Nat : Front(p, c) /\ Columns(p, c) /\ Numbered(p, c)

IInv ==
  /\ Typed /\ InLine /\ HeaderClosed /\ HeaderStaysOut
  /\ OnTheWay /\ TextAlone /\ Lines /\ Numbers /\ AtWork

-----------------------------------------------------------------------------
(* The stylesheets.                                                        *)

Kind == Element \cup TextNode

\* What each stylesheet has for a kind of node.
LEMMA Templates ==
  ASSUME sheet \in Sheets, NEW k \in Kind
  PROVE  Template(k) =
           CASE k = "teiHeader" -> <<>>
             [] sheet = "justTheText" /\ k \in TextNode -> <<>>
             [] sheet = "justTheWords" /\ k \in TextNode -> <<"text">>
             [] sheet = "justTheCodes" /\ k \in TextNode -> <<"text">>
             [] sheet = "justTheCodes" /\ k \in Token -> <<"c5">>
             [] sheet = "justTheCodes" /\ k = "s" -> <<"id", "n", "children">>
             [] sheet = "oneWordPerLine" /\ k \in TextNode -> <<>>
             [] sheet = "oneWordPerLine" /\ k \in Token -> Line
             [] OTHER -> <<"children">>
<1>1. CASE sheet = "justTheText"
  <2>1. Template(k) = JustTheText[k]
    BY <1>1 DEF Template
  <2> QED BY <1>1, <2>1 DEF JustTheText, Header, NoText, Body, BuiltIn, Given, ++, Kind, TextNode, Token, Element
<1>2. CASE sheet = "justTheWords"
  <2>1. Template(k) = JustTheWords[k]
    BY <1>2 DEF Template
  <2> QED BY <1>2, <2>1 DEF JustTheWords, Header, BuiltIn, Given, ++, Kind, TextNode, Token, Element
<1>3. CASE sheet = "justTheCodes"
  <2>1. Template(k) = JustTheCodes[k]
    BY <1>3 DEF Template
  <2> QED BY <1>3, <2>1 DEF JustTheCodes, Header, Body, BuiltIn, Given, ++, Kind, TextNode, Token, Element
<1>4. CASE sheet = "oneWordPerLine"
  <2>1. Template(k) = OneWordPerLine[k]
    BY <1>4 DEF Template
  <2> QED BY <1>4, <2>1 DEF OneWordPerLine, Header, NoText, Body, BuiltIn, Given, ++, Kind, TextNode, Token, Element
<1> QED BY <1>1, <1>2, <1>3, <1>4, StylesheetsAssumption

\* A template descends at its end if at all; what is wanted is written first.
LEMMA Shapes ==
  ASSUME sheet \in Sheets, NEW k \in Kind
  PROVE  LET template == Template(k) IN
         /\ template \in Seq({"children"} \cup Values) /\ Len(template) \in 0 .. 6
         /\ \A i \in 1 .. Len(template) : template[i] # "apply"
         /\ \A i \in 1 .. Len(template) : template[i] = "children" => i = Len(template)
         /\ \A i \in 1 .. Len(template) : template[i] = First => i = 1 /\ k \in Wanted
         /\ k = "teiHeader" => template = <<>>
         /\ k \in Wanted => Len(template) > 0 /\ template[1] = First
         /\ k \in Element \ Wanted /\ k # "teiHeader" =>
              Len(template) > 0 /\ template[Len(template)] = "children"
<1> DEFINE Shape(template) ==
             /\ template \in Seq({"children"} \cup Values) /\ Len(template) \in 0 .. 6
             /\ \A i \in 1 .. Len(template) : template[i] # "apply"
             /\ \A i \in 1 .. Len(template) : template[i] = "children" => i = Len(template)
             /\ \A i \in 1 .. Len(template) : template[i] = First => i = 1 /\ k \in Wanted
             /\ k = "teiHeader" => template = <<>>
             /\ k \in Wanted => Len(template) > 0 /\ template[1] = First
             /\ k \in Element \ Wanted /\ k # "teiHeader" =>
                  Len(template) > 0 /\ template[Len(template)] = "children"
<1> SUFFICES Shape(Template(k))
  OBVIOUS
<1>1. Values = {"text", "id", "n", "c5", "s/n", ".", "hw", "pos"}
  BY DEF Values, Line
<1>2. CASE k = "teiHeader"
  <2>1. Shape(<<>>)
    BY <1>2 DEF Wanted, TextNode, Token
  <2>2. Template(k) = <<>>
    BY <1>2, Templates DEF TextNode, Token
  <2> HIDE DEF Shape
  <2> QED BY <2>1, <2>2
<1>3. CASE k \in TextNode /\ sheet \in {"justTheText", "oneWordPerLine"}
  <2>1. Shape(<<>>)
    BY <1>3 DEF Wanted, TextNode, Token, Element
  <2>2. Template(k) = <<>>
    BY <1>3, Templates DEF TextNode, Token
  <2> HIDE DEF Shape
  <2> QED BY <2>1, <2>2
<1>4. CASE k \in TextNode /\ sheet \in {"justTheWords", "justTheCodes"}
  <2>1. Shape(<<"text">>)
    BY <1>1, <1>4 DEF Wanted, First, TextNode, Token, Element
  <2>2. Template(k) = <<"text">>
    BY <1>4, Templates DEF TextNode, Token
  <2> HIDE DEF Shape
  <2> QED BY <2>1, <2>2
<1>5. CASE k \in Token /\ sheet = "justTheCodes"
  <2>1. Shape(<<"c5">>)
    BY <1>1, <1>5 DEF Wanted, First, TextNode, Token, Element
  <2>2. Template(k) = <<"c5">>
    BY <1>5, Templates DEF TextNode, Token
  <2> HIDE DEF Shape
  <2> QED BY <2>1, <2>2
<1>6. CASE k \in Token /\ sheet = "oneWordPerLine"
  <2>1. Shape(Line)
    BY <1>1, <1>6 DEF Wanted, First, Line, TextNode, Token, Element
  <2>2. Template(k) = Line
    BY <1>6, Templates DEF TextNode, Token
  <2> HIDE DEF Shape
  <2> QED BY <2>1, <2>2
<1>7. CASE k = "s" /\ sheet = "justTheCodes"
  <2>1. Shape(<<"id", "n", "children">>)
    BY <1>1, <1>7 DEF Wanted, First, TextNode, Token, Element
  <2>2. Template(k) = <<"id", "n", "children">>
    BY <1>7, Templates DEF TextNode, Token
  <2> HIDE DEF Shape
  <2> QED BY <2>1, <2>2
<1>8. CASE /\ k \notin {"teiHeader"} \cup TextNode
           /\ k \in Token => sheet \notin {"justTheCodes", "oneWordPerLine"}
           /\ k = "s" => sheet # "justTheCodes"
  <2>1. Shape(<<"children">>)
    BY <1>1, <1>8, StylesheetsAssumption DEF Wanted, First, Kind, TextNode, Token, Element
  <2>2. Template(k) = <<"children">>
    BY <1>8, Templates DEF TextNode, Token
  <2> HIDE DEF Shape
  <2> QED BY <2>1, <2>2
<1> QED BY <1>2, <1>3, <1>4, <1>5, <1>6, <1>7, <1>8, StylesheetsAssumption DEF Kind, TextNode, Token, Element

-----------------------------------------------------------------------------
(* What the steps of the processor have in common.                         *)

\* Document and stylesheet stay, and what is said of them alone.
LEMMA Same ==
  ASSUME UNCHANGED <<doc, sheet>>
  PROVE  /\ Node' = Node /\ ToDo' = ToDo /\ Result' = Result
         /\ \A n : UpFrom(n)' = UpFrom(n) /\ Below(n)' = Below(n)
         /\ \A n : InASentence(n)' = InASentence(n)
         /\ \A n, k : Inside(n, k)' = Inside(n, k)
         /\ \A kinds : BodyNodes(kinds)' = BodyNodes(kinds)
         /\ Wanted' = Wanted /\ First' = First
         /\ \A k : Template(k)' = Template(k)
         /\ \A e, n : Leads(e, n)' = Leads(e, n)
<1>1. Node' = Node /\ \A n : UpFrom(n)' = UpFrom(n)
  BY DEF Node, UpFrom
<1>2. First' = First /\ Wanted' = Wanted
  BY DEF First, Wanted
<1>3. \A n, k : Inside(n, k)' = Inside(n, k)
  BY <1>1 DEF Inside
<1>4. \A kinds : BodyNodes(kinds)' = BodyNodes(kinds)
  BY <1>1, <1>3 DEF BodyNodes
<1>5. /\ ToDo' = ToDo /\ Result' = Result
      /\ \A n : Below(n)' = Below(n) /\ InASentence(n)' = InASentence(n)
  BY <1>1 DEF ToDo, Result, Below, InASentence
<1>6. \A e, n : Leads(e, n)' = Leads(e, n)
  BY <1>1, <1>2 DEF Leads
<1>7. \A k : Template(k)' = Template(k)
  BY DEF Template
<1> QED BY <1>1, <1>2, <1>3, <1>4, <1>5, <1>6, <1>7

\* The instruction in front has been replaced.
LEMMA Positions ==
  ASSUME pending \in Seq(ToDo), pending # <<>>, NEW block \in Seq(ToDo),
         pending' = block \o Tail(pending)
  PROVE  /\ pending' \in Seq(ToDo)
         /\ Len(pending) \in Nat \ {0} /\ Len(block) \in Nat
         /\ Len(pending') = Len(block) + Len(pending) - 1
         /\ DOMAIN pending = 1 .. Len(pending) /\ DOMAIN pending' = 1 .. Len(pending')
         /\ \A j \in 1 .. Len(block) : pending'[j] = block[j]
         /\ \A j \in Len(block) + 1 .. Len(pending') :
              j - Len(block) + 1 \in 2 .. Len(pending) /\ pending'[j] = pending[j - Len(block) + 1]
         /\ \A j \in 2 .. Len(pending) :
              j + Len(block) - 1 \in 1 .. Len(pending') /\ pending'[j + Len(block) - 1] = pending[j]
<1>1. /\ Tail(pending) \in Seq(ToDo) /\ Len(Tail(pending)) = Len(pending) - 1
      /\ \A i \in 1 .. Len(Tail(pending)) : Tail(pending)[i] = pending[i + 1]
  BY HeadTailProperties
<1>2. Len(pending) \in Nat \ {0} /\ Len(block) \in Nat /\ DOMAIN pending = 1 .. Len(pending)
  BY EmptySeq, LenProperties
<1>3. /\ pending' \in Seq(ToDo)
      /\ Len(pending') = Len(block) + Len(Tail(pending))
      /\ \A i \in 1 .. Len(block) + Len(Tail(pending)) :
           pending'[i] = IF i <= Len(block) THEN block[i] ELSE Tail(pending)[i - Len(block)]
  BY <1>1, ConcatProperties
<1>4. DOMAIN pending' = 1 .. Len(pending')
  BY <1>3
<1>5. Len(pending') = Len(block) + Len(pending) - 1
  BY <1>1, <1>2, <1>3
<1>6. ASSUME NEW j \in Len(block) + 1 .. Len(pending')
      PROVE  j - Len(block) + 1 \in 2 .. Len(pending) /\ pending'[j] = pending[j - Len(block) + 1]
  <2>1. j - Len(block) \in 1 .. Len(Tail(pending)) /\ ~(j <= Len(block)) /\ j \in 1 .. Len(block) + Len(Tail(pending))
    BY <1>1, <1>2, <1>5
  <2> QED BY <1>1, <1>2, <1>3, <2>1
<1>7. ASSUME NEW j \in 2 .. Len(pending)
      PROVE  j + Len(block) - 1 \in 1 .. Len(pending') /\ pending'[j + Len(block) - 1] = pending[j]
  <2> DEFINE i == j + Len(block) - 1
  <2>1. i \in Len(block) + 1 .. Len(pending') /\ i \in 1 .. Len(pending') /\ i - Len(block) + 1 = j
    BY <1>2, <1>5
  <2> HIDE DEF i
  <2>2. pending'[i] = pending[j]
    BY <1>6, <2>1
  <2> QED BY <2>1, <2>2 DEF i
<1>8. \A j \in 1 .. Len(block) : pending'[j] = block[j]
  BY <1>1, <1>2, <1>3
<1> QED BY <1>2, <1>3, <1>4, <1>5, <1>6, <1>7, <1>8

\* What is known of the nodes of the document.
LEMMA Nodes ==
  ASSUME Typed
  PROVE  /\ IsDocument(doc) /\ Len(doc) \in Nat \ {0} /\ Node = 1 .. Len(doc)
         /\ \A n \in Node : doc[n].kind \in Kind /\ n \in UpFrom(n) /\ UpFrom(n) \subseteq Node \cap 1 .. n
         /\ \A n \in Node : \A m \in UpFrom(n) : UpFrom(m) \subseteq UpFrom(n)
         /\ \A n, m \in Node : n \in UpFrom(m) => \A k \in n .. m : n \in UpFrom(k)
         /\ \A n, c \in Node : doc[c].parent = n => n < c /\ UpFrom(c) = {c} \cup UpFrom(n)
         /\ \A n, m \in Node : n \in UpFrom(m) /\ n # m =>
              /\ doc[n].kind \in Element
              /\ \E c \in Node : doc[c].parent = n /\ c \in UpFrom(m)
              /\ doc[m].kind \in Token => doc[n].kind \notin Token
              /\ doc[m].kind = "s" => doc[n].kind # "s"
<1>1. IsDocument(doc)
  BY StylesheetsAssumption DEF Typed
<1>2. Len(doc) \in Nat \ {0} /\ Node = 1 .. Len(doc)
  BY <1>1, ParentFirst DEF Node
<1>3. \A n \in Node : doc[n].kind \in Kind /\ n \in UpFrom(n) /\ UpFrom(n) \subseteq Node \cap 1 .. n
  <2>1. \A n \in 1 .. Len(doc) : doc[n].kind \in Kind
    BY <1>1, ParentFirst DEF Kind
  <2>2. \A n \in 1 .. Len(doc) : n \in UpIn(doc, n) /\ UpIn(doc, n) \subseteq 1 .. n
    BY <1>1, UpBefore
  <2> QED BY <1>2, <2>1, <2>2 DEF UpFrom
<1>4. \A n \in Node : \A m \in UpFrom(n) : UpFrom(m) \subseteq UpFrom(n)
  BY <1>1, <1>2, UpUp DEF UpFrom
<1>5. \A n, m \in Node : n \in UpFrom(m) => \A k \in n .. m : n \in UpFrom(k)
  BY <1>1, <1>2, TogetherIn DEF UpFrom
<1>6. ASSUME NEW n \in Node, NEW c \in Node, doc[c].parent = n
      PROVE  n < c /\ UpFrom(c) = {c} \cup UpFrom(n)
  <2>1. doc[c].parent \in 0 .. c - 1
    BY <1>1, <1>2, ParentFirst
  <2>2. UpIn(doc, c) = {c} \cup UpIn(doc, doc[c].parent)
    BY <1>1, <1>2, UpStep
  <2> QED BY <1>2, <1>6, <2>1, <2>2 DEF UpFrom
<1>7. ASSUME NEW n \in Node, NEW m \in Node, n \in UpFrom(m), n # m
      PROVE  \E c \in Node : doc[c].parent = n /\ c \in UpFrom(m)
  BY <1>1, <1>2, <1>7, ThroughAChild DEF UpFrom
<1>8. ASSUME NEW n \in Node, NEW c \in Node, doc[c].parent = n
      PROVE  doc[n].kind \in Element
  <2>1. c \in 2 .. Len(doc)
    BY <1>2, <1>6, <1>8
  <2> QED BY <1>1, <1>8, <2>1 DEF IsDocument
<1>9. ASSUME NEW n \in Node, NEW m \in Node, n \in UpFrom(m), n # m
      PROVE  /\ doc[m].kind \in Token => doc[n].kind \notin Token
             /\ doc[m].kind = "s" => doc[n].kind # "s"
  <2>1. UpIn(doc, m) = {m} \cup UpIn(doc, doc[m].parent)
    BY <1>1, <1>2, UpStep
  <2>2. n \in UpIn(doc, doc[m].parent)
    BY <1>9, <2>1 DEF UpFrom
  <2>3. m \in 2 .. Len(doc)
    <3>1. m # 1
      BY <1>1, <2>2, UpStep DEF IsDocument
    <3> QED BY <1>2, <3>1
  <2> QED BY <1>1, <2>2, <2>3 DEF IsDocument
<1> QED BY <1>1, <1>2, <1>3, <1>4, <1>5, <1>6, <1>7, <1>8, <1>9

\* The next instruction.
LEMMA Foremost ==
  ASSUME Typed, pending # <<>>
  PROVE  /\ Len(pending) \in Nat \ {0} /\ DOMAIN pending = 1 .. Len(pending)
         /\ Head(pending) = pending[1] /\ Current = pending[1].node /\ Current \in Node
         /\ pending[1] \in ToDo
         /\ \A j \in DOMAIN pending : pending[j] \in ToDo /\ pending[j].node \in Node
<1>1. pending \in Seq(ToDo)
  BY DEF Typed
<1>2. Len(pending) \in Nat \ {0} /\ DOMAIN pending = 1 .. Len(pending)
  BY <1>1, EmptySeq, LenProperties
<1>3. \A j \in DOMAIN pending : pending[j] \in ToDo
  BY <1>1, <1>2, ElementOfSeq
<1>4. Head(pending) = pending[1]
  BY <1>1
<1> QED BY <1>2, <1>3, <1>4 DEF Current, ToDo

\* What has been written is from nodes of the document.
LEMMA Results ==
  ASSUME Typed
  PROVE  /\ Len(output) \in Nat /\ DOMAIN output = 1 .. Len(output)
         /\ \A i \in DOMAIN output :
              output[i] \in Result /\ output[i].of \in Node /\ output[i].of \in Nat
<1>1. output \in Seq(Result)
  BY DEF Typed
<1>2. Len(output) \in Nat /\ DOMAIN output = 1 .. Len(output)
  BY <1>1, LenProperties
<1>3. ASSUME NEW i \in DOMAIN output
      PROVE  output[i] \in Result /\ output[i].of \in Node
  <2>1. output[i] \in Result
    BY <1>1, <1>2, ElementOfSeq
  <2> QED BY <2>1 DEF Result
<1>4. Node \subseteq Nat
  BY Nodes
<1> QED BY <1>2, <1>3, <1>4

\* If a node is next, only nodes wait; otherwise it is an instruction of the template
\* at work.
LEMMA InFront ==
  ASSUME Typed, pending # <<>>, NEW p \in Node, NEW c \in Nat, Front(p, c)
  PROVE  LET template == Template(doc[p].kind) IN
         /\ Len(template) \in 0 .. 6 /\ c \in 0 .. Len(template)
         /\ pending[1].do = "apply" =>
              c = Len(template) /\ \A j \in DOMAIN pending : pending[j].do = "apply"
         /\ pending[1].do # "apply" =>
              c < Len(template) /\ pending[1] = [do |-> template[c + 1], node |-> p]
<1> DEFINE template == Template(doc[p].kind)
<1>1. Len(template) \in 0 .. 6 /\ \A i \in 1 .. Len(template) : template[i] # "apply"
  BY Nodes, Shapes DEF Typed
<1>2. c \in 0 .. Len(template)
  BY DEF Front
<1>3. ASSUME c < Len(template)
      PROVE  pending[1] = [do |-> template[c + 1], node |-> p] /\ pending[1].do # "apply"
  <2>1. 1 \in 1 .. Len(template) - c /\ c + 1 \in 1 .. Len(template)
    BY <1>1, <1>2, <1>3
  <2>2. pending[1] = [do |-> template[c + 1], node |-> p]
    BY <2>1 DEF Front
  <2>3. template[c + 1] # "apply"
    BY <1>1, <2>1
  <2> QED BY <2>2, <2>3
<1>4. ASSUME c = Len(template)
      PROVE  \A j \in DOMAIN pending : pending[j].do = "apply"
  <2>1. \A j \in DOMAIN pending : j > Len(template) - c
    BY <1>1, <1>4, Foremost
  <2> QED BY <2>1 DEF Front
<1>5. 1 \in DOMAIN pending
  BY Foremost
<1> QED BY <1>1, <1>2, <1>3, <1>4, <1>5

\* Apply puts a template in place of its node.
LEMMA Applied ==
  ASSUME Typed, Apply
  PROVE  /\ pending # <<>> /\ pending[1].do = "apply" /\ output' = output
         /\ LET template == Template(doc[Current].kind) IN
            /\ Len(template) \in 0 .. 6
            /\ \E block \in Seq(ToDo) :
                 /\ Len(block) = Len(template)
                 /\ \A j \in 1 .. Len(template) : block[j] = [do |-> template[j], node |-> Current]
                 /\ pending' = block \o Tail(pending)
<1> DEFINE template == Template(doc[Current].kind)
           block == [i \in DOMAIN template |-> [do |-> template[i], node |-> Current]]
<1>1. pending # <<>> /\ pending[1].do = "apply" /\ Current \in Node
  BY Foremost DEF Apply, Now
<1>2. template \in Seq({"children"} \cup Values) /\ Len(template) \in 0 .. 6
  BY <1>1, Nodes, Shapes DEF Typed
<1>3. DOMAIN template = 1 .. Len(template) /\ \A i \in 1 .. Len(template) : template[i] \in {"children"} \cup Values
  <2> HIDE DEF template
  <2> QED BY <1>2, ElementOfSeq, LenProperties
<1>4. \A i \in 1 .. Len(template) : block[i] = [do |-> template[i], node |-> Current] /\ block[i] \in ToDo
  BY <1>1, <1>3 DEF ToDo
<1>5. block \in Seq(ToDo) /\ Len(block) = Len(template)
  <2> HIDE DEF template
  <2>1. block \in [1 .. Len(template) -> ToDo]
    BY <1>3, <1>4
  <2> HIDE DEF block
  <2> QED BY <1>2, <2>1
<1>6. pending' = block \o Tail(pending) /\ output' = output
  BY DEF Apply
<1> HIDE DEF block
<1> QED BY <1>1, <1>2, <1>4, <1>5, <1>6

\* Descend puts the children in place of the instruction, all of them, in order.
LEMMA Descended ==
  ASSUME Typed, Descend
  PROVE  /\ pending # <<>> /\ pending[1].do = "children" /\ output' = output
         /\ \E block \in Seq(ToDo) :
              /\ \A j \in 1 .. Len(block) :
                   /\ block[j].do = "apply"
                   /\ block[j].node \in Node /\ doc[block[j].node].parent = Current
              /\ \A i, j \in 1 .. Len(block) : i < j => block[i].node < block[j].node
              /\ \A c \in Node : doc[c].parent = Current => \E j \in 1 .. Len(block) : block[j].node = c
              /\ pending' = block \o Tail(pending)
<1>1. pending # <<>> /\ pending[1].do = "children" /\ Current \in Node
  BY Foremost DEF Descend, Now
<1> DEFINE kids == Children(Current)
<1>2. PICK seq \in InOrder(kids) : pending' = Each("apply", seq) \o Tail(pending) /\ output' = output
  BY DEF Descend
<1>3. IsFiniteSet(kids) /\ Cardinality(kids) \in Nat
  <2>1. IsFiniteSet(Node) /\ kids \in SUBSET Node
    BY Nodes, FS_Interval DEF Children
  <2> HIDE DEF kids
  <2> QED BY <2>1, FS_Subset, FS_CardinalityType
<1>4. /\ seq \in [1 .. Cardinality(kids) -> kids]
      /\ \A i, j \in 1 .. Cardinality(kids) : i < j => seq[i] < seq[j]
  BY DEF InOrder
<1>5. \A c \in kids : \E j \in 1 .. Cardinality(kids) : seq[j] = c
  <2>1. kids \subseteq Nat
    BY Nodes DEF Children
  <2> HIDE DEF kids
  <2>2. seq \in Injection(1 .. Cardinality(kids), kids)
    <3>1. \A i, j \in 1 .. Cardinality(kids) : seq[i] = seq[j] => i = j
      <4> SUFFICES ASSUME NEW i \in 1 .. Cardinality(kids), NEW j \in 1 .. Cardinality(kids), seq[i] = seq[j], i # j
                   PROVE  FALSE
        OBVIOUS
      <4>1. i < j \/ j < i
        BY <1>3
      <4>2. seq[i] \in Nat /\ seq[j] \in Nat
        BY <1>4, <2>1
      <4> QED BY <1>4, <4>1, <4>2
    <3> QED BY <1>4, <3>1 DEF Injection, IsInjective
  <2>3. IsFiniteSet(1 .. Cardinality(kids)) /\ Cardinality(1 .. Cardinality(kids)) = Cardinality(kids)
    BY <1>3, FS_Interval
  <2>4. seq \in Surjection(1 .. Cardinality(kids), kids)
    BY <1>3, <2>2, <2>3, FS_Injection
  <2> QED BY <2>4 DEF Surjection
<1> DEFINE block == Each("apply", seq)
<1>6. block = [i \in 1 .. Cardinality(kids) |-> [do |-> "apply", node |-> seq[i]]]
  BY <1>4 DEF Each
<1>7. \A j \in 1 .. Cardinality(kids) : seq[j] \in Node /\ doc[seq[j]].parent = Current
  BY <1>4 DEF Children
<1>8. block \in Seq(ToDo) /\ Len(block) = Cardinality(kids)
  <2>1. block \in [1 .. Cardinality(kids) -> ToDo]
    <3> HIDE DEF kids
    <3> QED BY <1>6, <1>7 DEF ToDo
  <2> HIDE DEF block, kids
  <2> QED BY <1>3, <2>1
<1>9. \A j \in 1 .. Len(block) : block[j].do = "apply" /\ block[j].node = seq[j]
  <2> HIDE DEF kids
  <2> QED BY <1>6, <1>8
<1>10. \A c \in Node : doc[c].parent = Current => c \in kids
  BY DEF Children
<1>11. pending' = block \o Tail(pending)
  BY <1>2
<1> HIDE DEF block, kids
<1>12. \A j \in 1 .. Len(block) : /\ block[j].do = "apply"
                                 /\ block[j].node \in Node /\ doc[block[j].node].parent = Current
  BY <1>7, <1>8, <1>9
<1>13. \A i, j \in 1 .. Len(block) : i < j => block[i].node < block[j].node
  BY <1>4, <1>8, <1>9
<1>14. \A c \in Node : doc[c].parent = Current => \E j \in 1 .. Len(block) : block[j].node = c
  BY <1>5, <1>8, <1>9, <1>10
<1> QED BY <1>1, <1>2, <1>8, <1>11, <1>12, <1>13, <1>14

\* Write takes the instruction away and adds what it says.
LEMMA WrittenOut ==
  ASSUME Typed, Write
  PROVE  /\ pending # <<>> /\ pending[1].do \in Values \ {"apply", "children"}
         /\ <<>> \in Seq(ToDo) /\ Len(<<>>) = 0 /\ pending' = <<>> \o Tail(pending)
         /\ output \in Seq(Result) /\ output' \in Seq(Result)
         /\ Len(output) \in Nat /\ DOMAIN output = 1 .. Len(output)
         /\ Len(output') = Len(output) + 1 /\ DOMAIN output' = 1 .. Len(output')
         /\ \A i \in 1 .. Len(output) : output'[i] = output[i]
         /\ output'[Len(output')] = [value |-> pending[1].do, of |-> Current]
<1>1. /\ pending # <<>> /\ pending[1].do \in Values \ {"apply", "children"} /\ Current \in Node
      /\ Head(pending) = pending[1]
  BY Foremost DEF Write, ToDo
<1>2. Tail(pending) \in Seq(ToDo)
  BY <1>1, HeadTailProperties DEF Typed
<1>3. pending' = <<>> \o Tail(pending)
  BY <1>2, ConcatEmptySeq DEF Write
<1>4. output \in Seq(Result) /\ [value |-> pending[1].do, of |-> Current] \in Result
  BY <1>1 DEF Typed, Result
<1>5. output' = Append(output, [value |-> pending[1].do, of |-> Current])
  BY <1>1 DEF Write
<1>6. <<>> \in Seq(ToDo) /\ Len(<<>>) = 0
  BY EmptySeq
<1>7. /\ output' \in Seq(Result) /\ Len(output') = Len(output) + 1
      /\ \A i \in 1 .. Len(output) : output'[i] = output[i]
      /\ output'[Len(output) + 1] = [value |-> pending[1].do, of |-> Current]
  BY <1>4, <1>5, AppendProperties
<1> QED BY <1>1, <1>3, <1>4, <1>6, <1>7, LenProperties

-----------------------------------------------------------------------------
(* The order of the nodes, and the header.                                 *)

\* If the nodes that replace the one in front are below it and in line, all are.
LEMMA LineKept ==
  ASSUME Typed, InLine, pending # <<>>, UNCHANGED <<doc, sheet>>,
         NEW block \in Seq(ToDo), pending' = block \o Tail(pending),
         \A j \in 1 .. Len(block) : block[j].node \in Node /\ Current \in UpFrom(block[j].node),
         \A i, j \in 1 .. Len(block) :
           i < j /\ block[j].do = "apply" => \A m \in Below(block[i].node) : m < block[j].node
  PROVE  InLine'
<1> SUFFICES ASSUME NEW i \in DOMAIN pending', NEW j \in DOMAIN pending', i < j,
                    pending'[j].do = "apply", NEW m \in Below(pending'[i].node)
             PROVE  m < pending'[j].node
  BY Same DEF InLine
<1>1. pending \in Seq(ToDo)
  BY DEF Typed
<1>2. DOMAIN pending' = 1 .. Len(pending') /\ Len(block) \in Nat /\ Len(pending') \in Nat /\ Len(pending) \in Nat \ {0}
      /\ DOMAIN pending = 1 .. Len(pending)
  BY <1>1, Positions
<1>3. CASE j <= Len(block)
  <2>1. i \in 1 .. Len(block) /\ j \in 1 .. Len(block)
    BY <1>2, <1>3
  <2>2. pending'[i] = block[i] /\ pending'[j] = block[j]
    BY <1>1, <2>1, Positions
  <2> QED BY <2>1, <2>2
<1>4. CASE j > Len(block)
  <2> DEFINE k == j - Len(block) + 1
  <2>1. j \in Len(block) + 1 .. Len(pending')
    BY <1>2, <1>4
  <2>2. k \in 2 .. Len(pending) /\ pending'[j] = pending[k]
    BY <1>1, <2>1, Positions
  <2>3. CASE i <= Len(block)
    <3>1. i \in 1 .. Len(block)
      BY <1>2, <2>3
    <3>2. pending'[i] = block[i]
      BY <1>1, <3>1, Positions
    <3>3. m \in Node /\ block[i].node \in UpFrom(m)
      BY <3>2 DEF Below
    <3>4. Current \in UpFrom(m)
      BY <3>1, <3>3, Nodes
    <3>5. m \in Below(pending[1].node)
      BY <3>3, <3>4, Foremost DEF Below
    <3> HIDE DEF k
    <3>6. 1 \in DOMAIN pending /\ k \in DOMAIN pending /\ 1 < k
      BY <1>2, <2>2
    <3>7. pending[k].do = "apply"
      BY <2>2
    <3> QED BY <2>2, <3>5, <3>6, <3>7 DEF InLine
  <2>4. CASE i > Len(block)
    <3> DEFINE l == i - Len(block) + 1
    <3>1. i \in Len(block) + 1 .. Len(pending')
      BY <1>2, <2>4
    <3>2. l \in 2 .. Len(pending) /\ pending'[i] = pending[l] /\ l < k
      BY <1>1, <1>2, <2>1, <3>1, Positions
    <3>3. l \in DOMAIN pending /\ k \in DOMAIN pending
      BY <1>2, <2>2, <3>2
    <3> HIDE DEF k, l
    <3> QED BY <2>2, <3>2, <3>3 DEF InLine
  <2> QED BY <1>2, <2>3, <2>4
<1> QED BY <1>2, <1>3, <1>4

\* The header may wait where an instruction is.
HeaderMay(e) ==
  \A m \in UpFrom(e.node) : doc[m].kind = "teiHeader" => m = e.node /\ e.do = "apply"

\* What replaces the instruction in front is clear of the header: everything that waits is.
LEMMA HeaderKept ==
  ASSUME Typed, HeaderClosed, pending # <<>>, UNCHANGED <<doc, sheet>>,
         NEW block \in Seq(ToDo), pending' = block \o Tail(pending),
         \A j \in 1 .. Len(block) : HeaderMay(block[j])
  PROVE  HeaderClosed'
<1>1. pending \in Seq(ToDo)
  BY DEF Typed
<1>2. \A i \in DOMAIN pending : HeaderMay(pending[i])
  BY DEF HeaderClosed, HeaderMay
<1>3. ASSUME NEW i \in DOMAIN pending'
      PROVE  HeaderMay(pending'[i])
  <2>1. i \in 1 .. Len(block) \/ i \in Len(block) + 1 .. Len(pending')
    BY <1>1, Positions
  <2>2. CASE i \in 1 .. Len(block)
    BY <1>1, <2>2, Positions
  <2>3. CASE i \in Len(block) + 1 .. Len(pending')
    <3>1. i - Len(block) + 1 \in DOMAIN pending /\ pending'[i] = pending[i - Len(block) + 1]
      BY <1>1, <2>3, Positions
    <3> QED BY <1>2, <3>1
  <2> QED BY <2>1, <2>2, <2>3
<1> QED BY <1>3, Same DEF HeaderClosed, HeaderMay

\* What leads to a wanted node still does if it has been replaced by what does.
Later(e) ==
  \A i \in DOMAIN output :
    output[i].of <= e.node /\ (e.do \in {"apply", First} => output[i].of # e.node)

\* Every wanted node still waits or has come out.
LEMMA WayKept ==
  ASSUME Typed, OnTheWay, pending # <<>>, UNCHANGED <<doc, sheet, output>>,
         NEW block \in Seq(ToDo), pending' = block \o Tail(pending),
         \A j \in 1 .. Len(block) : Later(block[j]),
         \A n \in BodyNodes(Wanted) :
           Leads(pending[1], n) => \E j \in 1 .. Len(block) : Leads(block[j], n)
  PROVE  OnTheWay'
<1>1. pending \in Seq(ToDo)
  BY DEF Typed
<1>2. \A j \in DOMAIN pending : Later(pending[j])
  BY DEF OnTheWay, Later
<1>3. ASSUME NEW j \in DOMAIN pending'
      PROVE  Later(pending'[j])
  <2>1. j \in 1 .. Len(block) \/ j \in Len(block) + 1 .. Len(pending')
    BY <1>1, Positions
  <2>2. CASE j \in 1 .. Len(block)
    BY <1>1, <2>2, Positions
  <2>3. CASE j \in Len(block) + 1 .. Len(pending')
    <3>1. j - Len(block) + 1 \in DOMAIN pending /\ pending'[j] = pending[j - Len(block) + 1]
      BY <1>1, <2>3, Positions
    <3> QED BY <1>2, <3>1
  <2> QED BY <2>1, <2>2, <2>3
<1>4. ASSUME NEW n \in BodyNodes(Wanted), NEW j \in DOMAIN pending, Leads(pending[j], n)
      PROVE  \E k \in DOMAIN pending' : Leads(pending'[k], n)
  <2>1. CASE j = 1
    <3>1. PICK k \in 1 .. Len(block) : Leads(block[k], n)
      BY <1>4, <2>1
    <3>2. k \in DOMAIN pending' /\ pending'[k] = block[k]
      BY <1>1, Positions
    <3> QED BY <3>1, <3>2
  <2>2. CASE j # 1
    <3>1. j \in 2 .. Len(pending)
      BY <1>1, <2>2, Positions
    <3>2. j + Len(block) - 1 \in DOMAIN pending' /\ pending'[j + Len(block) - 1] = pending[j]
      BY <1>1, <3>1, Positions
    <3> QED BY <1>4, <3>2
  <2> QED BY <2>1, <2>2
<1>5. Firsts' = Firsts
  BY Same DEF Firsts
<1>6. \A i \in DOMAIN output', j \in DOMAIN pending' :
        /\ output'[i].of <= pending'[j].node
        /\ pending'[j].do \in {"apply", First} => output'[i].of # pending'[j].node
  BY <1>3 DEF Later
<1>7. \A i \in Firsts : output'[i].of \in BodyNodes(Wanted)
  BY DEF OnTheWay
<1>8. \A i, j \in Firsts : i < j => output'[i].of < output'[j].of
  BY DEF OnTheWay
<1>9. \A n \in BodyNodes(Wanted) :
        (\E j \in DOMAIN pending' : Leads(pending'[j], n)) \/ \E i \in Firsts : output'[i].of = n
  BY <1>4 DEF OnTheWay
<1>10. /\ BodyNodes(Wanted)' = BodyNodes(Wanted) /\ First' = First
       /\ \A e, n : Leads(e, n)' = Leads(e, n)
  BY Same DEF BodyNodes
<1> QED BY <1>5, <1>6, <1>7, <1>8, <1>9, <1>10 DEF OnTheWay

Ordered == InLine /\ HeaderClosed /\ HeaderStaysOut /\ OnTheWay

\* Apply: the template of a node that was next takes its place.
LEMMA ApplyKeepsOrder ==
  ASSUME Typed, Ordered, Apply, UNCHANGED <<doc, sheet>>
  PROVE  Ordered'
<1>1. /\ pending # <<>> /\ pending[1].do = "apply" /\ output' = output
      /\ Current \in Node /\ Current = pending[1].node /\ 1 \in DOMAIN pending
  BY Applied, Foremost
<1> DEFINE template == Template(doc[Current].kind)
<1>2. PICK block \in Seq(ToDo) :
        /\ Len(block) = Len(template)
        /\ \A j \in 1 .. Len(template) : block[j] = [do |-> template[j], node |-> Current]
        /\ pending' = block \o Tail(pending)
  BY Applied
<1>3. /\ \A i \in 1 .. Len(template) : template[i] # "apply"
      /\ \A i \in 1 .. Len(template) : template[i] = First => i = 1 /\ doc[Current].kind \in Wanted
      /\ doc[Current].kind = "teiHeader" => template = <<>>
      /\ doc[Current].kind \in Wanted => Len(template) > 0 /\ template[1] = First
      /\ doc[Current].kind \in Element \ Wanted /\ doc[Current].kind # "teiHeader" =>
           Len(template) > 0 /\ template[Len(template)] = "children"
      /\ Len(template) \in 0 .. 6
  BY <1>1, Nodes, Shapes DEF Typed
<1>4. Current \in UpFrom(Current) /\ UpFrom(Current) \subseteq Node
  BY <1>1, Nodes
<1> HIDE DEF template
<1>5. \A j \in 1 .. Len(block) : block[j].node = Current /\ block[j].do = template[j] /\ block[j].do # "apply"
  <2> SUFFICES ASSUME NEW j \in 1 .. Len(block)
               PROVE  block[j].node = Current /\ block[j].do = template[j] /\ block[j].do # "apply"
    OBVIOUS
  <2>1. block[j] = [do |-> template[j], node |-> Current] /\ template[j] # "apply"
    BY <1>2, <1>3
  <2> QED BY <2>1
<1>6. InLine'
  <2>1. \A j \in 1 .. Len(block) : block[j].node \in Node /\ Current \in UpFrom(block[j].node)
    BY <1>1, <1>4, <1>5
  <2>2. \A i, j \in 1 .. Len(block) :
          i < j /\ block[j].do = "apply" => \A m \in Below(block[i].node) : m < block[j].node
    BY <1>5
  <2> QED BY <1>1, <1>2, <2>1, <2>2, LineKept DEF Ordered
<1>7. HeaderClosed'
  <2>1. \A m \in UpFrom(Current) : doc[m].kind = "teiHeader" => m = Current
    BY <1>1 DEF Ordered, HeaderClosed
  <2>2. ASSUME NEW j \in 1 .. Len(block)
        PROVE  HeaderMay(block[j])
    <3>1. doc[Current].kind # "teiHeader"
      BY <1>2, <1>3, <2>2
    <3> QED BY <1>5, <2>1, <3>1 DEF HeaderMay
  <2> QED BY <1>1, <1>2, <2>2, HeaderKept DEF Ordered
<1>8. HeaderStaysOut'
  BY <1>1, Same DEF Ordered, HeaderStaysOut
<1>9. OnTheWay'
  <2>1. \A i \in DOMAIN output : output[i].of <= Current /\ output[i].of # Current
    BY <1>1 DEF Ordered, OnTheWay
  <2>2. \A j \in 1 .. Len(block) : Later(block[j])
    BY <1>5, <2>1 DEF Later
  <2>3. ASSUME NEW n \in BodyNodes(Wanted), Leads(pending[1], n)
        PROVE  \E j \in 1 .. Len(block) : Leads(block[j], n)
    <3>1. Current \in UpFrom(n) /\ n \in Node /\ doc[n].kind \in Wanted /\ ~Inside(n, "teiHeader")
      BY <1>1, <2>3 DEF Leads, First, BodyNodes
    <3>2. CASE n = Current
      <4>1. 1 \in 1 .. Len(block) /\ block[1].do = First /\ block[1].node = n
        BY <1>2, <1>3, <1>5, <3>1, <3>2
      <4> QED BY <4>1 DEF Leads
    <3>3. CASE n # Current
      <4>1. doc[Current].kind \in Element /\ (doc[n].kind \in Token => doc[Current].kind \notin Token)
        BY <1>1, <3>1, <3>3, Nodes
      <4>2. doc[Current].kind # "teiHeader"
        BY <3>1 DEF Inside
      <4>3. doc[Current].kind \notin Wanted
        BY <3>1, <4>1, StylesheetsAssumption DEF Typed, Wanted, TextNode, Token, Element
      <4>4. Len(block) \in 1 .. Len(block) /\ block[Len(block)].do = "children" /\ block[Len(block)].node = Current
        BY <1>2, <1>3, <1>5, <4>1, <4>2, <4>3
      <4> QED BY <3>1, <3>3, <4>4 DEF Leads
    <3> QED BY <3>2, <3>3
  <2> QED BY <1>1, <1>2, <2>2, <2>3, WayKept DEF Ordered
<1> QED BY <1>6, <1>7, <1>8, <1>9 DEF Ordered

\* Descend: the children of a node lead to whatever is in it.
LEMMA DescendKeepsOrder ==
  ASSUME Typed, Ordered, Descend, UNCHANGED <<doc, sheet>>
  PROVE  Ordered'
<1>1. /\ pending # <<>> /\ pending[1].do = "children" /\ output' = output
      /\ Current \in Node /\ Current = pending[1].node /\ 1 \in DOMAIN pending
  BY Descended, Foremost
<1>2. PICK block \in Seq(ToDo) :
        /\ \A j \in 1 .. Len(block) :
             /\ block[j].do = "apply"
             /\ block[j].node \in Node /\ doc[block[j].node].parent = Current
        /\ \A i, j \in 1 .. Len(block) : i < j => block[i].node < block[j].node
        /\ \A c \in Node : doc[c].parent = Current => \E j \in 1 .. Len(block) : block[j].node = c
        /\ pending' = block \o Tail(pending)
  BY Descended
<1>3. \A j \in 1 .. Len(block) :
        /\ Current < block[j].node
        /\ UpFrom(block[j].node) = {block[j].node} \cup UpFrom(Current)
  BY <1>1, <1>2, Nodes
<1>4. Current \in UpFrom(Current) /\ UpFrom(Current) \subseteq 1 .. Current /\ Node \subseteq Nat
  BY <1>1, Nodes
<1>5. InLine'
  <2>1. \A j \in 1 .. Len(block) : block[j].node \in Node /\ Current \in UpFrom(block[j].node)
    BY <1>2, <1>3, <1>4
  <2>2. ASSUME NEW i \in 1 .. Len(block), NEW j \in 1 .. Len(block), i < j,
               NEW m \in Below(block[i].node), ~(m < block[j].node)
        PROVE  FALSE
    <3> DEFINE a == block[i].node
               b == block[j].node
    <3>4. m \in Node /\ a \in UpFrom(m)
      BY <2>2 DEF Below
    <3>5. a \in Node /\ b \in Node /\ a < b
      BY <1>2, <2>2
    <3>6. a \in Nat /\ b \in Nat /\ m \in Nat /\ ~(m < b)
      BY <1>4, <2>2, <3>4, <3>5
    <3>1. a \in Node /\ b \in Node /\ m \in Node /\ a \in UpFrom(m) /\ a < b /\ b \in a .. m
      <4> HIDE DEF a, b
      <4> QED BY <3>4, <3>5, <3>6
    <3>2. a \in UpFrom(b)
      BY <3>1, Nodes
    <3>3. a \in UpFrom(Current)
      BY <1>3, <3>1, <3>2
    <3> QED BY <1>1, <1>3, <1>4, <3>1, <3>3
  <2> QED BY <1>1, <1>2, <2>1, <2>2, LineKept DEF Ordered
<1>6. HeaderClosed'
  <2>1. \A m \in UpFrom(Current) : doc[m].kind # "teiHeader"
    BY <1>1 DEF Ordered, HeaderClosed
  <2>2. \A j \in 1 .. Len(block) : HeaderMay(block[j])
    BY <1>2, <1>3, <2>1 DEF HeaderMay
  <2> QED BY <1>1, <1>2, <2>2, HeaderKept DEF Ordered
<1>7. HeaderStaysOut'
  BY <1>1, Same DEF Ordered, HeaderStaysOut
<1>8. OnTheWay'
  <2>1. ASSUME NEW j \in 1 .. Len(block), NEW i \in DOMAIN output
        PROVE  output[i].of < block[j].node
    <3>1. output[i].of <= Current
      BY <1>1 DEF Ordered, OnTheWay
    <3>2. output[i].of \in Nat /\ Current \in Nat /\ block[j].node \in Nat /\ Current < block[j].node
      BY <1>1, <1>2, <1>3, <1>4, Results
    <3> QED BY <3>1, <3>2
  <2>2. \A j \in 1 .. Len(block) : Later(block[j])
    <3>1. \A j \in 1 .. Len(block) : block[j].node \in Nat
      BY <1>2, <1>4
    <3>2. \A i \in DOMAIN output : output[i].of \in Nat
      BY Results
    <3> QED BY <2>1, <3>1, <3>2 DEF Later
  <2>3. ASSUME NEW n \in BodyNodes(Wanted), Leads(pending[1], n)
        PROVE  \E j \in 1 .. Len(block) : Leads(block[j], n)
    <3>1. Current \in UpFrom(n) /\ n # Current /\ n \in Node
      BY <1>1, <2>3 DEF Leads, First, BodyNodes
    <3>2. PICK c \in Node : doc[c].parent = Current /\ c \in UpFrom(n)
      BY <1>1, <3>1, Nodes
    <3>3. PICK j \in 1 .. Len(block) : block[j].node = c
      BY <1>2, <3>2
    <3> QED BY <1>2, <3>2, <3>3 DEF Leads
  <2> QED BY <1>1, <1>2, <2>2, <2>3, WayKept DEF Ordered
<1> QED BY <1>5, <1>6, <1>7, <1>8 DEF Ordered

\* Behind an instruction wait the rest of its template and what comes later.
LEMMA Behind ==
  ASSUME Typed, InLine, NEW p \in Node, NEW c \in Nat, Front(p, c),
         pending # <<>>, pending[1].do # "apply"
  PROVE  /\ Current = p
         /\ \A j \in 2 .. Len(pending) :
              \/ /\ pending[j].do = "apply"
                 /\ \A m \in Below(Current) : m < pending[j].node
              \/ pending[j].node = Current /\ pending[j].do \notin {"apply", First}
<1> DEFINE template == Template(doc[p].kind)
<1>1. /\ c \in 0 .. Len(template) /\ c < Len(template) /\ Len(template) \in 0 .. 6
      /\ Current = p
  <2>1. /\ Len(template) \in 0 .. 6 /\ c \in 0 .. Len(template) /\ c < Len(template)
        /\ pending[1] = [do |-> template[c + 1], node |-> p]
    BY InFront
  <2> QED BY <2>1, Foremost
<1>2. /\ \A i \in 1 .. Len(template) : template[i] # "apply"
      /\ \A i \in 1 .. Len(template) : template[i] = First => i = 1
  BY Nodes, Shapes DEF Typed
<1>3. /\ \A j \in 1 .. Len(template) - c :
           j \in DOMAIN pending /\ pending[j] = [do |-> template[c + j], node |-> p]
      /\ \A j \in DOMAIN pending : j > Len(template) - c => pending[j].do = "apply"
  BY DEF Front
<1> HIDE DEF template
<1>4. ASSUME NEW j \in 2 .. Len(pending)
      PROVE  \/ pending[j].do = "apply" /\ \A m \in Below(Current) : m < pending[j].node
             \/ pending[j].node = Current /\ pending[j].do \notin {"apply", First}
  <2>1. j \in DOMAIN pending /\ j \in Nat /\ 1 \in DOMAIN pending /\ 1 < j
    BY Foremost
  <2>2. CASE j > Len(template) - c
    <3>1. pending[j].do = "apply"
      BY <1>3, <2>1, <2>2
    <3> QED BY <2>1, <3>1, Foremost DEF InLine
  <2>3. CASE ~(j > Len(template) - c)
    <3>1. j \in 1 .. Len(template) - c /\ c + j \in 1 .. Len(template) /\ c + j # 1
      BY <1>1, <2>1, <2>3
    <3>2. pending[j] = [do |-> template[c + j], node |-> p]
      BY <1>3, <3>1
    <3> QED BY <1>1, <1>2, <3>1, <3>2
  <2> QED BY <2>2, <2>3
<1> QED BY <1>1, <1>4

\* Write: what waits comes later than the node that has been written.
LEMMA WriteKeepsOrder ==
  ASSUME Typed, Ordered, AtWork, Write, UNCHANGED <<doc, sheet>>
  PROVE  Ordered'
<1>1. /\ pending # <<>> /\ pending[1].do \in Values \ {"apply", "children"}
      /\ <<>> \in Seq(ToDo) /\ Len(<<>>) = 0 /\ pending' = <<>> \o Tail(pending)
      /\ Len(output) \in Nat /\ DOMAIN output = 1 .. Len(output)
      /\ Len(output') = Len(output) + 1 /\ DOMAIN output' = 1 .. Len(output')
      /\ \A i \in 1 .. Len(output) : output'[i] = output[i]
      /\ output'[Len(output')] = [value |-> pending[1].do, of |-> Current]
  BY WrittenOut
<1>2. Current \in Node /\ Current = pending[1].node /\ 1 \in DOMAIN pending /\ DOMAIN pending = 1 .. Len(pending)
  BY <1>1, Foremost
<1>3. PICK p \in Node, c \in Nat : Front(p, c)
  BY DEF AtWork
<1>4. \A j \in 2 .. Len(pending) :
        \/ /\ pending[j].do = "apply"
           /\ \A m \in Below(Current) : m < pending[j].node
        \/ pending[j].node = Current /\ pending[j].do \notin {"apply", First}
  BY <1>1, <1>3, Behind DEF Ordered
<1>5. InLine' /\ HeaderClosed'
  <2>1. \A j \in 1 .. Len(<<>>) : FALSE
    BY <1>1
  <2>2. InLine'
    BY <1>1, <2>1, LineKept DEF Ordered
  <2>3. HeaderClosed'
    BY <1>1, <2>1, HeaderKept DEF Ordered
  <2> QED BY <2>2, <2>3
<1>6. ~Inside(Current, "teiHeader")
  BY <1>1, <1>2 DEF Ordered, HeaderClosed, Inside
<1>7. HeaderStaysOut'
  <2>1. \A i \in DOMAIN output' : ~Inside(output'[i].of, "teiHeader")
    <3>1. \A i \in 1 .. Len(output) : ~Inside(output'[i].of, "teiHeader")
      BY <1>1 DEF Ordered, HeaderStaysOut
    <3>2. ~Inside(output'[Len(output')].of, "teiHeader")
      BY <1>1, <1>6
    <3> QED BY <1>1, <3>1, <3>2
  <2> QED BY <2>1, Same DEF HeaderStaysOut
<1>8. Current \in Below(Current) /\ Current \in Nat
  BY <1>2, Nodes DEF Below
<1>9. ASSUME NEW j \in DOMAIN pending'
      PROVE  j + 1 \in 2 .. Len(pending) /\ pending'[j] = pending[j + 1]
  BY <1>1, Positions DEF Typed
<1>10. ASSUME NEW i \in DOMAIN output', NEW j \in DOMAIN pending'
       PROVE  /\ output'[i].of <= pending'[j].node
              /\ pending'[j].do \in {"apply", First} => output'[i].of # pending'[j].node
  <2>1. j + 1 \in 2 .. Len(pending) /\ pending'[j] = pending[j + 1] /\ j + 1 \in DOMAIN pending
    BY <1>2, <1>9
  <2>2. CASE i \in DOMAIN output
    BY <1>1, <2>1, <2>2 DEF Ordered, OnTheWay
  <2>3. CASE i = Len(output')
    <3>1. output'[i].of = Current
      BY <1>1, <2>3
    <3>2. pending[j + 1].node \in Nat
      BY <2>1, Foremost, Nodes
    <3>3. \/ pending[j + 1].do = "apply" /\ Current < pending[j + 1].node
          \/ pending[j + 1].node = Current /\ pending[j + 1].do \notin {"apply", First}
      BY <1>4, <1>8, <2>1
    <3> QED BY <1>8, <2>1, <3>1, <3>2, <3>3
  <2> QED BY <1>1, <2>2, <2>3
<1>11. pending[1].do = First => Current \in BodyNodes(Wanted)
  <2>1. ASSUME pending[1].do = First
        PROVE  doc[Current].kind \in Wanted
    <3>1. /\ c < Len(Template(doc[p].kind)) /\ c \in 0 .. Len(Template(doc[p].kind))
          /\ pending[1] = [do |-> Template(doc[p].kind)[c + 1], node |-> p]
          /\ Len(Template(doc[p].kind)) \in 0 .. 6
      BY <1>1, <1>3, InFront, StylesheetsAssumption DEF Values
    <3>2. c + 1 \in 1 .. Len(Template(doc[p].kind)) /\ Current = p
      BY <1>2, <3>1
    <3> QED BY <2>1, <3>1, <3>2, Nodes, Shapes DEF Typed
  <2> QED BY <1>2, <1>6, <2>1 DEF BodyNodes
<1> DEFINE first == {i \in DOMAIN output' : output'[i].value = First}
<1>12. first = Firsts \cup (IF pending[1].do = First THEN {Len(output')} ELSE {})
  BY <1>1 DEF Firsts
<1>13. \A i \in Firsts : i \in 1 .. Len(output) /\ output'[i] = output[i]
  BY <1>1 DEF Firsts
<1>14. \A i \in first : output'[i].of \in BodyNodes(Wanted)
  <2> HIDE DEF first
  <2>1. \A i \in Firsts : output'[i].of \in BodyNodes(Wanted)
    BY <1>13 DEF Ordered, OnTheWay
  <2>2. pending[1].do = First => output'[Len(output')].of \in BodyNodes(Wanted)
    BY <1>1, <1>11
  <2> QED BY <1>12, <2>1, <2>2
<1>15. ASSUME NEW i \in first, NEW j \in first, i < j
       PROVE  output'[i].of < output'[j].of
  <2> HIDE DEF first
  <2>1. CASE i \in Firsts /\ j \in Firsts
    BY <1>13, <1>15, <2>1 DEF Ordered, OnTheWay
  <2>2. CASE i \in Firsts /\ j = Len(output') /\ pending[1].do = First
    <3>1. output[i].of <= Current /\ output[i].of # Current
      BY <1>1, <1>2, <1>13, <2>2 DEF Ordered, OnTheWay
    <3>2. output[i].of \in Nat
      BY <1>1, <1>13, <2>2, Results
    <3> QED BY <1>1, <1>8, <1>13, <2>2, <3>1, <3>2
  <2>3. ~(i = Len(output'))
    <3>1. j \in 1 .. Len(output') /\ Len(output') \in Nat
      BY <1>1, <1>12, <1>13
    <3> QED BY <1>15, <3>1
  <2> QED BY <1>12, <2>1, <2>2, <2>3
<1>16. ASSUME NEW n \in BodyNodes(Wanted)
       PROVE  \/ \E j \in DOMAIN pending' : Leads(pending'[j], n)
              \/ \E i \in first : output'[i].of = n
  <2> HIDE DEF first
  <2>1. CASE \E i \in Firsts : output[i].of = n
    BY <1>12, <1>13, <2>1
  <2>2. ASSUME NEW j \in DOMAIN pending, Leads(pending[j], n)
        PROVE  \/ \E k \in DOMAIN pending' : Leads(pending'[k], n)
               \/ \E i \in first : output'[i].of = n
    <3>1. CASE j = 1
      <4>1. pending[1].do = First /\ Current = n
        BY <1>1, <1>2, <2>2, <3>1 DEF Leads
      <4> QED BY <1>1, <1>12, <4>1
    <3>2. CASE j # 1
      <4>1. j \in 2 .. Len(pending) /\ j \in Nat
        BY <1>2, <3>2
      <4>2. j + 0 - 1 \in 1 .. Len(pending') /\ pending'[j + 0 - 1] = pending[j] /\ DOMAIN pending' = 1 .. Len(pending')
        BY <1>1, <4>1, Positions DEF Typed
      <4> QED BY <2>2, <4>2
    <3> QED BY <3>1, <3>2
  <2> QED BY <2>1, <2>2 DEF Ordered, OnTheWay
<1>17. OnTheWay'
  <2>1. /\ Firsts' = first /\ BodyNodes(Wanted)' = BodyNodes(Wanted) /\ First' = First
        /\ \A e, n : Leads(e, n)' = Leads(e, n)
    BY Same DEF Firsts, BodyNodes
  <2> HIDE DEF first
  <2> QED BY <1>10, <1>14, <1>15, <1>16, <2>1 DEF OnTheWay
<1> QED BY <1>5, <1>7, <1>17 DEF Ordered

-----------------------------------------------------------------------------
(* The template at work.                                                   *)

\* Apply begins a template.
LEMMA FrontApplied ==
  ASSUME Typed, AtWork, Apply, UNCHANGED <<doc, sheet>>, NEW n \in Node, n = Current
  PROVE  Front(n, 0)'
<1>1. pending # <<>> /\ pending[1].do = "apply" 
  BY Applied, Foremost
<1> DEFINE template == Template(doc[n].kind)
<1>2. PICK block \in Seq(ToDo) :
        /\ Len(block) = Len(template)
        /\ \A j \in 1 .. Len(template) : block[j] = [do |-> template[j], node |-> n]
        /\ pending' = block \o Tail(pending)
  BY Applied
<1>3. \A j \in DOMAIN pending : pending[j].do = "apply"
  BY <1>1, InFront DEF AtWork
<1> USE DEF Typed
<1>4. \A j \in 1 .. Len(block) : j \in DOMAIN pending' /\ pending'[j] = [do |-> template[0 + j], node |-> n]
  <2> SUFFICES ASSUME NEW j \in 1 .. Len(block)
               PROVE  j \in DOMAIN pending' /\ pending'[j] = [do |-> template[0 + j], node |-> n]
    OBVIOUS
  <2>1. j \in DOMAIN pending' /\ pending'[j] = block[j]
    BY <1>1, <1>2, Positions
  <2>2. 0 + j = j
    OBVIOUS
  <2> QED BY <1>2, <2>1, <2>2
<1>5. ASSUME NEW j \in DOMAIN pending', j > Len(block)
      PROVE  pending'[j].do = "apply"
  <2>1. j \in Len(block) + 1 .. Len(pending')
    BY <1>1, <1>2, <1>5, Positions
  <2>2. j - Len(block) + 1 \in DOMAIN pending /\ pending'[j] = pending[j - Len(block) + 1]
    BY <1>1, <1>2, <2>1, Positions
  <2> QED BY <1>3, <2>2
<1>6. Len(template) \in Nat
  BY Applied
<1>7. Template(doc[n].kind)' = template /\ Len(block) - 0 = Len(block) /\ 0 \in 0 .. Len(template)
  BY <1>2, <1>6, Same
<1> HIDE DEF template
<1> QED BY <1>2, <1>4, <1>5, <1>7 DEF Front

\* Descend ends a template, with the children of its node behind it.
LEMMA FrontDescended ==
  ASSUME Typed, Descend, UNCHANGED <<doc, sheet>>, NEW p \in Node, NEW c \in Nat, Front(p, c)
  PROVE  /\ Front(p, c + 1)' /\ c + 1 = Len(Template(doc[p].kind))
         /\ Template(doc[p].kind)[c + 1] = "children" /\ Current = p
<1> DEFINE template == Template(doc[p].kind)
<1>1. pending # <<>> /\ pending[1].do = "children"
  BY Descended
<1>2. /\ Len(template) \in 0 .. 6 /\ c \in 0 .. Len(template) /\ c < Len(template)
      /\ pending[1] = [do |-> template[c + 1], node |-> p]
  BY <1>1, InFront
<1>3. \A i \in 1 .. Len(template) : template[i] = "children" => i = Len(template)
  BY Nodes, Shapes DEF Typed
<1>4. template[c + 1] = "children" /\ Current = p
  BY <1>1, <1>2, Foremost
<1> HIDE DEF template
<1>5. c + 1 = Len(template)
  BY <1>2, <1>3, <1>4
<1>6. \A j \in 2 .. Len(pending) : pending[j].do = "apply"
  <2>1. \A j \in DOMAIN pending : j > Len(template) - c => pending[j].do = "apply"
    BY DEF Front, template
  <2> QED BY <1>1, <1>2, <1>5, <2>1, Foremost
<1>7. PICK block \in Seq(ToDo) :
        /\ \A j \in 1 .. Len(block) : block[j].do = "apply"
        /\ pending' = block \o Tail(pending)
  BY Descended
<1>8. ASSUME NEW j \in DOMAIN pending'
      PROVE  pending'[j].do = "apply"
  <2>1. CASE j \in 1 .. Len(block)
    BY <1>1, <1>7, <2>1, Positions DEF Typed
  <2>2. CASE j \in Len(block) + 1 .. Len(pending')
    <3>1. j - Len(block) + 1 \in 2 .. Len(pending) /\ pending'[j] = pending[j - Len(block) + 1]
      BY <1>1, <1>7, <2>2, Positions DEF Typed
    <3> QED BY <1>6, <3>1
  <2>3. DOMAIN pending' = 1 .. Len(pending') /\ Len(pending') \in Nat /\ Len(block) \in Nat
    BY <1>1, <1>7, Positions DEF Typed
  <2> QED BY <2>1, <2>2, <2>3
<1>9. Template(doc[p].kind)' = template
  BY Same DEF template
<1>10. c + 1 \in 0 .. Len(template) /\ \A j \in 1 .. Len(template) - (c + 1) : FALSE
  BY <1>2, <1>5
<1>11. Front(p, c + 1)'
  BY <1>8, <1>9, <1>10 DEF Front
<1> QED BY <1>4, <1>5, <1>11 DEF template

\* Write goes on with a template.
LEMMA FrontWritten ==
  ASSUME Typed, Write, UNCHANGED <<doc, sheet>>, NEW p \in Node, NEW c \in Nat, Front(p, c)
  PROVE  /\ Front(p, c + 1)' /\ c < Len(Template(doc[p].kind))
         /\ Template(doc[p].kind)[c + 1] = pending[1].do /\ Current = p
<1> DEFINE template == Template(doc[p].kind)
<1>1. /\ pending # <<>> /\ pending[1].do \in Values \ {"apply", "children"}
      /\ <<>> \in Seq(ToDo) /\ Len(<<>>) = 0 /\ pending' = <<>> \o Tail(pending)
  BY WrittenOut
<1>2. /\ Len(template) \in 0 .. 6 /\ c \in 0 .. Len(template) /\ c < Len(template)
      /\ pending[1] = [do |-> template[c + 1], node |-> p]
  BY <1>1, InFront
<1>3. template[c + 1] = pending[1].do /\ Current = p
  BY <1>1, <1>2, Foremost
<1>4. /\ \A j \in 1 .. Len(template) - c :
           j \in DOMAIN pending /\ pending[j] = [do |-> template[c + j], node |-> p]
      /\ \A j \in DOMAIN pending : j > Len(template) - c => pending[j].do = "apply"
  BY DEF Front
<1>5. Template(doc[p].kind)' = template
  BY Same
<1> HIDE DEF template
<1>6. /\ DOMAIN pending = 1 .. Len(pending) /\ DOMAIN pending' = 1 .. Len(pending')
      /\ Len(pending) \in Nat \ {0} /\ Len(pending') = Len(pending) - 1
      /\ \A j \in DOMAIN pending' : j + 1 \in 2 .. Len(pending) /\ pending'[j] = pending[j + 1]
  <2>1. /\ DOMAIN pending = 1 .. Len(pending) /\ DOMAIN pending' = 1 .. Len(pending')
        /\ Len(pending) \in Nat \ {0} /\ Len(pending') = 0 + Len(pending) - 1
        /\ \A j \in 0 + 1 .. Len(pending') :
             j - 0 + 1 \in 2 .. Len(pending) /\ pending'[j] = pending[j - 0 + 1]
    BY <1>1, Positions DEF Typed
  <2> QED BY <2>1
<1>7. ASSUME NEW j \in 1 .. Len(template) - (c + 1)
      PROVE  j \in DOMAIN pending' /\ pending'[j] = [do |-> template[c + 1 + j], node |-> p]
  <2> DEFINE length == Len(template)
  <2>0. length \in Nat /\ c \in Nat /\ j \in 1 .. length - (c + 1)
    BY <1>2, <1>7
  <2>1. j + 1 \in 1 .. Len(template) - c /\ c + (j + 1) = c + 1 + j
    <3>1. j + 1 \in 1 .. length - c /\ c + (j + 1) = c + 1 + j
      <4> HIDE DEF length
      <4> QED BY <2>0
    <3> QED BY <3>1
  <2>2. j + 1 \in DOMAIN pending /\ pending[j + 1] = [do |-> template[c + 1 + j], node |-> p]
    BY <1>4, <2>1
  <2>3. j \in DOMAIN pending'
    BY <1>6, <2>2
  <2> QED BY <1>6, <2>2, <2>3
<1>8. ASSUME NEW j \in DOMAIN pending', j > Len(template) - (c + 1)
      PROVE  pending'[j].do = "apply"
  <2>1. j + 1 \in DOMAIN pending /\ j + 1 > Len(template) - c /\ pending'[j] = pending[j + 1]
    BY <1>2, <1>6, <1>8
  <2> QED BY <1>4, <2>1
<1>9. c + 1 \in 0 .. Len(template)
  BY <1>2
<1>10. Front(p, c + 1)'
  BY <1>5, <1>7, <1>8, <1>9 DEF Front
<1> QED BY <1>2, <1>3, <1>10 DEF template

\* What the templates of single stylesheets are.
LEMMA Single ==
  ASSUME sheet \in Sheets, NEW k \in Kind
  PROVE  LET template == Template(k) IN
         /\ sheet = "justTheWords" => \A i \in 1 .. Len(template) : template[i] \in {"text", "children"}
         /\ sheet = "oneWordPerLine" /\ k \in Token => template = Line
         /\ sheet = "oneWordPerLine" /\ k \notin Token =>
              \A i \in 1 .. Len(template) : template[i] = "children"
         /\ sheet = "justTheCodes" /\ k = "s" => template = <<"id", "n", "children">>
         /\ sheet = "justTheCodes" /\ k # "s" =>
              Len(template) \in {0, 1} /\ \A i \in 1 .. Len(template) : template[i] # "n"
<1> DEFINE One(template) ==
             /\ sheet = "justTheWords" => \A i \in 1 .. Len(template) : template[i] \in {"text", "children"}
             /\ sheet = "oneWordPerLine" /\ k \notin Token =>
                  \A i \in 1 .. Len(template) : template[i] = "children"
             /\ sheet = "justTheCodes" /\ k # "s" =>
                  Len(template) \in {0, 1} /\ \A i \in 1 .. Len(template) : template[i] # "n"
<1>1. One(Template(k))
  <2>1. One(<<>>) /\ One(<<"children">>)
    OBVIOUS
  <2>2. sheet # "oneWordPerLine" => One(<<"text">>)
    OBVIOUS
  <2>3. sheet = "justTheCodes" => One(<<"c5">>)
    OBVIOUS
  <2>4. sheet = "justTheCodes" /\ k = "s" => One(<<"id", "n", "children">>)
    OBVIOUS
  <2>5. sheet = "oneWordPerLine" /\ k \in Token => One(Line)
    OBVIOUS
  <2> HIDE DEF One
  <2> QED BY <2>1, <2>2, <2>3, <2>4, <2>5, Templates
<1>2. sheet = "oneWordPerLine" /\ k \in Token => Template(k) = Line
  BY Templates DEF TextNode, Token
<1>3. sheet = "justTheCodes" /\ k = "s" => Template(k) = <<"id", "n", "children">>
  BY Templates DEF TextNode, Token
<1> QED BY <1>1, <1>2, <1>3

\* oneWordPerLine.xsl has six columns.
LEMMA LineOfSix == Len(Line) = 6 /\ DOMAIN Line = 1 .. 6
BY DEF Line

\* A template begins when the last line is whole.
LEMMA ColumnsApplied ==
  ASSUME Typed, AtWork, Apply, UNCHANGED <<doc, sheet>>, NEW n \in Node, n = Current
  PROVE  Columns(n, 0)'
<1> SUFFICES ASSUME sheet = "oneWordPerLine"
             PROVE  Len(output) % 6 = 0
  <2>1. /\ output' = output
        /\ 0 \notin 1 .. Len(Line) - 1 /\ 0 % Len(Line) = 0 /\ Len(Line) = 6
    BY Applied, LineOfSix
  <2> QED BY <2>1 DEF Columns
<1>1. PICK p \in Node, c \in Nat : Front(p, c) /\ Columns(p, c)
  BY DEF AtWork
<1>2. c = Len(Template(doc[p].kind))
  BY <1>1, Applied, InFront
<1>3. CASE doc[p].kind \in Token
  <2>1. Template(doc[p].kind) = Line
    BY <1>3, Nodes, Single DEF Typed
  <2> QED BY <1>1, <1>2, <1>3, <2>1, LineOfSix DEF Columns
<1> QED BY <1>1, <1>3, LineOfSix DEF Columns

\* No token has children to descend to, so there is no line under way.
LEMMA ColumnsDescended ==
  ASSUME Typed, Descend, UNCHANGED <<doc, sheet>>, NEW p \in Node, NEW c \in Nat,
         Front(p, c), Columns(p, c)
  PROVE  Columns(p, c + 1)'
<1> SUFFICES ASSUME sheet = "oneWordPerLine"
             PROVE  Columns(p, c + 1)'
  BY DEF Columns
<1>1. c + 1 = Len(Template(doc[p].kind)) /\ Template(doc[p].kind)[c + 1] = "children"
  BY FrontDescended
<1>2. doc[p].kind \notin Token
  <2> SUFFICES ASSUME doc[p].kind \in Token
               PROVE  FALSE
    OBVIOUS
  <2>1. Template(doc[p].kind) = Line
    BY Nodes, Single DEF Typed
  <2> QED BY <1>1, <2>1 DEF Line
<1>3. output' = output
  BY Descended
<1> QED BY <1>2, <1>3 DEF Columns

\* The next column of a line is written.
LEMMA ColumnWritten ==
  ASSUME Typed, Write, UNCHANGED <<doc, sheet>>, NEW p \in Node, NEW c \in Nat,
         Front(p, c), Columns(p, c), Lines
  PROVE  Columns(p, c + 1)' /\ Lines'
<1> SUFFICES ASSUME sheet = "oneWordPerLine"
             PROVE  Columns(p, c + 1)' /\ Lines'
  BY DEF Columns, Lines
<1>1. /\ Len(output) \in Nat /\ DOMAIN output = 1 .. Len(output)
      /\ Len(output') = Len(output) + 1 /\ DOMAIN output' = 1 .. Len(output')
      /\ \A i \in 1 .. Len(output) : output'[i] = output[i]
      /\ output'[Len(output')] = [value |-> pending[1].do, of |-> Current]
      /\ pending[1].do # "children"
  BY WrittenOut
<1>2. /\ c < Len(Template(doc[p].kind)) /\ Current = p
      /\ Template(doc[p].kind)[c + 1] = pending[1].do
  BY FrontWritten
<1>3. Len(Template(doc[p].kind)) \in Nat
  BY Nodes, Shapes DEF Typed
<1>4. doc[p].kind \in Token /\ Template(doc[p].kind) = Line
  <2>1. c + 1 \in 1 .. Len(Template(doc[p].kind))
    BY <1>2, <1>3
  <2> QED BY <1>1, <1>2, <2>1, Nodes, Single DEF Typed
<1>5. c \in 0 .. 5 /\ Line[c + 1] = pending[1].do
  BY <1>2, <1>4, LineOfSix
<1>6. Len(output) % 6 = c /\ (c \in 1 .. 5 => output[Len(output)].of = p)
  <2>1. c % 6 = c /\ 6 - 1 = 5
    BY <1>5
  <2> QED BY <1>4, <2>1, LineOfSix DEF Columns
<1>7. Len(output') % 6 = (c + 1) % 6
  BY <1>1, <1>5, <1>6
<1>8. Columns(p, c + 1)'
  <2>1. output'[Len(output')].of = p
    BY <1>1, <1>2
  <2>2. doc'[p].kind \in Token
    BY <1>4
  <2> QED BY <1>7, <2>1, <2>2, LineOfSix DEF Columns
<1>9. ASSUME NEW i \in DOMAIN output'
      PROVE  /\ output'[i].value = Line[((i - 1) % 6) + 1]
             /\ (i - 1) % 6 # 0 => output'[i].of = output'[i - 1].of
  <2>1. CASE i \in 1 .. Len(output)
    <3>1. /\ output[i].value = Line[((i - 1) % 6) + 1]
          /\ (i - 1) % 6 # 0 => output[i].of = output[i - 1].of
      BY <1>1, <2>1, LineOfSix DEF Lines
    <3>2. output'[i] = output[i]
      BY <1>1, <2>1
    <3>3. (i - 1) % 6 # 0 => i - 1 \in 1 .. Len(output)
      BY <1>1, <2>1
    <3>4. (i - 1) % 6 # 0 => output'[i - 1] = output[i - 1]
      BY <1>1, <3>3
    <3> QED BY <3>1, <3>2, <3>4
  <2>2. CASE i = Len(output')
    <3>1. i - 1 = Len(output) /\ (i - 1) % 6 = c
      BY <1>1, <1>6, <2>2
    <3>2. output'[i].value = Line[c + 1] /\ output'[i].of = p
      BY <1>1, <1>2, <1>5, <2>2
    <3>3. c # 0 => output'[i - 1].of = p
      <4>1. c # 0 => Len(output) \in 1 .. Len(output) /\ c \in 1 .. 5
        BY <1>1, <1>5, <1>6
      <4> QED BY <1>1, <1>6, <3>1, <4>1
    <3> QED BY <3>1, <3>2, <3>3
  <2> QED BY <1>1, <2>1, <2>2
<1>10. Lines'
  BY <1>9, LineOfSix DEF Lines
<1> QED BY <1>8, <1>10

-----------------------------------------------------------------------------
(* The numbers of the sentences.                                           *)

\* A node within one that has its number has the same.
LEMMA NumberBelow ==
  ASSUME NEW n, NEW m, UpFrom(n) \subseteq UpFrom(m), NumberOf(n)
  PROVE  NumberOf(m)
BY DEF NumberOf

\* A node in a sentence is applied under the number of the sentence.
LEMMA NumbersApplied ==
  ASSUME Typed, AtWork, Numbers, Apply, UNCHANGED <<doc, sheet>>, NEW n \in Node, n = Current
  PROVE  Numbered(n, 0)' /\ Numbers'
<1>1. /\ pending # <<>> /\ pending[1].do = "apply" /\ output' = output
      /\ 1 \in DOMAIN pending /\ n = pending[1].node
  BY Applied, Foremost
<1>2. /\ \A m : NumberOf(m)' = NumberOf(m)
      /\ Firsts' = Firsts
  BY <1>1, Same DEF NumberOf, Firsts
<1> DEFINE template == Template(doc[n].kind)
<1>3. Numbered(n, 0)'
  <2> SUFFICES ASSUME sheet = "justTheCodes", 0 < Len(template), template[0 + 1] \in {"children", "c5"},
                      Inside(n, "s")
               PROVE  NumberOf(n)
    BY <1>2, Same DEF Numbered
  <2>1. doc[n].kind # "s"
    <3> SUFFICES ASSUME doc[n].kind = "s"
                 PROVE  FALSE
      OBVIOUS
    <3>1. template = <<"id", "n", "children">>
      BY Nodes, Single DEF Typed
    <3> QED BY <3>1
  <2>2. InASentence(n)
    BY <2>1 DEF Inside, InASentence
  <2> QED BY <1>1, <2>2 DEF Numbers
<1>4. PICK block \in Seq(ToDo) :
        /\ Len(block) = Len(template)
        /\ \A j \in 1 .. Len(template) : block[j] = [do |-> template[j], node |-> n]
        /\ pending' = block \o Tail(pending)
  BY Applied
<1>5. \A i \in 1 .. Len(template) : template[i] # "apply"
  BY Nodes, Shapes DEF Typed
<1> HIDE DEF template
<1>6. ASSUME sheet = "justTheCodes", NEW j \in DOMAIN pending', pending'[j].do = "apply",
             InASentence(pending'[j].node)
      PROVE  NumberOf(pending'[j].node)
  <2>1. j \in Len(block) + 1 .. Len(pending')
    <3>1. j \notin 1 .. Len(block)
      <4> SUFFICES ASSUME j \in 1 .. Len(block)
                   PROVE  FALSE
        OBVIOUS
      <4>1. pending'[j] = block[j]
        BY <1>1, <1>4, Positions DEF Typed
      <4>2. block[j] = [do |-> template[j], node |-> n] /\ template[j] # "apply"
        BY <1>4, <1>5
      <4> QED BY <1>6, <4>1, <4>2
    <3> QED BY <1>1, <1>4, <3>1, Positions DEF Typed
  <2>2. j - Len(block) + 1 \in DOMAIN pending /\ pending'[j] = pending[j - Len(block) + 1]
    BY <1>1, <1>4, <2>1, Positions DEF Typed
  <2> QED BY <1>6, <2>2 DEF Numbers
<1>7. Numbers'
  <2>1. \A m : InASentence(m)' = InASentence(m) /\ Inside(m, "s")' = Inside(m, "s") /\ UpFrom(m)' = UpFrom(m)
    BY Same
  <2> QED BY <1>1, <1>2, <1>6, <2>1 DEF Numbers
<1> QED BY <1>3, <1>7

\* What waits in a sentence waits under its number.
LEMMA NumbersDescended ==
  ASSUME Typed, Numbers, Descend, UNCHANGED <<doc, sheet>>, NEW p \in Node, NEW c \in Nat,
         Front(p, c), Numbered(p, c)
  PROVE  Numbered(p, c + 1)' /\ Numbers'
<1>1. pending # <<>> /\ output' = output
  BY Descended
<1>2. /\ \A m : NumberOf(m)' = NumberOf(m)
      /\ Firsts' = Firsts
  BY <1>1, Same DEF NumberOf, Firsts
<1>3. /\ c + 1 = Len(Template(doc[p].kind)) /\ Template(doc[p].kind)[c + 1] = "children"
      /\ Current = p
  BY FrontDescended
<1>4. Numbered(p, c + 1)'
  BY <1>3, Same DEF Numbered
<1>5. sheet = "justTheCodes" /\ Inside(p, "s") => NumberOf(p)
  <2>1. c < Len(Template(doc[p].kind))
    BY <1>3
  <2> QED BY <1>3, <2>1 DEF Numbered
<1>6. PICK block \in Seq(ToDo) :
        /\ \A j \in 1 .. Len(block) : block[j].node \in Node /\ doc[block[j].node].parent = p
        /\ pending' = block \o Tail(pending)
  BY <1>3, Descended
<1>7. ASSUME sheet = "justTheCodes", NEW j \in DOMAIN pending', pending'[j].do = "apply",
             InASentence(pending'[j].node)
      PROVE  NumberOf(pending'[j].node)
  <2>1. CASE j \in 1 .. Len(block)
    <3> DEFINE n == pending'[j].node
    <3>1. n \in Node /\ doc[n].parent = p
      BY <1>1, <1>6, <2>1, Positions DEF Typed
    <3>2. UpFrom(n) = {n} \cup UpFrom(p)
      BY <3>1, Nodes
    <3>3. Inside(p, "s")
      BY <1>7, <3>2 DEF InASentence, Inside
    <3> QED BY <1>5, <1>7, <3>2, <3>3, NumberBelow
  <2>2. CASE j \in Len(block) + 1 .. Len(pending')
    <3>1. j - Len(block) + 1 \in DOMAIN pending /\ pending'[j] = pending[j - Len(block) + 1]
      BY <1>1, <1>6, <2>2, Positions DEF Typed
    <3> QED BY <1>7, <3>1 DEF Numbers
  <2>3. j \in 1 .. Len(block) \/ j \in Len(block) + 1 .. Len(pending')
    BY <1>1, <1>6, Positions DEF Typed
  <2> QED BY <2>1, <2>2, <2>3
<1>8. Numbers'
  <2>1. \A m : InASentence(m)' = InASentence(m) /\ Inside(m, "s")' = Inside(m, "s") /\ UpFrom(m)' = UpFrom(m)
    BY Same
  <2> QED BY <1>1, <1>2, <1>7, <2>1 DEF Numbers
<1> QED BY <1>4, <1>8

\* A value that is no number does not end a sentence; a number is written before
\* anything in its sentence, and nothing that waits is in the sentence before it.
LEMMA NumbersWritten ==
  ASSUME Typed, Ordered, Numbers, Write, UNCHANGED <<doc, sheet>>, NEW p \in Node, NEW c \in Nat,
         Front(p, c), Numbered(p, c)
  PROVE  Numbered(p, c + 1)' /\ Numbers'
<1> SUFFICES ASSUME sheet = "justTheCodes"
             PROVE  Numbered(p, c + 1)' /\ Numbers'
  BY DEF Numbered, Numbers
<1> DEFINE template == Template(doc[p].kind)
           last == Len(output')
<1>1. /\ pending # <<>> /\ pending[1].do # "children" /\ pending[1].do # "apply"
      /\ <<>> \in Seq(ToDo) /\ Len(<<>>) = 0 /\ pending' = <<>> \o Tail(pending)
      /\ Len(output) \in Nat /\ DOMAIN output = 1 .. Len(output)
      /\ last = Len(output) + 1 /\ DOMAIN output' = 1 .. last
      /\ \A i \in 1 .. Len(output) : output'[i] = output[i]
      /\ output'[last] = [value |-> pending[1].do, of |-> Current]
  BY WrittenOut
<1>2. c < Len(template) /\ Current = p /\ template[c + 1] = pending[1].do
  BY FrontWritten
<1>3. Len(template) \in 0 .. 6 /\ c + 1 \in 1 .. Len(template)
  <2>1. Len(template) \in 0 .. 6
    BY Nodes, Shapes DEF Typed
  <2> QED BY <1>2, <2>1
<1>4. doc[p].kind = "s" => template = <<"id", "n", "children">>
  BY Nodes, Single DEF Typed
<1>5. doc[p].kind # "s" => Len(template) \in {0, 1} /\ template[c + 1] # "n"
  BY <1>3, Nodes, Single DEF Typed
<1>6. p \in UpFrom(p) /\ p \in Nat /\ p = pending[1].node /\ 1 \in DOMAIN pending
  BY <1>1, <1>2, Nodes, Foremost
<1>7. \A m : InASentence(m)' = InASentence(m) /\ Inside(m, "s")' = Inside(m, "s") /\ UpFrom(m)' = UpFrom(m)
  BY Same
<1>8. Template(doc[p].kind)' = template
  BY Same
<1> HIDE DEF template, last
<1>9. Numbered(p, c + 1)'
  <2> SUFFICES ASSUME c + 1 < Len(template), template[c + 1 + 1] \in {"children", "c5"}
               PROVE  NumberOf(p)'
    BY <1>8 DEF Numbered
  <2>1. template = <<"id", "n", "children">>
    BY <1>3, <1>4, <1>5
  <2>2. c = 1 /\ pending[1].do = "n"
    <3>1. Len(template) = 3
      BY <2>1
    <3>2. c \in {0, 1}
      BY <3>1
    <3> QED BY <1>2, <2>1, <3>2
  <2>3. output'[last].value = "n" /\ output'[last].of \in UpFrom(p)'
    BY <1>1, <1>2, <1>6, <1>7, <2>2
  <2>4. last \in DOMAIN output' /\ \A k \in last + 1 .. Len(output') : FALSE
    BY <1>1 DEF last
  <2> QED BY <2>3, <2>4 DEF NumberOf
<1>10. ASSUME NEW i \in DOMAIN output', output'[i].value = "n"
       PROVE  doc[output'[i].of].kind = "s"
  <2>1. CASE i \in 1 .. Len(output)
    BY <1>1, <1>10, <2>1 DEF Numbers
  <2>2. CASE i = last
    BY <1>1, <1>2, <1>5, <1>10, <2>2
  <2> QED BY <1>1, <2>1, <2>2
<1>11. ASSUME pending[1].do # "n", NEW x, NumberOf(x)
       PROVE  NumberOf(x)'
  <2>1. PICK i \in DOMAIN output :
          /\ output[i].value = "n" /\ output[i].of \in UpFrom(x)
          /\ \A k \in i + 1 .. Len(output) : output[k].value # "n"
    BY <1>11 DEF NumberOf
  <2>2. i \in DOMAIN output' /\ output'[i] = output[i]
    BY <1>1
  <2>3. ASSUME NEW k \in i + 1 .. Len(output')
        PROVE  output'[k].value # "n"
    <3>1. k \in i + 1 .. Len(output) \/ k = last
      BY <1>1 DEF last
    <3>2. k \in i + 1 .. Len(output) => k \in 1 .. Len(output)
      BY <1>1
    <3> QED BY <1>1, <1>11, <2>1, <3>1, <3>2
  <2> QED BY <1>7, <2>1, <2>2, <2>3 DEF NumberOf
<1>12. ASSUME NEW j \in DOMAIN pending', NEW x, x = pending'[j].node,
              pending'[j].do = "apply", InASentence(x)
       PROVE  NumberOf(x)'
  <2>1. j + 1 \in 2 .. Len(pending) /\ j + 1 \in DOMAIN pending /\ pending'[j] = pending[j + 1] /\ 1 < j + 1
    <3>1. /\ DOMAIN pending = 1 .. Len(pending) /\ DOMAIN pending' = 1 .. Len(pending')
          /\ Len(pending) \in Nat \ {0} /\ Len(pending') = 0 + Len(pending) - 1
          /\ \A l \in 0 + 1 .. Len(pending') :
               l - 0 + 1 \in 2 .. Len(pending) /\ pending'[l] = pending[l - 0 + 1]
      BY <1>1, Positions DEF Typed
    <3> QED BY <3>1
  <2>2. x = pending[j + 1].node /\ x \in Node /\ NumberOf(x)
    BY <1>1, <1>12, <2>1, Foremost DEF Numbers
  <2>3. \A m \in Below(p) : m < x
    BY <1>6, <1>12, <2>1 DEF Ordered, InLine
  <2>4. CASE pending[1].do # "n"
    BY <1>11, <2>2, <2>4
  <2>5. CASE pending[1].do = "n"
    <3>1. PICK i \in DOMAIN output : output[i].value = "n" /\ output[i].of \in UpFrom(x)
      BY <2>2 DEF NumberOf
    <3> DEFINE s == output[i].of
    <3>2. doc[s].kind = "s" /\ doc[p].kind = "s"
      BY <1>2, <1>5, <2>5, <3>1 DEF Numbers
    <3>3. s <= p /\ s \in Node /\ s \in UpFrom(x) /\ s \in Nat
      BY <1>6, <3>1, Results DEF Ordered, OnTheWay
    <3> HIDE DEF s
    <3>4. x \in Nat /\ p \in Below(p)
      BY <1>6, <2>2, Nodes DEF Below
    <3>5. p < x
      BY <2>3, <3>4
    <3>6. p \in s .. x
      BY <1>6, <3>3, <3>4, <3>5
    <3>7. s \in UpFrom(p)
      BY <2>2, <3>3, <3>6, Nodes
    <3>8. s = p
      BY <3>2, <3>3, <3>7, Nodes
    <3>9. x \in Below(p)
      BY <2>2, <3>3, <3>8 DEF Below
    <3> QED BY <2>3, <3>4, <3>9
  <2> QED BY <2>4, <2>5
<1>13. ASSUME NEW i \in DOMAIN output', output'[i].value = First, Inside(output'[i].of, "s")
       PROVE  \E j \in 1 .. i - 1 :
                /\ output'[j].value = "n" /\ output'[j].of \in UpFrom(output'[i].of)
                /\ \A k \in j + 1 .. i - 1 : output'[k].value # "n"
  <2>1. \A j \in 1 .. i - 1 : j \in 1 .. Len(output) /\ output'[j] = output[j]
    BY <1>1
  <2>2. CASE i \in 1 .. Len(output)
    <3>1. i \in Firsts /\ output'[i] = output[i]
      BY <1>1, <1>13, <2>2 DEF Firsts
    <3>2. PICK j \in 1 .. i - 1 :
            /\ output[j].value = "n" /\ output[j].of \in UpFrom(output[i].of)
            /\ \A k \in j + 1 .. i - 1 : output[k].value # "n"
      BY <1>13, <3>1 DEF Numbers
    <3>3. \A k \in j + 1 .. i - 1 : k \in 1 .. i - 1
      BY <1>1
    <3> QED BY <2>1, <3>1, <3>2, <3>3
  <2>3. CASE i = last
    <3>1. output'[i].of = p /\ pending[1].do = "c5"
      BY <1>1, <1>2, <1>13, <2>3 DEF First
    <3>2. NumberOf(p)
      BY <1>2, <1>13, <3>1 DEF Numbered, template
    <3>3. PICK j \in DOMAIN output :
            /\ output[j].value = "n" /\ output[j].of \in UpFrom(p)
            /\ \A k \in j + 1 .. Len(output) : output[k].value # "n"
      BY <3>2 DEF NumberOf
    <3>4. Len(output) = i - 1 /\ j \in 1 .. i - 1 /\ \A k \in j + 1 .. i - 1 : k \in 1 .. i - 1
      BY <1>1, <2>3
    <3> QED BY <2>1, <3>1, <3>3, <3>4
  <2>4. i \in 1 .. Len(output) \/ i = last
    BY <1>1
  <2> HIDE DEF last
  <2> QED BY <2>2, <2>3, <2>4
<1>14. Numbers'
  <2>1. First' = First /\ doc' = doc
    BY Same
  <2>2. \A i \in Firsts' : i \in DOMAIN output' /\ output'[i].value = First
    BY <2>1 DEF Firsts
  <2>3. \A i \in DOMAIN output' : output'[i].value = "n" => doc[output'[i].of].kind = "s"
    BY <1>10
  <2>4. \A j \in DOMAIN pending' :
          pending'[j].do = "apply" /\ InASentence(pending[j].node)' => NumberOf(pending[j].node)'
    <3> SUFFICES ASSUME NEW j \in DOMAIN pending', NEW x, x = pending'[j].node,
                        pending'[j].do = "apply", InASentence(x)'
                 PROVE  NumberOf(x)'
      BY DEF NumberOf, InASentence
    <3> QED BY <1>7, <1>12
  <2>5. \A i \in DOMAIN output' : output'[i].value = First /\ Inside(output'[i].of, "s") =>
          \E j \in 1 .. i - 1 :
            /\ output'[j].value = "n" /\ output'[j].of \in UpFrom(output'[i].of)
            /\ \A k \in j + 1 .. i - 1 : output'[k].value # "n"
    BY <1>13
  <2> QED BY <1>7, <2>1, <2>2, <2>3, <2>4, <2>5 DEF Numbers
<1> QED BY <1>9, <1>14

-----------------------------------------------------------------------------
(* The invariant is inductive.                                             *)

\* All nodes are in the first.
LEMMA AllInTheFirst ==
  ASSUME Typed
  PROVE  \A n \in Node : 1 \in UpFrom(n)
<1>1. IsDocument(doc) /\ Node = 1 .. Len(doc) /\ Len(doc) \in Nat
  BY Nodes
<1> DEFINE Wrong == {n \in Node : 1 \notin UpFrom(n)}
<1> SUFFICES ASSUME Wrong # {} PROVE FALSE
  OBVIOUS
<1>2. PICK n \in Wrong : \A m \in Wrong : n <= m
  <2>1. Wrong \in SUBSET Nat
    BY <1>1
  <2> HIDE DEF Wrong
  <2> QED BY <2>1, Least
<1>3. n \in 2 .. Len(doc)
  <2>1. n # 1
    BY <1>2, Nodes
  <2> QED BY <1>1, <1>2, <2>1
<1>4. doc[n].parent \in UpIn(doc, n - 1) /\ n - 1 \in Node
  BY <1>1, <1>3 DEF IsDocument
<1> DEFINE m == doc[n].parent
<1>5. m \in Node /\ m \in 1 .. n - 1
  BY <1>1, <1>4, Nodes DEF UpFrom
<1>6. UpFrom(n) = {n} \cup UpFrom(m)
  BY <1>2, <1>5, Nodes
<1>7. m \in Wrong /\ m < n
  BY <1>1, <1>2, <1>3, <1>5, <1>6
<1> HIDE DEF Wrong, m
<1>8. m \in Nat /\ n \in Nat
  BY <1>1, <1>3, <1>5
<1> QED BY <1>2, <1>7, <1>8

\* At first the whole document waits.
LEMMA InitIInv ==
  ASSUME Init
  PROVE  IInv
<1>1. pending = <<[do |-> "apply", node |-> 1]>>
  <2>1. Each("apply", <<1>>) = [i \in 1 .. 1 |-> [do |-> "apply", node |-> 1]]
    BY DEF Each
  <2> QED BY <2>1 DEF Init
<1>2. doc \in Documents /\ sheet \in Sheets /\ output = <<>>
  BY DEF Init
<1>3. 1 \in Node
  BY <1>2, StylesheetsAssumption, ParentFirst DEF Node
<1>4. Typed
  <2>1. [do |-> "apply", node |-> 1] \in ToDo
    BY <1>3 DEF ToDo
  <2> QED BY <1>1, <1>2, <2>1 DEF Typed
<1>5. DOMAIN pending = {1} /\ pending[1].do = "apply" /\ pending[1].node = 1
  BY <1>1
<1>6. DOMAIN output = {} /\ Len(output) = 0
  BY <1>2
<1>7. UpFrom(1) = {1}
  BY <1>3, <1>4, Nodes
<1>8. InLine
  BY <1>5 DEF InLine
<1>9. HeaderClosed
  BY <1>5, <1>7 DEF HeaderClosed
<1>10. HeaderStaysOut /\ TextAlone /\ Lines
  BY <1>6 DEF HeaderStaysOut, TextAlone, Lines
<1>11. OnTheWay
  <2>1. \A n \in BodyNodes(Wanted) : Leads(pending[1], n)
    BY <1>4, <1>5, AllInTheFirst DEF Leads, BodyNodes
  <2> QED BY <1>5, <1>6, <2>1 DEF OnTheWay, Firsts
<1>12. Numbers
  <2>1. ~InASentence(1)
    BY <1>7 DEF InASentence
  <2> QED BY <1>5, <1>6, <2>1 DEF Numbers, Firsts
<1>13. AtWork
  <2> DEFINE template == Template(doc[1].kind)
  <2>1. doc[1].kind \in Kind
    BY <1>3, <1>4, Nodes
  <2>2. Len(template) \in 0 .. 6
    BY <1>2, <2>1, Shapes
  <2>3. sheet = "oneWordPerLine" /\ doc[1].kind \in Token => Len(template) = 6
    BY <1>2, <2>1, Single, LineOfSix
  <2>4. Front(1, Len(template))
    <3>1. \A j \in 1 .. Len(template) - Len(template) : FALSE
      BY <2>2
    <3> HIDE DEF template
    <3>2. Len(template) \in 0 .. Len(template)
      BY <2>2
    <3> QED BY <1>5, <3>1, <3>2 DEF Front, template
  <2>5. Columns(1, Len(template))
    <3> HIDE DEF template
    <3>1. 0 % 6 = 0 /\ 6 % 6 = 0 /\ 6 \notin 1 .. 6 - 1
      OBVIOUS
    <3> SUFFICES ASSUME sheet = "oneWordPerLine"
                 PROVE  /\ Len(output) % 6 = IF doc[1].kind \in Token THEN Len(template) % 6 ELSE 0
                        /\ doc[1].kind \in Token => Len(template) \notin 1 .. 6 - 1
      BY LineOfSix DEF Columns
    <3> QED BY <1>6, <2>3, <3>1
  <2>6. Numbered(1, Len(template))
    <3>1. ~(Len(template) < Len(template))
      BY <2>2
    <3> QED BY <3>1 DEF Numbered
  <2>7. Len(template) \in Nat
    BY <2>2
  <2> HIDE DEF template
  <2> QED BY <1>3, <2>4, <2>5, <2>6, <2>7 DEF AtWork
<1> QED BY <1>4, <1>8, <1>9, <1>10, <1>11, <1>12, <1>13 DEF IInv

\* Types.
LEMMA TypedKept ==
  ASSUME Typed, Step
  PROVE  Typed'
<1>1. UNCHANGED <<doc, sheet>>
  BY DEF Step
<1>2. ToDo' = ToDo /\ Result' = Result
  BY <1>1, Same
<1>3. CASE Apply
  BY <1>1, <1>2, <1>3, Applied, Positions DEF Typed
<1>4. CASE Descend
  BY <1>1, <1>2, <1>4, Descended, Positions DEF Typed
<1>5. CASE Write
  BY <1>1, <1>2, <1>5, WrittenOut, Positions DEF Typed
<1> QED BY <1>3, <1>4, <1>5 DEF Step

\* justTheWords.xsl has no template that writes anything but text.
LEMMA TextAloneKept ==
  ASSUME Typed, AtWork, TextAlone, Step
  PROVE  TextAlone'
<1>1. UNCHANGED <<doc, sheet>>
  BY DEF Step
<1>2. CASE Apply \/ Descend
  BY <1>1, <1>2, Applied, Descended DEF TextAlone
<1>3. CASE Write
  <2> SUFFICES ASSUME sheet = "justTheWords"
               PROVE  \A i \in DOMAIN output' : output'[i].value = "text"
    BY <1>1 DEF TextAlone
  <2>1. PICK p \in Node, c \in Nat : Front(p, c)
    BY DEF AtWork
  <2>2. /\ c < Len(Template(doc[p].kind))
        /\ Template(doc[p].kind)[c + 1] = pending[1].do
        /\ Len(Template(doc[p].kind)) \in Nat
    BY <1>1, <1>3, <2>1, FrontWritten, Nodes, Shapes DEF Typed
  <2>3. c + 1 \in 1 .. Len(Template(doc[p].kind))
    BY <2>2
  <2>4. pending[1].do \in {"text", "children"}
    BY <2>2, <2>3, Nodes, Single DEF Typed
  <2>5. /\ DOMAIN output = 1 .. Len(output) /\ Len(output) \in Nat
        /\ Len(output') = Len(output) + 1 /\ DOMAIN output' = 1 .. Len(output')
        /\ \A i \in 1 .. Len(output) : output'[i] = output[i]
        /\ output'[Len(output')] = [value |-> pending[1].do, of |-> Current]
        /\ pending[1].do # "children"
    BY <1>3, WrittenOut
  <2>6. \A i \in 1 .. Len(output) : output'[i].value = "text"
    BY <2>5 DEF TextAlone
  <2>7. output'[Len(output')].value = "text"
    BY <2>4, <2>5
  <2> QED BY <2>5, <2>6, <2>7
<1> QED BY <1>2, <1>3 DEF Step

\* One step of the processor.
LEMMA StepIInv ==
  ASSUME IInv, Step
  PROVE  IInv'
<1>1. Typed /\ Ordered /\ TextAlone /\ Lines /\ Numbers /\ AtWork
  BY DEF IInv, Ordered
<1>2. UNCHANGED <<doc, sheet>>
  BY DEF Step
<1>3. Typed' /\ TextAlone'
  BY <1>1, TypedKept, TextAloneKept
<1>4. Node' = Node
  BY <1>2, Same
<1>5. CASE Apply
  <2>1. Ordered'
    BY <1>1, <1>2, <1>5, ApplyKeepsOrder
  <2>2. PICK n \in Node : n = Current
    BY <1>1, <1>5, Applied, Foremost
  <2>3. Front(n, 0)'
    BY <1>1, <1>2, <1>5, <2>2, FrontApplied
  <2>4. Columns(n, 0)'
    BY <1>1, <1>2, <1>5, <2>2, ColumnsApplied
  <2>5. Numbered(n, 0)' /\ Numbers'
    BY <1>1, <1>2, <1>5, <2>2, NumbersApplied
  <2>6. AtWork'
    <3>1. 0 \in Nat
      OBVIOUS
    <3> QED BY <1>4, <2>3, <2>4, <2>5, <3>1 DEF AtWork
  <2>7. Lines'
    BY <1>1, <1>2, <1>5, Applied DEF Lines
  <2> QED BY <1>3, <2>1, <2>5, <2>6, <2>7 DEF IInv, Ordered
<1>6. CASE Descend
  <2>1. Ordered'
    BY <1>1, <1>2, <1>6, DescendKeepsOrder
  <2>2. PICK p \in Node, c \in Nat : Front(p, c) /\ Columns(p, c) /\ Numbered(p, c)
    BY <1>1 DEF AtWork
  <2>3. Front(p, c + 1)'
    BY <1>1, <1>2, <1>6, <2>2, FrontDescended
  <2>4. Columns(p, c + 1)'
    BY <1>1, <1>2, <1>6, <2>2, ColumnsDescended
  <2>5. Numbered(p, c + 1)' /\ Numbers'
    BY <1>1, <1>2, <1>6, <2>2, NumbersDescended
  <2>6. AtWork'
    <3>1. c + 1 \in Nat
      OBVIOUS
    <3> QED BY <1>4, <2>3, <2>4, <2>5, <3>1 DEF AtWork
  <2>7. Lines'
    BY <1>1, <1>2, <1>6, Descended DEF Lines
  <2> QED BY <1>3, <2>1, <2>5, <2>6, <2>7 DEF IInv, Ordered
<1>7. CASE Write
  <2>1. Ordered'
    BY <1>1, <1>2, <1>7, WriteKeepsOrder
  <2>2. PICK p \in Node, c \in Nat : Front(p, c) /\ Columns(p, c) /\ Numbered(p, c)
    BY <1>1 DEF AtWork
  <2>3. Front(p, c + 1)'
    BY <1>1, <1>2, <1>7, <2>2, FrontWritten
  <2>4. Columns(p, c + 1)' /\ Lines'
    BY <1>1, <1>2, <1>7, <2>2, ColumnWritten
  <2>5. Numbered(p, c + 1)' /\ Numbers'
    BY <1>1, <1>2, <1>7, <2>2, NumbersWritten
  <2>6. AtWork'
    <3>1. c + 1 \in Nat
      OBVIOUS
    <3> QED BY <1>4, <2>3, <2>4, <2>5, <3>1 DEF AtWork
  <2> QED BY <1>3, <2>1, <2>4, <2>5, <2>6 DEF IInv, Ordered
<1> QED BY <1>5, <1>6, <1>7 DEF Step

\* Nothing is done.
LEMMA StutterIInv ==
  ASSUME IInv, UNCHANGED vars
  PROVE  IInv'
<1>1. UNCHANGED <<doc, sheet>> /\ pending' = pending /\ output' = output
  BY DEF vars
<1>2. /\ ToDo' = ToDo /\ Result' = Result /\ Node' = Node
      /\ \A n : UpFrom(n)' = UpFrom(n) /\ Below(n)' = Below(n) /\ InASentence(n)' = InASentence(n)
      /\ \A n, k : Inside(n, k)' = Inside(n, k)
      /\ Wanted' = Wanted /\ First' = First
      /\ \A k : Template(k)' = Template(k)
      /\ \A e, n : Leads(e, n)' = Leads(e, n)
  BY <1>1, Same
<1>3. BodyNodes(Wanted)' = BodyNodes(Wanted)
  BY <1>1, <1>2 DEF BodyNodes
<1>4. Firsts' = Firsts /\ \A n : NumberOf(n)' = NumberOf(n)
  BY <1>1, <1>2 DEF Firsts, NumberOf
<1>5. Typed'
  BY <1>1, <1>2 DEF IInv, Typed
<1>6. InLine' /\ HeaderClosed' /\ HeaderStaysOut'
  BY <1>1, <1>2 DEF IInv, InLine, HeaderClosed, HeaderStaysOut
<1>7. OnTheWay'
  BY <1>1, <1>2, <1>3, <1>4 DEF IInv, OnTheWay
<1>8. TextAlone' /\ Lines'
  BY <1>1 DEF IInv, TextAlone, Lines
<1>9. Numbers'
  BY <1>1, <1>2, <1>4 DEF IInv, Numbers
<1>10. AtWork'
  <2>1. PICK p \in Node, c \in Nat : Front(p, c) /\ Columns(p, c) /\ Numbered(p, c)
    BY DEF IInv, AtWork
  <2>2. Front(p, c)'
    BY <1>1, <1>2, <2>1 DEF Front
  <2>3. Columns(p, c)'
    BY <1>1, <2>1 DEF Columns
  <2>4. Numbered(p, c)'
    BY <1>1, <1>2, <1>4, <2>1 DEF Numbered
  <2> QED BY <1>2, <2>2, <2>3, <2>4 DEF AtWork
<1> QED BY <1>5, <1>6, <1>7, <1>8, <1>9, <1>10 DEF IInv

(* The order of what waits, the columns of a line and the numbers of the   *)
(* sentences, in every state of the processor.                             *)
THEOREM Inductive == Spec => []IInv
<1>1. Init => IInv
  BY InitIInv
<1>2. IInv /\ [Next]_vars => IInv'
  <2> SUFFICES ASSUME IInv, [Next]_vars PROVE IInv'
    OBVIOUS
  <2>1. CASE Step
    BY <2>1, StepIInv
  <2>2. CASE UNCHANGED vars
    BY <2>2, StutterIInv
  <2> QED BY <2>1, <2>2 DEF Next, Finished
<1> QED BY <1>1, <1>2, PTL DEF Spec

-----------------------------------------------------------------------------
(* What comes out.                                                         *)

(* The metadata of a text never gets among its words: the empty template   *)
(* for teiHeader cuts off all that is below it, in every stylesheet.       *)
THEOREM HeaderOut == Spec => []HeaderStaysOut
<1>1. IInv => HeaderStaysOut
  BY DEF IInv
<1> QED BY <1>1, Inductive, PTL

\* What is written first of each wanted node comes out in order, none left out.
LEMMA WantedOneByOne ==
  ASSUME IInv
  PROVE  OneByOne(Firsts, BodyNodes(Wanted))
<1>1. Typed /\ OnTheWay
  BY DEF IInv
<1>2. ASSUME NEW i \in Firsts, NEW n \in BodyNodes(Wanted), n < output[i].of
      PROVE  \E j \in Firsts : output[j].of = n
  <2>1. ASSUME NEW j \in DOMAIN pending, Leads(pending[j], n)
        PROVE  FALSE
    <3>1. n \in Node /\ i \in DOMAIN output
      BY DEF BodyNodes, Firsts
    <3>2. pending[j].node \in UpFrom(n)
      BY <1>1, <2>1, <3>1, Nodes DEF Leads
    <3>3. pending[j].node \in 1 .. n /\ n \in Nat
      BY <1>1, <3>1, <3>2, Nodes
    <3>4. output[i].of <= pending[j].node /\ output[i].of \in Nat
      BY <1>1, <3>1, Results DEF OnTheWay
    <3> QED BY <1>2, <3>3, <3>4
  <2> QED BY <1>1, <2>1 DEF OnTheWay
<1>3. ASSUME Done, NEW n \in BodyNodes(Wanted)
      PROVE  \E i \in Firsts : output[i].of = n
  <2>1. DOMAIN pending = {}
    BY <1>3 DEF Done
  <2> QED BY <1>1, <2>1 DEF OnTheWay
<1>4. /\ \A i \in Firsts : output[i].of \in BodyNodes(Wanted)
      /\ \A i, j \in Firsts : i < j => output[i].of < output[j].of
  BY <1>1 DEF OnTheWay
<1> QED BY <1>2, <1>3, <1>4 DEF OneByOne

(* justTheWords.xsl: all text of the body and nothing else comes out, in   *)
(* the order of the document, whatever elements it is in.                  *)
THEOREM WordsInOrder == Spec => []AllWordsInOrder
<1>1. IInv => AllWordsInOrder
  <2> SUFFICES ASSUME IInv, sheet = "justTheWords"
               PROVE  /\ \A i \in DOMAIN output : output[i].value = "text"
                      /\ OneByOne(DOMAIN output, BodyNodes(TextNode))
    BY DEF AllWordsInOrder
  <2>1. \A i \in DOMAIN output : output[i].value = "text"
    BY DEF IInv, TextAlone
  <2>2. Firsts = DOMAIN output /\ Wanted = TextNode
    BY <2>1 DEF Firsts, First, Wanted
  <2> QED BY <2>1, <2>2, WantedOneByOne
<1> QED BY <1>1, Inductive, PTL

(* justTheCodes.xsl: every token gives one code, in the order of the       *)
(* document, and it stands under the number of its own sentence.           *)
THEOREM CodesInSentences == Spec => []CodesUnderTheirSentence
<1>1. IInv => CodesUnderTheirSentence
  <2> SUFFICES ASSUME IInv, sheet = "justTheCodes"
               PROVE  CodesUnderTheirSentence
    BY DEF CodesUnderTheirSentence
  <2>1. Firsts = {i \in DOMAIN output : output[i].value = "c5"} /\ Wanted = Token
    BY DEF Firsts, First, Wanted
  <2>2. \A i \in Firsts : Inside(output[i].of, "s") =>
          \E j \in 1 .. i - 1 :
            /\ output[j].value = "n" /\ output[j].of \in UpFrom(output[i].of)
            /\ \A k \in j + 1 .. i - 1 : output[k].value # "n"
    BY DEF IInv, Numbers
  <2> QED BY <2>1, <2>2, WantedOneByOne DEF CodesUnderTheirSentence
<1> QED BY <1>1, Inductive, PTL

(* oneWordPerLine.xsl feeds a database: one line per token, all columns    *)
(* in each, and nothing between the lines.                                 *)
THEOREM LinesOfTokens == Spec => []OneLinePerToken
<1>1. IInv => OneLinePerToken
  <2> SUFFICES ASSUME IInv, sheet = "oneWordPerLine"
               PROVE  OneLinePerToken
    BY DEF OneLinePerToken
  <2> DEFINE column(i) == ((i - 1) % Len(Line)) + 1
             lines == {i \in DOMAIN output : column(i) = 1}
  <2>1. Typed /\ Len(output) \in Nat /\ DOMAIN output = 1 .. Len(output)
    BY Results DEF IInv
  <2>2. \A i \in DOMAIN output :
          /\ (i - 1) % 6 \in 0 .. 5 /\ column(i) = ((i - 1) % 6) + 1
          /\ output[i].value = Line[column(i)]
          /\ (i - 1) % 6 # 0 => output[i].of = output[i - 1].of
    BY <2>1, LineOfSix DEF IInv, Lines
  <2>3. \A k \in 0 .. 5 : Line[k + 1] = "id" <=> k + 1 = 1
    BY DEF Line
  <2>4. lines = Firsts
    <3> SUFFICES ASSUME NEW i \in DOMAIN output
                 PROVE  column(i) = 1 <=> output[i].value = "id"
      BY DEF Firsts, First
    <3> HIDE DEF column
    <3> QED BY <2>2, <2>3
  <2>5. OneByOne(lines, BodyNodes(Token))
    <3>1. Wanted = Token
      BY DEF Wanted
    <3> HIDE DEF lines
    <3> QED BY <2>4, <3>1, WantedOneByOne
  <2>6. \A i \in DOMAIN output \ lines : output[i].of = output[i - 1].of
    <3> HIDE DEF column
    <3> SUFFICES ASSUME NEW i \in DOMAIN output, column(i) # 1
                 PROVE  output[i].of = output[i - 1].of
      OBVIOUS
    <3>1. (i - 1) % 6 # 0
      BY <2>2
    <3> QED BY <2>2, <3>1
  <2>7. ASSUME Done
        PROVE  column(Len(output) + 1) = 1
    <3>1. PICK p \in Node, c \in Nat : Front(p, c) /\ Columns(p, c)
      BY DEF IInv, AtWork
    <3> DEFINE template == Template(doc[p].kind)
    <3>2. /\ c \in 0 .. Len(template)
          /\ \A j \in 1 .. Len(template) - c : FALSE
      BY <2>7, <3>1 DEF Front, Done
    <3>3. Len(template) \in 0 .. 6 /\ (doc[p].kind \in Token => template = Line)
      BY <2>1, Nodes, Shapes, Single DEF Typed
    <3> HIDE DEF template
    <3>4. c = Len(template)
      <4>1. ~(1 \in 1 .. Len(template) - c)
        BY <3>2
      <4> DEFINE length == Len(template)
      <4>2. length \in 0 .. 6 /\ c \in 0 .. length /\ ~(1 \in 1 .. length - c)
        BY <3>2, <3>3, <4>1
      <4> HIDE DEF length
      <4>3. c = length
        BY <4>2
      <4> QED BY <4>3 DEF length
    <3>5. Len(output) % 6 = 0
      <4>1. ASSUME doc[p].kind \in Token
            PROVE  c % 6 = 0
        <5>1. c = 6
          BY <3>3, <3>4, <4>1, LineOfSix
        <5> QED BY <5>1
      <4> QED BY <3>1, <4>1, LineOfSix DEF Columns
    <3>6. (Len(output) + 1) - 1 = Len(output)
      BY <2>1
    <3> QED BY <3>5, <3>6, LineOfSix
  <2>8. \A i \in DOMAIN output : output[i].value = Line[column(i)]
    BY <2>2
  <2> QED BY <2>5, <2>6, <2>7, <2>8 DEF OneLinePerToken
<1> QED BY <1>1, Inductive, PTL

(* What is to be done has the types that the processor expects and never   *)
(* grows beyond the nodes of the document and the columns of a line.       *)
THEOREM TypeCorrect == Spec => []TypeOK
<1>1. IInv => TypeOK
  <2> SUFFICES ASSUME IInv PROVE TypeOK
    OBVIOUS
  <2>1. Typed /\ InLine
    BY DEF IInv
  <2>2. pending \in Seq(ToDo) /\ Len(pending) \in Nat /\ DOMAIN pending = 1 .. Len(pending)
    BY <2>1, LenProperties DEF Typed
  <2>3. Len(doc) \in Nat /\ Node = 1 .. Len(doc)
    BY <2>1, Nodes
  <2>4. PICK k \in 0 .. 6 : \A j \in DOMAIN pending : j > k => pending[j].do = "apply"
    <3>1. PICK p \in Node, c \in Nat : Front(p, c)
      BY DEF IInv, AtWork
    <3> DEFINE length == Len(Template(doc[p].kind))
    <3>2. length \in 0 .. 6
      BY <2>1, Nodes, Shapes DEF Typed
    <3>3. c \in 0 .. length /\ \A j \in DOMAIN pending : j > length - c => pending[j].do = "apply"
      BY <3>1 DEF Front
    <3> HIDE DEF length
    <3>4. length - c \in 0 .. 6
      BY <3>2, <3>3
    <3> QED BY <3>3, <3>4
  <2>5. Len(pending) <= Len(doc) + 6
    <3> SUFFICES ASSUME ~(Len(pending) <= k)
                 PROVE  Len(pending) <= Len(doc) + 6
      BY <2>2, <2>3
    <3> DEFINE rest == Len(pending) - k
               node == [j \in 1 .. rest |-> pending[k + j].node]
    <3>1. rest \in Nat /\ \A j \in 1 .. rest : k + j \in DOMAIN pending /\ k + j > k
      BY <2>2
    <3>2. \A j \in 1 .. rest : /\ pending[k + j].do = "apply" /\ pending[k + j].node \in Node
                               /\ pending[k + j].node \in Below(pending[k + j].node)
      <4> SUFFICES ASSUME NEW i \in DOMAIN pending, i > k
                   PROVE  /\ pending[i].do = "apply" /\ pending[i].node \in Node
                          /\ pending[i].node \in Below(pending[i].node)
        BY <3>1
      <4>1. pending[i] \in ToDo
        BY <2>2, ElementOfSeq
      <4>2. pending[i].node \in Node
        BY <4>1 DEF ToDo
      <4> QED BY <2>1, <2>4, <4>2, Nodes DEF Below
    <3> HIDE DEF rest
    <3>3. ASSUME NEW i \in 1 .. rest, NEW j \in 1 .. rest, i < j
          PROVE  node[i] < node[j]
      <4>1. k + i < k + j
        BY <3>3
      <4>2. pending[k + i].node < pending[k + j].node
        BY <2>1, <3>1, <3>2, <4>1 DEF InLine
      <4> QED BY <4>2
    <3>4. node \in [1 .. rest -> Node]
      BY <3>2
    <3> HIDE DEF node
    <3>5. \A i, j \in 1 .. rest : node[i] = node[j] => i = j
      <4> SUFFICES ASSUME NEW i \in 1 .. rest, NEW j \in 1 .. rest, node[i] = node[j], i # j
                   PROVE  FALSE
        OBVIOUS
      <4>1. i < j \/ j < i
        BY <3>1
      <4>2. node[i] \in Nat /\ node[j] \in Nat
        BY <2>3, <3>4
      <4> QED BY <3>3, <4>1, <4>2
    <3>6. node \in Injection(1 .. rest, Node)
      BY <3>4, <3>5 DEF Injection, IsInjective
    <3>7. /\ IsFiniteSet(Node) /\ Cardinality(Node) = Len(doc)
          /\ IsFiniteSet(1 .. rest) /\ Cardinality(1 .. rest) = rest
      <4>1. ASSUME NEW n \in Nat
            PROVE  IsFiniteSet(1 .. n) /\ Cardinality(1 .. n) = n
        <5>1. 1 \in Int /\ n \in Int /\ (IF 1 > n THEN 0 ELSE n - 1 + 1) = n
          OBVIOUS
        <5> QED BY <5>1, FS_Interval
      <4> QED BY <2>3, <3>1, <4>1
    <3>8. rest <= Len(doc)
      BY <3>6, <3>7, FS_Injection
    <3> QED BY <2>2, <2>3, <3>8 DEF rest
  <2> QED BY <2>1, <2>5, LineOfSix DEF TypeOK, Typed, ToDo, Result
<1> QED BY <1>1, Inductive, PTL
=============================================================================
