--------------------------- MODULE MCStylesheets ---------------------------
(* Instances of Stylesheets: every document of at most Size nodes that is  *)
(* put together as the BNC puts its documents together.                    *)
EXTENDS Stylesheets

CONSTANT Size

MCSheets == {"justTheText", "justTheWords", "justTheCodes", "oneWordPerLine"}

MayContain(kind) ==
  CASE kind = "bncDoc" -> {"teiHeader", "wtext", "stext"}
    [] kind \in {"wtext", "stext"} -> {"p", "s", "blank"}
    [] kind = "p" -> {"s", "blank"}
    [] kind = "s" -> {"w", "c", "blank"}
    [] kind \in {"teiHeader", "w", "c"} -> {"word"}
    [] OTHER -> {}

\* The nodes that can still get a child after the last node of d: itself and above.
Open(d) == UpIn(d, Len(d))
\* A node k below p may come next: nodes of text do not touch, the header is first,
\* and there is one body.
Fits(d, k, p) ==
  /\ k \in MayContain(d[p].kind)
  /\ k \in TextNode => ~\E i \in DOMAIN d : i = Len(d) /\ d[i].parent = p /\ d[i].kind \in TextNode
  /\ k = "teiHeader" => Len(d) = 1
  /\ k \in {"wtext", "stext"} => \A i \in DOMAIN d : d[i].parent = 1 => d[i].kind = "teiHeader"
Successors(d) == {x \in [kind : Element \cup TextNode, parent : Open(d)] : Fits(d, x.kind, x.parent)}
OfSize[n \in 1 .. Size] ==
  IF n = 1 THEN {<<[kind |-> "bncDoc", parent |-> 0]>>}
           ELSE UNION {{Append(d, x) : x \in Successors(d)} : d \in OfSize[n - 1]}
MCDocuments == UNION {OfSize[n] : n \in 1 .. Size}
===========================================================================
