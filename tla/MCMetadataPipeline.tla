------------------------ MODULE MCMetadataPipeline ------------------------
(* Instances of MetadataPipeline: two subdirectories, a file of the same   *)
(* name in each, and a link across; a document, one without keywords, and  *)
(* no XML.                                                                 *)
EXTENDS MetadataPipeline

CONSTANTS texts, a, b, g, h, ln

MCPath == {texts, a, b, g, h, ln}
MCEntries ==
  [p \in MCPath |-> CASE p = texts -> {a, b}
                      [] p = a -> {g, ln}
                      [] p = b -> {h}
                      [] OTHER -> {}]
MCLinkAcross == [p \in MCPath |-> IF p = ln THEN b ELSE p]

\* A name is the first path that has it.
MCOutName == [p \in MCPath |-> IF p = h THEN g ELSE p]

Written == [bibl |-> <<"[", "w1", "]">>, titleStmt |-> <<"w2">>, keywords |-> <<>>,
            wtext |-> "FICTION", stext |-> Absent]
NoKeywords == [Written EXCEPT !.keywords = Absent]
MCContents == {Written, NoKeywords, Malformed}
===========================================================================
