-------------------------- MODULE MCXmlDocParser --------------------------
(* Instances of XmlDocParser: two input files of one name in different     *)
(* directories and a third one; documents as the corpus has them, and two  *)
(* that lack something.                                                    *)
EXTENDS XmlDocParser

CONSTANTS A, A2, B, outA, outB

MCFile == {A, A2, B}
MCName == {outA, outB}
MCOutName == [f \in MCFile |-> IF f = B THEN outB ELSE outA]

Written == [bibl |-> <<"[", "w1", "]">>, titleStmt |-> <<"w2">>,
            keywords |-> <<[word |-> "(none)", blanks |-> TRUE]>>,
            wtext |-> "FICTION", stext |-> Absent]
Spoken == [Written EXCEPT !.bibl = Absent, !.keywords = <<[word |-> "k", blanks |-> TRUE]>>,
                          !.wtext = Absent, !.stext = "CONVRSN"]
Untyped == [Written EXCEPT !.keywords = <<>>, !.wtext = NoType]
NoKeywords == [Spoken EXCEPT !.keywords = Absent]

MCDocuments == {Written, Spoken, Untyped, NoKeywords}
===========================================================================
