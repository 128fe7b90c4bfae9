-------------------------- MODULE MCCorpusScripts --------------------------
(* Instances of CorpusScripts: two input files of one name in different    *)
(* directories and a third one, all holding the same document; its texts   *)
(* come in two pieces, and no process prints a warning.                    *)
EXTENDS CorpusScripts

CONSTANTS A, A2, B, outA, outB, w1, w2, fiction

MCFile == {A, A2, B}
MCName == {outA, outB}
MCOutName == [f \in MCFile |-> IF f = B THEN outB ELSE outA]

Written == [bibl |-> <<w1, w2>>, titleStmt |-> <<w1>>, keywords |-> <<>>,
            wtext |-> fiction, stext |-> Absent]
MCContents == {Written}

MCPieces == [f \in MCFile |-> 2]
MCWarnings == [f \in MCFile |-> 0]
============================================================================
