--------------------------- MODULE MCXMLExtract ---------------------------
(* Instances of XMLExtract: two files of one name in different directories *)
(* and a third one; two of them make xsltproc print more than a pipe holds.*)
EXTENDS XMLExtract

CONSTANTS A, A2, B, outA, outB

MCFile == {A, A2, B}
MCName == {outA, outB}
MCOutName == [f \in MCFile |-> IF f = B THEN outB ELSE outA]
MCPieces == [f \in MCFile |-> IF f = A THEN 2 ELSE 1]
MCWarnings == [f \in MCFile |-> IF f = A2 THEN 0 ELSE 2]
===========================================================================
