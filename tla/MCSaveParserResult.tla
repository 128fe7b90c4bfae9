------------------------ MODULE MCSaveParserResult ------------------------
(* Instances of SaveParserResult: more runs than the server has room for.  *)
EXTENDS SaveParserResult
CONSTANTS r1, r2, r3
MCRun == {r1, r2, r3}
===========================================================================
