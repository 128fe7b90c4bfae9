---------------------------- MODULE MCFileUtil ----------------------------
(* Instances of FileUtil: a corpus directory with two subdirectories, a    *)
(* file in each directory, and one entry that may be a link.               *)
EXTENDS FileUtil

CONSTANTS texts, a, b, f, g, h, ln

MCPath == {texts, a, b, f, g, h, ln}
MCEntries ==
  [p \in MCPath |-> CASE p = texts -> {a, b, f}
                      [] p = a -> {g, ln}
                      [] p = b -> {h}
                      [] OTHER -> {}]
\* The same without the file in the corpus directory itself.
MCShort == MCPath \ {f}
MCShortEntries == [p \in MCShort |-> MCEntries[p] \ {f}]
MCShortLinkAcross == [p \in MCShort |-> IF p = ln THEN b ELSE p]
LinkTo(d) == [p \in MCPath |-> IF p = ln THEN d ELSE p]
MCNoLink == LinkTo(ln)
MCLinkUp == LinkTo(texts)
===========================================================================
