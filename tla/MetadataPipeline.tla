-------------------------- MODULE MetadataPipeline --------------------------
(***************************************************************************)
(* XmlDocParser.main from its first line to its last: the walk of FileUtil *)
(* puts files on allFile, then parseXml takes them from it one by one.     *)
(* One run of the program, with empty output directories, over a corpus    *)
(* that nobody changes.                                                    *)
(***************************************************************************)
EXTENDS FileUtil

CONSTANTS Name, OutName, Content, Malformed, Absent, NoType, Missing

ASSUME MetadataPipelineAssumption == OutName \in [Path -> Name]

VARIABLES holds, at, save, out, writers, console, runs

walk == vars
parser == <<holds, at, save, out, writers, console, runs>>

\* allFile is the list the walk fills and the list the loop of main reads.
P == INSTANCE XmlDocParser WITH File <- Path, list <- fileList, MaxFiles <- 0, MaxRuns <- 1

\* A link holds what it leads to; only files hold anything.
Readable(p) == disk[p] = "file" /\ disk[Canonical[p]] = "file"
Holdings ==
  {c \in [Path -> Content] :
     \A p \in Path : /\ ~Readable(p) => c[p] = Malformed
                     /\ c[p] = c[Canonical[p]] \/ ~Readable(p)}

MainInit == Init /\ holds \in Holdings /\ P!Init

\* A StackOverflowError passes main, too: nothing is parsed.
WalkStep == Walk /\ UNCHANGED parser
ParseStep == Returned /\ P!Step /\ UNCHANGED walk

Over == overflowed \/ (Returned /\ P!Done)
MainFinished == Over /\ UNCHANGED <<walk, parser>>

MainNext == WalkStep \/ ParseStep \/ MainFinished

MainSpec == MainInit /\ [][MainNext]_<<walk, parser>>

-----------------------------------------------------------------------------
(* Properties.                                                             *)

OutputDirectory == {"title", "keyword", "type"}
Complete(f) == \A d \in OutputDirectory : out[d][OutName[f]] = P!TextFor(d, holds[f])

(* What somebody who starts the script may conclude from its output.  When *)
(* it is over, each file of the corpus has its title, its keywords and its *)
(* type, whole, under its name, unless the console has an error line for   *)
(* it, another file of that name stands later on the list, or the walk has *)
(* printed an error for a directory without which it cannot be reached.    *)
EachFileAccountedFor ==
  Over /\ ~overflowed =>
    \A f \in FilesBelow(reported) : \E k \in DOMAIN fileList :
      /\ fileList[k] = f
      /\ \/ console[k] = "error"
         \/ Complete(f)
         \/ \E j \in k + 1 .. Len(fileList) : OutName[fileList[j]] = OutName[f]

(* Nothing is saved under a name that no file the walk has found has, or   *)
(* only one that cannot be parsed, whatever happens on the way.            *)
OnlyTheCorpusIsSaved ==
  \A d \in OutputDirectory, n \in Name :
    out[d][n] # Missing =>
      \E f \in Listed : OutName[f] = n /\ P!Extractable(holds[f])

=============================================================================
