--------------------------- MODULE CorpusScripts ---------------------------
(***************************************************************************)
(* XmlDocParser and XMLExtract at work on one corpus.  They know nothing   *)
(* of each other; but XmlDocParser saves titles into the directory that    *)
(* XMLExtract's processes redirect their texts to, under the same names    *)
(* (XmlDocParser.java:25 and 60, XMLExtract.java:21 and 41).  They run in  *)
(* any order, one after the other or at once.                              *)
(*                                                                         *)
(* dir is the file system both see: the three output directories of        *)
(* XmlDocParser, of which "title" is XMLExtract's directory as well.  Both *)
(* walks return the same list, since the corpus is at rest.                *)
(***************************************************************************)
EXTENDS Naturals, Sequences, FiniteSets

CONSTANTS
  File, Name, OutName, MaxFiles, Missing,     \* of both
  Content, Malformed, Absent, NoType,         \* of XmlDocParser
  Pieces, Warnings, PipeSize, MaxLive         \* of XMLExtract

ASSUME CorpusScriptsAssumption ==
  /\ OutName \in [File -> Name] /\ MaxFiles \in Nat
  /\ Pieces \in [File -> Nat] /\ Warnings \in [File -> Nat]
  /\ PipeSize \in Nat \ {0} /\ MaxLive \in Nat \ {0}

VARIABLES
  list, dir,
  holds, at, save, writers, console, runs,
  next, reported, done, jvm, child, written, warned, piped

P == INSTANCE XmlDocParser WITH out <- dir, MaxRuns <- 1
X == INSTANCE XMLExtract WITH out <- dir["title"]

parser == <<holds, at, save, writers, console, runs>>
extractor == <<next, reported, done, jvm, child, written, warned, piped>>
vars == <<list, dir, parser, extractor>>

Init == P!Init /\ X!Init

-----------------------------------------------------------------------------
(* A file that cmd.exe has opened for output, for its process, cannot be   *)
(* opened for writing by anybody else, nor can cmd.exe open one that       *)
(* somebody else is writing.  Neither waits: the opening fails.  (A writer *)
(* that a failed save has left open may be collected at once, and is taken *)
(* to be.)                                                                 *)
ProcessHas(n) == \E k \in X!Live : child[k] = "xsltproc" /\ X!Target(k) = n
ParserHas(n) == ~P!Done /\ at \in {"write", "close"} /\ P!Dir = "title" /\ P!Target = n

OpensTitle == P!At("open") /\ P!Dir = "title"

ParserStep ==
  /\ P!Step
  /\ OpensTitle /\ ProcessHas(P!Target) => P!OpenFails
  /\ UNCHANGED extractor

\* What a step of process k may leave in its output file.
After(k) ==
  {dir["title"][X!Target(k)], <<>>} \cup
  (IF child[k] = "xsltproc"
     THEN {Append(dir["title"][X!Target(k)], [by |-> k, piece |-> written[k] + 1])}
     ELSE {})

ProcessStep(k) ==
  /\ \E text \in After(k) : dir' = [dir EXCEPT !["title"][X!Target(k)] = text]
  /\ X!Child(k)
  /\ child[k] = "cmd" /\ ParserHas(X!Target(k)) => X!RedirectFails(k)
  /\ UNCHANGED parser

JavaStep ==
  /\ UNCHANGED <<list, dir, parser>>
  /\ X!Main \/ X!Killed \/ \E k \in X!Place : X!Collected(k)

Finished == P!Done /\ jvm = "gone" /\ X!Live = {} /\ UNCHANGED vars

Next ==
  \/ ParserStep
  \/ JavaStep
  \/ \E k \in DOMAIN list : ProcessStep(k)
  \/ Finished

Spec == Init /\ [][Next]_vars

-----------------------------------------------------------------------------
(* Properties.                                                             *)

TitleOf(f) == P!TextFor("title", holds[f])

\* What one process for name n has written since it opened and emptied the file.
TextsUnder(n) ==
  {X!TextOf(k, written[k]) : k \in {j \in DOMAIN list : X!Target(j) = n /\ X!Opened(j)}}

(* However the two programs meet in the directory of titles, no file of it *)
(* gets a mixture: it has one title, or what one process has written, or   *)
(* the beginning of a title whose save was cut short.                      *)
NeverMixed ==
  \A n \in Name :
    \/ dir["title"][n] = Missing
    \/ \E f \in File : OutName[f] = n /\ dir["title"][n] \in P!Beginnings(TitleOf(f))
    \/ dir["title"][n] \in TextsUnder(n)

(* With XMLExtract about, the line "parsed" is no longer true of the       *)
(* title, but nothing else takes its place than what a process has written *)
(* under this very name; keywords and type stay.                           *)
ParsedTitleOrText ==
  \A k \in DOMAIN console :
    LET n == OutName[list[k]] IN
    console[k] = "parsed" /\ P!Last(k) /\ ~P!Busy(n) =>
      /\ \A d \in {"keyword", "type"} : dir[d][n] = P!TextFor(d, holds[list[k]])
      /\ dir["title"][n] \in {TitleOf(list[k])} \cup TextsUnder(n)

(* The text of a process that has succeeded, for a name no other listed    *)
(* file has, is whole in its file, until XmlDocParser comes to save the    *)
(* title of that file: the listed place it is at, or one it has done.      *)
ExtractedTextOrTitle ==
  \A k \in DOMAIN list :
    LET n == OutName[list[k]] IN
    /\ child[k] = "succeeded"
    /\ \A j \in DOMAIN list : OutName[list[j]] = n => j = k
    => \/ dir["title"][n] = X!TextOf(k, Pieces[list[k]])
       \/ /\ k <= Len(console) \/ P!Busy(n)
          /\ dir["title"][n] \in P!Beginnings(TitleOf(list[k]))

(* XmlDocParser "gets title and type of the articles" (XmlDocParser.java:  *)
(* 20), XMLExtract "extracts the content of given nodes and puts it out"   *)
(* (XMLExtract.java:14): when both scripts are over and nothing has        *)
(* failed, each file has its title in some directory, and its text in one. *)
NothingFailed ==
  /\ P!Done /\ done /\ X!Live = {}
  /\ \A k \in DOMAIN list : console[k] = "parsed" /\ child[k] = "succeeded"
TitleAndText ==
  NothingFailed =>
    \A f \in {list[k] : k \in DOMAIN list} :
      /\ \E d \in DOMAIN dir : dir[d][OutName[f]] = TitleOf(f)
      /\ \E d \in DOMAIN dir, k \in DOMAIN list :
           list[k] = f /\ dir[d][OutName[f]] = X!TextOf(k, Pieces[f])

=============================================================================
