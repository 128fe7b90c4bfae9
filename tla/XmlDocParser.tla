---------------------------- MODULE XmlDocParser ----------------------------
(***************************************************************************)
(* XmlDocParser.main and parseXml: each listed file is parsed, and title,  *)
(* keywords and type go into three files of one name in three directories, *)
(* each truncated, written and closed in turn.  One handler around all of  *)
(* it prints an error line that names no file.  The program is single      *)
(* threaded; what disturbs it is I/O that fails at any call, and being     *)
(* killed and run again over the files of earlier runs.                    *)
(***************************************************************************)
EXTENDS Naturals, Sequences, FiniteSets

CONSTANTS
  File,       \* the files a run may find
  Name,       \* names of output files
  OutName,    \* OutName[f]: the name of f with "xml" replaced by "txt"
  Content,    \* what the files may hold: documents, and Malformed ones
  Malformed,  \* no well-formed XML
  Absent,     \* an element that is missing, on the way to it or itself
  NoType,     \* the text element without the attribute "type"
  Missing,    \* an output file that does not exist
  MaxFiles,   \* bound: length of the list of files
  MaxRuns     \* bound: how often the program is started

ASSUME XmlDocParserAssumption ==
  /\ OutName \in [File -> Name]
  /\ MaxFiles \in Nat /\ MaxRuns \in Nat \ {0}

VARIABLES
  holds,    \* holds[f]: the content of input file f
  list,     \* the list getFilesUnderPath has returned to this run
  at,       \* the next call of parseXml: read, open, write or close
  save,     \* which of the three saves is under way
  out,      \* out[d][n]: the text of file n in output directory d
  writers,  \* the writers of this run opened and not closed (by the program)
  console,  \* what this run has printed: a line for each file it is done with
  runs      \* how often the program has been started

vars == <<holds, list, at, save, out, writers, console, runs>>

-----------------------------------------------------------------------------
(* What is extracted from a document: texts are sequences of tokens.       *)

Title(d) == IF d.bibl # Absent THEN d.bibl ELSE d.titleStmt
Type(d) == IF d.wtext # Absent THEN d.wtext ELSE d.stext
Extractable(d) ==
  d # Malformed /\ Absent \notin {Title(d), d.keywords, Type(d)}

WithoutBrackets(text) == SelectSeq(text, LAMBDA t : t \notin {"[", "]"})
\* A term that reads " (none) " exactly becomes empty when it is looked up; the
\* blanks around the others go when they are saved.
Keyword(term) ==
  IF term = [word |-> "(none)", blanks |-> TRUE] THEN [word |-> "", blanks |-> FALSE] ELSE term
Trimmed(keyword) == keyword.word

Directory == <<"title", "keyword", "type">>
TextFor(dir, d) ==
  CASE dir = "title" -> WithoutBrackets(Title(d))
    [] dir = "keyword" -> [i \in DOMAIN d.keywords |-> Trimmed(Keyword(d.keywords[i]))]
    [] dir = "type" -> <<Type(d)>>

-----------------------------------------------------------------------------
Done == Len(console) = Len(list)
Current == list[Len(console) + 1]
Document == holds[Current]
Target == OutName[Current]
Dir == Directory[save]
Text == TextFor(Dir, Document)
Put(text) == [out EXCEPT ![Dir][Target] = text]
Beginnings(text) == {<<>>, text} \cup {SubSeq(text, 1, n) : n \in 1 .. Len(text)}

Lists == UNION {[1 .. n -> File] : n \in 0 .. MaxFiles}

\* Mutant: the lines of the last run are not dropped.
StartKeepsConsole ==
  /\ list' \in Lists
  /\ at' = "read" /\ save' = 1
  /\ writers' = 0
  /\ UNCHANGED console

Start ==
  /\ list' \in Lists
  /\ at' = "read" /\ save' = 1
  /\ writers' = 0
  /\ console' = <<>>

Init ==
  /\ holds \in [File -> Content]
  /\ list \in Lists
  /\ at = "read" /\ save = 1
  /\ out = [d \in {"title", "keyword", "type"} |-> [n \in Name |-> Missing]]
  /\ writers = 0
  /\ console = <<>>
  /\ runs = 1

At(call) == ~Done /\ at = call

\* The loop of main goes on with the next file after either line.
PrintLine(line) ==
  /\ console' = Append(console, line)
  /\ at' = "read" /\ save' = 1

\* Mutant: the file is tried again.
CatchRetries == at' = "read" /\ save' = 1 /\ UNCHANGED <<console, writers>>

\* The exception leaves the save method, whose writer is not closed.
Catch == PrintLine("error") /\ UNCHANGED writers

\* Mutant: keywords and type are looked up when they are saved.
ExtractTitle ==
  /\ At("read")
  /\ Document # Malformed /\ Title(Document) # Absent
  /\ at' = "open"
  /\ UNCHANGED <<save, out, writers, console>>

Extract ==
  /\ At("read")
  /\ Extractable(Document)
  /\ at' = "open"
  /\ UNCHANGED <<save, out, writers, console>>

\* Whatever is missing, or a file that can no longer be read.
ExtractFails == At("read") /\ Catch /\ UNCHANGED out

\* new FileWriter creates the file, or empties the one that is there.
Open ==
  /\ At("open")
  /\ out' = Put(<<>>)
  /\ writers' = writers + 1
  /\ at' = "write"
  /\ UNCHANGED <<save, console>>

OpenFails == At("open") /\ Catch /\ UNCHANGED out

\* write(null) throws before anything is written.
WritesNull == Dir = "type" /\ Type(Document) = NoType

WriteAndFlush ==
  /\ At("write")
  /\ ~WritesNull
  /\ out' = Put(Text)
  /\ at' = "close"
  /\ UNCHANGED <<save, writers, console>>

\* Mutant: the save method handles the exception itself.
WriteFailsInSave ==
  /\ At("write")
  /\ \E t \in IF WritesNull THEN {<<>>} ELSE Beginnings(Text) : out' = Put(t)
  /\ at' = "close"
  /\ UNCHANGED <<save, writers, console>>

WriteFails ==
  /\ At("write")
  /\ \E t \in IF WritesNull THEN {<<>>} ELSE Beginnings(Text) : out' = Put(t)
  /\ Catch

\* Mutant: the file counts as parsed when its keywords are saved.
CloseTooSoon ==
  /\ At("close")
  /\ writers' = writers - 1
  /\ IF save = 2
       THEN PrintLine("parsed")
       ELSE at' = "open" /\ save' = save + 1 /\ UNCHANGED console
  /\ UNCHANGED out

\* Mutant: the writer is flushed, and not closed.
CloseForgotten ==
  /\ At("close")
  /\ IF save = Len(Directory)
       THEN PrintLine("parsed")
       ELSE at' = "open" /\ save' = save + 1 /\ UNCHANGED console
  /\ UNCHANGED <<out, writers>>

Close ==
  /\ At("close")
  /\ writers' = writers - 1
  /\ IF save = Len(Directory)
       THEN PrintLine("parsed")
       ELSE at' = "open" /\ save' = save + 1 /\ UNCHANGED console
  /\ UNCHANGED out

CloseFails == At("close") /\ Catch /\ UNCHANGED out

Step ==
  /\ \/ Extract \/ ExtractFails
     \/ Open \/ OpenFails
     \/ WriteAndFlush \/ WriteFails
     \/ Close \/ CloseFails
  /\ UNCHANGED <<holds, list, runs>>

\* The program is run again, when it is done or has been killed; a write that
\* was under way may have reached the disk in part.
Rerun ==
  /\ runs < MaxRuns
  /\ runs' = runs + 1
  /\ \/ UNCHANGED out
     \/ At("write") /\ ~WritesNull /\ \E t \in Beginnings(Text) : out' = Put(t)
  /\ Start
  /\ UNCHANGED holds

Finished == Done /\ UNCHANGED vars

Next == Step \/ Rerun \/ Finished

Spec == Init /\ [][Next]_vars
FairSpec == Spec /\ WF_vars(Step)

-----------------------------------------------------------------------------
(* Properties.                                                             *)

Extracts == {TextFor(d, c) : d \in {"title", "keyword", "type"},
                             c \in {e \in Content : Extractable(e)}}
Texts == {Missing} \cup UNION {Beginnings(t) : t \in Extracts}

\* Types.
TypeOK ==
  /\ holds \in [File -> Content]
  /\ list \in Lists
  /\ at \in {"read", "open", "write", "close"}
  /\ save \in 1 .. 3
  /\ out \in [{"title", "keyword", "type"} -> [Name -> Texts]]
  /\ writers \in Nat
  /\ console \in Seq({"parsed", "error"}) /\ Len(console) <= Len(list)
  /\ runs \in 1 .. MaxRuns

\* The last file of this run that went to name n, by its place in the list.
Finishers(n) == {k \in DOMAIN console : OutName[list[k]] = n}
Last(k) == \A j \in Finishers(OutName[list[k]]) : j <= k
Busy(n) == ~Done /\ at # "read" /\ Target = n

(* The error line names no file: a reader can only count the lines of the  *)
(* console against the list.  This count can be trusted: the k-th file,    *)
(* unless its line is an error, has its own title, keywords and type on    *)
(* disk, all three and whole, whatever an earlier run, an earlier file of  *)
(* the same name or a killed run had left there, and they stay until       *)
(* another file of that name is written.                                   *)
SavedOrReported ==
  \A k \in DOMAIN console :
    LET n == OutName[list[k]] IN
    console[k] = "parsed" /\ Last(k) /\ ~Busy(n) =>
      \A d \in {"title", "keyword", "type"} : out[d][n] = TextFor(d, holds[list[k]])

(* Everything is extracted before anything is saved (XmlDocParser.java     *)
(* 38-58 before 61-63): a file that is no document, or lacks a title, the  *)
(* keywords or the text element, destroys nothing an earlier run or a file *)
(* of the same name has saved.                                             *)
OnlyDocumentsOverwrite ==
  [][out' # out => ~Done /\ Extractable(Document)]_vars

(* No save method closes its writer when it fails, but a run never holds   *)
(* more writers open than it has printed errors, and the one in use.       *)
Errors == {k \in DOMAIN console : console[k] = "error"}
InUse == IF ~Done /\ at \in {"write", "close"} THEN 1 ELSE 0
LeaksReported == writers <= Cardinality(Errors) + InUse

(* The three saves of a file look like one, which is committed or, with an *)
(* error line, aborted: MetadataStore.  A file is busy from the moment all *)
(* it needs has been read.                                                 *)
Store ==
  INSTANCE MetadataStore WITH
    wanted <- [f \in File |-> IF Extractable(holds[f])
                 THEN {[d \in {"title", "keyword", "type"} |-> TextFor(d, holds[f])]}
                 ELSE {}],
    busy <- IF ~Done /\ at # "read" THEN {Target} ELSE {},
    store <- [n \in Name |-> [d \in {"title", "keyword", "type"} |-> out[d][n]]]
CommitsOrAborts == Store!Spec

(* One bad file never stops the run: every listed file gets its line, and  *)
(* the run that is not killed ends.                                        *)
Completes == <>[]Done

=============================================================================
