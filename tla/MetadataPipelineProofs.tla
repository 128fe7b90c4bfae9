----------------------- MODULE MetadataPipelineProofs -----------------------
(***************************************************************************)
(* Theorems about MetadataPipeline, the whole of XmlDocParser.main, for    *)
(* every corpus: what is proved of the walk and what is proved of parseXml *)
(* together say that each file of the corpus is accounted for.             *)
(***************************************************************************)
EXTENDS MetadataPipeline, FileListingProofs

\* What is proved of parseXml, for the list the walk has filled.
PP ==
  INSTANCE XmlDocParserProofs
    WITH File <- Path, list <- fileList, MaxFiles <- 0, MaxRuns <- 1

-----------------------------------------------------------------------------
(* XmlDocParserProofs speaks of the program that MetadataPipeline runs.    *)

LEMMA SameTexts ==
  /\ P!Done <=> PP!Done
  /\ P!Target = PP!Target /\ P!Document = PP!Document
  /\ \A d : P!Extractable(d) <=> PP!Extractable(d)
  /\ \A d, e : P!TextFor(d, e) = PP!TextFor(d, e)
BY DEF P!Done, PP!Done, P!Target, PP!Target, P!Current, PP!Current, P!Document, PP!Document,
       P!Extractable, PP!Extractable, P!Title, PP!Title, P!Type, PP!Type, P!TextFor, PP!TextFor,
       P!WithoutBrackets, PP!WithoutBrackets, P!Keyword, PP!Keyword,
       P!Trimmed, PP!Trimmed

LEMMA SameInit == P!Init => PP!Init
BY DEF P!Init, PP!Init, P!Lists, PP!Lists

LEMMA SameStep == P!Step => PP!Step
<1>1. /\ \A call : P!At(call) <=> PP!At(call)
      /\ P!Dir = PP!Dir /\ P!Target = PP!Target
  BY SameTexts DEF P!At, PP!At, P!Dir, PP!Dir, P!Directory, PP!Directory
<1>2. \A text : P!Put(text) = PP!Put(text)
  BY <1>1 DEF P!Put, PP!Put
<1>3. /\ P!Text = PP!Text
      /\ P!WritesNull <=> PP!WritesNull
  BY <1>1, SameTexts DEF P!Text, PP!Text, P!WritesNull, PP!WritesNull, P!Type, PP!Type
<1>4. \A text : P!Beginnings(text) = PP!Beginnings(text)
  BY DEF P!Beginnings, PP!Beginnings
<1>5. /\ P!Catch <=> PP!Catch
      /\ \A line : P!PrintLine(line) <=> PP!PrintLine(line)
  BY DEF P!Catch, PP!Catch, P!PrintLine, PP!PrintLine
<1>6. P!Extract => PP!Extract
  BY <1>1, SameTexts DEF P!Extract, PP!Extract
<1>7. P!ExtractFails \/ P!OpenFails \/ P!CloseFails => PP!ExtractFails \/ PP!OpenFails \/ PP!CloseFails
  BY <1>1, <1>5 DEF P!ExtractFails, PP!ExtractFails, P!OpenFails, PP!OpenFails,
                    P!CloseFails, PP!CloseFails
<1>8. P!Open => PP!Open
  BY <1>1, <1>2 DEF P!Open, PP!Open
<1>9. P!WriteAndFlush => PP!WriteAndFlush
  BY <1>1, <1>2, <1>3 DEF P!WriteAndFlush, PP!WriteAndFlush
<1>10. P!WriteFails => PP!WriteFails
  BY <1>1, <1>2, <1>3, <1>4, <1>5 DEF P!WriteFails, PP!WriteFails
<1>11. P!Close => PP!Close
  BY <1>1, <1>5 DEF P!Close, PP!Close, P!Directory, PP!Directory, P!PrintLine, PP!PrintLine
<1> QED BY <1>6, <1>7, <1>8, <1>9, <1>10, <1>11 DEF P!Step, PP!Step

-----------------------------------------------------------------------------
(* The walk is a walk of FileUtil, whatever comes after it.                *)

LEMMA MainIsWalk == MainSpec => Spec
<1>1. MainInit => Init
  BY DEF MainInit
<1>2. [MainNext]_<<walk, parser>> => [Next]_vars
  BY DEF MainNext, WalkStep, ParseStep, MainFinished, Next, walk
<1> QED BY <1>1, <1>2, PTL DEF MainSpec, Spec

\* Only a walk that has not returned goes on, and what it has listed stays listed.
LEMMA WalkGoesOn ==
  ASSUME TypeOK, Walk
  PROVE  ~Returned /\ Listed \subseteq Listed'
<1>1. stack # <<>>
  BY DEF Walk, EnterFile, EnterDirectory, ListFiles, ListFilesIsNull, EndLoop, AddChild, Descend,
         CanonicalPathFails, Overflow, Taking, At
<1>2. CASE UNCHANGED fileList
  BY <1>1, <1>2 DEF Returned, Listed
<1>3. ASSUME NEW p \in Path, fileList' = Append(fileList, p)
      PROVE  ~Returned /\ Listed \subseteq Listed'
  BY <1>1, <1>3, ListGrows DEF Returned
<1>4. Top.path \in Path
  BY <1>1, StackParts DEF Frame
<1> QED BY <1>2, <1>3, <1>4
        DEF Walk, EnterFile, EnterDirectory, ListFiles, ListFilesIsNull, EndLoop, AddChild, Descend,
            CanonicalPathFails, Overflow, Caught

-----------------------------------------------------------------------------
(* The inductive invariant: nothing is parsed before the walk has          *)
(* returned, and from then on parseXml keeps what it keeps for any list.   *)

NothingParsedYet == ~Returned => console = <<>> /\ at = "read"

Parsing == PP!Core /\ NothingParsedYet /\ OnlyTheCorpusIsSaved

LEMMA InitParsing == MainInit => Parsing
<1> SUFFICES ASSUME MainInit PROVE Parsing
  OBVIOUS
<1>1. PP!Core
  BY SameInit, PP!InitIInv, MetadataPipelineAssumption DEF MainInit, PP!IInv
<1>2. NothingParsedYet /\ OnlyTheCorpusIsSaved
  BY DEF MainInit, P!Init, NothingParsedYet, OnlyTheCorpusIsSaved, OutputDirectory
<1> QED BY <1>1, <1>2 DEF Parsing

LEMMA WalkKeepsParsing ==
  ASSUME TypeOK, TypeOK', Parsing, WalkStep
  PROVE  Parsing'
<1>1. /\ ~Returned /\ Listed \subseteq Listed'
      /\ console = <<>> /\ at = "read"
      /\ UNCHANGED parser
  BY WalkGoesOn DEF WalkStep, Parsing, NothingParsedYet
<1>2. Len(console) = 0 /\ DOMAIN console = {}
  BY <1>1
<1>3. PP!Typed'
  <2>1. fileList' \in Seq(Path) /\ Len(fileList') \in Nat
    BY DEF TypeOK
  <2> QED BY <1>1, <1>2, <2>1 DEF Parsing, PP!Core, PP!Typed, parser
<1>4. (PP!InItsPlace /\ PP!HoldsItsWriter /\ PP!SavedOrReported)'
  BY <1>1, <1>2 DEF Parsing, PP!Core, PP!InItsPlace, PP!HoldsItsWriter, PP!SavedOrReported, parser
<1>5. PP!LeaksReported'
  <2>1. PP!Errors' = PP!Errors /\ PP!InUse' = PP!InUse
    BY <1>1 DEF PP!Errors, PP!InUse, parser
  <2> QED BY <1>1, <2>1 DEF Parsing, PP!Core, PP!LeaksReported, parser
<1>6. NothingParsedYet'
  BY <1>1 DEF NothingParsedYet, parser
<1>7. OnlyTheCorpusIsSaved'
  BY <1>1 DEF Parsing, OnlyTheCorpusIsSaved, parser, P!Extractable, P!Title, P!Type
<1> QED BY <1>3, <1>4, <1>5, <1>6, <1>7 DEF Parsing, PP!Core

LEMMA ParseKeepsParsing ==
  ASSUME TypeOK, Parsing, ParseStep
  PROVE  Parsing'
<1>1. PP!Step /\ Returned /\ UNCHANGED vars /\ UNCHANGED holds
  BY SameStep DEF ParseStep, walk, P!Step
<1>2. PP!Core'
  BY <1>1, PP!StepCore, MetadataPipelineAssumption DEF Parsing
<1>3. NothingParsedYet'
  BY <1>1 DEF NothingParsedYet, Returned, vars
<1>4. ASSUME NEW d \in OutputDirectory, NEW n \in Name, out'[d][n] # Missing
      PROVE  \E f \in Listed : OutName[f] = n /\ P!Extractable(holds[f])
  <2>1. CASE out'[d][n] = out[d][n]
    BY <1>4, <2>1 DEF Parsing, OnlyTheCorpusIsSaved
  <2>2. CASE out'[d][n] # out[d][n]
    <3>1. ~PP!Done /\ n = PP!Target /\ PP!Extractable(PP!Document)
      BY <1>1, <2>2, PP!StepTouches, MetadataPipelineAssumption
         DEF Parsing, OutputDirectory, PP!Dirs
    <3>2. PP!Current \in Listed
      <4>1. Len(console) + 1 \in DOMAIN fileList
        BY <3>1, PP!CurrentFile, MetadataPipelineAssumption DEF Parsing, PP!Core
      <4> QED BY <4>1 DEF PP!Current, Listed
    <3> QED BY <3>1, <3>2, SameTexts DEF PP!Target, PP!Document
  <2> QED BY <2>1, <2>2
<1>5. OnlyTheCorpusIsSaved'
  BY <1>1, <1>4 DEF OnlyTheCorpusIsSaved, vars, Listed, P!Extractable, P!Title, P!Type
<1> QED BY <1>2, <1>3, <1>5 DEF Parsing

LEMMA IdleKeepsParsing ==
  ASSUME Parsing, UNCHANGED <<walk, parser>>
  PROVE  Parsing'
<1>1. UNCHANGED vars /\ UNCHANGED parser
  BY DEF walk
<1>2. PP!Typed' /\ PP!InItsPlace' /\ PP!HoldsItsWriter'
  BY <1>1 DEF vars, parser, Parsing, PP!Core, PP!Typed, PP!InItsPlace, PP!HoldsItsWriter,
              PP!Done, PP!Document, PP!Current, PP!Target
<1>3. PP!LeaksReported'
  BY <1>1 DEF vars, parser, Parsing, PP!Core, PP!LeaksReported, PP!Errors, PP!InUse, PP!Done
<1>4. PP!SavedOrReported'
  BY <1>1 DEF vars, parser, Parsing, PP!Core, PP!SavedOrReported, PP!Last, PP!Finishers, PP!Busy,
              PP!Done, PP!Target, PP!Current
<1>5. NothingParsedYet' /\ OnlyTheCorpusIsSaved'
  BY <1>1 DEF vars, parser, Parsing, NothingParsedYet, Returned, OnlyTheCorpusIsSaved, Listed,
              P!Extractable, P!Title, P!Type
<1> QED BY <1>2, <1>3, <1>4, <1>5 DEF Parsing, PP!Core

LEMMA AlwaysParsing == MainSpec => []Parsing
<1>1. ASSUME TypeOK, TypeOK', Parsing, [MainNext]_<<walk, parser>>
      PROVE  Parsing'
  BY <1>1, WalkKeepsParsing, ParseKeepsParsing, IdleKeepsParsing DEF MainNext, MainFinished
<1> QED BY <1>1, InitParsing, MainIsWalk, TypeCorrect, PTL DEF MainSpec

-----------------------------------------------------------------------------
(* Theorems.                                                               *)

\* A list has its file at the place that has its line.
LEMMA AccountedFor ==
  ASSUME TypeOK, NoSteadyFileLost, Parsing
  PROVE  EachFileAccountedFor
<1> SUFFICES ASSUME Over, ~overflowed, NEW f \in FilesBelow(reported)
             PROVE  \E k \in DOMAIN fileList :
                      /\ fileList[k] = f
                      /\ \/ console[k] = "error"
                         \/ Complete(f)
                         \/ \E j \in k + 1 .. Len(fileList) : OutName[fileList[j]] = OutName[f]
  BY DEF EachFileAccountedFor
<1>1. Returned /\ Len(console) = Len(fileList)
  BY DEF Over, P!Done
<1>2. PICK k \in DOMAIN fileList : fileList[k] = f
  BY <1>1 DEF NoSteadyFileLost, Listed
<1>3. /\ DOMAIN console = 1 .. Len(console) /\ DOMAIN fileList = 1 .. Len(console)
      /\ Len(console) \in Nat /\ console[k] \in {"parsed", "error"}
  BY <1>1, <1>2 DEF TypeOK, Parsing, PP!Core, PP!Typed, PP!Lines
<1>4. CASE console[k] = "error"
  BY <1>2, <1>4
<1>5. CASE console[k] = "parsed" /\ \E j \in k + 1 .. Len(fileList) : OutName[fileList[j]] = OutName[f]
  BY <1>2, <1>5
<1>6. CASE console[k] = "parsed" /\ ~\E j \in k + 1 .. Len(fileList) : OutName[fileList[j]] = OutName[f]
  <2>1. PP!Last(k)
    BY <1>1, <1>2, <1>3, <1>6 DEF PP!Last, PP!Finishers
  <2>2. ~PP!Busy(OutName[f])
    BY <1>1 DEF PP!Busy, PP!Done
  <2>3. \A d \in OutputDirectory : out[d][OutName[f]] = PP!TextFor(d, holds[f])
    BY <1>2, <1>3, <1>6, <2>1, <2>2 DEF Parsing, PP!Core, PP!SavedOrReported, OutputDirectory
  <2>4. Complete(f)
    BY <2>3, SameTexts DEF Complete
  <2> QED BY <1>2, <2>4
<1> QED BY <1>3, <1>4, <1>5, <1>6

(* When XmlDocParser.main is over, each file of the corpus has its title,  *)
(* keywords and type on disk, or an error line on the console, or a file   *)
(* of its name behind it on the list, or a directory above it has one.     *)
THEOREM AllAccountedFor == MainSpec => []EachFileAccountedFor
BY AccountedFor, MainIsWalk, TypeCorrect, NothingLost, AlwaysParsing, PTL

(* parseXml saves nothing under a name that no file has which the walk has *)
(* found and which can be parsed.                                          *)
THEOREM NothingElseIsSaved == MainSpec => []OnlyTheCorpusIsSaved
<1>1. Parsing => OnlyTheCorpusIsSaved
  BY DEF Parsing
<1> QED BY <1>1, AlwaysParsing, PTL

(* Nothing in XmlDocParser.main disturbs the walk: over a corpus at rest   *)
(* it keeps the promise of FileListing.                                    *)
THEOREM MainListsTheCorpus == MainSpec => ListsTheCorpus
<1>1. MainInit => Undisturbed
  BY DEF MainInit, Init, Undisturbed
<1>2. Undisturbed /\ [MainNext]_<<walk, parser>> => Undisturbed'
  BY DEF MainNext, WalkStep, Walk, ParseStep, MainFinished, walk, vars, Undisturbed
<1>3. MainSpec => []Undisturbed
  BY <1>1, <1>2, PTL DEF MainSpec
<1> QED BY <1>3, MainIsWalk, WhileUndisturbed, PTL
============================================================================
