------------------------- MODULE XmlDocParserProofs -------------------------
(***************************************************************************)
(* Theorems about XmlDocParser, for every set of files and documents, any  *)
(* number of files and of runs: its types; that its console can be         *)
(* trusted; that it leaks a writer for an error at most; that only a       *)
(* document is overwritten with; and that it implements MetadataStore.     *)
(***************************************************************************)
EXTENDS XmlDocParser, SequenceTheorems, FiniteSetTheorems, TLAPS

Dirs == {"title", "keyword", "type"}
Lines == {"parsed", "error"}

-----------------------------------------------------------------------------
(* The inductive invariant.                                                *)

\* The calls of parseXml in their order: one save at a time, and none before
\* all it needs has been read; the saves before this one are complete.
InItsPlace ==
  /\ at # "read" => ~Done /\ Extractable(Document)
  /\ at = "read" => save = 1
  /\ \A i \in 1 .. 3 :
       at # "read" /\ (i < save \/ (i = save /\ at = "close")) =>
         out[Directory[i]][Target] = TextFor(Directory[i], Document)

\* A writer that is written to or closed is open.
HoldsItsWriter == at \in {"write", "close"} => writers # 0

\* Types, but for the bounds on the list and on the runs, which no step needs.
Typed ==
  /\ holds \in [File -> Content]
  /\ list \in Seq(File)
  /\ at \in {"read", "open", "write", "close"}
  /\ save \in 1 .. 3
  /\ out \in [Dirs -> [Name -> Texts]]
  /\ writers \in Nat
  /\ console \in Seq(Lines) /\ Len(console) <= Len(list)

Core == Typed /\ InItsPlace /\ HoldsItsWriter /\ SavedOrReported /\ LeaksReported
IInv == Core /\ list \in Lists /\ runs \in 1 .. MaxRuns

-----------------------------------------------------------------------------
(* The list, the place in it, and the output directories.                  *)

\* A list is a sequence of files, no longer than the bound.
LEMMA ListsAreSequences ==
  ASSUME NEW l \in Lists
  PROVE  l \in Seq(File)
<1>1. PICK n \in 0 .. MaxFiles : l \in [1 .. n -> File]
  BY DEF Lists
<1>2. n \in Nat
  BY <1>1, XmlDocParserAssumption
<1> QED BY <1>1, <1>2

\* The three directories differ.
LEMMA Directories ==
  /\ Len(Directory) = 3
  /\ \A i \in 1 .. 3 : Directory[i] \in Dirs
  /\ \A i, j \in 1 .. 3 : Directory[i] = Directory[j] => i = j
  /\ \A d \in Dirs : \E i \in 1 .. 3 : Directory[i] = d
<1>1. Directory[1] = "title" /\ Directory[2] = "keyword" /\ Directory[3] = "type"
  BY DEF Directory
<1>2. Len(Directory) = 3 /\ 1 .. 3 = {1, 2, 3}
  BY DEF Directory
<1> QED BY <1>1, <1>2 DEF Dirs

\* The file that the run is at, while it is not done.
LEMMA CurrentFile ==
  ASSUME Typed, ~Done
  PROVE  /\ Len(list) \in Nat /\ DOMAIN list = 1 .. Len(list)
         /\ Len(console) \in Nat /\ DOMAIN console = 1 .. Len(console)
         /\ Len(console) + 1 \in 1 .. Len(list)
         /\ Current \in File /\ Target \in Name /\ Document \in Content
         /\ Dir \in Dirs
<1>1. Len(console) \in Nat /\ DOMAIN console = 1 .. Len(console)
  BY DEF Typed
<1>2. Len(list) \in Nat /\ DOMAIN list = 1 .. Len(list)
  BY DEF Typed
<1>3. Len(console) + 1 \in 1 .. Len(list)
  <2>1. Len(console) <= Len(list) /\ Len(console) # Len(list)
    BY DEF Typed, Done
  <2>2. Len(console) \in Nat /\ Len(list) \in Nat
    BY <1>1, <1>2
  <2> QED BY <2>1, <2>2
<1>4. Current \in File
  BY <1>2, <1>3 DEF Typed, Current
<1>5. Target \in Name /\ Document \in Content
  BY <1>4, XmlDocParserAssumption DEF Typed, Target, Document
<1>6. Dir \in Dirs
  BY Directories DEF Typed, Dir
<1> QED BY <1>1, <1>2, <1>3, <1>4, <1>5, <1>6

\* One line more is a line for the current file, and changes none before it.
LEMMA OneLineMore ==
  ASSUME Typed, NEW line \in Lines, console' = Append(console, line)
  PROVE  /\ console' \in Seq(Lines)
         /\ Len(console') = Len(console) + 1
         /\ DOMAIN console' = DOMAIN console \cup {Len(console) + 1}
         /\ \A k \in DOMAIN console : console'[k] = console[k]
         /\ console'[Len(console) + 1] = line
<1>1. console \in Seq(Lines) /\ Len(console) \in Nat /\ DOMAIN console = 1 .. Len(console)
  BY DEF Typed, Lines
<1>2. /\ console' \in Seq(Lines)
      /\ Len(console') = Len(console) + 1
      /\ \A k \in 1 .. Len(console) : console'[k] = console[k]
      /\ console'[Len(console) + 1] = line
  BY <1>1, AppendProperties
<1>3. DOMAIN console' = 1 .. Len(console) + 1
  BY <1>2
<1>4. 1 .. Len(console) + 1 = (1 .. Len(console)) \cup {Len(console) + 1}
  BY <1>1
<1> QED BY <1>1, <1>2, <1>3, <1>4

\* What a call puts into an output file leaves all the others alone.
LEMMA OneFileWritten ==
  ASSUME Typed, ~Done, NEW text \in Texts, out' = Put(text)
  PROVE  /\ out' \in [Dirs -> [Name -> Texts]]
         /\ \A d \in Dirs : \A n \in Name :
              out'[d][n] = IF d = Dir /\ n = Target THEN text ELSE out[d][n]
BY CurrentFile DEF Put, Typed, Dirs

\* What is written is a text, and so is each beginning of it.
LEMMA WhatIsWritten ==
  ASSUME Typed, ~Done, Extractable(Document)
  PROVE  /\ Text \in Texts /\ <<>> \in Texts
         /\ Beginnings(Text) \subseteq Texts
<1>1. Text \in Extracts
  BY CurrentFile DEF Text, Extracts, Dirs
<1> QED BY <1>1 DEF Texts, Beginnings

-----------------------------------------------------------------------------
(* Open writers and errors.                                                *)

\* There are no more errors than lines.
LEMMA FinitelyManyErrors ==
  ASSUME Typed
  PROVE  IsFiniteSet(Errors)
<1>1. Len(console) \in Nat /\ DOMAIN console = 1 .. Len(console)
  BY DEF Typed
<1>2. IsFiniteSet(1 .. Len(console))
  BY <1>1, FS_Interval
<1>3. Errors \in SUBSET (1 .. Len(console))
  BY <1>1 DEF Errors
<1> QED BY <1>2, <1>3, FS_Subset

\* An error line is an error more.
LEMMA OneErrorMore ==
  ASSUME Typed, console' = Append(console, "error")
  PROVE  /\ Cardinality(Errors) \in Nat
         /\ Cardinality(Errors') = Cardinality(Errors) + 1
<1>1. Len(console) \in Nat /\ DOMAIN console = 1 .. Len(console)
  BY DEF Typed
<1>2. IsFiniteSet(Errors)
  BY FinitelyManyErrors
<1>3. Errors' = Errors \cup {Len(console) + 1}
  BY OneLineMore DEF Errors, Lines
<1>4. Len(console) + 1 \notin Errors
  BY <1>1 DEF Errors
<1>5. Cardinality(Errors) \in Nat
  BY <1>2, FS_CardinalityType
<1>6. Cardinality(Errors \cup {Len(console) + 1}) = Cardinality(Errors) + 1
  BY <1>2, <1>4, FS_AddElement
<1> QED BY <1>3, <1>5, <1>6

\* Another line is not.
LEMMA NoErrorMore ==
  ASSUME Typed, console' = Append(console, "parsed")
  PROVE  /\ Cardinality(Errors) \in Nat
         /\ Cardinality(Errors') = Cardinality(Errors)
<1>1. Len(console) \in Nat /\ DOMAIN console = 1 .. Len(console)
  BY DEF Typed
<1>2. IsFiniteSet(Errors)
  BY FinitelyManyErrors
<1>3. Errors' = Errors
  BY OneLineMore DEF Errors, Lines
<1> QED BY <1>2, <1>3, FS_CardinalityType

-----------------------------------------------------------------------------
(* The invariant, step by step.                                            *)

LEMMA InitIInv == Init => IInv
<1> SUFFICES ASSUME Init PROVE IInv
  OBVIOUS
<1>1. console = <<>> /\ Len(console) = 0 /\ DOMAIN console = {}
  BY DEF Init
<1>2. Typed
  <2>1. out \in [Dirs -> [Name -> Texts]]
    BY DEF Init, Texts, Dirs
  <2>2. list \in Seq(File) /\ Len(console) <= Len(list)
    BY <1>1, ListsAreSequences DEF Init
  <2> QED BY <1>1, <2>1, <2>2 DEF Init, Typed, Dirs
<1>3. InItsPlace
  BY DEF Init, InItsPlace
<1>4. LeaksReported
  <2>1. Errors = {}
    BY <1>1 DEF Errors
  <2>2. Cardinality(Errors) = 0
    BY <2>1, FS_EmptySet
  <2>3. InUse = 0
    BY DEF Init, InUse
  <2> QED BY <2>2, <2>3 DEF LeaksReported, Init
<1>5. SavedOrReported
  BY <1>1 DEF SavedOrReported
<1> QED BY <1>2, <1>3, <1>4, <1>5, XmlDocParserAssumption DEF IInv, Core, Init, HoldsItsWriter

\* Outputs of the busy name may change: the console speaks of the others.
LEMMA OthersStayTrue ==
  ASSUME Core, ~Done, UNCHANGED <<holds, list, console>>, at' # "read",
         \A d \in Dirs : \A n \in Name : n # Target => out'[d][n] = out[d][n]
  PROVE  SavedOrReported'
<1>1. /\ DOMAIN console' = DOMAIN console
      /\ Target' = Target /\ ~Done'
      /\ \A n : Finishers(n)' = Finishers(n)
  BY DEF Target, Current, Done, Finishers
<1>2. ASSUME NEW k \in DOMAIN console, console[k] = "parsed",
             \A j \in Finishers(OutName[list[k]]) : j <= k, OutName[list[k]] # Target,
             NEW d \in Dirs
      PROVE  out'[d][OutName[list[k]]] = TextFor(d, holds[list[k]])
  <2>1. k \in 1 .. Len(list)
    BY <1>2, CurrentFile DEF Core
  <2>2. OutName[list[k]] \in Name
    BY <2>1, XmlDocParserAssumption DEF Core, Typed
  <2>3. ~Busy(OutName[list[k]])
    BY <1>2 DEF Busy
  <2>4. out[d][OutName[list[k]]] = TextFor(d, holds[list[k]])
    BY <1>2, <2>3 DEF Core, SavedOrReported, Last, Dirs
  <2> QED BY <1>2, <2>2, <2>4
<1> QED BY <1>1, <1>2 DEF SavedOrReported, Last, Busy, Dirs

\* So they may when the file gets its line, if that is an error or all is saved.
LEMMA LineIsTrue ==
  ASSUME Core, ~Done, UNCHANGED <<holds, list>>, NEW line \in Lines, PrintLine(line),
         \A d \in Dirs : \A n \in Name :
           n # Target \/ at = "read" => out'[d][n] = out[d][n],
         line = "parsed" => \A d \in Dirs : out'[d][Target] = TextFor(d, Document)
  PROVE  SavedOrReported'
<1> DEFINE new == Len(console) + 1
<1>1. /\ console' = Append(console, line) /\ at' = "read"
      /\ DOMAIN console' = DOMAIN console \cup {new}
      /\ \A k \in DOMAIN console : console'[k] = console[k]
      /\ console'[new] = line
  BY OneLineMore DEF PrintLine, Core
<1>2. /\ Len(console) \in Nat /\ DOMAIN console = 1 .. Len(console)
      /\ Len(list) \in Nat /\ new \in 1 .. Len(list)
  BY CurrentFile DEF Core
<1>3. list[new] = Current /\ OutName[list[new]] = Target
  BY DEF Current, Target
<1>4. ASSUME NEW k \in DOMAIN console', console'[k] = "parsed", Last(k)',
             NEW d \in Dirs
      PROVE  out'[d][OutName[list[k]]] = TextFor(d, holds[list[k]])
  <2>1. CASE k = new
    BY <1>1, <1>3, <1>4, <2>1 DEF Document
  <2>2. CASE k # new
    <3>1. k \in DOMAIN console /\ console[k] = "parsed" /\ k < new /\ k \in 1 .. Len(list)
      BY <1>1, <1>2, <1>4, <2>2
    <3>2. OutName[list[k]] # Target
      <4>1. SUFFICES ASSUME OutName[list[k]] = Target PROVE FALSE
        OBVIOUS
      <4>2. new \in Finishers(OutName[list[k]])'
        BY <1>1, <1>3, <4>1 DEF Finishers
      <4>3. new <= k
        BY <1>4, <4>2 DEF Last
      <4> QED BY <1>2, <3>1, <4>3
    <3>3. Last(k)
      BY <1>1, <1>4 DEF Last, Finishers
    <3>4. ~Busy(OutName[list[k]])
      BY <3>2 DEF Busy
    <3>5. out[d][OutName[list[k]]] = TextFor(d, holds[list[k]])
      BY <3>1, <3>3, <3>4 DEF Core, SavedOrReported, Dirs
    <3>6. OutName[list[k]] \in Name
      BY <3>1, XmlDocParserAssumption DEF Core, Typed
    <3> QED BY <3>2, <3>5, <3>6
  <2> QED BY <2>1, <2>2
<1> QED BY <1>4 DEF SavedOrReported, Dirs

\* An error line, whatever the failed call has left in the file it was writing.
LEMMA CatchKeeps ==
  ASSUME Core, ~Done, Catch, UNCHANGED <<holds, list, runs>>,
         out' \in [Dirs -> [Name -> Texts]],
         \A d \in Dirs : \A n \in Name :
           n # Target \/ at = "read" => out'[d][n] = out[d][n]
  PROVE  Core'
<1>1. /\ console' = Append(console, "error") /\ at' = "read" /\ save' = 1
      /\ writers' = writers
  BY DEF Catch, PrintLine
<1>2. Typed'
  <2>1. console' \in Seq(Lines) /\ Len(console') = Len(console) + 1
    BY <1>1, OneLineMore DEF Core, Lines
  <2>2. Len(console') <= Len(list')
    BY <2>1, CurrentFile DEF Core
  <2> QED BY <1>1, <2>1, <2>2 DEF Core, Typed, Dirs
<1>3. InItsPlace'
  BY <1>1 DEF InItsPlace
<1>4. SavedOrReported'
  BY LineIsTrue DEF Catch, Lines
<1>5. LeaksReported'
  <2>1. Cardinality(Errors) \in Nat /\ Cardinality(Errors') = Cardinality(Errors) + 1
    BY <1>1, OneErrorMore DEF Core
  <2>2. writers <= Cardinality(Errors) + InUse /\ InUse \in 0 .. 1 /\ writers \in Nat
    BY DEF Core, LeaksReported, InUse, Typed
  <2>3. InUse' = 0
    BY <1>1 DEF InUse
  <2> HIDE DEF Errors, InUse
  <2>4. writers' <= Cardinality(Errors') + InUse'
    BY <1>1, <2>1, <2>2, <2>3
  <2> QED BY <2>4 DEF LeaksReported
<1> QED BY <1>1, <1>2, <1>3, <1>4, <1>5 DEF Core, HoldsItsWriter

LEMMA ExtractKeeps ==
  ASSUME Core, Extract, UNCHANGED <<holds, list, runs>>
  PROVE  Core'
<1>1. /\ ~Done /\ at = "read" /\ save = 1 /\ at' = "open" /\ Extractable(Document)
      /\ UNCHANGED <<holds, list, runs, save, out, writers, console>>
  BY DEF Extract, At, Core, InItsPlace
<1>2. Typed'
  BY <1>1 DEF Core, Typed
<1>3. InItsPlace'
  BY <1>1 DEF InItsPlace, Done, Document, Current
<1>4. SavedOrReported'
  BY <1>1, OthersStayTrue
<1>5. LeaksReported'
  BY <1>1 DEF Core, LeaksReported, Errors, InUse, Done
<1> QED BY <1>1, <1>2, <1>3, <1>4, <1>5 DEF Core, HoldsItsWriter

LEMMA OpenKeeps ==
  ASSUME Core, Open, UNCHANGED <<holds, list, runs>>
  PROVE  Core'
<1>1. /\ ~Done /\ at = "open" /\ at' = "write" /\ out' = Put(<<>>) /\ writers' = writers + 1
      /\ UNCHANGED <<holds, list, runs, save, console>>
      /\ Extractable(Document)
  BY DEF Open, At, Core, InItsPlace
<1>2. /\ out' \in [Dirs -> [Name -> Texts]]
      /\ \A d \in Dirs : \A n \in Name :
           out'[d][n] = IF d = Dir /\ n = Target THEN <<>> ELSE out[d][n]
  BY <1>1, WhatIsWritten, OneFileWritten DEF Core
<1>3. Typed'
  BY <1>1, <1>2 DEF Core, Typed, Dirs
<1>4. InItsPlace'
  <2>1. ~Done' /\ Extractable(Document)' /\ Target' = Target /\ Document' = Document
    BY <1>1 DEF Done, Document, Target, Current
  <2>2. ASSUME NEW i \in 1 .. 3, i < save
        PROVE  out'[Directory[i]][Target] = TextFor(Directory[i], Document)
    <3>1. Directory[i] \in Dirs /\ Directory[i] # Dir /\ Target \in Name
      BY <1>1, <2>2, Directories, CurrentFile DEF Dir, Core, Typed
    <3> QED BY <1>1, <1>2, <2>2, <3>1 DEF Core, InItsPlace
  <2> QED BY <1>1, <2>1, <2>2 DEF InItsPlace
<1>5. SavedOrReported'
  BY <1>1, <1>2, OthersStayTrue
<1>6. LeaksReported'
  <2>1. Errors' = Errors /\ InUse' = 1 /\ InUse = 0
    BY <1>1 DEF Errors, InUse, Done
  <2>2. Cardinality(Errors) \in Nat
    BY FinitelyManyErrors, FS_CardinalityType DEF Core
  <2> HIDE DEF Errors, InUse
  <2>3. writers' <= Cardinality(Errors') + InUse'
    BY <1>1, <2>1, <2>2 DEF Core, LeaksReported, Typed
  <2> QED BY <2>3 DEF LeaksReported
<1> QED BY <1>1, <1>3, <1>4, <1>5, <1>6 DEF Core, HoldsItsWriter, Typed

LEMMA WriteKeeps ==
  ASSUME Core, WriteAndFlush, UNCHANGED <<holds, list, runs>>
  PROVE  Core'
<1>1. /\ ~Done /\ at = "write" /\ at' = "close" /\ out' = Put(Text)
      /\ UNCHANGED <<holds, list, runs, save, writers, console>>
      /\ Extractable(Document)
  BY DEF WriteAndFlush, At, Core, InItsPlace
<1>2. /\ out' \in [Dirs -> [Name -> Texts]]
      /\ \A d \in Dirs : \A n \in Name :
           out'[d][n] = IF d = Dir /\ n = Target THEN Text ELSE out[d][n]
  BY <1>1, WhatIsWritten, OneFileWritten DEF Core
<1>3. Typed'
  BY <1>1, <1>2 DEF Core, Typed, Dirs
<1>4. InItsPlace'
  <2>1. ~Done' /\ Extractable(Document)' /\ Target' = Target /\ Document' = Document
    BY <1>1 DEF Done, Document, Target, Current
  <2>2. ASSUME NEW i \in 1 .. 3, i < save \/ i = save
        PROVE  out'[Directory[i]][Target] = TextFor(Directory[i], Document)
    <3>1. Directory[i] \in Dirs /\ Target \in Name
      BY <1>1, Directories, CurrentFile DEF Core
    <3>2. CASE i = save
      BY <1>2, <3>1, <3>2 DEF Dir, Text
    <3>3. CASE i # save
      <4>1. Directory[i] # Dir
        BY <3>3, Directories DEF Dir, Core, Typed
      <4> QED BY <1>1, <1>2, <2>2, <3>1, <3>3, <4>1 DEF Core, InItsPlace
    <3> QED BY <3>2, <3>3
  <2> QED BY <1>1, <2>1, <2>2 DEF InItsPlace
<1>5. SavedOrReported'
  BY <1>1, <1>2, OthersStayTrue
<1>6. LeaksReported'
  BY <1>1 DEF Core, LeaksReported, Errors, InUse, Done
<1> QED BY <1>1, <1>3, <1>4, <1>5, <1>6 DEF Core, HoldsItsWriter, Typed

LEMMA CloseKeeps ==
  ASSUME Core, Close, UNCHANGED <<holds, list, runs>>
  PROVE  Core'
<1>1. /\ ~Done /\ at = "close" /\ writers' = writers - 1
      /\ UNCHANGED <<holds, list, runs, out>>
      /\ Extractable(Document)
  BY DEF Close, At, Core, InItsPlace
<1>2. /\ Cardinality(Errors) \in Nat /\ writers \in Nat
      /\ writers # 0 /\ writers <= Cardinality(Errors) + 1
  <2>1. InUse = 1
    BY <1>1 DEF InUse
  <2>2. Cardinality(Errors) \in Nat
    BY FinitelyManyErrors, FS_CardinalityType DEF Core
  <2>3. writers # 0
    BY <1>1 DEF Core, HoldsItsWriter
  <2> QED BY <2>1, <2>2, <2>3 DEF Core, Typed, LeaksReported
<1>3. CASE save = 3
  <2>1. PrintLine("parsed")
    BY <1>3, Directories DEF Close
  <2>2. console' = Append(console, "parsed") /\ at' = "read" /\ save' = 1
    BY <2>1 DEF PrintLine
  <2>3. Typed'
    <3>1. console' \in Seq(Lines) /\ Len(console') <= Len(list)
      BY <1>1, <2>2, OneLineMore, CurrentFile DEF Core, Lines
    <3> QED BY <1>1, <1>2, <2>2, <3>1 DEF Core, Typed
  <2>4. InItsPlace'
    BY <2>2 DEF InItsPlace
  <2>5. SavedOrReported'
    <3>1. \A d \in Dirs : out[d][Target] = TextFor(d, Document)
      BY <1>1, <1>3, Directories DEF Core, InItsPlace
    <3> QED BY <1>1, <2>1, <3>1, LineIsTrue DEF Lines
  <2>6. LeaksReported'
    <3>1. Cardinality(Errors') = Cardinality(Errors) /\ InUse' = 0
      BY <2>2, NoErrorMore DEF Core, InUse
    <3> HIDE DEF Errors, InUse
    <3>2. writers' <= Cardinality(Errors') + InUse'
      BY <1>1, <1>2, <3>1
    <3> QED BY <3>2 DEF LeaksReported
  <2> QED BY <2>2, <2>3, <2>4, <2>5, <2>6 DEF Core, HoldsItsWriter
<1>4. CASE save # 3
  <2>1. at' = "open" /\ save' = save + 1 /\ UNCHANGED console
    BY <1>4, Directories DEF Close
  <2>2. Typed'
    BY <1>1, <1>2, <1>4, <2>1 DEF Core, Typed
  <2>3. InItsPlace'
    BY <1>1, <2>1 DEF InItsPlace, Core, Typed, Done, Document, Target, Current
  <2>4. SavedOrReported'
    BY <1>1, <2>1, OthersStayTrue
  <2>5. LeaksReported'
    <3>1. Errors' = Errors /\ InUse' = 0
      BY <2>1 DEF Errors, InUse
    <3> HIDE DEF Errors, InUse
    <3>2. writers' <= Cardinality(Errors') + InUse'
      BY <1>1, <1>2, <3>1
    <3> QED BY <3>2 DEF LeaksReported
  <2> QED BY <2>1, <2>2, <2>3, <2>4, <2>5 DEF Core, HoldsItsWriter
<1> QED BY <1>3, <1>4

\* A failing call reports the file it is at, and has touched only its outputs.
LEMMA FailureKeeps ==
  ASSUME Core, ExtractFails \/ OpenFails \/ WriteFails \/ CloseFails,
         UNCHANGED <<holds, list, runs>>
  PROVE  Core'
<1>1. ~Done /\ Catch
  BY DEF ExtractFails, OpenFails, WriteFails, CloseFails, At
<1>2. CASE UNCHANGED out
  BY <1>1, <1>2, CatchKeeps DEF Core, Typed, Dirs
<1>3. CASE WriteFails
  <2>1. at = "write" /\ Extractable(Document)
    BY <1>3 DEF WriteFails, At, Core, InItsPlace
  <2>2. PICK t \in Texts : out' = Put(t)
    BY <1>1, <1>3, <2>1, WhatIsWritten DEF WriteFails, Core
  <2> QED BY <1>1, <2>1, <2>2, OneFileWritten, CatchKeeps DEF Core
<1> QED BY <1>2, <1>3 DEF ExtractFails, OpenFails, CloseFails

\* What a kill leaves in the file that was being written is no text of its own.
LEMMA KilledWrite ==
  ASSUME Core, Rerun
  PROVE  /\ out' \in [Dirs -> [Name -> Texts]]
         /\ \A n \in Name : (at = "write" => n # Target) =>
              \A d \in Dirs : out'[d][n] = out[d][n]
         /\ out' # out => at = "write" /\ ~Done /\ Extractable(Document)
<1>1. CASE UNCHANGED out
  BY <1>1 DEF Core, Typed, Dirs
<1>2. CASE At("write") /\ \E t \in Beginnings(Text) : out' = Put(t)
  <2>1. at = "write" /\ ~Done /\ Extractable(Document)
    BY <1>2 DEF At, Core, InItsPlace
  <2>2. PICK t \in Texts : out' = Put(t)
    BY <1>2, <2>1, WhatIsWritten DEF Core
  <2> QED BY <2>1, <2>2, OneFileWritten DEF Core
<1> QED BY <1>1, <1>2 DEF Rerun

LEMMA RerunKeeps ==
  ASSUME IInv, Rerun
  PROVE  IInv'
<1>1. /\ list' \in Lists /\ at' = "read" /\ save' = 1 /\ writers' = 0 /\ console' = <<>>
      /\ runs' \in 1 .. MaxRuns /\ UNCHANGED holds
  BY XmlDocParserAssumption DEF Rerun, Start, IInv
<1>2. /\ console' \in Seq(Lines) /\ Len(console') = 0
      /\ DOMAIN console' = {}
  BY <1>1
<1>3. Typed'
  <2>1. list' \in Seq(File) /\ Len(list') \in Nat
    BY <1>1, ListsAreSequences
  <2> QED BY <1>1, <1>2, <2>1, KilledWrite DEF IInv, Core, Typed
<1>4. InItsPlace' /\ HoldsItsWriter'
  BY <1>1 DEF InItsPlace, HoldsItsWriter
<1>5. SavedOrReported'
  BY <1>2 DEF SavedOrReported
<1>6. LeaksReported'
  <2>1. Errors' = {} /\ InUse' = 0
    BY <1>1, <1>2 DEF Errors, InUse
  <2>2. Cardinality(Errors') = 0
    BY <2>1, FS_EmptySet
  <2> QED BY <1>1, <2>1, <2>2 DEF LeaksReported
<1> QED BY <1>1, <1>3, <1>4, <1>5, <1>6 DEF IInv, Core

\* Every step of a run keeps what it has of the invariant, whatever the list is.
LEMMA StepCore ==
  ASSUME Core, Step
  PROVE  Core'
BY ExtractKeeps, OpenKeeps, WriteKeeps, CloseKeeps, FailureKeeps DEF Step

\* It touches no output but that of a document it is at.
LEMMA StepTouches ==
  ASSUME Core, Step, NEW d \in Dirs, NEW n \in Name, out'[d][n] # out[d][n]
  PROVE  ~Done /\ n = Target /\ Extractable(Document)
<1>1. ~Done /\ Extractable(Document) /\ \E t \in Texts : out' = Put(t)
  <2>1. CASE Open \/ WriteAndFlush
    BY <2>1, WhatIsWritten DEF Open, WriteAndFlush, At, Core, InItsPlace
  <2>2. CASE WriteFails
    <3>1. ~Done /\ Extractable(Document)
      BY <2>2 DEF WriteFails, At, Core, InItsPlace
    <3> QED BY <2>2, <3>1, WhatIsWritten DEF WriteFails, Core
  <2> QED BY <2>1, <2>2 DEF Step, Extract, ExtractFails, OpenFails, Close, CloseFails
<1> QED BY <1>1, OneFileWritten DEF Core

LEMMA StepIInv ==
  ASSUME IInv, [Next]_vars
  PROVE  IInv'
<1>1. CASE Step
  BY <1>1, StepCore DEF IInv, Step
<1>2. CASE Rerun
  BY <1>2, RerunKeeps
<1>3. CASE UNCHANGED vars
  <2>1. Typed' /\ InItsPlace' /\ HoldsItsWriter'
    BY <1>3 DEF vars, IInv, Core, Typed, InItsPlace, HoldsItsWriter, Done, Document, Current, Target
  <2>2. LeaksReported'
    BY <1>3 DEF vars, IInv, Core, LeaksReported, Errors, InUse, Done
  <2>3. SavedOrReported'
    BY <1>3 DEF vars, IInv, Core, SavedOrReported, Last, Finishers, Busy, Done, Target, Current
  <2> QED BY <1>3, <2>1, <2>2, <2>3 DEF IInv, Core, vars
<1> QED BY <1>1, <1>2, <1>3 DEF Next, Finished

\* The inductive invariant holds in every reachable state.
LEMMA Inductive == Spec => []IInv
BY InitIInv, StepIInv, PTL DEF Spec

-----------------------------------------------------------------------------
(* XmlDocParser implements MetadataStore.                                  *)

\* The name that is being saved, as MetadataStore sees it.
BusyName == IF ~Done /\ at # "read" THEN {Target} ELSE {}

\* What is saved under a name, as MetadataStore sees it.
Stored(n) == [d \in {"title", "keyword", "type"} |-> out[d][n]]

\* What is right for a file, as MetadataStore sees it.
RightFor == [f \in File |-> IF Extractable(holds[f])
               THEN {[d \in {"title", "keyword", "type"} |-> TextFor(d, holds[f])]}
               ELSE {}]

\* Outputs that keep their files keep what is stored.
LEMMA StoreKept ==
  ASSUME \A n \in Name \ BusyName : \A d \in Dirs : out'[d][n] = out[d][n]
  PROVE  Store!OthersKept
BY DEF Store!OthersKept, BusyName, Stored, Dirs

LEMMA StoreUnchanged ==
  ASSUME UNCHANGED out
  PROVE  /\ UNCHANGED [n \in Name |-> [d \in {"title", "keyword", "type"} |-> out[d][n]]]
         /\ Store!OthersKept
BY DEF Store!OthersKept

\* Reading all that is needed begins to save.
LEMMA ExtractBegins ==
  ASSUME Core, Extract, UNCHANGED <<holds, list, runs>>
  PROVE  Store!Begin
<1>1. /\ ~Done /\ at = "read" /\ at' = "open" /\ Extractable(Document)
      /\ UNCHANGED <<holds, list, out, console>>
  BY DEF Extract, At
<1>2. Store!Pending
  BY <1>1, CurrentFile DEF Store!Pending, Core
<1>3. ~Done' /\ Target' = Target
  BY <1>1 DEF Done, Target, Current
<1>4. Current \in File
  BY <1>1, CurrentFile DEF Core
<1>5. RightFor[Current] # {}
  BY <1>1, <1>4 DEF RightFor, Document
<1> QED
  BY <1>1, <1>2, <1>3, <1>5 DEF Store!Begin, Store!Current, Current, RightFor, Target

\* A call on an output file saves.
LEMMA PutSaves ==
  ASSUME Core, Open \/ WriteAndFlush, UNCHANGED <<holds, list, runs>>
  PROVE  Store!Save
<1>1. /\ ~Done /\ at # "read" /\ at' # "read" /\ Extractable(Document)
      /\ UNCHANGED <<holds, list, console>>
      /\ \E t \in Texts : out' = Put(t)
  BY WhatIsWritten DEF Open, WriteAndFlush, At, Core, InItsPlace
<1>2. Store!Pending
  BY <1>1, CurrentFile DEF Store!Pending, Core
<1>3. ~Done' /\ Target' = Target
  BY <1>1 DEF Done, Target, Current
<1>4. Store!OthersKept
  BY <1>1, OneFileWritten, StoreKept DEF BusyName, Core
<1> QED BY <1>1, <1>2, <1>3, <1>4 DEF Store!Save

\* Closing the third writer commits; closing another one, nobody sees.
LEMMA CloseCommits ==
  ASSUME Core, Close, UNCHANGED <<holds, list, runs>>
  PROVE  Store!Commit \/ UNCHANGED Store!vars
<1>1. /\ ~Done /\ at = "close" /\ Extractable(Document)
      /\ UNCHANGED <<holds, list, out>>
  BY DEF Close, At, Core, InItsPlace
<1>2. CASE save = 3
  <2>1. console' = Append(console, "parsed") /\ at' = "read"
    BY <1>2, Directories DEF Close, PrintLine
  <2>2. Store!Pending
    BY <1>1, CurrentFile DEF Store!Pending, Core
  <2>3. Current \in File /\ Target \in Name
    BY <1>1, CurrentFile DEF Core
  <2>4. \A d \in Dirs : out[d][Target] = TextFor(d, Document)
    BY <1>1, <1>2, Directories DEF Core, InItsPlace
  <2>5. Stored(Target) \in RightFor[Current]
    BY <1>1, <2>3, <2>4 DEF Stored, RightFor, Document, Dirs
  <2>6. [n \in Name |-> Stored(n)][Target] \in RightFor[Current]
    BY <2>3, <2>5
  <2> QED BY <1>1, <2>1, <2>2, <2>6, StoreUnchanged
          DEF Store!Commit, Store!Current, Current, Target, Stored, RightFor
<1>3. CASE save # 3
  <2>1. at' = "open" /\ UNCHANGED console
    BY <1>3, Directories DEF Close
  <2>2. Done' = Done /\ Target' = Target
    BY <1>1, <2>1 DEF Done, Target, Current
  <2> QED BY <1>1, <2>1, <2>2 DEF Store!vars
<1> QED BY <1>2, <1>3

\* An error line aborts.
LEMMA FailureAborts ==
  ASSUME Core, ExtractFails \/ OpenFails \/ WriteFails \/ CloseFails,
         UNCHANGED <<holds, list, runs>>
  PROVE  Store!Abort
<1>1. /\ ~Done /\ console' = Append(console, "error") /\ at' = "read"
  BY DEF ExtractFails, OpenFails, WriteFails, CloseFails, At, Catch, PrintLine
<1>2. Store!Pending
  BY <1>1, CurrentFile DEF Store!Pending, Core
<1>3. CASE WriteFails
  <2>1. at = "write" /\ Extractable(Document)
    BY <1>3 DEF WriteFails, At, Core, InItsPlace
  <2>2. PICK t \in Texts : out' = Put(t)
    BY <1>1, <1>3, <2>1, WhatIsWritten DEF WriteFails, Core
  <2>3. Store!OthersKept
    BY <1>1, <2>1, <2>2, OneFileWritten, StoreKept DEF BusyName, Core
  <2> QED BY <1>1, <1>2, <2>3 DEF Store!Abort
<1>4. CASE UNCHANGED out
  BY <1>1, <1>2, <1>4, StoreUnchanged DEF Store!Abort
<1> QED BY <1>3, <1>4 DEF ExtractFails, OpenFails, CloseFails

\* A new start restarts.
LEMMA RerunRestarts ==
  ASSUME Core, Rerun
  PROVE  Store!Restart
<1>1. console' = <<>> /\ at' = "read"
  BY DEF Rerun, Start
<1>2. \A n \in Name \ BusyName : \A d \in Dirs : out'[d][n] = out[d][n]
  <2>1. at = "write" => ~Done
    BY DEF Core, InItsPlace
  <2> QED BY <2>1, KilledWrite DEF BusyName
<1> QED BY <1>1, <1>2, StoreKept DEF Store!Restart

\* Every step of XmlDocParser is one of MetadataStore, or none.
LEMMA StepImplements ==
  ASSUME IInv, [Next]_vars
  PROVE  [Store!Next]_(Store!vars)
<1>1. CASE Step
  <2>1. RightFor' = RightFor
    BY <1>1 DEF Step, RightFor
  <2>2. Store!Begin \/ Store!Save \/ Store!Commit \/ Store!Abort \/ UNCHANGED Store!vars
    BY <1>1, ExtractBegins, PutSaves, CloseCommits, FailureAborts DEF Step, IInv
  <2> QED BY <2>1, <2>2 DEF Store!Next, RightFor
<1>2. CASE Rerun
  <2>1. RightFor' = RightFor
    BY <1>2 DEF Rerun, RightFor
  <2> QED BY <1>2, <2>1, RerunRestarts DEF Store!Next, RightFor, IInv
<1>3. CASE UNCHANGED vars
  BY <1>3 DEF vars, Store!vars, Done, Target, Current
<1> QED BY <1>1, <1>2, <1>3 DEF Next, Finished

-----------------------------------------------------------------------------
(* Theorems.                                                               *)

(* Every variable of XmlDocParser keeps its type: what is in an output     *)
(* file is a text that some document asks for, or the beginning of one.    *)
THEOREM TypeCorrect == Spec => []TypeOK
<1>1. IInv => TypeOK
  BY DEF IInv, Core, Typed, TypeOK, Dirs, Lines
<1> QED BY <1>1, Inductive, PTL

(* The console of XmlDocParser.main, counted against the list, tells the   *)
(* truth: a file with the line "parsed" has its three outputs, whole,      *)
(* until another one of its name is written; whatever call of parseXml     *)
(* fails, and whatever earlier or killed runs have left.                   *)
THEOREM ConsoleIsTrue == Spec => []SavedOrReported
<1>1. IInv => SavedOrReported
  BY DEF IInv, Core
<1> QED BY <1>1, Inductive, PTL

(* saveTitle, saveKeywords and saveType leave no writer open but for an    *)
(* exception, which parseXml reports.                                      *)
THEOREM EachLeakReported == Spec => []LeaksReported
<1>1. IInv => LeaksReported
  BY DEF IInv, Core
<1> QED BY <1>1, Inductive, PTL

(* parseXml touches an output file only when it has read all it needs: a   *)
(* bad file destroys nothing, nor does a kill or a new run.                *)
THEOREM BadFilesDestroyNothing == Spec => OnlyDocumentsOverwrite
<1>1. ASSUME IInv, [Next]_vars
      PROVE  [out' # out => ~Done /\ Extractable(Document)]_vars
  <2>1. SUFFICES ASSUME Next, out' # out PROVE ~Done /\ Extractable(Document)
    BY <1>1
  <2>2. CASE Rerun
    BY <1>1, <2>1, <2>2, KilledWrite DEF IInv
  <2>3. CASE Open \/ WriteAndFlush \/ WriteFails
    BY <1>1, <2>3 DEF Open, WriteAndFlush, WriteFails, At, IInv, Core, InItsPlace
  <2> QED BY <2>1, <2>2, <2>3
          DEF Next, Step, Finished, vars, Extract, ExtractFails, OpenFails, Close, CloseFails
<1> QED BY <1>1, Inductive, PTL DEF Spec, OnlyDocumentsOverwrite

(* The three saves of parseXml look like one to whoever reads console and  *)
(* outputs: a file is begun, saved in any number of steps, and committed   *)
(* when all it has is there, or aborted with its error line.               *)
THEOREM Implements == Spec => CommitsOrAborts
<1>1. ASSUME Init PROVE Store!Init
  BY <1>1 DEF Init, Store!Init
<1>2. ASSUME IInv, [Next]_vars PROVE [Store!Next]_(Store!vars)
  BY <1>2, StepImplements
<1> QED BY <1>1, <1>2, Inductive, PTL DEF Spec, CommitsOrAborts, Store!Spec
=============================================================================
