------------------------ MODULE CorpusScriptsProofs ------------------------
(***************************************************************************)
(* Theorems about CorpusScripts, for every corpus and any number of files: *)
(* what the two scripts, which know nothing of each other, leave of each   *)
(* other's outputs in the directory they share.                            *)
(***************************************************************************)
EXTENDS CorpusScripts, SequenceTheorems, TLAPS

\* What is proved of XMLExtract alone, in the file system both see.
XP == INSTANCE XMLExtractProofs WITH out <- dir["title"]

Dirs == {"title", "keyword", "type"}
Lines == {"parsed", "error"}

-----------------------------------------------------------------------------
(* The inductive invariant.                                                *)

\* Types, of what the properties speak about; a file may hold anything.
Types ==
  /\ holds \in [File -> Content]
  /\ list \in P!Lists
  /\ at \in {"read", "open", "write", "close"} /\ save \in 1 .. 3
  /\ \E texts : dir \in [Dirs -> [Name -> texts]]
  /\ console \in Seq(Lines) /\ Len(console) <= Len(list)
  /\ next \in 1 .. Len(list) + 1
  /\ child \in [X!Place -> {"none", "cmd", "xsltproc", "refused", "failed", "succeeded"}]
  /\ written \in [X!Place -> Nat]
  /\ \A k \in X!Place : child[k] # "none" => k < next

\* XmlDocParser is in its place.  The keywords and the type it has saved are there;
\* in the place of the title there may be a text for the same name.
InItsPlace ==
  /\ at # "read" => ~P!Done /\ P!Extractable(P!Document)
  /\ at = "read" => save = 1
  /\ at # "read" /\ (save > 1 \/ at = "close") =>
       dir["title"][P!Target] \in {P!TextFor("title", P!Document)} \cup TextsUnder(P!Target)
  /\ at # "read" /\ (save > 2 \/ (save = 2 /\ at = "close")) =>
       dir["keyword"][P!Target] = P!TextFor("keyword", P!Document)
  /\ at # "read" /\ save = 3 /\ at = "close" =>
       dir["type"][P!Target] = P!TextFor("type", P!Document)

\* No process has the file open that XmlDocParser writes, and no two have one.
Apart == \A k \in X!Place : child[k] = "xsltproc" => ~ParserHas(X!Target(k))
Alone ==
  \A j, k \in X!Place :
    child[j] = "xsltproc" /\ child[k] = "xsltproc" /\ X!Target(j) = X!Target(k) => j = k

\* What a process has written by the time it is where it is, and that nothing
\* else is in its file while it has it open.
WrittenSoFar ==
  \A k \in X!Place :
    /\ child[k] \in {"none", "cmd"} => written[k] = 0
    /\ child[k] = "succeeded" => written[k] = Pieces[list[k]]
OwnText ==
  \A k \in X!Place :
    child[k] = "xsltproc" => dir["title"][X!Target(k)] = X!TextOf(k, written[k])

Extractor == Alone /\ WrittenSoFar /\ OwnText
Outputs == NeverMixed /\ ParsedTitleOrText /\ ExtractedTextOrTitle
IInv == Types /\ InItsPlace /\ Apart /\ Extractor /\ Outputs

-----------------------------------------------------------------------------
(* The list and the places in it.                                          *)

LEMMA Places ==
  ASSUME Types
  PROVE  /\ Len(list) \in Nat /\ DOMAIN list = 1 .. Len(list)
         /\ \A k \in DOMAIN list :
              /\ k \in X!Place /\ k \in Nat
              /\ list[k] \in File
              /\ X!Target(k) = OutName[list[k]] /\ OutName[list[k]] \in Name
         /\ \A k \in X!Place : child[k] # "none" => k \in DOMAIN list
         /\ Len(console) \in Nat /\ DOMAIN console = 1 .. Len(console)
         /\ DOMAIN console \subseteq DOMAIN list
<1>1. PICK n \in 0 .. MaxFiles : list \in [1 .. n -> File]
  BY DEF Types, P!Lists
<1>2. list \in Seq(File) /\ Len(list) = n /\ n \in Nat
  BY <1>1, CorpusScriptsAssumption
<1>3. X!Place = 1 .. MaxFiles /\ MaxFiles \in Nat
  BY CorpusScriptsAssumption DEF X!Place
<1>4. Len(console) \in Nat /\ DOMAIN console = 1 .. Len(console)
  BY DEF Types
<1>5. DOMAIN console \subseteq DOMAIN list
  BY <1>1, <1>2, <1>4 DEF Types
<1>6. \A k \in X!Place : child[k] # "none" => k \in DOMAIN list
  BY <1>1, <1>2, <1>3 DEF Types
<1>7. ASSUME NEW k \in DOMAIN list
      PROVE  /\ k \in X!Place /\ k \in Nat /\ list[k] \in File
             /\ X!Target(k) = OutName[list[k]] /\ OutName[list[k]] \in Name
  BY <1>1, <1>2, <1>3, CorpusScriptsAssumption DEF X!Target
<1> QED BY <1>1, <1>2, <1>4, <1>5, <1>6, <1>7

\* The file that XmlDocParser is at, and the directory of the save under way.
LEMMA CurrentFile ==
  ASSUME Types, ~P!Done
  PROVE  /\ Len(console) + 1 \in DOMAIN list
         /\ P!Current = list[Len(console) + 1]
         /\ P!Current \in File /\ P!Document = holds[P!Current]
         /\ P!Target = OutName[P!Current] /\ P!Target \in Name
<1>1. /\ Len(list) \in Nat /\ DOMAIN list = 1 .. Len(list) /\ Len(console) \in Nat
      /\ Len(console) <= Len(list) /\ Len(console) # Len(list)
  BY Places DEF Types, P!Done
<1>2. Len(console) + 1 \in DOMAIN list
  BY <1>1
<1> QED BY <1>2, Places DEF P!Current, P!Target, P!Document

LEMMA Directories ==
  ASSUME save \in 1 .. 3
  PROVE  /\ P!Dir \in Dirs
         /\ P!Dir = "title" <=> save = 1
         /\ P!Dir = "keyword" <=> save = 2
         /\ P!Dir = "type" <=> save = 3
         /\ Len(P!Directory) = 3
<1>1. /\ P!Directory[1] = "title" /\ P!Directory[2] = "keyword" /\ P!Directory[3] = "type"
      /\ Len(P!Directory) = 3
  BY DEF P!Directory
<1>2. save = 1 \/ save = 2 \/ save = 3
  OBVIOUS
<1> QED BY <1>1, <1>2 DEF P!Dir, Dirs

\* The text of a process, from XMLExtractProofs.
LEMMA ProcessText ==
  ASSUME NEW k \in X!Place, NEW m \in Nat
  PROVE  /\ X!TextOf(k, 0) = <<>>
         /\ Append(X!TextOf(k, m), [by |-> k, piece |-> m + 1]) = X!TextOf(k, m + 1)
BY XP!NoPieces, XP!OnePieceMore DEF X!Place, XP!Place, X!TextOf, XP!TextOf

-----------------------------------------------------------------------------
LEMMA InitIInv == Init => IInv
<1> SUFFICES ASSUME Init PROVE IInv
  OBVIOUS
<1>1. /\ list \in P!Lists /\ holds \in [File -> Content]
      /\ at = "read" /\ save = 1 /\ console = <<>>
      /\ dir = [d \in Dirs |-> [n \in Name |-> Missing]]
  BY DEF Init, P!Init, Dirs
<1>2. /\ next = 1
      /\ child = [k \in X!Place |-> "none"] /\ written = [k \in X!Place |-> 0]
  BY DEF Init, X!Init
<1>3. Len(list) \in Nat
  <2>1. PICK n \in 0 .. MaxFiles : list \in [1 .. n -> File]
    BY <1>1 DEF P!Lists
  <2>2. list \in Seq(File) /\ n \in Nat
    BY <2>1, CorpusScriptsAssumption
  <2> QED BY <2>2
<1>4. Types
  <2>1. dir \in [Dirs -> [Name -> {Missing}]]
    BY <1>1
  <2>2. \E texts : dir \in [Dirs -> [Name -> texts]]
    BY <2>1
  <2>3. console \in Seq(Lines) /\ Len(console) <= Len(list)
    BY <1>1, <1>3
  <2>4. /\ next \in 1 .. Len(list) + 1
        /\ child \in [X!Place -> {"none", "cmd", "xsltproc", "refused", "failed", "succeeded"}]
        /\ written \in [X!Place -> Nat]
        /\ \A k \in X!Place : child[k] # "none" => k < next
    BY <1>2, <1>3
  <2>5. /\ holds \in [File -> Content] /\ list \in P!Lists
        /\ at \in {"read", "open", "write", "close"} /\ save \in 1 .. 3
    BY <1>1
  <2> QED BY <2>2, <2>3, <2>4, <2>5 DEF Types
<1>5. InItsPlace /\ Apart
  BY <1>1, <1>2 DEF InItsPlace, Apart
<1>6. Extractor
  BY <1>2 DEF Extractor, Alone, WrittenSoFar, OwnText
<1>7. NeverMixed
  BY <1>1 DEF NeverMixed, Dirs
<1>8. ParsedTitleOrText
  <2>1. DOMAIN console = {}
    BY <1>1
  <2> QED BY <2>1 DEF ParsedTitleOrText
<1>9. ExtractedTextOrTitle
  BY <1>2, <1>4, Places DEF ExtractedTextOrTitle
<1> QED BY <1>4, <1>5, <1>6, <1>7, <1>8, <1>9 DEF IInv, Outputs

-----------------------------------------------------------------------------
(* Steps of XmlDocParser.                                                  *)

\* What one writer leaves in the file system.
LEMMA PutTouches ==
  ASSUME Types, ~P!Done, NEW text, dir' = P!Put(text)
  PROVE  /\ \E texts : dir' \in [Dirs -> [Name -> texts]]
         /\ \A d \in Dirs, n \in Name :
              dir'[d][n] = IF d = P!Dir /\ n = P!Target THEN text ELSE dir[d][n]
<1>1. PICK texts : dir \in [Dirs -> [Name -> texts]]
  BY DEF Types
<1>2. P!Dir \in Dirs /\ P!Target \in Name
  BY Directories, CurrentFile DEF Types
<1>3. dir' = [dir EXCEPT ![P!Dir][P!Target] = text]
  BY DEF P!Put
<1>4. dir' \in [Dirs -> [Name -> texts \cup {text}]]
  BY <1>1, <1>2, <1>3
<1> QED BY <1>1, <1>2, <1>3, <1>4

\* A step of XmlDocParser puts nothing into another file than the one it writes, and
\* nothing but a beginning of its text there; and no title while a process has it.
Touched(d, n) ==
  /\ ~P!Done /\ at \in {"open", "write"}
  /\ d = P!Dir /\ n = P!Target
  /\ dir'[d][n] \in P!Beginnings(P!Text)
  /\ d = "title" => ~ProcessHas(n)

LEMMA ParserTouches ==
  ASSUME IInv, ParserStep
  PROVE  /\ UNCHANGED <<holds, list, next, child, written>>
         /\ \E texts : dir' \in [Dirs -> [Name -> texts]]
         /\ \A d \in Dirs, n \in Name : dir'[d][n] = dir[d][n] \/ Touched(d, n)
<1>1. UNCHANGED <<holds, list, next, child, written>>
  BY DEF ParserStep, P!Step, extractor
<1>2. CASE UNCHANGED dir
  <2>1. \E texts : dir \in [Dirs -> [Name -> texts]]
    BY DEF IInv, Types
  <2> QED BY <1>1, <1>2, <2>1
<1>3. ASSUME ~P!Done, at \in {"open", "write"}, NEW text \in P!Beginnings(P!Text),
             dir' = P!Put(text), P!Dir = "title" => ~ProcessHas(P!Target)
      PROVE  /\ \E texts : dir' \in [Dirs -> [Name -> texts]]
             /\ \A d \in Dirs, n \in Name : dir'[d][n] = dir[d][n] \/ Touched(d, n)
  <2>1. /\ \E texts : dir' \in [Dirs -> [Name -> texts]]
        /\ \A d \in Dirs, n \in Name :
             dir'[d][n] = IF d = P!Dir /\ n = P!Target THEN text ELSE dir[d][n]
    BY <1>3, PutTouches DEF IInv
  <2>2. ASSUME NEW d \in Dirs, NEW n \in Name, d = P!Dir /\ n = P!Target
        PROVE  Touched(d, n)
    BY <1>3, <2>1, <2>2 DEF Touched
  <2> QED BY <2>1, <2>2
<1>4. P!Text \in P!Beginnings(P!Text) /\ <<>> \in P!Beginnings(P!Text)
  BY DEF P!Beginnings
<1>5. ASSUME P!Open PROVE \/ UNCHANGED dir
                          \/ P!Dir = "title" => ~ProcessHas(P!Target)
  BY <1>5 DEF ParserStep, P!Open, P!At, P!OpenFails, OpensTitle
<1>6. ASSUME P!At("write") PROVE P!Dir = "title" => ~ProcessHas(P!Target)
  BY <1>6 DEF P!At, ProcessHas, ParserHas, IInv, Apart, X!Live
<1>7. CASE P!Open
  BY <1>1, <1>2, <1>3, <1>4, <1>5, <1>7 DEF P!Open, P!At
<1>8. CASE P!WriteAndFlush
  BY <1>1, <1>3, <1>4, <1>6, <1>8 DEF P!WriteAndFlush, P!At
<1>9. CASE P!WriteFails
  <2>1. PICK text \in P!Beginnings(P!Text) : dir' = P!Put(text)
    BY <1>4, <1>9 DEF P!WriteFails
  <2> QED BY <1>1, <1>3, <1>6, <1>9, <2>1 DEF P!WriteFails, P!At
<1>10. CASE P!Extract \/ P!ExtractFails \/ P!OpenFails \/ P!Close \/ P!CloseFails
  BY <1>1, <1>2, <1>10 DEF P!Extract, P!ExtractFails, P!OpenFails, P!Close, P!CloseFails
<1> QED BY <1>7, <1>8, <1>9, <1>10 DEF ParserStep, P!Step

\* What it leaves of the processes, and of what is in one file.
LEMMA ParserLeavesProcesses ==
  ASSUME IInv, ParserStep
  PROVE  Extractor' /\ NeverMixed'
<1>1. /\ UNCHANGED <<holds, list, next, child, written>>
      /\ \A d \in Dirs, n \in Name : dir'[d][n] = dir[d][n] \/ Touched(d, n)
  BY ParserTouches
<1>2. /\ Alone' /\ WrittenSoFar'
      /\ \A k \in X!Place : X!Target(k)' = X!Target(k)
      /\ \A n : TextsUnder(n)' = TextsUnder(n)
      /\ \A f : TitleOf(f)' = TitleOf(f)
  BY <1>1 DEF IInv, Extractor, Alone, WrittenSoFar, X!Target, TextsUnder, X!TextOf, X!Opened,
              TitleOf, P!TextFor
<1>3. ASSUME NEW k \in X!Place, child[k] = "xsltproc"
      PROVE  dir'["title"][X!Target(k)] = X!TextOf(k, written[k])
  <2>1. X!Target(k) \in Name /\ "title" \in Dirs
    BY <1>3, Places DEF IInv, Dirs
  <2>2. ProcessHas(X!Target(k))
    BY <1>3 DEF ProcessHas, X!Live
  <2>3. ~Touched("title", X!Target(k))
    BY <2>2 DEF Touched
  <2> QED BY <1>1, <1>3, <2>1, <2>3 DEF IInv, Extractor, OwnText
<1>4. OwnText'
  BY <1>1, <1>2, <1>3 DEF OwnText, X!TextOf
<1>5. ASSUME NEW n \in Name
      PROVE  \/ dir'["title"][n] = Missing
             \/ \E f \in File : OutName[f] = n /\ dir'["title"][n] \in P!Beginnings(TitleOf(f))
             \/ dir'["title"][n] \in TextsUnder(n)
  <2>1. CASE dir'["title"][n] = dir["title"][n]
    BY <2>1 DEF IInv, Outputs, NeverMixed
  <2>2. CASE Touched("title", n)
    <3>1. P!Current \in File /\ OutName[P!Current] = n /\ P!Text = TitleOf(P!Current)
      BY <2>2, CurrentFile DEF Touched, IInv, P!Text, TitleOf
    <3> QED BY <2>2, <3>1 DEF Touched
  <2> QED BY <1>1, <2>1, <2>2 DEF Dirs
<1>6. NeverMixed'
  BY <1>2, <1>5 DEF NeverMixed, P!Beginnings
<1> QED BY <1>2, <1>4, <1>6 DEF Extractor

\* One line more is a line for the current file, and changes none before it.
LEMMA OneLineMore ==
  ASSUME console \in Seq(Lines), NEW line \in Lines, console' = Append(console, line)
  PROVE  /\ console' \in Seq(Lines)
         /\ Len(console') = Len(console) + 1
         /\ DOMAIN console' = DOMAIN console \cup {Len(console) + 1}
         /\ \A k \in DOMAIN console : console'[k] = console[k]
         /\ console'[Len(console) + 1] = line
<1>1. Len(console) \in Nat /\ DOMAIN console = 1 .. Len(console)
  OBVIOUS
<1>2. /\ console' \in Seq(Lines)
      /\ Len(console') = Len(console) + 1
      /\ \A k \in 1 .. Len(console) : console'[k] = console[k]
      /\ console'[Len(console) + 1] = line
  BY <1>1, AppendProperties
<1>3. DOMAIN console' = 1 .. Len(console) + 1
  BY <1>2
<1>4. 1 .. Len(console) + 1 = (1 .. Len(console)) \cup {Len(console) + 1}
  BY <1>1
<1> QED BY <1>1, <1>2, <1>3, <1>4

\* A step prints a line for the current file, and goes on with the next one, or it
\* prints nothing.
LEMMA ParserPrints ==
  ASSUME ParserStep
  PROVE  /\ ~P!Done
         /\ \/ at' # "read" /\ UNCHANGED console
            \/ /\ at' = "read" /\ save' = 1
               /\ \E line \in Lines : /\ console' = Append(console, line)
                                      /\ line = "parsed" => at = "close" /\ save = 3 /\ UNCHANGED dir
<1>1. ASSUME P!Catch
      PROVE  at' = "read" /\ save' = 1 /\ console' = Append(console, "error")
  BY <1>1 DEF P!Catch, P!PrintLine
<1>2. CASE P!Extract \/ P!Open \/ P!WriteAndFlush
  BY <1>2 DEF P!Extract, P!Open, P!WriteAndFlush, P!At
<1>3. CASE P!ExtractFails \/ P!OpenFails \/ P!WriteFails \/ P!CloseFails
  BY <1>1, <1>3 DEF P!ExtractFails, P!OpenFails, P!WriteFails, P!CloseFails, P!At, Lines
<1>4. CASE P!Close
  <2>1. Len(P!Directory) = 3
    BY DEF P!Directory
  <2> QED BY <1>4, <2>1 DEF P!Close, P!At, P!PrintLine, Lines
<1> QED BY <1>2, <1>3, <1>4 DEF ParserStep, P!Step

\* After a line it has nothing open and nothing to account for.
LEMMA ParserPrintsInPlace ==
  ASSUME IInv, ParserStep, at' = "read"
  PROVE  Types' /\ InItsPlace' /\ Apart'
<1>1. /\ ~P!Done /\ save' = 1
      /\ \E line \in Lines : console' = Append(console, line)
  BY ParserPrints
<1>2. /\ UNCHANGED <<holds, list, next, child, written>>
      /\ \E texts : dir' \in [Dirs -> [Name -> texts]]
  BY ParserTouches
<1>3. console' \in Seq(Lines) /\ Len(console') = Len(console) + 1
  BY <1>1, OneLineMore DEF IInv, Types
<1>4. Len(console') <= Len(list)
  <2>1. Len(list) \in Nat /\ DOMAIN list = 1 .. Len(list) /\ Len(console) + 1 \in DOMAIN list
    BY <1>1, Places, CurrentFile DEF IInv
  <2> QED BY <1>3, <2>1
<1>5. Types'
  <2>1. at' \in {"read", "open", "write", "close"} /\ save' \in 1 .. 3
    BY <1>1
  <2> QED BY <1>2, <1>3, <1>4, <2>1 DEF IInv, Types, P!Lists, X!Place
<1>6. InItsPlace' /\ Apart'
  BY <1>1 DEF InItsPlace, Apart, ParserHas
<1> QED BY <1>5, <1>6

\* Before it, it saves one thing after the other.
LEMMA ParserGoesOn ==
  ASSUME IInv, ParserStep, at' # "read"
  PROVE  Types' /\ InItsPlace' /\ Apart'
<1>1. /\ UNCHANGED <<holds, list, next, child, written>>
      /\ \E texts : dir' \in [Dirs -> [Name -> texts]]
      /\ ~P!Done /\ UNCHANGED console
  BY ParserTouches, ParserPrints
<1>2. /\ P!Target' = P!Target /\ P!Document' = P!Document /\ P!Current' = P!Current
      /\ ~P!Done'
      /\ \A k \in X!Place : X!Target(k)' = X!Target(k)
      /\ \A n : TextsUnder(n)' = TextsUnder(n)
      /\ P!Extractable(P!Document)' = P!Extractable(P!Document)
      /\ \A d \in Dirs : P!TextFor(d, P!Document)' = P!TextFor(d, P!Document)
  BY <1>1 DEF P!Target, P!Document, P!Current, P!Done, X!Target, TextsUnder, X!TextOf,
              X!Opened
<1>3. P!Dir \in Dirs /\ (P!Dir = "title" <=> save = 1) /\ (P!Dir = "keyword" <=> save = 2)
      /\ (P!Dir = "type" <=> save = 3) /\ save \in {1, 2, 3} /\ Len(P!Directory) = 3
  BY Directories DEF IInv, Types
<1>4. P!Target \in Name
  BY <1>1, CurrentFile DEF IInv
<1>5. ASSUME at' \in {"open", "write", "close"}, save' \in 1 .. 3 PROVE Types'
  BY <1>1, <1>5 DEF IInv, Types, P!Lists, X!Place
<1>6. CASE P!Extract
  <2>1. at = "read" /\ at' = "open" /\ save = 1 /\ save' = 1 /\ P!Extractable(P!Document)
    BY <1>6 DEF P!Extract, P!At, IInv, InItsPlace
  <2>2. InItsPlace' /\ Apart'
    BY <1>2, <2>1 DEF InItsPlace, Apart, ParserHas
  <2> QED BY <1>5, <2>1, <2>2
<1>7. CASE P!Open
  <2>1. at = "open" /\ at' = "write" /\ save' = save /\ dir' = P!Put(<<>>)
    BY <1>7 DEF P!Open, P!At
  <2>2. \A d \in Dirs : d # P!Dir => dir'[d][P!Target] = dir[d][P!Target]
    BY <1>1, <1>3, <1>4, <2>1, PutTouches DEF IInv
  <2>3. InItsPlace'
    BY <1>2, <1>3, <2>1, <2>2 DEF IInv, InItsPlace, Dirs
  <2>4. save = 1 => ~ProcessHas(P!Target)
    BY <1>1, <1>3, <2>1 DEF ParserStep, OpensTitle, P!At, P!OpenFails, P!Catch, P!PrintLine
  <2>5. Apart'
    BY <1>1, <1>2, <1>3, <2>1, <2>4 DEF Apart, ParserHas, ProcessHas, X!Live, P!Dir
  <2> QED BY <1>3, <1>5, <2>1, <2>3, <2>5
<1>8. CASE P!WriteAndFlush
  <2>1. at = "write" /\ at' = "close" /\ save' = save /\ dir' = P!Put(P!Text)
    BY <1>8 DEF P!WriteAndFlush, P!At
  <2>2. /\ \A d \in Dirs : d # P!Dir => dir'[d][P!Target] = dir[d][P!Target]
        /\ dir'[P!Dir][P!Target] = P!TextFor(P!Dir, P!Document)
    BY <1>1, <1>3, <1>4, <2>1, PutTouches DEF IInv, P!Text
  <2>3. InItsPlace'
    BY <1>2, <1>3, <2>1, <2>2 DEF IInv, InItsPlace, Dirs
  <2>4. Apart'
    BY <1>1, <1>2, <1>3, <2>1 DEF IInv, Apart, ParserHas, P!Dir
  <2> QED BY <1>3, <1>5, <2>1, <2>3, <2>4
<1>9. CASE P!Close
  <2>1. at = "close" /\ at' = "open" /\ save # 3 /\ save' = save + 1 /\ UNCHANGED dir
    BY <1>3, <1>9 DEF P!Close, P!At, P!PrintLine
  <2>2. InItsPlace'
    BY <1>2, <1>3, <2>1 DEF IInv, InItsPlace, Dirs
  <2>3. Apart'
    BY <2>1 DEF Apart, ParserHas
  <2> QED BY <1>3, <1>5, <2>1, <2>2, <2>3
<1>10. CASE P!ExtractFails \/ P!OpenFails \/ P!WriteFails \/ P!CloseFails
  BY <1>10 DEF P!ExtractFails, P!OpenFails, P!WriteFails, P!CloseFails, P!Catch, P!PrintLine
<1> QED BY <1>6, <1>7, <1>8, <1>9, <1>10 DEF ParserStep, P!Step

\* A file that is not the current one loses its line's truth only by a later one.
LEMMA ParserKeepsParsed ==
  ASSUME IInv, ParserStep
  PROVE  ParsedTitleOrText'
<1> DEFINE new == Len(console) + 1
<1>1. /\ UNCHANGED <<holds, list, child, written>>
      /\ \A d \in Dirs, n \in Name : dir'[d][n] = dir[d][n] \/ Touched(d, n)
      /\ ~P!Done
  BY ParserTouches, ParserPrints
<1>2. /\ \A n : TextsUnder(n)' = TextsUnder(n)
      /\ \A f : TitleOf(f)' = TitleOf(f)
      /\ \A d \in Dirs, f \in File : P!TextFor(d, holds[f])' = P!TextFor(d, holds[f])
  BY <1>1 DEF TextsUnder, X!TextOf, X!Target, X!Opened, TitleOf
<1>3. /\ new \in DOMAIN list /\ list[new] = P!Current /\ OutName[list[new]] = P!Target
      /\ P!Document = holds[list[new]] /\ P!Target \in Name
      /\ DOMAIN list = 1 .. Len(list) /\ Len(list) \in Nat
      /\ DOMAIN console = 1 .. Len(console) /\ Len(console) \in Nat
      /\ DOMAIN console \subseteq DOMAIN list
      /\ \A k \in DOMAIN list : list[k] \in File /\ OutName[list[k]] \in Name
  BY <1>1, CurrentFile, Places DEF IInv
<1> DEFINE True(k) ==
      /\ \A d \in {"keyword", "type"} :
           dir'[d][OutName[list[k]]] = P!TextFor(d, holds[list[k]])
      /\ dir'["title"][OutName[list[k]]] \in {TitleOf(list[k])} \cup TextsUnder(OutName[list[k]])
<1>4. ASSUME NEW k \in DOMAIN console, console[k] = "parsed", P!Last(k),
             OutName[list[k]] # P!Target
      PROVE  True(k)
  <2> DEFINE n == OutName[list[k]]
  <2>1. ~P!Busy(n) /\ n \in Name
    BY <1>3, <1>4 DEF P!Busy
  <2>2. \A d \in Dirs : dir'[d][n] = dir[d][n]
    BY <1>1, <1>4, <2>1 DEF Touched
  <2>3. /\ \A d \in {"keyword", "type"} : dir[d][n] = P!TextFor(d, holds[list[k]])
        /\ dir["title"][n] \in {TitleOf(list[k])} \cup TextsUnder(n)
    BY <1>4, <2>1 DEF IInv, Outputs, ParsedTitleOrText
  <2> QED BY <2>2, <2>3 DEF Dirs
<1>5. ASSUME at' # "read", UNCHANGED console,
             NEW k \in DOMAIN console', console'[k] = "parsed", P!Last(k)',
             ~P!Busy(OutName[list[k]])'
      PROVE  True(k)
  <2>1. P!Last(k) /\ OutName[list[k]] # P!Target
    BY <1>1, <1>5 DEF P!Last, P!Finishers, P!Busy, P!Done, P!Target, P!Current
  <2> QED BY <1>4, <1>5, <2>1
<1>6. ASSUME NEW line \in Lines, console' = Append(console, line),
             line = "parsed" => at = "close" /\ save = 3 /\ UNCHANGED dir,
             NEW k \in DOMAIN console', console'[k] = "parsed", P!Last(k)'
      PROVE  True(k)
  <2>1. /\ DOMAIN console' = DOMAIN console \cup {new}
        /\ \A j \in DOMAIN console : console'[j] = console[j]
        /\ console'[new] = line
    BY <1>6, OneLineMore DEF IInv, Types
  <2>2. CASE k = new
    <3>1. at = "close" /\ save = 3 /\ UNCHANGED dir
      BY <1>6, <2>1, <2>2
    <3>2. /\ dir["title"][P!Target] \in {P!TextFor("title", P!Document)} \cup TextsUnder(P!Target)
          /\ dir["keyword"][P!Target] = P!TextFor("keyword", P!Document)
          /\ dir["type"][P!Target] = P!TextFor("type", P!Document)
      BY <3>1 DEF IInv, InItsPlace
    <3> QED BY <1>3, <2>2, <3>1, <3>2 DEF TitleOf
  <2>3. CASE k # new
    <3>1. k \in DOMAIN console /\ console[k] = "parsed" /\ k < new
      BY <1>3, <1>6, <2>1, <2>3
    <3>2. OutName[list[k]] # P!Target
      <4>1. SUFFICES ASSUME OutName[list[k]] = P!Target PROVE FALSE
        OBVIOUS
      <4>2. new \in P!Finishers(OutName[list[k]])'
        BY <1>1, <1>3, <2>1, <4>1 DEF P!Finishers
      <4>3. new <= k
        BY <1>1, <1>6, <4>2 DEF P!Last
      <4> QED BY <1>3, <3>1, <4>3
    <3>3. P!Last(k)
      BY <1>1, <1>6, <2>1 DEF P!Last, P!Finishers
    <3> QED BY <1>4, <3>1, <3>2, <3>3
  <2> QED BY <2>2, <2>3
<1>7. ASSUME NEW k \in DOMAIN console', console'[k] = "parsed", P!Last(k)',
             ~P!Busy(OutName[list[k]])'
      PROVE  True(k)
  BY <1>5, <1>6, <1>7, ParserPrints
<1>8. \A k \in DOMAIN console' : k \in DOMAIN list
  <2>1. CASE UNCHANGED console
    BY <1>3, <2>1
  <2>2. CASE \E line \in Lines : console' = Append(console, line)
    BY <1>3, <2>2, OneLineMore DEF IInv, Types
  <2> QED BY <2>1, <2>2, ParserPrints
<1> HIDE DEF new
<1> QED BY <1>1, <1>2, <1>3, <1>7, <1>8 DEF ParsedTitleOrText, Dirs

\* An extracted text gives way to the title of its own file alone.
LEMMA ParserKeepsExtracted ==
  ASSUME IInv, ParserStep
  PROVE  ExtractedTextOrTitle'
<1> DEFINE new == Len(console) + 1
<1>1. /\ UNCHANGED <<holds, list, child, written>>
      /\ \A d \in Dirs, n \in Name : dir'[d][n] = dir[d][n] \/ Touched(d, n)
      /\ ~P!Done
  BY ParserTouches, ParserPrints
<1>2. /\ \A f : TitleOf(f)' = TitleOf(f)
      /\ \A k : X!TextOf(k, Pieces[list[k]])' = X!TextOf(k, Pieces[list[k]])
      /\ \A t : P!Beginnings(t)' = P!Beginnings(t)
  BY <1>1 DEF X!TextOf, TitleOf, P!Beginnings
<1>3. /\ new \in DOMAIN list /\ list[new] = P!Current /\ OutName[list[new]] = P!Target
      /\ P!Document = holds[list[new]]
      /\ DOMAIN list = 1 .. Len(list) /\ Len(list) \in Nat /\ Len(console) \in Nat
      /\ \A k \in DOMAIN list : k \in Nat /\ list[k] \in File /\ OutName[list[k]] \in Name
  BY <1>1, CurrentFile, Places DEF IInv
<1>4. /\ Len(console') \in Nat /\ Len(console') >= Len(console)
      /\ at' = "read" => Len(console') = new
      /\ at' # "read" => ~P!Done' /\ P!Target' = P!Target /\ Len(console') = Len(console)
  <2>1. CASE at' # "read" /\ UNCHANGED console
    BY <1>1, <1>3, <2>1 DEF P!Done, P!Target, P!Current
  <2>2. CASE at' = "read" /\ \E line \in Lines : console' = Append(console, line)
    BY <1>3, <2>2, OneLineMore DEF IInv, Types
  <2> QED BY <2>1, <2>2, ParserPrints
<1>5. ASSUME NEW k \in DOMAIN list, child[k] = "succeeded",
             \A j \in DOMAIN list : OutName[list[j]] = OutName[list[k]] => j = k
      PROVE  LET n == OutName[list[k]] IN
             \/ dir'["title"][n] = X!TextOf(k, Pieces[list[k]])
             \/ /\ k <= Len(console') \/ P!Busy(n)'
                /\ dir'["title"][n] \in P!Beginnings(TitleOf(list[k]))
  <2> DEFINE n == OutName[list[k]]
  <2>1. n \in Name /\ "title" \in Dirs /\ k \in Nat
    BY <1>3 DEF Dirs
  <2>2. n = P!Target => k = new
    BY <1>3, <1>5
  <2>3. ASSUME k <= Len(console) \/ n = P!Target PROVE k <= Len(console') \/ P!Busy(n)'
    <3>1. CASE at' = "read" \/ k <= Len(console)
      BY <1>3, <1>4, <2>1, <2>2, <2>3, <3>1
    <3>2. CASE at' # "read" /\ n = P!Target
      BY <1>1, <1>4, <3>2 DEF P!Busy
    <3> QED BY <2>3, <3>1, <3>2
  <2>4. CASE Touched("title", n)
    <3>1. n = P!Target /\ P!Text = TitleOf(list[k])
      BY <1>3, <2>2, <2>4 DEF Touched, P!Text, TitleOf
    <3> QED BY <2>3, <2>4, <3>1 DEF Touched
  <2>5. CASE dir'["title"][n] = dir["title"][n]
    <3>1. \/ dir["title"][n] = X!TextOf(k, Pieces[list[k]])
          \/ /\ k <= Len(console) \/ P!Busy(n)
             /\ dir["title"][n] \in P!Beginnings(TitleOf(list[k]))
      BY <1>5 DEF IInv, Outputs, ExtractedTextOrTitle
    <3>2. P!Busy(n) => n = P!Target
      BY DEF P!Busy
    <3> QED BY <2>3, <2>5, <3>1, <3>2
  <2> QED BY <1>1, <2>1, <2>4, <2>5
<1> HIDE DEF new
<1> QED BY <1>1, <1>2, <1>5 DEF ExtractedTextOrTitle

LEMMA ParserKeeps ==
  ASSUME IInv, ParserStep
  PROVE  IInv'
<1>1. Types' /\ InItsPlace' /\ Apart'
  BY ParserPrintsInPlace, ParserGoesOn
<1> QED BY <1>1, ParserLeavesProcesses, ParserKeepsParsed, ParserKeepsExtracted DEF IInv, Outputs

-----------------------------------------------------------------------------
(* Steps of a process.                                                     *)

\* It is in its file alone when it begins, and what it writes goes behind what it has
\* written; or it leaves its file as it is.
Writes(k) ==
  /\ child'[k] = "xsltproc"
  /\ dir'["title"][X!Target(k)] = X!TextOf(k, written'[k])
  /\ ~ParserHas(X!Target(k))
  /\ \A j \in X!Place : child[j] = "xsltproc" /\ X!Target(j) = X!Target(k) => j = k

Waits(k) ==
  /\ dir'["title"][X!Target(k)] = dir["title"][X!Target(k)]
  /\ written'[k] = written[k]
  /\ child'[k] = "xsltproc" => child[k] = "xsltproc"
  /\ child'[k] = "succeeded" => child[k] = "xsltproc" /\ written[k] = Pieces[list[k]]
  /\ child'[k] = "refused" => child[k] = "cmd"

LEMMA ProcessTouches ==
  ASSUME IInv, NEW k \in DOMAIN list, ProcessStep(k)
  PROVE  /\ UNCHANGED <<holds, list, at, save, console, next>>
         /\ k \in X!Place /\ X!Target(k) \in Name
         /\ child[k] \in {"cmd", "xsltproc"}
         /\ child'[k] \in {"xsltproc", "refused", "failed", "succeeded"}
         /\ written'[k] \in Nat
         /\ child' = [child EXCEPT ![k] = child'[k]]
         /\ written' = [written EXCEPT ![k] = written'[k]]
         /\ \E texts : dir' \in [Dirs -> [Name -> texts]]
         /\ \A d \in Dirs, n \in Name :
              d # "title" \/ n # X!Target(k) => dir'[d][n] = dir[d][n]
         /\ Writes(k) \/ Waits(k)
<1> DEFINE n == X!Target(k)
           e == [by |-> k, piece |-> written[k] + 1]
<1>1. k \in X!Place /\ n \in Name /\ "title" \in Dirs
  BY Places DEF IInv, Dirs
<1>2. /\ child \in [X!Place -> {"none", "cmd", "xsltproc", "refused", "failed", "succeeded"}]
      /\ written \in [X!Place -> Nat]
  BY DEF IInv, Types
<1>3. UNCHANGED <<holds, list, at, save, console, next>>
  BY DEF ProcessStep, parser, X!Child, X!Progress, X!main
<1>4. /\ \E texts : dir' \in [Dirs -> [Name -> texts]]
      /\ \A d \in Dirs, m \in Name : d # "title" \/ m # n => dir'[d][m] = dir[d][m]
  <2>1. PICK texts : dir \in [Dirs -> [Name -> texts]]
    BY DEF IInv, Types
  <2>2. PICK text : dir' = [dir EXCEPT !["title"][n] = text]
    BY DEF ProcessStep
  <2>3. dir' \in [Dirs -> [Name -> texts \cup {text}]]
    BY <1>1, <2>1, <2>2
  <2> QED BY <1>1, <2>1, <2>2, <2>3
<1>5. \E texts : dir["title"] \in [Name -> texts]
  BY <1>1 DEF IInv, Types
<1>6. CASE X!Redirect(k)
  <2>1. /\ child[k] = "cmd" /\ child' = [child EXCEPT ![k] = "xsltproc"] /\ written' = written
        /\ dir'["title"] = [dir["title"] EXCEPT ![n] = <<>>]
        /\ \A j \in X!Place : child[j] = "xsltproc" => X!Target(j) # n
    BY <1>6 DEF X!Redirect, X!Becomes, X!Open, X!Live
  <2>2. dir'["title"][n] = X!TextOf(k, written'[k])
    <3>1. written'[k] = 0
      BY <1>1, <2>1 DEF IInv, Extractor, WrittenSoFar
    <3>2. X!TextOf(k, 0) = <<>>
      BY <1>1, ProcessText
    <3>3. dir'["title"][n] = <<>>
      BY <1>1, <1>5, <2>1
    <3>4. X!TextOf(k, written'[k]) = X!TextOf(k, 0)
      BY <3>1
    <3> QED BY <3>2, <3>3, <3>4
  <2>3. child'[k] = "xsltproc"
    BY <1>1, <1>2, <2>1
  <2>4. ~ParserHas(n)
    <3>1. SUFFICES ASSUME ParserHas(n) PROVE FALSE
      OBVIOUS
    <3>2. child' = [child EXCEPT ![k] = "refused"]
      BY <2>1, <3>1 DEF ProcessStep, X!RedirectFails, X!Becomes
    <3> QED BY <1>1, <1>2, <2>3, <3>2
  <2>5. Writes(k)
    BY <2>1, <2>2, <2>3, <2>4 DEF Writes
  <2> QED BY <1>1, <1>2, <1>3, <1>4, <2>1, <2>3, <2>5
<1>7. CASE X!WritePiece(k)
  <2>1. /\ child[k] = "xsltproc" /\ child' = child
        /\ written' = [written EXCEPT ![k] = written[k] + 1]
        /\ dir'["title"] = [dir["title"] EXCEPT ![n] = Append(dir["title"][n], [by |-> k, piece |-> written'[k]])]
    BY <1>7 DEF X!WritePiece
  <2>2. written'[k] = written[k] + 1 /\ written[k] \in Nat
    BY <1>1, <1>2, <2>1
  <2>3. dir'["title"][n] = Append(X!TextOf(k, written[k]), e)
    <3>1. dir["title"][n] = X!TextOf(k, written[k])
      BY <1>1, <2>1 DEF IInv, Extractor, OwnText
    <3> QED BY <1>1, <1>5, <2>1, <2>2, <3>1
  <2>4. X!TextOf(k, written'[k]) = X!TextOf(k, written[k] + 1)
    BY <2>2
  <2>5. dir'["title"][n] = X!TextOf(k, written'[k])
    BY <1>1, <2>2, <2>3, <2>4, ProcessText
  <2>6. Writes(k)
    BY <1>1, <2>1, <2>5 DEF Writes, IInv, Apart, Extractor, Alone
  <2>7. /\ child' = [child EXCEPT ![k] = child'[k]]
        /\ written' = [written EXCEPT ![k] = written'[k]]
        /\ child'[k] = "xsltproc" /\ written'[k] \in Nat
    BY <1>1, <1>2, <2>1, <2>2
  <2> QED BY <1>1, <1>3, <1>4, <2>1, <2>6, <2>7
<1>8. CASE X!Warn(k)
  <2>1. child[k] = "xsltproc" /\ UNCHANGED <<child, written>> /\ dir'["title"] = dir["title"]
    BY <1>8 DEF X!Warn
  <2>2. Waits(k)
    BY <2>1 DEF Waits
  <2> QED BY <1>1, <1>2, <1>3, <1>4, <2>1, <2>2
<1>9. CASE X!RedirectFails(k) \/ X!Exit(k) \/ X!Fail(k)
  <2>1. PICK state \in {"refused", "failed", "succeeded"} :
          /\ child' = [child EXCEPT ![k] = state]
          /\ state = "succeeded" => child[k] = "xsltproc" /\ written[k] = Pieces[list[k]]
          /\ state = "refused" => child[k] = "cmd"
    BY <1>9 DEF X!RedirectFails, X!Exit, X!Fail, X!Becomes
  <2>2. /\ child[k] \in {"cmd", "xsltproc"} /\ written' = written
        /\ dir'["title"] = dir["title"]
    BY <1>9 DEF X!RedirectFails, X!Exit, X!Fail
  <2>3. child'[k] = state
    BY <1>1, <1>2, <2>1
  <2>4. Waits(k)
    BY <2>1, <2>2, <2>3 DEF Waits
  <2> QED BY <1>1, <1>2, <1>3, <1>4, <2>1, <2>2, <2>3, <2>4
<1> QED BY <1>6, <1>7, <1>8, <1>9 DEF ProcessStep, X!Child, X!Progress

\* A text of a process stays one when a process goes on.
LEMMA TextsKept ==
  ASSUME IInv, NEW k \in DOMAIN list, ProcessStep(k), NEW n \in Name
  PROVE  \/ dir'["title"][n] = dir["title"][n] /\ TextsUnder(n) \subseteq TextsUnder(n)'
         \/ dir'["title"][n] \in TextsUnder(n)'
<1>1. /\ k \in X!Place /\ UNCHANGED list
      /\ child[k] \in {"cmd", "xsltproc"}
      /\ child'[k] \in {"xsltproc", "refused", "failed", "succeeded"}
      /\ child' = [child EXCEPT ![k] = child'[k]]
      /\ written' = [written EXCEPT ![k] = written'[k]]
      /\ n # X!Target(k) => dir'["title"][n] = dir["title"][n]
      /\ Writes(k) \/ Waits(k)
  BY ProcessTouches DEF Dirs
<1>2. /\ \A j \in X!Place : j # k => child'[j] = child[j] /\ written'[j] = written[j]
      /\ \A j : X!Target(j)' = X!Target(j)
      /\ \A j \in DOMAIN list : j \in X!Place
  BY <1>1, Places DEF IInv, Types, X!Target
<1>3. \A j : X!TextOf(j, written[j])' = X!TextOf(j, written'[j])
  BY DEF X!TextOf
<1>4. CASE n # X!Target(k) \/ Waits(k)
  <2>1. ASSUME NEW j \in DOMAIN list, X!Target(j) = n, X!Opened(j)
        PROVE  X!Opened(j)' /\ written'[j] = written[j] /\ X!Target(j)' = n
    <3>1. CASE j = k
      BY <1>1, <1>2, <1>4, <2>1, <3>1 DEF Waits, X!Opened
    <3>2. CASE j # k
      BY <1>2, <2>1, <3>2 DEF X!Opened
    <3> QED BY <3>1, <3>2
  <2>2. ASSUME NEW t \in TextsUnder(n) PROVE t \in TextsUnder(n)'
    <3>1. PICK j \in DOMAIN list : X!Target(j) = n /\ X!Opened(j) /\ t = X!TextOf(j, written[j])
      BY <2>2 DEF TextsUnder
    <3>2. t = X!TextOf(j, written[j])'
      BY <1>3, <2>1, <3>1
    <3> QED BY <1>1, <2>1, <3>1, <3>2 DEF TextsUnder
  <2> QED BY <1>1, <1>4, <2>2 DEF Waits
<1>5. CASE n = X!Target(k) /\ Writes(k)
  <2>1. dir'["title"][n] = X!TextOf(k, written[k])'
    BY <1>3, <1>5 DEF Writes
  <2> QED BY <1>1, <1>2, <1>5, <2>1 DEF TextsUnder, Writes, X!Opened
<1> QED BY <1>1, <1>4, <1>5

LEMMA ProcessKeepsExtractor ==
  ASSUME IInv, NEW k \in DOMAIN list, ProcessStep(k)
  PROVE  Types' /\ InItsPlace' /\ Apart' /\ Extractor'
<1>1. /\ UNCHANGED <<holds, list, at, save, console, next>>
      /\ k \in X!Place /\ X!Target(k) \in Name
      /\ child[k] \in {"cmd", "xsltproc"}
      /\ child'[k] \in {"xsltproc", "refused", "failed", "succeeded"}
      /\ written'[k] \in Nat
      /\ \E texts : dir' \in [Dirs -> [Name -> texts]]
      /\ \A d \in Dirs, n \in Name :
           d # "title" \/ n # X!Target(k) => dir'[d][n] = dir[d][n]
      /\ Writes(k) \/ Waits(k)
  BY ProcessTouches
<1>2. /\ child' = [child EXCEPT ![k] = child'[k]]
      /\ written' = [written EXCEPT ![k] = written'[k]]
      /\ \A j \in X!Place : j # k => child'[j] = child[j] /\ written'[j] = written[j]
      /\ \A j : X!Target(j)' = X!Target(j)
      /\ \A n : ParserHas(n)' = ParserHas(n)
  BY <1>1, ProcessTouches
     DEF IInv, Types, X!Target, ParserHas, P!Done, P!Dir, P!Target, P!Current
<1>3. Types'
  <2>1. child' \in [X!Place -> {"none", "cmd", "xsltproc", "refused", "failed", "succeeded"}]
    BY <1>1, <1>2 DEF IInv, Types
  <2>2. written' \in [X!Place -> Nat]
    BY <1>1, <1>2 DEF IInv, Types
  <2>3. \A j \in X!Place : child'[j] # "none" => j < next
    BY <1>1, <1>2 DEF IInv, Types
  <2> QED BY <1>1, <2>1, <2>2, <2>3 DEF IInv, Types, P!Lists, X!Place
<1>4. InItsPlace'
  <2>1. /\ P!Done' = P!Done /\ P!Target' = P!Target /\ P!Document' = P!Document
        /\ P!Extractable(P!Document)' = P!Extractable(P!Document)
        /\ \A d \in Dirs : P!TextFor(d, P!Document)' = P!TextFor(d, P!Document)
    BY <1>1 DEF P!Done, P!Target, P!Document, P!Current
  <2>2. CASE at = "read"
    BY <1>1, <2>2 DEF IInv, InItsPlace
  <2>3. CASE at # "read"
    <3>1. P!Target \in Name /\ ~P!Done /\ P!Extractable(P!Document)
      BY <2>3, CurrentFile DEF IInv, InItsPlace
    <3>2. /\ dir'["keyword"][P!Target] = dir["keyword"][P!Target]
          /\ dir'["type"][P!Target] = dir["type"][P!Target]
      BY <1>1, <3>1 DEF Dirs
    <3>3. \/ dir'["title"][P!Target] = dir["title"][P!Target]
             /\ TextsUnder(P!Target) \subseteq TextsUnder(P!Target)'
          \/ dir'["title"][P!Target] \in TextsUnder(P!Target)'
      BY <2>1, <3>1, TextsKept
    <3> QED BY <1>1, <2>1, <2>3, <3>1, <3>2, <3>3 DEF IInv, InItsPlace, Dirs
  <2> QED BY <2>2, <2>3
<1>5. Apart'
  BY <1>1, <1>2 DEF IInv, Apart, Writes, Waits
<1>6. Alone'
  BY <1>1, <1>2 DEF IInv, Extractor, Alone, Writes, Waits
<1>7. WrittenSoFar'
  BY <1>1, <1>2 DEF IInv, Extractor, WrittenSoFar, Writes, Waits
<1>8. ASSUME NEW j \in X!Place, child'[j] = "xsltproc"
      PROVE  dir'["title"][X!Target(j)] = X!TextOf(j, written'[j])
  <2>1. CASE j = k
    <3>1. CASE Writes(k)
      BY <2>1, <3>1 DEF Writes
    <3>2. CASE Waits(k)
      BY <1>8, <2>1, <3>2 DEF Waits, IInv, Extractor, OwnText
    <3> QED BY <1>1, <3>1, <3>2
  <2>2. CASE j # k
    <3>1. child[j] = "xsltproc" /\ written'[j] = written[j]
      BY <1>2, <1>8, <2>2
    <3>2. X!Target(j) \in Name /\ "title" \in Dirs
      BY <3>1, Places DEF IInv, Dirs
    <3>3. dir'["title"][X!Target(j)] = dir["title"][X!Target(j)]
      BY <1>1, <2>2, <3>1, <3>2 DEF Writes, Waits
    <3> QED BY <3>1, <3>3 DEF IInv, Extractor, OwnText
  <2> QED BY <2>1, <2>2
<1>9. OwnText'
  BY <1>1, <1>2, <1>8 DEF OwnText, X!TextOf
<1> QED BY <1>3, <1>4, <1>5, <1>6, <1>7, <1>9 DEF Extractor

LEMMA ProcessKeepsOutputs ==
  ASSUME IInv, NEW k \in DOMAIN list, ProcessStep(k)
  PROVE  Outputs'
<1>1. /\ UNCHANGED <<holds, list, at, save, console>>
      /\ k \in X!Place
      /\ \A d \in Dirs, n \in Name :
           d # "title" \/ n # X!Target(k) => dir'[d][n] = dir[d][n]
      /\ \A j \in X!Place : j # k => child'[j] = child[j]
      /\ Writes(k) \/ Waits(k)
  BY ProcessTouches DEF IInv, Types
<1>2. /\ \A f : TitleOf(f)' = TitleOf(f)
      /\ \A n : P!Busy(n)' = P!Busy(n)
      /\ \A j : P!Last(j)' = P!Last(j)
      /\ \A d \in Dirs, f \in File : P!TextFor(d, holds[f])' = P!TextFor(d, holds[f])
      /\ \A j : X!TextOf(j, Pieces[list[j]])' = X!TextOf(j, Pieces[list[j]])
      /\ \A t : P!Beginnings(t)' = P!Beginnings(t)
  BY <1>1 DEF TitleOf, P!Busy, P!Done, P!Target, P!Current, P!Last, P!Finishers,
              X!TextOf, P!Beginnings
<1>3. /\ \A j \in DOMAIN list : /\ j \in X!Place /\ list[j] \in File
                                /\ OutName[list[j]] \in Name /\ X!Target(j) = OutName[list[j]]
      /\ DOMAIN console \subseteq DOMAIN list
  BY Places DEF IInv
<1>4. NeverMixed'
  <2>1. ASSUME NEW n \in Name
        PROVE  \/ dir'["title"][n] = Missing
               \/ \E f \in File : OutName[f] = n /\ dir'["title"][n] \in P!Beginnings(TitleOf(f))
               \/ dir'["title"][n] \in TextsUnder(n)'
    BY TextsKept DEF IInv, Outputs, NeverMixed
  <2> QED BY <1>2, <2>1 DEF NeverMixed
<1>5. ParsedTitleOrText'
  <2>1. ASSUME NEW j \in DOMAIN console, console[j] = "parsed", P!Last(j),
               ~P!Busy(OutName[list[j]])
        PROVE  LET n == OutName[list[j]] IN
               /\ \A d \in {"keyword", "type"} : dir'[d][n] = P!TextFor(d, holds[list[j]])
               /\ dir'["title"][n] \in {TitleOf(list[j])} \cup TextsUnder(n)'
    <3> DEFINE n == OutName[list[j]]
    <3>1. n \in Name
      BY <1>3
    <3>2. /\ \A d \in {"keyword", "type"} : dir[d][n] = P!TextFor(d, holds[list[j]])
          /\ dir["title"][n] \in {TitleOf(list[j])} \cup TextsUnder(n)
      BY <2>1 DEF IInv, Outputs, ParsedTitleOrText
    <3>3. \A d \in {"keyword", "type"} : dir'[d][n] = dir[d][n]
      BY <1>1, <3>1 DEF Dirs
    <3>4. n' = n
      BY <1>1
    <3> HIDE DEF n
    <3>5. dir'["title"][n] \in {TitleOf(list[j])} \cup TextsUnder(n)'
      BY <3>1, <3>2, <3>4, TextsKept
    <3> QED BY <3>2, <3>3, <3>5 DEF n
  <2> QED BY <1>1, <1>2, <1>3, <2>1 DEF ParsedTitleOrText, Dirs
<1>6. ExtractedTextOrTitle'
  <2>1. ASSUME NEW j \in DOMAIN list, child'[j] = "succeeded",
               \A i \in DOMAIN list : OutName[list[i]] = OutName[list[j]] => i = j
        PROVE  LET n == OutName[list[j]] IN
               \/ dir'["title"][n] = X!TextOf(j, Pieces[list[j]])
               \/ /\ j <= Len(console) \/ P!Busy(n)
                  /\ dir'["title"][n] \in P!Beginnings(TitleOf(list[j]))
    <3>1. CASE j = k
      <4>1. Waits(k) /\ child[k] = "xsltproc" /\ written[k] = Pieces[list[k]]
        BY <1>1, <2>1, <3>1 DEF Writes, Waits
      <4>2. dir["title"][X!Target(k)] = X!TextOf(k, Pieces[list[k]])
        BY <1>1, <4>1 DEF IInv, Extractor, OwnText
      <4> QED BY <1>3, <3>1, <4>1, <4>2 DEF Waits
    <3>2. CASE j # k
      <4>1. child[j] = "succeeded" /\ OutName[list[j]] # X!Target(k)
        BY <1>1, <1>3, <2>1, <3>2
      <4>2. dir'["title"][OutName[list[j]]] = dir["title"][OutName[list[j]]]
        BY <1>1, <1>3, <4>1 DEF Dirs
      <4> QED BY <2>1, <4>1, <4>2 DEF IInv, Outputs, ExtractedTextOrTitle
    <3> QED BY <3>1, <3>2
  <2> QED BY <1>1, <1>2, <2>1 DEF ExtractedTextOrTitle
<1> QED BY <1>4, <1>5, <1>6 DEF Outputs

LEMMA ProcessKeeps ==
  ASSUME IInv, NEW k \in DOMAIN list, ProcessStep(k)
  PROVE  IInv'
BY ProcessKeepsExtractor, ProcessKeepsOutputs DEF IInv

-----------------------------------------------------------------------------
(* Steps of XMLExtract itself, and the theorems.                           *)

\* It starts one process, or none, and touches no file; no step does less.
LEMMA JavaTouches ==
  ASSUME IInv, JavaStep \/ UNCHANGED vars
  PROVE  /\ UNCHANGED <<holds, list, dir, at, save, console, written>>
         /\ next' \in 1 .. Len(list) + 1
         /\ \A k \in X!Place : k < next => k < next'
         /\ child' \in [X!Place -> {"none", "cmd", "xsltproc", "refused", "failed", "succeeded"}]
         /\ \A k \in X!Place :
              \/ child'[k] = child[k]
              \/ k < next' /\ child[k] = "none" /\ child'[k] = "cmd"
<1>1. UNCHANGED <<holds, list, dir, at, save, console>>
  BY DEF JavaStep, vars, parser
<1>2. /\ next \in 1 .. Len(list) + 1 /\ Len(list) \in Nat
      /\ child \in [X!Place -> {"none", "cmd", "xsltproc", "refused", "failed", "succeeded"}]
      /\ \A k \in X!Place : k \in Nat
  BY Places, CorpusScriptsAssumption DEF IInv, Types, X!Place
<1>3. CASE UNCHANGED <<next, child, written>>
  BY <1>1, <1>2, <1>3
<1>4. CASE X!Exec
  <2>1. /\ next <= Len(list) /\ next' = next + 1 /\ written' = written
        /\ child' = [child EXCEPT ![next] = "cmd"]
    BY <1>4 DEF X!Exec, X!Looping
  <2>2. next \in X!Place => child[next] = "none"
    BY <1>2 DEF IInv, Types
  <2>3. next' \in 1 .. Len(list) + 1 /\ \A k \in X!Place : k < next => k < next'
    BY <1>2, <2>1
  <2>4. child' \in [X!Place -> {"none", "cmd", "xsltproc", "refused", "failed", "succeeded"}]
    BY <1>2, <2>1
  <2>5. ASSUME NEW k \in X!Place, child'[k] # child[k]
        PROVE  k < next' /\ child[k] = "none" /\ child'[k] = "cmd"
    BY <1>2, <2>1, <2>2, <2>5
  <2> QED BY <1>1, <2>1, <2>3, <2>4, <2>5
<1>5. CASE X!ExecFails
  <2>1. next <= Len(list) /\ next' = next + 1 /\ UNCHANGED <<child, written>>
    BY <1>5 DEF X!ExecFails, X!Looping, X!world
  <2> QED BY <1>1, <1>2, <2>1
<1>6. CASE X!PrintDone \/ X!Return \/ X!Killed \/ \E k \in X!Place : X!Collected(k)
  BY <1>3, <1>6 DEF X!PrintDone, X!Return, X!Killed, X!Gone, X!Collected, X!main, X!world
<1>7. CASE UNCHANGED vars
  BY <1>3, <1>7 DEF vars, extractor
<1> QED BY <1>4, <1>5, <1>6, <1>7 DEF JavaStep, X!Main

LEMMA JavaKeeps ==
  ASSUME IInv, JavaStep \/ UNCHANGED vars
  PROVE  IInv'
<1>1. /\ UNCHANGED <<holds, list, dir, at, save, console, written>>
      /\ next' \in 1 .. Len(list) + 1
      /\ \A k \in X!Place : k < next => k < next'
      /\ child' \in [X!Place -> {"none", "cmd", "xsltproc", "refused", "failed", "succeeded"}]
      /\ \A k \in X!Place :
           \/ child'[k] = child[k]
           \/ k < next' /\ child[k] = "none" /\ child'[k] = "cmd"
  BY JavaTouches
<1>2. /\ \A f : TitleOf(f)' = TitleOf(f)
      /\ \A n : P!Busy(n)' = P!Busy(n)
      /\ \A j : P!Last(j)' = P!Last(j)
      /\ \A n : ParserHas(n)' = ParserHas(n)
      /\ \A d \in Dirs, f \in File : P!TextFor(d, holds[f])' = P!TextFor(d, holds[f])
      /\ \A j : X!TextOf(j, Pieces[list[j]])' = X!TextOf(j, Pieces[list[j]])
      /\ \A j : X!TextOf(j, written[j])' = X!TextOf(j, written[j])
      /\ \A t : P!Beginnings(t)' = P!Beginnings(t)
      /\ \A j : X!Target(j)' = X!Target(j)
  BY <1>1 DEF TitleOf, P!Busy, P!Done, P!Dir, P!Target, P!Current, P!Last, P!Finishers,
              ParserHas, X!TextOf, X!Target, P!Beginnings
<1>3. /\ DOMAIN list \subseteq X!Place /\ DOMAIN console \subseteq DOMAIN list
      /\ \A j \in DOMAIN list : list[j] \in File
  BY Places DEF IInv
<1>4. \A n : TextsUnder(n) \subseteq TextsUnder(n)'
  BY <1>1, <1>2, <1>3 DEF TextsUnder, X!Opened
<1>5. Types'
  <2>1. \E texts : dir' \in [Dirs -> [Name -> texts]]
    BY <1>1 DEF IInv, Types
  <2>2. \A k \in X!Place : child'[k] # "none" => k < next'
    BY <1>1 DEF IInv, Types
  <2> QED BY <1>1, <2>1, <2>2 DEF IInv, Types, P!Lists, X!Place
<1>6. InItsPlace'
  <2>1. /\ P!Done' = P!Done /\ P!Target' = P!Target /\ P!Document' = P!Document
        /\ P!Extractable(P!Document)' = P!Extractable(P!Document)
        /\ \A d \in Dirs : P!TextFor(d, P!Document)' = P!TextFor(d, P!Document)
    BY <1>1 DEF P!Done, P!Target, P!Document, P!Current
  <2>2. TextsUnder(P!Target) \subseteq TextsUnder(P!Target)'
    BY <1>4, <2>1
  <2> QED BY <1>1, <2>1, <2>2 DEF IInv, InItsPlace, Dirs
<1>7. Apart' /\ Alone' /\ WrittenSoFar' /\ OwnText'
  BY <1>1, <1>2 DEF IInv, Apart, Extractor, Alone, WrittenSoFar, OwnText
<1>8. NeverMixed'
  BY <1>1, <1>2, <1>4 DEF IInv, Outputs, NeverMixed
<1>9. ParsedTitleOrText'
  BY <1>1, <1>2, <1>3, <1>4 DEF IInv, Outputs, ParsedTitleOrText, Dirs
<1>10. ExtractedTextOrTitle'
  BY <1>1, <1>2, <1>3 DEF IInv, Outputs, ExtractedTextOrTitle
<1> QED BY <1>5, <1>6, <1>7, <1>8, <1>9, <1>10 DEF IInv, Extractor, Outputs

LEMMA Inductive == Spec => []IInv
<1>1. ASSUME IInv, [Next]_vars PROVE IInv'
  BY <1>1, ParserKeeps, JavaKeeps, ProcessKeeps DEF Next, Finished
<1> QED BY InitIInv, <1>1, PTL DEF Spec

(* However the two programs run, one after the other or at once, no file   *)
(* in the directory both write to gets a mixture of a title and a text, or *)
(* of two texts.                                                           *)
THEOREM NoMixture == Spec => []NeverMixed
<1>1. IInv => NeverMixed
  BY DEF IInv, Outputs
<1> QED BY <1>1, Inductive, PTL

(* After the line "parsed", a file's keywords and type are on disk; its    *)
(* title is, or what a process of XMLExtract has written under its name.   *)
THEOREM ParsedStays == Spec => []ParsedTitleOrText
<1>1. IInv => ParsedTitleOrText
  BY DEF IInv, Outputs
<1> QED BY <1>1, Inductive, PTL

(* The text of a process that has succeeded is whole in its file until     *)
(* XmlDocParser comes to the file of that name, and gives way to no title  *)
(* but that one.                                                           *)
THEOREM ExtractedGivesWay == Spec => []ExtractedTextOrTitle
<1>1. IInv => ExtractedTextOrTitle
  BY DEF IInv, Outputs
<1> QED BY <1>1, Inductive, PTL
============================================================================
