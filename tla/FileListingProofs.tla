------------------------- MODULE FileListingProofs --------------------------
(***************************************************************************)
(* Theorems about the list that FileUtil.getFilesUnderPath fills: what is  *)
(* on it are files; in a tree without links each is on it once; and, while *)
(* nobody touches the corpus, it is what FileListing promises.             *)
(***************************************************************************)
EXTENDS FileUtilProofs, FiniteSetTheorems

-----------------------------------------------------------------------------
(* The inductive invariants.                                               *)

\* What a call was made for, or has still to take, was there when it was read.
TakenWereThere ==
  \A f \in Active :
    /\ f.at = "entry" /\ Untouched(f.path) => f.path = Root \/ IsDirectory(f.path)
    /\ \A c \in f.rest : Untouched(c) => disk[c] # "none"

\* A file tree without links: one parent each, and none for the argument.
IsTree ==
  /\ \A p \in Path : Canonical[p] = p
  /\ \A d, e \in Path : Entries[d] \cap Entries[e] # {} => d = e
  /\ \A d \in Path : Root \notin Entries[d]

Taken == opened \cup Listed

\* What the i-th call may still take has not been taken; no other call is for
\* the same path; and nothing is taken whose parent is not opened.
ToTake(f) == IF f.at = "loop" THEN f.rest ELSE Entries[f.path]
NoneTaken == \A i \in DOMAIN stack : ToTake(stack[i]) \cap Taken = {}
OwnEntries == \A i \in DOMAIN stack : ToTake(stack[i]) \subseteq Entries[stack[i].path]
OneCallEach == \A i, j \in DOMAIN stack : stack[i].path = stack[j].path => i = j
CallsOpened == \A i \in DOMAIN stack : stack[i].path \in opened
EnteredOnce == \A i \in DOMAIN stack : stack[i].at = "entry" => stack[i].path \notin Listed
ParentsFirst == \A d \in Path : Entries[d] \cap Taken # {} => d \in opened

TakenOnce ==
  /\ NoneTaken /\ OwnEntries /\ OneCallEach
  /\ CallsOpened /\ EnteredOnce /\ ParentsFirst
  /\ ListedOnce

\* The walk stays among what can be reached.
Within(f) ==
  /\ f.path \in Reachable({})
  /\ f.at # "entry" => IsDirectory(f.path)
  /\ f.at = "loop" => f.rest \subseteq Listing(f.path)
WithinCorpus == (\A f \in Active : Within(f)) /\ Listed \subseteq FilesBelow({})

-----------------------------------------------------------------------------
(* What the walk and those who disturb it do.                              *)

\* A path that is still untouched is as it was.
LEMMA ChangeSpares ==
  ASSUME TypeOK, NEW p \in Path, Change(p)
  PROVE  \A q \in Path : Untouched(q)' =>
           /\ Untouched(q)
           /\ disk'[q] = disk[q]
           /\ IsDirectory(q)' = IsDirectory(q)
<1>1. touched' = touched \cup {p} /\ \A q \in Path \ {p} : disk'[q] = disk[q]
  BY DEF Change, TypeOK
<1> QED BY <1>1, FileUtilAssumption DEF Untouched, IsDirectory

\* The walk reads the file system, and does not write it.
LEMMA WalkReads ==
  ASSUME Walk
  PROVE  /\ UNCHANGED <<disk, touched>>
         /\ \A q \in Path : /\ IsDirectory(q)' = IsDirectory(q)
                            /\ Untouched(q)' = Untouched(q)
BY DEF Walk, IsDirectory, Untouched

\* A step of the walk is one of the innermost call, which is on some path.
LEMMA InnermostCall ==
  ASSUME TypeOK, Walk
  PROVE  /\ stack # <<>>
         /\ Top \in Frame /\ Top.path \in Path /\ Top.rest \in SUBSET Path
         /\ Top.at \in {"entry", "list", "loop"}
         /\ Active = {Top} \cup Outer
<1>1. stack # <<>>
  BY DEF Walk, At, EnterFile, EnterDirectory, ListFiles, ListFilesIsNull, EndLoop,
         AddChild, Descend, CanonicalPathFails, Overflow, Taking
<1> QED BY <1>1, StackParts DEF Frame

LEMMA ListingsArePaths == \A d \in Path : Listing(d) \in SUBSET Path
BY FileUtilAssumption DEF Listing

\* How the innermost call moves on: f and g are it, before and after.
Moved(f, g, label, r) == g \in Frame /\ g.path = f.path /\ g.at = label /\ g.rest = r

\* It finds a directory.
LEMMA DirectoryEntered ==
  ASSUME Top \in Frame, EnterDirectory
  PROVE  \E f \in Frame : Moved(Top, f, "list", Top.rest) /\ stack' = Becomes(f)
<1> DEFINE f == [Top EXCEPT !.at = "list"]
<1>1. Moved(Top, f, "list", Top.rest)
  BY DEF Frame, Moved
<1>2. stack' = Becomes(f)
  BY DEF EnterDirectory
<1> HIDE DEF f
<1> QED BY <1>1, <1>2 DEF Moved

\* It reads the directory.
LEMMA DirectoryRead ==
  ASSUME Top \in Frame, ListFiles
  PROVE  \E f \in Frame :
           Moved(Top, f, "loop", Listing(Top.path)) /\ stack' = Becomes(f)
<1> DEFINE f == [Top EXCEPT !.at = "loop", !.rest = Listing(Top.path)]
<1>1. Top.path \in Path /\ Listing(Top.path) \in SUBSET Path
  BY ListingsArePaths DEF Frame
<1>2. Moved(Top, f, "loop", Listing(Top.path))
  BY <1>1 DEF Frame, Moved
<1>3. stack' = Becomes(f)
  BY DEF ListFiles
<1> HIDE DEF f
<1> QED BY <1>2, <1>3 DEF Moved

\* It takes an entry.
LEMMA EntryTaken ==
  ASSUME Top \in Frame, NEW c, Taking(c)
  PROVE  \E f \in Frame : /\ Moved(Top, f, "loop", Top.rest \ {c})
                          /\ f = [Top EXCEPT !.rest = @ \ {c}]
<1> DEFINE f == [Top EXCEPT !.rest = @ \ {c}]
<1>1. Top.at = "loop" /\ Top.rest \in SUBSET Path
  BY DEF Taking, At, Frame
<1>2. f \in Frame /\ f.path = Top.path /\ f.at = Top.at /\ f.rest = Top.rest \ {c}
  BY <1>1 DEF Frame
<1> HIDE DEF f
<1>3. Moved(Top, f, "loop", Top.rest \ {c})
  BY <1>1, <1>2 DEF Moved
<1> QED BY <1>2, <1>3 DEF f

\* The elements of a sequence are of its type.
LEMMA ElementsAreTyped ==
  ASSUME NEW S, NEW s \in Seq(S)
  PROVE  Elements(s) \subseteq S
BY LenProperties DEF Elements

\* Calls are made for paths, and paths are listed.
LEMMA Members ==
  ASSUME TypeOK
  PROVE  /\ Active \subseteq Frame /\ Listed \subseteq Path
         /\ \A f \in Active : f.path \in Path /\ f.rest \in SUBSET Path
<1>1. Active \subseteq Frame /\ Elements(fileList) \subseteq Path
  BY ElementsAreTyped DEF TypeOK, Active
<1>2. Listed = Elements(fileList)
  BY DEF Listed, Elements
<1>3. \A f \in Frame : f.path \in Path /\ f.rest \in SUBSET Path
  BY DEF Frame
<1> QED BY <1>1, <1>2, <1>3

-----------------------------------------------------------------------------
(* Only files are listed.                                                  *)

\* A return or an error leaves the calls around it as they were.
LEMMA FilesStayListed ==
  ASSUME TypeOK, TakenWereThere, OnlyFilesListed, [Next]_vars
  PROVE  TakenWereThere' /\ OnlyFilesListed'
<1> USE FileUtilAssumption
<1>1. CASE Walk
  <2>1. /\ stack # <<>>
        /\ Top \in Frame /\ Top.path \in Path /\ Top.rest \in SUBSET Path
        /\ Top.at \in {"entry", "list", "loop"}
        /\ Active = {Top} \cup Outer
    BY <1>1, InnermostCall
  <2>2. /\ UNCHANGED <<disk, touched>>
        /\ \A q \in Path : IsDirectory(q)' = IsDirectory(q) /\ Untouched(q)' = Untouched(q)
    BY <1>1, WalkReads
  <2>3. Listed \subseteq Path /\ \A f \in Outer : f.path \in Path /\ f.rest \in SUBSET Path
    BY <2>1, Members
  <2>4. ASSUME UNCHANGED fileList PROVE OnlyFilesListed'
    BY <2>2, <2>3, <2>4 DEF OnlyFilesListed, Listed
  <2>5. ASSUME Active' = Outer PROVE TakenWereThere'
    BY <2>1, <2>2, <2>3, <2>5 DEF TakenWereThere
  <2>6. ASSUME NEW f \in Frame, Active' = {f} \cup Outer, f.at # "entry",
               \A c \in f.rest : Untouched(c) => disk[c] # "none"
        PROVE  TakenWereThere'
    <3>1. f.rest \in SUBSET Path
      BY <2>6 DEF Frame
    <3> QED BY <2>1, <2>2, <2>3, <2>6, <3>1 DEF TakenWereThere
  <2>7. ASSUME EnterFile PROVE TakenWereThere' /\ OnlyFilesListed'
    <3>1. Active' = Outer
      BY <2>1, <2>7, CallReturns DEF EnterFile
    <3>2. Listed' = Listed \cup {Top.path}
      BY <2>1, <2>7, ListGrows DEF EnterFile
    <3>3. ~IsDirectory(Top.path) /\ (Untouched(Top.path) => Top.path = Root)
      BY <2>1, <2>7 DEF EnterFile, At, TakenWereThere
    <3> QED BY <2>1, <2>2, <2>3, <2>5, <3>1, <3>2, <3>3 DEF OnlyFilesListed
  <2>8. ASSUME EnterDirectory PROVE TakenWereThere' /\ OnlyFilesListed'
    <3>1. PICK f \in Frame : Moved(Top, f, "list", Top.rest) /\ stack' = Becomes(f)
      BY <2>1, <2>8, DirectoryEntered
    <3>2. Active' = {f} \cup Outer
      BY <2>1, <3>1, MoveOn
    <3> QED BY <2>1, <2>4, <2>6, <2>8, <3>1, <3>2 DEF EnterDirectory, TakenWereThere, Moved
  <2>9. ASSUME ListFiles PROVE TakenWereThere' /\ OnlyFilesListed'
    <3>1. PICK f \in Frame :
            Moved(Top, f, "loop", Listing(Top.path)) /\ stack' = Becomes(f)
      BY <2>1, <2>9, DirectoryRead
    <3>2. Active' = {f} \cup Outer
      BY <2>1, <3>1, MoveOn
    <3>3. \A c \in f.rest : disk[c] # "none"
      BY <3>1 DEF Listing, Moved
    <3> QED BY <2>1, <2>4, <2>6, <2>9, <3>1, <3>2, <3>3 DEF ListFiles, Moved
  <2>10. ASSUME Caught \/ EndLoop PROVE TakenWereThere' /\ OnlyFilesListed'
    BY <2>1, <2>4, <2>5, <2>10, CallReturns DEF Caught, EndLoop
  <2>11. ASSUME NEW c \in Path, AddChild(c) PROVE TakenWereThere' /\ OnlyFilesListed'
    <3>1. PICK f \in Frame : Moved(Top, f, "loop", Top.rest \ {c})
                             /\ stack' = Becomes(f)
      BY <2>1, <2>11, EntryTaken DEF AddChild
    <3>2. Active' = {f} \cup Outer
      BY <2>1, <3>1, MoveOn
    <3>3. TakenWereThere'
      BY <2>1, <2>6, <2>11, <3>1, <3>2 DEF AddChild, Taking, At, TakenWereThere, Moved
    <3>4. Listed' = Listed \cup {c}
      BY <2>11, ListGrows DEF AddChild
    <3>5. ~IsDirectory(c) /\ (Untouched(c) => disk[c] # "none")
      BY <2>1, <2>11 DEF AddChild, Taking, TakenWereThere
    <3> QED BY <2>2, <2>3, <3>3, <3>4, <3>5 DEF OnlyFilesListed
  <2>12. ASSUME NEW c \in Path, Descend(c) PROVE TakenWereThere' /\ OnlyFilesListed'
    <3>1. PICK f \in Frame : Moved(Top, f, "loop", Top.rest \ {c})
                             /\ stack' = <<Call(Canonical[c])>> \o Becomes(f)
      BY <2>1, <2>12, EntryTaken DEF Descend
    <3>2. Call(Canonical[c]) \in Frame /\ Canonical[c] \in Path
      BY CallIsFrame
    <3>3. Active' = {Call(Canonical[c]), f} \cup Outer
      BY <2>1, <3>1, <3>2, CallDeeper
    <3>4. IsDirectory(Canonical[c])
      BY <2>12 DEF Descend, IsDirectory
    <3>5. TakenWereThere'
      BY <2>1, <2>2, <2>3, <2>12, <3>1, <3>2, <3>3, <3>4
         DEF Descend, Taking, At, TakenWereThere, Call, Moved
    <3> QED BY <2>4, <2>12, <3>5 DEF Descend
  <2>13. ASSUME NEW c \in Path, Overflow(c) PROVE TakenWereThere' /\ OnlyFilesListed'
    <3>1. Active' = {}
      BY <2>13, ElementsOfEmpty DEF Overflow, Active
    <3> QED BY <2>4, <2>13, <3>1 DEF Overflow, TakenWereThere
  <2> QED BY <1>1, <2>7, <2>8, <2>9, <2>10, <2>11, <2>12, <2>13
          DEF Walk, ListFilesIsNull, CanonicalPathFails
<1>2. ASSUME NEW p \in Path, Change(p) PROVE TakenWereThere' /\ OnlyFilesListed'
  <2>1. /\ UNCHANGED <<stack, fileList>>
        /\ Active' = Active /\ Listed' = Listed
    BY <1>2 DEF Change, Active, Elements, Listed
  <2>2. /\ \A f \in Active : f.path \in Path /\ f.rest \in SUBSET Path
        /\ Listed \subseteq Path
    BY Members
  <2>3. \A q \in Path : Untouched(q)' =>
          Untouched(q) /\ disk'[q] = disk[q] /\ IsDirectory(q)' = IsDirectory(q)
    BY <1>2, ChangeSpares
  <2> QED BY <2>1, <2>2, <2>3 DEF TakenWereThere, OnlyFilesListed
<1>3. CASE UNCHANGED vars
  BY <1>3 DEF vars, TakenWereThere, OnlyFilesListed, Active, Elements, Listed, Untouched, IsDirectory
<1> QED BY <1>1, <1>2, <1>3 DEF Next, Finished

-----------------------------------------------------------------------------
(* The positions of the calls on the stack, the innermost being the first. *)

LEMMA PositionsMoved ==
  ASSUME TypeOK, stack # <<>>, NEW f \in Frame, stack' = Becomes(f)
  PROVE  /\ DOMAIN stack' = DOMAIN stack /\ 1 \in DOMAIN stack
         /\ stack[1] = Top /\ stack'[1] = f
         /\ \A i \in DOMAIN stack : i # 1 => stack'[i] = stack[i]
<1>1. /\ stack \in Seq(Frame) /\ Len(stack) \in Nat /\ Len(stack) >= 1
      /\ DOMAIN stack = 1 .. Len(stack) /\ stack[1] = Top
  BY EmptySeq DEF TypeOK, Top
<1>2. /\ Tail(stack) \in Seq(Frame) /\ Len(Tail(stack)) = Len(stack) - 1
      /\ \A i \in 1 .. Len(Tail(stack)) : Tail(stack)[i] = stack[i + 1]
  BY <1>1, HeadTailProperties
<1>3. <<f>> \in Seq(Frame) /\ Len(<<f>>) = 1 /\ <<f>>[1] = f
  OBVIOUS
<1>4. /\ stack' \in Seq(Frame) /\ Len(stack') = 1 + Len(Tail(stack))
      /\ \A i \in 1 .. 1 + Len(Tail(stack)) :
           stack'[i] = IF i <= 1 THEN <<f>>[i] ELSE Tail(stack)[i - 1]
  BY <1>2, <1>3, ConcatProperties DEF Becomes
<1>5. DOMAIN stack' = 1 .. Len(stack)
  BY <1>1, <1>2, <1>4
<1>6. stack'[1] = f
  BY <1>1, <1>2, <1>3, <1>4
<1>7. ASSUME NEW i \in 1 .. Len(stack), i # 1 PROVE stack'[i] = stack[i]
  <2>1. i - 1 \in 1 .. Len(Tail(stack)) /\ ~(i <= 1) /\ (i - 1) + 1 = i
        /\ i \in 1 .. 1 + Len(Tail(stack))
    BY <1>1, <1>2, <1>7
  <2> QED BY <2>1, <1>2, <1>4
<1> QED BY <1>1, <1>5, <1>6, <1>7

LEMMA PositionsReturned ==
  ASSUME TypeOK, stack # <<>>, stack' = Tail(stack)
  PROVE  /\ 1 \in DOMAIN stack /\ stack[1] = Top
         /\ \A i \in DOMAIN stack' : /\ i + 1 \in DOMAIN stack /\ i + 1 # 1
                                     /\ i \in Nat
                                     /\ stack'[i] = stack[i + 1]
<1>1. /\ stack \in Seq(Frame) /\ Len(stack) \in Nat /\ Len(stack) >= 1
      /\ DOMAIN stack = 1 .. Len(stack) /\ stack[1] = Top
  BY EmptySeq DEF TypeOK, Top
<1>2. /\ stack' \in Seq(Frame) /\ Len(stack') = Len(stack) - 1
      /\ \A i \in 1 .. Len(stack') : stack'[i] = stack[i + 1]
  BY <1>1, HeadTailProperties
<1>3. DOMAIN stack' = 1 .. Len(stack) - 1
  BY <1>2
<1> QED BY <1>1, <1>2, <1>3

LEMMA PositionsDeeper ==
  ASSUME TypeOK, stack # <<>>, NEW f \in Frame, NEW g \in Frame,
         stack' = <<g>> \o Becomes(f)
  PROVE  /\ 1 \in DOMAIN stack /\ stack[1] = Top
         /\ stack'[1] = g
         /\ \A i \in DOMAIN stack' \ {1} :
              /\ i - 1 \in DOMAIN stack /\ i \in Nat
              /\ stack'[i] = IF i = 2 THEN f ELSE stack[i - 1]
<1>1. /\ stack \in Seq(Frame) /\ Len(stack) \in Nat /\ Len(stack) >= 1
      /\ DOMAIN stack = 1 .. Len(stack) /\ stack[1] = Top
  BY EmptySeq DEF TypeOK, Top
<1>2. /\ Tail(stack) \in Seq(Frame) /\ Len(Tail(stack)) = Len(stack) - 1
      /\ \A i \in 1 .. Len(Tail(stack)) : Tail(stack)[i] = stack[i + 1]
  BY <1>1, HeadTailProperties
<1>3. \A e \in Frame : <<e>> \in Seq(Frame) /\ Len(<<e>>) = 1 /\ <<e>>[1] = e
  OBVIOUS
<1>4. /\ Becomes(f) \in Seq(Frame) /\ Len(Becomes(f)) = 1 + Len(Tail(stack))
      /\ \A i \in 1 .. 1 + Len(Tail(stack)) :
           Becomes(f)[i] = IF i <= 1 THEN <<f>>[i] ELSE Tail(stack)[i - 1]
  BY <1>2, <1>3, ConcatProperties DEF Becomes
<1>5. /\ stack' \in Seq(Frame) /\ Len(stack') = 1 + Len(Becomes(f))
      /\ \A i \in 1 .. 1 + Len(Becomes(f)) :
           stack'[i] = IF i <= 1 THEN <<g>>[i] ELSE Becomes(f)[i - 1]
  BY <1>3, <1>4, ConcatProperties
<1>6. DOMAIN stack' = 1 .. Len(stack) + 1
  BY <1>1, <1>2, <1>4, <1>5
<1>7. stack'[1] = g
  BY <1>1, <1>2, <1>3, <1>4, <1>5
<1>8. ASSUME NEW i \in 1 .. Len(stack) + 1, i # 1
      PROVE  stack'[i] = IF i = 2 THEN f ELSE stack[i - 1]
  <2>1. /\ i - 1 \in 1 .. 1 + Len(Tail(stack)) /\ ~(i <= 1)
        /\ i \in 1 .. 1 + Len(Becomes(f))
    BY <1>1, <1>2, <1>4, <1>8
  <2>2. stack'[i] = Becomes(f)[i - 1]
    BY <2>1, <1>5
  <2>3. CASE i = 2
    BY <2>1, <2>2, <2>3, <1>3, <1>4
  <2>4. CASE i # 2
    <3>1. (i - 1) - 1 \in 1 .. Len(Tail(stack)) /\ ~(i - 1 <= 1) /\ ((i - 1) - 1) + 1 = i - 1
      BY <2>1, <2>4, <1>1, <1>2, <1>8
    <3> QED BY <3>1, <2>1, <2>2, <2>4, <1>2, <1>4
  <2> QED BY <2>3, <2>4
<1> QED BY <1>1, <1>6, <1>7, <1>8

-----------------------------------------------------------------------------
(* In a tree every path is taken once.                                     *)

\* A path that is not yet on the list can be added to it.
LEMMA OnceMore ==
  ASSUME TypeOK, ListedOnce, NEW p \in Path, p \notin Listed, fileList' = Append(fileList, p)
  PROVE  ListedOnce'
<1>1. /\ fileList \in Seq(Path) /\ Len(fileList) \in Nat
      /\ DOMAIN fileList = 1 .. Len(fileList)
  BY DEF TypeOK
<1>2. /\ fileList' \in Seq(Path) /\ Len(fileList') = Len(fileList) + 1
      /\ \A i \in 1 .. Len(fileList) : fileList'[i] = fileList[i]
      /\ fileList'[Len(fileList) + 1] = p
  BY <1>1, AppendProperties
<1>3. DOMAIN fileList' = 1 .. Len(fileList) + 1
  BY <1>2
<1>4. \A i \in 1 .. Len(fileList) : fileList[i] # p
  BY <1>1 DEF Listed
<1>5. ASSUME NEW i \in 1 .. Len(fileList) + 1, NEW j \in 1 .. Len(fileList) + 1,
             fileList'[i] = fileList'[j]
      PROVE  i = j
  <2>1. CASE i = Len(fileList) + 1 /\ j # Len(fileList) + 1
    BY <2>1, <1>1, <1>2, <1>4, <1>5
  <2>2. CASE i # Len(fileList) + 1 /\ j = Len(fileList) + 1
    BY <2>2, <1>1, <1>2, <1>4, <1>5
  <2>3. CASE i # Len(fileList) + 1 /\ j # Len(fileList) + 1
    BY <2>3, <1>1, <1>2, <1>5 DEF ListedOnce
  <2> QED BY <2>1, <2>2, <2>3
<1> QED BY <1>3, <1>5 DEF ListedOnce

\* The innermost call ends, and takes nothing but perhaps its own path.
LEMMA ReturnTakesNothing ==
  ASSUME IsTree, TypeOK, TakenOnce, stack # <<>>, stack' = Tail(stack),
         UNCHANGED opened, NEW L \in SUBSET {Top.path}, Listed' = Listed \cup L,
         ListedOnce'
  PROVE  TakenOnce'
<1>1. /\ 1 \in DOMAIN stack /\ stack[1] = Top
      /\ \A i \in DOMAIN stack' : /\ i + 1 \in DOMAIN stack /\ i + 1 # 1
                                  /\ i \in Nat
                                  /\ stack'[i] = stack[i + 1]
  BY PositionsReturned
<1>2. Top.path \in opened /\ Taken' = Taken
  BY <1>1 DEF TakenOnce, CallsOpened, Taken
<1>3. NoneTaken' /\ OwnEntries' /\ CallsOpened' /\ ParentsFirst'
  BY <1>1, <1>2 DEF TakenOnce, NoneTaken, OwnEntries, CallsOpened, ParentsFirst, ToTake
<1>4. OneCallEach'
  BY <1>1 DEF TakenOnce, OneCallEach
<1>5. EnteredOnce'
  BY <1>1 DEF TakenOnce, EnteredOnce, OneCallEach
<1> QED BY <1>3, <1>4, <1>5 DEF TakenOnce

\* The innermost call reads: it has still to take what is in its directory.
LEMMA ReadingTakesNothing ==
  ASSUME IsTree, TypeOK, TakenOnce, stack # <<>>, NEW f \in Frame, stack' = Becomes(f),
         f.path = Top.path, f.at # "entry", ToTake(f) \subseteq ToTake(Top),
         UNCHANGED <<opened, fileList>>
  PROVE  TakenOnce'
<1>1. /\ DOMAIN stack' = DOMAIN stack /\ 1 \in DOMAIN stack
      /\ stack[1] = Top /\ stack'[1] = f
      /\ \A i \in DOMAIN stack : i # 1 => stack'[i] = stack[i]
  BY PositionsMoved
<1>2. Listed' = Listed /\ Taken' = Taken /\ ListedOnce'
  BY DEF Listed, Taken, TakenOnce, ListedOnce
<1>3. NoneTaken' /\ OwnEntries'
  BY <1>1, <1>2 DEF TakenOnce, NoneTaken, OwnEntries, ToTake
<1>4. OneCallEach' /\ CallsOpened' /\ EnteredOnce'
  BY <1>1, <1>2 DEF TakenOnce, OneCallEach, CallsOpened, EnteredOnce
<1>5. ParentsFirst'
  BY <1>2 DEF TakenOnce, ParentsFirst
<1> QED BY <1>2, <1>3, <1>4, <1>5 DEF TakenOnce

\* Whatever the innermost call may still take, no other call may.
LEMMA OnlyOneTakes ==
  ASSUME IsTree, TypeOK, TakenOnce, stack # <<>>, NEW c \in Path, Taking(c)
  PROVE  /\ c \in Entries[Top.path] /\ Top.path \in Path
         /\ c \notin Taken /\ Top.path \in opened
         /\ \A i \in DOMAIN stack : i # 1 => c \notin Entries[stack[i].path]
         /\ c \notin Entries[c]
<1>1. 1 \in DOMAIN stack /\ stack[1] = Top
  BY EmptySeq DEF TypeOK, Top
<1>2. /\ \A i \in DOMAIN stack : stack[i].path \in Path
      /\ Top.at = "loop" /\ c \in Top.rest
  BY Members DEF Active, Elements, Taking, At
<1>3. c \in Entries[Top.path] /\ c \notin Taken /\ Top.path \in opened
  BY <1>1, <1>2 DEF TakenOnce, NoneTaken, OwnEntries, CallsOpened, ToTake
<1>4. \A d \in Path : c \in Entries[d] => d = Top.path
  BY <1>1, <1>2, <1>3 DEF IsTree
<1>5. \A i \in DOMAIN stack : i # 1 => stack[i].path # Top.path
  BY <1>1 DEF TakenOnce, OneCallEach
<1>6. c # Top.path
  BY <1>3 DEF Taken
<1> QED BY <1>1, <1>2, <1>3, <1>4, <1>5, <1>6

LEMMA AddChildOnce ==
  ASSUME IsTree, TypeOK, TakenOnce, stack # <<>>, Top \in Frame, NEW c \in Path, AddChild(c)
  PROVE  TakenOnce'
<1>1. PICK f \in Frame : Moved(Top, f, "loop", Top.rest \ {c}) /\ stack' = Becomes(f)
  BY EntryTaken DEF AddChild
<1>2. /\ DOMAIN stack' = DOMAIN stack /\ 1 \in DOMAIN stack
      /\ stack[1] = Top /\ stack'[1] = f
      /\ \A i \in DOMAIN stack : i # 1 => stack'[i] = stack[i]
  BY <1>1, PositionsMoved
<1>3. Taking(c) /\ Top.at = "loop" /\ opened' = opened
  BY DEF AddChild, Taking, At
<1>4. /\ c \in Entries[Top.path] /\ Top.path \in Path
      /\ c \notin Taken /\ Top.path \in opened
      /\ \A i \in DOMAIN stack : i # 1 => c \notin Entries[stack[i].path]
  BY <1>3, OnlyOneTakes
<1>5. Listed' = Listed \cup {c} /\ Taken' = Taken \cup {c}
  BY <1>3, ListGrows DEF AddChild, Taken
<1>6. ListedOnce'
  BY <1>4, OnceMore DEF AddChild, TakenOnce, Taken
<1>7. OwnEntries'
  BY <1>1, <1>2, <1>3 DEF TakenOnce, OwnEntries, ToTake, Moved
<1>8. NoneTaken'
  <2>1. ASSUME NEW i \in DOMAIN stack, i # 1 PROVE ToTake(stack[i]) \cap Taken' = {}
    BY <1>4, <1>5, <2>1 DEF TakenOnce, NoneTaken, OwnEntries
  <2>2. ToTake(f) \cap Taken' = {}
    BY <1>1, <1>2, <1>3, <1>5 DEF TakenOnce, NoneTaken, ToTake, Moved
  <2> QED BY <1>2, <2>1, <2>2 DEF NoneTaken, ToTake
<1>9. OneCallEach' /\ CallsOpened'
  BY <1>1, <1>2, <1>3 DEF TakenOnce, OneCallEach, CallsOpened, Moved
<1>10. EnteredOnce'
  <2>1. ASSUME NEW i \in DOMAIN stack PROVE stack[i].path # c
    BY <1>4 DEF TakenOnce, CallsOpened, Taken
  <2> QED BY <1>1, <1>2, <1>5, <2>1 DEF TakenOnce, EnteredOnce, Moved
<1>11. ParentsFirst'
  BY <1>3, <1>4, <1>5 DEF TakenOnce, ParentsFirst, IsTree
<1> QED BY <1>6, <1>7, <1>8, <1>9, <1>10, <1>11 DEF TakenOnce

LEMMA DescendOnce ==
  ASSUME IsTree, TypeOK, TakenOnce, stack # <<>>, Top \in Frame, NEW c \in Path, Descend(c)
  PROVE  TakenOnce'
<1> DEFINE g == Call(Canonical[c])
<1>1. PICK f \in Frame : Moved(Top, f, "loop", Top.rest \ {c}) /\ stack' = <<g>> \o Becomes(f)
  BY EntryTaken DEF Descend
<1>2. g \in Frame /\ g.path = c /\ g.at = "entry" /\ ToTake(g) = Entries[c]
  BY CallIsFrame DEF IsTree, Call, ToTake
<1> HIDE DEF g
<1>3. /\ 1 \in DOMAIN stack /\ stack[1] = Top
      /\ stack'[1] = g
      /\ \A i \in DOMAIN stack' \ {1} :
           /\ i - 1 \in DOMAIN stack /\ i \in Nat
           /\ stack'[i] = IF i = 2 THEN f ELSE stack[i - 1]
  BY <1>1, <1>2, PositionsDeeper
<1>4. Taking(c) /\ Top.at = "loop" /\ opened' = opened \cup {c} /\ fileList' = fileList
  BY DEF Descend, Taking, At, IsTree
<1>5. /\ c \in Entries[Top.path] /\ Top.path \in Path
      /\ c \notin Taken /\ Top.path \in opened
      /\ \A i \in DOMAIN stack : i # 1 => c \notin Entries[stack[i].path]
      /\ c \notin Entries[c]
  BY <1>4, OnlyOneTakes
<1>6. Listed' = Listed /\ Taken' = Taken \cup {c} /\ ListedOnce'
  BY <1>4 DEF Taken, Listed, TakenOnce, ListedOnce
<1>7. /\ f.path = Top.path /\ f.at = "loop" /\ f.rest = Top.rest \ {c}
      /\ ToTake(f) = ToTake(Top) \ {c}
  BY <1>1, <1>4 DEF Moved, ToTake
<1>8. \A i \in DOMAIN stack' \ {1} : i # 2 => i - 1 # 1
  BY <1>3
<1>9. OwnEntries'
  <2>1. \A i \in DOMAIN stack' : ToTake(stack'[i]) \subseteq Entries[stack'[i].path]
    BY <1>2, <1>3, <1>7 DEF TakenOnce, OwnEntries
  <2> QED BY <2>1 DEF OwnEntries, ToTake
<1>10. NoneTaken'
  <2>1. Entries[c] \cap Taken' = {}
    BY <1>5, <1>6 DEF TakenOnce, ParentsFirst, Taken
  <2>2. ToTake(f) \cap Taken' = {}
    BY <1>3, <1>6, <1>7 DEF TakenOnce, NoneTaken
  <2>3. ASSUME NEW i \in DOMAIN stack, i # 1 PROVE ToTake(stack[i]) \cap Taken' = {}
    BY <1>5, <1>6, <2>3 DEF TakenOnce, NoneTaken, OwnEntries
  <2>4. \A i \in DOMAIN stack' : ToTake(stack'[i]) \cap Taken' = {}
    BY <1>2, <1>3, <1>8, <2>1, <2>2, <2>3
  <2> QED BY <2>4 DEF NoneTaken, ToTake
<1>11. CallsOpened'
  BY <1>2, <1>3, <1>4, <1>7 DEF TakenOnce, CallsOpened
<1>12. OneCallEach'
  <2>1. \A i \in DOMAIN stack : stack[i].path # c
    BY <1>5 DEF TakenOnce, CallsOpened, Taken
  <2>2. ASSUME NEW i \in DOMAIN stack', NEW j \in DOMAIN stack', i # 1,
               stack'[i].path = stack'[j].path
        PROVE  i = j
    <3>1. stack'[i].path = stack[i - 1].path /\ i - 1 \in DOMAIN stack /\ i \in Nat
      BY <1>3, <1>7, <2>2
    <3>2. j # 1
      BY <1>2, <1>3, <2>1, <2>2, <3>1
    <3>3. stack'[j].path = stack[j - 1].path /\ j - 1 \in DOMAIN stack /\ j \in Nat
      BY <1>3, <1>7, <3>2
    <3>4. i - 1 = j - 1
      BY <2>2, <3>1, <3>3 DEF TakenOnce, OneCallEach
    <3> QED BY <3>1, <3>3, <3>4
  <2> QED BY <2>2 DEF OneCallEach
<1>13. EnteredOnce'
  BY <1>2, <1>3, <1>5, <1>6, <1>7 DEF TakenOnce, EnteredOnce, Taken
<1>14. ParentsFirst'
  BY <1>4, <1>5, <1>6 DEF TakenOnce, ParentsFirst, IsTree
<1> QED BY <1>6, <1>9, <1>10, <1>11, <1>12, <1>13, <1>14 DEF TakenOnce

\* Every step takes what it takes for the first time.
LEMMA StepTakesOnce ==
  ASSUME IsTree, TypeOK, TakenOnce, [Next]_vars
  PROVE  TakenOnce'
<1>1. CASE Walk
  <2>1. /\ stack # <<>>
        /\ Top \in Frame /\ Top.path \in Path
        /\ 1 \in DOMAIN stack /\ stack[1] = Top
    BY <1>1, InnermostCall, EmptySeq DEF TypeOK, Top
  <2>2. ASSUME EnterFile PROVE TakenOnce'
    <3>1. Listed' = Listed \cup {Top.path} /\ UNCHANGED opened /\ stack' = Tail(stack)
      BY <2>1, <2>2, ListGrows DEF EnterFile
    <3>2. Top.path \notin Listed
      BY <2>1, <2>2 DEF EnterFile, At, TakenOnce, EnteredOnce
    <3>3. ListedOnce'
      BY <2>1, <2>2, <3>2, OnceMore DEF EnterFile, TakenOnce
    <3> QED BY <2>1, <3>1, <3>3, ReturnTakesNothing
  <2>3. ASSUME Caught \/ EndLoop PROVE TakenOnce'
    <3>1. UNCHANGED <<fileList, opened>> /\ stack' = Tail(stack)
      BY <2>3 DEF Caught, EndLoop
    <3>2. Listed' = Listed \cup {} /\ ListedOnce'
      BY <3>1 DEF Listed, TakenOnce, ListedOnce
    <3> QED BY <2>1, <3>1, <3>2, ReturnTakesNothing
  <2>4. ASSUME EnterDirectory PROVE TakenOnce'
    <3>1. PICK f \in Frame : Moved(Top, f, "list", Top.rest) /\ stack' = Becomes(f)
      BY <2>1, <2>4, DirectoryEntered
    <3>2. ToTake(f) \subseteq ToTake(Top) /\ UNCHANGED <<opened, fileList>>
      BY <2>4, <3>1 DEF EnterDirectory, At, ToTake, Moved
    <3> QED BY <2>1, <3>1, <3>2, ReadingTakesNothing DEF Moved
  <2>5. ASSUME ListFiles PROVE TakenOnce'
    <3>1. PICK f \in Frame :
            Moved(Top, f, "loop", Listing(Top.path)) /\ stack' = Becomes(f)
      BY <2>1, <2>5, DirectoryRead
    <3>2. ToTake(f) \subseteq ToTake(Top) /\ UNCHANGED <<opened, fileList>>
      BY <2>5, <3>1 DEF ListFiles, At, ToTake, Moved, Listing
    <3> QED BY <2>1, <3>1, <3>2, ReadingTakesNothing DEF Moved
  <2>6. ASSUME NEW c \in Path, AddChild(c) PROVE TakenOnce'
    BY <2>1, <2>6, AddChildOnce
  <2>7. ASSUME NEW c \in Path, Descend(c) PROVE TakenOnce'
    BY <2>1, <2>7, DescendOnce
  <2>8. ASSUME NEW c \in Path, Overflow(c) PROVE TakenOnce'
    <3>1. DOMAIN stack' = {} /\ UNCHANGED <<fileList, opened>>
      BY <2>8 DEF Overflow
    <3> QED BY <3>1 DEF TakenOnce, NoneTaken, OwnEntries, OneCallEach, CallsOpened,
                        EnteredOnce, ParentsFirst, Taken, Listed, ListedOnce
  <2> QED BY <1>1, <2>2, <2>3, <2>4, <2>5, <2>6, <2>7, <2>8
          DEF Walk, ListFilesIsNull, CanonicalPathFails
<1>2. CASE UNCHANGED <<stack, fileList, opened>>
  BY <1>2 DEF TakenOnce, NoneTaken, OwnEntries, OneCallEach, CallsOpened,
              EnteredOnce, ParentsFirst, Taken, Listed, ListedOnce, ToTake
<1> QED BY <1>1, <1>2 DEF Next, Change, Finished, vars

-----------------------------------------------------------------------------
(* A corpus that nobody touches is listed, and nothing else is.            *)

Undisturbed == touched = {}

\* A return without an error line means that the list is the corpus.
CompleteOrReported == Returned => reported # {} \/ Listed = FilesBelow({})

\* The argument can be reached, and so can what a reached directory holds.
LEMMA ReachedFromRoot ==
  /\ Root \in Reachable({}) /\ Reachable({}) \subseteq Path
  /\ FilesBelow({}) \subseteq Path
BY FileUtilAssumption DEF Reachable, ClosedSets, FilesBelow

LEMMA ReachedNext ==
  ASSUME Undisturbed, NEW d \in Reachable({}), IsDirectory(d), NEW c \in Listing(d)
  PROVE  Target(c) \in Reachable({})
<1>1. d \in Path /\ c \in Path /\ c \in Entries[d]
  BY FileUtilAssumption DEF Reachable, Listing
<1>2. Steady(d, c)
  BY DEF Steady, Untouched, Undisturbed
<1>3. Target(c) \in Path
  BY <1>1, FileUtilAssumption DEF Target
<1>4. ASSUME NEW S \in ClosedSets({}) PROVE Target(c) \in S
  <2>1. d \in S
    BY DEF Reachable
  <2> QED BY <1>1, <1>2, <2>1 DEF ClosedSets, Closed
<1> QED BY <1>3, <1>4 DEF Reachable

\* What can be reached is as long as the file system is.
LEMMA SameCorpus ==
  ASSUME UNCHANGED <<disk, touched>>
  PROVE  Reachable({})' = Reachable({}) /\ FilesBelow({})' = FilesBelow({})
<1>1. \A p : IsDirectory(p)' = IsDirectory(p) /\ Untouched(p)' = Untouched(p)
             /\ Listing(p)' = Listing(p)
  BY DEF IsDirectory, Untouched, Listing
<1>2. \A d, c : Steady(d, c)' = Steady(d, c) /\ Target(c)' = Target(c)
  BY <1>1 DEF Steady, Target
<1>3. ClosedSets({})' = ClosedSets({})
  BY <1>2 DEF ClosedSets, Closed
<1>4. Reachable({})' = Reachable({})
  BY <1>3 DEF Reachable
<1> QED BY <1>1, <1>4 DEF FilesBelow

\* Every step stays within the corpus.
LEMMA StepStaysWithin ==
  ASSUME TypeOK, Undisturbed, WithinCorpus, Walk
  PROVE  WithinCorpus'
<1> USE FileUtilAssumption
<1>1. /\ stack # <<>>
      /\ Top \in Frame /\ Top.path \in Path /\ Top.rest \in SUBSET Path
      /\ Top.at \in {"entry", "list", "loop"}
      /\ Active = {Top} \cup Outer
  BY InnermostCall
<1>2. /\ UNCHANGED <<disk, touched>>
      /\ \A p : IsDirectory(p)' = IsDirectory(p) /\ Listing(p)' = Listing(p)
      /\ Reachable({})' = Reachable({}) /\ FilesBelow({})' = FilesBelow({})
  BY SameCorpus DEF Walk, IsDirectory, Listing
<1>3. (\A f \in Active : Within(f)) /\ Listed \subseteq FilesBelow({})
  BY DEF WithinCorpus
<1>4. ASSUME \A f \in Active' : f \in Outer \/ Within(f),
             \A p \in Listed' : p \in Listed \/ p \in FilesBelow({})
      PROVE  WithinCorpus'
  <2>1. \A f \in Active' : Within(f)
    BY <1>1, <1>3, <1>4
  <2>2. \A f \in Active' : Within(f)'
    BY <1>2, <2>1 DEF Within
  <2> QED BY <1>2, <1>3, <1>4, <2>2 DEF WithinCorpus
<1>5. UNCHANGED fileList => Listed' = Listed
  BY DEF Listed
<1>6. \A p \in Reachable({}) : ~IsDirectory(p) => p \in FilesBelow({})
  BY ReachedFromRoot DEF FilesBelow, Untouched, Undisturbed
<1>7. Within(Top)
  BY <1>1, <1>3
<1>8. CASE EnterFile
  <2>1. Active' = {} \cup Outer
    BY <1>1, <1>8, CallReturns DEF EnterFile
  <2>2. Listed' = Listed \cup {Top.path}
    BY <1>1, <1>8, ListGrows DEF EnterFile
  <2>3. {Top.path} \in SUBSET FilesBelow({})
    BY <1>6, <1>7, <1>8 DEF EnterFile, Within
  <2> QED BY <1>4, <2>1, <2>2, <2>3
<1>9. CASE EnterDirectory
  <2>1. PICK f \in Frame : Moved(Top, f, "list", Top.rest) /\ stack' = Becomes(f)
    BY <1>1, <1>9, DirectoryEntered
  <2>2. Active' = {f} \cup Outer
    BY <1>1, <2>1, MoveOn
  <2>3. Within(f)
    BY <1>7, <1>9, <2>1 DEF EnterDirectory, Moved, Within
  <2> QED BY <1>4, <1>5, <1>9, <2>2, <2>3 DEF EnterDirectory
<1>10. CASE ListFiles
  <2>1. PICK f \in Frame :
          Moved(Top, f, "loop", Listing(Top.path)) /\ stack' = Becomes(f)
    BY <1>1, <1>10, DirectoryRead
  <2>2. Active' = {f} \cup Outer
    BY <1>1, <2>1, MoveOn
  <2>3. Within(f)
    BY <1>7, <1>10, <2>1 DEF ListFiles, Moved, Within
  <2> QED BY <1>4, <1>5, <1>10, <2>2, <2>3 DEF ListFiles
<1>11. CASE Caught \/ EndLoop
  <2>1. Active' = {} \cup Outer
    BY <1>1, <1>11, CallReturns DEF Caught, EndLoop
  <2> QED BY <1>4, <1>5, <1>11, <2>1 DEF Caught, EndLoop
<1>12. ASSUME NEW c \in Path, Taking(c) PROVE Target(c) \in Reachable({})
  <2>1. c \in Listing(Top.path) /\ IsDirectory(Top.path)
    BY <1>7, <1>12 DEF Taking, At, Within
  <2> QED BY <1>7, <2>1, ReachedNext DEF Within
<1>13. ASSUME NEW c \in Path, AddChild(c) PROVE WithinCorpus'
  <2>1. PICK f \in Frame : Moved(Top, f, "loop", Top.rest \ {c}) /\ stack' = Becomes(f)
    BY <1>1, <1>13, EntryTaken DEF AddChild
  <2>2. Active' = {f} \cup Outer
    BY <1>1, <2>1, MoveOn
  <2>3. Within(f)
    BY <1>7, <1>13, <2>1 DEF AddChild, Taking, At, Moved, Within
  <2>4. Listed' = Listed \cup {c}
    BY <1>13, ListGrows DEF AddChild
  <2>5. {c} \in SUBSET FilesBelow({})
    BY <1>6, <1>12, <1>13 DEF AddChild, Target
  <2> QED BY <1>4, <2>2, <2>3, <2>4, <2>5
<1>14. ASSUME NEW c \in Path, Descend(c) PROVE WithinCorpus'
  <2>1. PICK f \in Frame : Moved(Top, f, "loop", Top.rest \ {c})
                           /\ stack' = <<Call(Canonical[c])>> \o Becomes(f)
    BY <1>1, <1>14, EntryTaken DEF Descend
  <2>2. Call(Canonical[c]) \in Frame
    BY CallIsFrame
  <2>3. Active' = {Call(Canonical[c]), f} \cup Outer
    BY <1>1, <2>1, <2>2, CallDeeper
  <2>4. Within(f)
    BY <1>7, <1>14, <2>1 DEF Descend, Taking, At, Moved, Within
  <2>5. Within(Call(Canonical[c]))
    BY <1>12, <1>14 DEF Descend, Target, Call, Within
  <2> QED BY <1>4, <1>5, <1>14, <2>3, <2>4, <2>5 DEF Descend
<1>15. ASSUME NEW c \in Path, Overflow(c) PROVE WithinCorpus'
  <2>1. Active' \subseteq {} \cup Outer
    BY <1>15, ElementsOfEmpty DEF Overflow, Active
  <2> QED BY <1>4, <1>5, <1>15, <2>1 DEF Overflow
<1> QED BY <1>8, <1>9, <1>10, <1>11, <1>13, <1>14, <1>15
        DEF Walk, ListFilesIsNull, CanonicalPathFails

LEMMA ReturnsComplete ==
  ASSUME WithinCorpus, NoSteadyFileLost
  PROVE  CompleteOrReported
<1>1. ASSUME Returned, reported = {} PROVE Listed = FilesBelow({})
  <2>1. FilesBelow(reported) = FilesBelow({})
    BY <1>1
  <2> QED BY <1>1, <2>1 DEF WithinCorpus, NoSteadyFileLost
<1> QED BY <1>1 DEF CompleteOrReported

\* While nobody touches anything, nobody but the walk takes a step.
LEMMA OnlyTheWalk ==
  ASSUME Undisturbed', [Next]_vars
  PROVE  Walk \/ UNCHANGED vars
<1>1. ASSUME NEW p \in Path, Change(p) PROVE FALSE
  BY <1>1 DEF Change, Undisturbed
<1> QED BY <1>1 DEF Next, Finished

\* Where nobody may touch anything, nobody does.
LEMMA NothingTouched ==
  ASSUME MaxTouched = 0, Undisturbed, [Next]_vars
  PROVE  Undisturbed'
<1>1. ASSUME NEW p \in Path, Change(p) PROVE FALSE
  <2>1. touched \cup {p} = {p}
    BY DEF Undisturbed
  <2>2. Cardinality(touched \cup {p}) = 1
    BY <2>1, FS_Singleton
  <2> QED BY <1>1, <2>2 DEF Change
<1> QED BY <1>1 DEF Next, Walk, Finished, vars, Undisturbed

\* Every step of the walk is one of FileListing, or none.
LEMMA StepLists ==
  ASSUME TypeOK, WithinCorpus, WithinCorpus', CompleteOrReported', Walk
  PROVE  Promise!Next
<1>1. /\ stack # <<>>
      /\ Top \in Frame /\ Top.path \in Path /\ Top.rest \in SUBSET Path
  BY InnermostCall
<1>2. ~Returned /\ UNCHANGED <<disk, touched>>
  BY <1>1 DEF Returned, Walk
<1>3. FilesBelow({})' = FilesBelow({})
  BY <1>2, SameCorpus
<1>4. Promise!Finish \/ UNCHANGED Returned
  <2>1. CASE Returned'
    <3>1. (reported # {})' \/ Listed' = FilesBelow({})
      BY <1>3, <2>1 DEF CompleteOrReported
    <3> QED BY <1>3, <2>1, <3>1 DEF Promise!Finish
  <2>2. CASE ~Returned'
    BY <1>2, <2>2 DEF Returned
  <2> QED BY <2>1, <2>2
<1>5. ASSUME NEW p \in Path, Listed' = Listed \cup {p}, reported' = reported
      PROVE  Promise!List(p)
  <2>1. p \in FilesBelow({})
    BY <1>3, <1>5 DEF WithinCorpus
  <2> QED BY <1>2, <1>3, <1>5, <2>1 DEF Promise!List
<1>6. ASSUME Caught PROVE Promise!Complain
  <2>1. (reported # {})' /\ Listed' = Listed
    BY <1>6 DEF Caught, Listed
  <2> QED BY <1>2, <1>3, <2>1 DEF Promise!Complain
<1>7. ASSUME UNCHANGED <<fileList, reported>>
      PROVE  UNCHANGED <<FilesBelow({}), Listed, reported # {}>>
  BY <1>3, <1>7 DEF Listed
<1>8. \/ \E p \in Path : Promise!List(p)
      \/ Promise!Complain
      \/ UNCHANGED <<FilesBelow({}), Listed, reported # {}>>
  <2>1. CASE EnterFile
    BY <1>1, <1>5, <2>1, ListGrows DEF EnterFile
  <2>2. CASE Caught
    BY <1>6, <2>2
  <2>3. ASSUME NEW c \in Path, AddChild(c)
        PROVE  \E p \in Path : Promise!List(p)
    BY <1>5, <2>3, ListGrows DEF AddChild
  <2>4. CASE UNCHANGED <<fileList, reported>>
    BY <1>7, <2>4
  <2> QED BY <2>1, <2>2, <2>3, <2>4
          DEF Walk, ListFilesIsNull, CanonicalPathFails, EnterDirectory, ListFiles, EndLoop,
              Descend, Overflow
<1> QED BY <1>4, <1>8 DEF Promise!Next

-----------------------------------------------------------------------------
(* Theorems.                                                               *)

(* What getFilesUnderPath has listed, and nobody has touched, is a file    *)
(* that is there, or the argument of the outermost call.                   *)
THEOREM OnlyFiles == Spec => []OnlyFilesListed
<1>1. ASSUME Init PROVE TakenWereThere /\ OnlyFilesListed
  <2>1. Active = {Call(Root)} /\ Listed = {}
    BY <1>1 DEF Init, Active, Elements, Listed
  <2> QED BY <2>1 DEF TakenWereThere, OnlyFilesListed, Call
<1>2. TypeOK /\ TakenWereThere /\ OnlyFilesListed /\ [Next]_vars
        => TakenWereThere' /\ OnlyFilesListed'
  BY FilesStayListed
<1> QED BY <1>1, <1>2, TypeCorrect, PTL DEF Spec

(* In a corpus that is a tree without links getFilesUnderPath lists no     *)
(* file twice, whoever adds and removes entries while it walks.            *)
THEOREM OnceInATree == IsTree => (Spec => []ListedOnce)
<1> SUFFICES ASSUME IsTree PROVE Spec => []ListedOnce
  OBVIOUS
<1>1. ASSUME Init PROVE TakenOnce
  <2>1. /\ DOMAIN stack = {1} /\ stack[1] = Call(Root) /\ DOMAIN fileList = {}
        /\ opened = {Root} /\ Listed = {}
    BY <1>1 DEF Init, Listed
  <2>2. ToTake(stack[1]) = Entries[Root] /\ stack[1].path = Root
    BY <2>1 DEF ToTake, Call
  <2>3. \A d \in Path : Root \notin Entries[d]
    BY DEF IsTree
  <2> QED BY <2>1, <2>2, <2>3, FileUtilAssumption
          DEF TakenOnce, NoneTaken, OwnEntries, OneCallEach, CallsOpened, EnteredOnce,
              ParentsFirst, Taken, ListedOnce
<1>2. TypeOK /\ TakenOnce /\ [Next]_vars => TakenOnce'
  BY StepTakesOnce
<1>3. TakenOnce => ListedOnce
  BY DEF TakenOnce
<1> QED BY <1>1, <1>2, <1>3, TypeCorrect, PTL DEF Spec

\* The promise is kept wherever nobody touches the corpus, for whatever reason.
LEMMA WhileUndisturbed == Spec /\ []Undisturbed => ListsTheCorpus
<1>1. ASSUME Init PROVE WithinCorpus /\ Promise!Init
  <2>1. Active = {Call(Root)} /\ Listed = {} /\ touched = {} /\ reported = {} /\ ~Returned
    BY <1>1 DEF Init, Active, Elements, Listed, Returned
  <2> QED BY <2>1, ReachedFromRoot DEF WithinCorpus, Within, Call, Promise!Init
<1>2. ASSUME TypeOK, Undisturbed, Undisturbed', WithinCorpus, [Next]_vars
      PROVE  WithinCorpus'
  <2>1. CASE Walk
    BY <1>2, <2>1, StepStaysWithin
  <2>2. CASE UNCHANGED vars
    <3>1. Active' = Active /\ Listed' = Listed /\ touched' = touched /\ disk' = disk
      BY <2>2 DEF vars, Active, Elements, Listed
    <3> QED BY <1>2, <3>1, SameCorpus DEF WithinCorpus, Within, IsDirectory, Listing
  <2> QED BY <1>2, <2>1, <2>2, OnlyTheWalk
<1>3. WithinCorpus /\ NoSteadyFileLost => CompleteOrReported
  BY ReturnsComplete
<1>4. ASSUME TypeOK, Undisturbed', WithinCorpus, WithinCorpus', CompleteOrReported', [Next]_vars
      PROVE  [Promise!Next]_(Promise!vars)
  <2>1. CASE Walk
    BY <1>4, <2>1, StepLists
  <2>2. CASE UNCHANGED vars
    BY <2>2, SameCorpus DEF vars, Promise!vars, Listed, Returned
  <2> QED BY <1>4, <2>1, <2>2, OnlyTheWalk
<1> QED BY <1>1, <1>2, <1>3, <1>4, TypeCorrect, NothingLost, PTL
        DEF Spec, ListsTheCorpus, Promise!Spec

(* While nobody touches the corpus getFilesUnderPath keeps the promise of  *)
(* FileListing: file by file nothing but the corpus is listed, and a       *)
(* return means that all of it is, or that an error has been printed.      *)
THEOREM KeepsItsPromise == MaxTouched = 0 => (Spec => ListsTheCorpus)
<1> SUFFICES ASSUME MaxTouched = 0 PROVE Spec => ListsTheCorpus
  OBVIOUS
<1>1. Init => Undisturbed
  BY DEF Init, Undisturbed
<1>2. Undisturbed /\ [Next]_vars => Undisturbed'
  BY NothingTouched
<1>3. Spec => []Undisturbed
  BY <1>1, <1>2, PTL DEF Spec
<1> QED BY <1>3, WhileUndisturbed, PTL
=============================================================================
