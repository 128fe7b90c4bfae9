--------------------------- MODULE FileUtilProofs ---------------------------
(***************************************************************************)
(* Theorems about FileUtil: type correctness, and that a returning walk    *)
(* loses no file it could reach, for every corpus, every link structure,   *)
(* every stack size and every interference.                                *)
(***************************************************************************)
EXTENDS FileUtil, SequenceTheorems, TLAPS

Elements(s) == {s[i] : i \in DOMAIN s}
Active == Elements(stack)
Outer == Elements(Tail(stack))

\* Call f is on directory d and has still to take entry c (or to read d first).
Owes(f, d, c) == f.path = d /\ (f.at # "loop" \/ c \in f.rest)

\* Nothing more is to be done for entry c of an opened directory.
Handled(c) == IF IsDirectory(c) THEN Canonical[c] \in opened ELSE c \in Listed

(* Every steady entry of an opened directory is handled, or owed by an      *)
(* active call; and the argument itself, when it is no directory, is listed *)
(* or about to be.                                                          *)
EntriesAccounted ==
  \A d \in opened \ reported : \A c \in Entries[d] :
    Steady(d, c) => Handled(c) \/ \E f \in Active : Owes(f, d, c)
RootAccounted ==
  Untouched(Root) /\ ~IsDirectory(Root) =>
    Root \in Listed \/ \E f \in Active : f.path = Root /\ f.at = "entry"
Accounted == ~overflowed => Root \in opened /\ EntriesAccounted /\ RootAccounted

-----------------------------------------------------------------------------
(* Sequences as the sets of their elements.                                *)

\* A sequence that is not empty has its head and the elements of its tail.
LEMMA ElementsOfTail ==
  ASSUME NEW S, NEW s \in Seq(S), s # <<>>
  PROVE  /\ Head(s) \in S
         /\ Tail(s) \in Seq(S)
         /\ Len(Tail(s)) = Len(s) - 1
         /\ Elements(s) = {Head(s)} \cup Elements(Tail(s))
<1>1. /\ Head(s) \in S
      /\ Tail(s) \in Seq(S)
      /\ Len(Tail(s)) = Len(s) - 1
      /\ \A i \in 1 .. Len(Tail(s)) : Tail(s)[i] = s[i + 1]
  BY HeadTailProperties
<1>2. Len(s) \in Nat /\ Len(s) >= 1 /\ Head(s) = s[1]
  BY EmptySeq
<1>3. ASSUME NEW e \in Elements(s)
      PROVE  e = Head(s) \/ e \in Elements(Tail(s))
  <2>1. PICK i \in 1 .. Len(s) : e = s[i]
    BY DEF Elements
  <2>2. CASE i = 1
    BY <2>1, <2>2, <1>2
  <2>3. CASE i # 1
    <3>1. i - 1 \in 1 .. Len(Tail(s)) /\ (i - 1) + 1 = i
      BY <2>3, <1>1, <1>2
    <3>2. Tail(s)[i - 1] = e
      BY <3>1, <1>1, <2>1
    <3>3. DOMAIN Tail(s) = 1 .. Len(Tail(s))
      BY <1>1, LenProperties
    <3> QED BY <3>1, <3>2, <3>3 DEF Elements
  <2> QED BY <2>2, <2>3
<1>4. ASSUME NEW e \in Elements(Tail(s))
      PROVE  e \in Elements(s)
  <2>1. PICK i \in 1 .. Len(Tail(s)) : e = Tail(s)[i]
    BY <1>1 DEF Elements
  <2>2. i + 1 \in 1 .. Len(s) /\ e = s[i + 1]
    BY <2>1, <1>1, <1>2
  <2> QED BY <2>2 DEF Elements
<1>5. Head(s) \in Elements(s)
  BY <1>2 DEF Elements
<1> QED BY <1>1, <1>3, <1>4, <1>5

\* Putting one element in front adds that element.
LEMMA ElementsOfPush ==
  ASSUME NEW S, NEW e \in S, NEW s \in Seq(S)
  PROVE  /\ <<e>> \o s \in Seq(S)
         /\ Len(<<e>> \o s) = Len(s) + 1
         /\ Elements(<<e>> \o s) = {e} \cup Elements(s)
<1> DEFINE t == <<e>> \o s
<1>1. <<e>> \in Seq(S) /\ Len(<<e>>) = 1 /\ <<e>>[1] = e
  OBVIOUS
<1>2. /\ t \in Seq(S)
      /\ Len(t) = 1 + Len(s)
      /\ \A i \in 1 .. 1 + Len(s) : t[i] = IF i <= 1 THEN <<e>>[i] ELSE s[i - 1]
  BY <1>1, ConcatProperties
<1>3. Len(s) \in Nat /\ DOMAIN s = 1 .. Len(s) /\ DOMAIN t = 1 .. 1 + Len(s)
  BY <1>2, LenProperties
<1> HIDE DEF t
<1>4. ASSUME NEW x \in Elements(t)
      PROVE  x = e \/ x \in Elements(s)
  <2>1. PICK i \in 1 .. 1 + Len(s) : x = t[i]
    BY <1>3 DEF Elements
  <2>2. CASE i = 1
    BY <2>1, <2>2, <1>1, <1>2, <1>3
  <2>3. CASE i # 1
    <3>1. i - 1 \in 1 .. Len(s) /\ x = s[i - 1]
      BY <2>1, <2>3, <1>2, <1>3
    <3> QED BY <3>1, <1>3 DEF Elements
  <2> QED BY <2>2, <2>3
<1>5. ASSUME NEW x \in Elements(s)
      PROVE  x \in Elements(t)
  <2>1. PICK i \in 1 .. Len(s) : x = s[i]
    BY <1>3 DEF Elements
  <2>2. i + 1 \in 1 .. 1 + Len(s) /\ ~(i + 1 <= 1) /\ (i + 1) - 1 = i
    BY <1>3
  <2>3. t[i + 1] = x
    BY <2>1, <2>2, <1>2
  <2> QED BY <2>2, <2>3, <1>3 DEF Elements
<1>6. e \in Elements(t)
  <2>1. 1 \in 1 .. 1 + Len(s) /\ t[1] = e
    BY <1>1, <1>2, <1>3
  <2> QED BY <2>1, <1>3 DEF Elements
<1> QED BY <1>2, <1>3, <1>4, <1>5, <1>6 DEF t

\* Appending adds the appended element.
LEMMA ElementsOfAppend ==
  ASSUME NEW S, NEW s \in Seq(S), NEW e \in S
  PROVE  /\ Append(s, e) \in Seq(S)
         /\ Elements(Append(s, e)) = Elements(s) \cup {e}
<1>1. /\ Append(s, e) \in Seq(S)
      /\ Len(Append(s, e)) = Len(s) + 1
      /\ \A i \in 1 .. Len(s) : Append(s, e)[i] = s[i]
      /\ Append(s, e)[Len(s) + 1] = e
  BY AppendProperties
<1>2. Len(s) \in Nat
  OBVIOUS
<1> QED BY <1>1, <1>2 DEF Elements

\* The empty sequence has no element.
LEMMA ElementsOfEmpty == Elements(<<>>) = {}
BY DEF Elements

-----------------------------------------------------------------------------
(* What the steps of the walk do to the stack, as the set of its calls.    *)

LEMMA CallIsFrame == \A p \in Path : Call(p) \in Frame
BY DEF Call, Frame

\* The innermost call and the calls around it make up the stack.
LEMMA StackParts ==
  ASSUME TypeOK, stack # <<>>
  PROVE  /\ Top \in Frame
         /\ Tail(stack) \in Seq(Frame)
         /\ Len(Tail(stack)) = Len(stack) - 1
         /\ Active = {Top} \cup Outer
BY ElementsOfTail DEF TypeOK, Top, Active, Outer

\* A step that moves the innermost call on, replaces that call only.
LEMMA MoveOn ==
  ASSUME TypeOK, stack # <<>>, NEW f \in Frame, stack' = Becomes(f)
  PROVE  /\ stack' \in Seq(Frame)
         /\ Len(stack') = Len(stack)
         /\ Active' = {f} \cup Outer
<1>1. Tail(stack) \in Seq(Frame) /\ Len(Tail(stack)) = Len(stack) - 1 /\ Len(stack) \in Nat
  BY StackParts DEF TypeOK
<1>2. /\ stack' \in Seq(Frame)
      /\ Len(stack') = Len(Tail(stack)) + 1
      /\ Elements(stack') = {f} \cup Elements(Tail(stack))
  BY <1>1, ElementsOfPush DEF Becomes
<1>3. Active' = Elements(stack')
  BY DEF Active, Elements
<1> QED BY <1>1, <1>2, <1>3 DEF Outer

\* A recursive call adds itself, and moves its caller on.
LEMMA CallDeeper ==
  ASSUME TypeOK, stack # <<>>, NEW f \in Frame, NEW g \in Frame,
         stack' = <<g>> \o Becomes(f)
  PROVE  /\ stack' \in Seq(Frame)
         /\ Len(stack') = Len(stack) + 1
         /\ Active' = {g, f} \cup Outer
<1>1. Tail(stack) \in Seq(Frame) /\ Len(Tail(stack)) = Len(stack) - 1 /\ Len(stack) \in Nat
  BY StackParts DEF TypeOK
<1>2. /\ Becomes(f) \in Seq(Frame)
      /\ Len(Becomes(f)) = Len(Tail(stack)) + 1
      /\ Elements(Becomes(f)) = {f} \cup Elements(Tail(stack))
  BY <1>1, ElementsOfPush DEF Becomes
<1>3. /\ stack' \in Seq(Frame)
      /\ Len(stack') = Len(Becomes(f)) + 1
      /\ Elements(stack') = {g} \cup Elements(Becomes(f))
  BY <1>2, ElementsOfPush
<1>4. Active' = Elements(stack')
  BY DEF Active, Elements
<1> QED BY <1>1, <1>2, <1>3, <1>4 DEF Outer

\* A return removes the innermost call.
LEMMA CallReturns ==
  ASSUME TypeOK, stack # <<>>, stack' = Tail(stack)
  PROVE  /\ stack' \in Seq(Frame)
         /\ Len(stack') < Len(stack)
         /\ Active' = Outer
BY StackParts DEF TypeOK, Active, Outer, Elements

\* Adding a file to the list lists that file, and all those before it.
LEMMA ListGrows ==
  ASSUME TypeOK, NEW p \in Path, fileList' = Append(fileList, p)
  PROVE  /\ fileList' \in Seq(Path)
         /\ Listed' = Listed \cup {p}
<1>1. fileList \in Seq(Path)
  BY DEF TypeOK
<1>2. /\ fileList' \in Seq(Path)
      /\ Elements(fileList') = Elements(fileList) \cup {p}
  BY <1>1, ElementsOfAppend
<1>3. Listed = Elements(fileList) /\ Listed' = Elements(fileList')
  BY DEF Listed, Elements
<1> QED BY <1>2, <1>3

-----------------------------------------------------------------------------
(* Type correctness: every variable keeps its type, and the depth of the   *)
(* recursion of getFilesUnderPath never passes the Java stack.             *)
THEOREM TypeCorrect == Spec => []TypeOK
<1>1. Init => TypeOK
  <2> SUFFICES ASSUME Init PROVE TypeOK
    OBVIOUS
  <2>1. stack \in Seq(Frame) /\ Len(stack) = 1
    BY CallIsFrame, FileUtilAssumption DEF Init
  <2>2. fileList \in Seq(Path)
    BY DEF Init
  <2>3. disk \in [Path -> Kind]
    BY DEF Init
  <2>4. 1 <= StackLimit /\ {Root} \in SUBSET Path /\ {} \in SUBSET Path
    BY FileUtilAssumption
  <2> QED BY <2>1, <2>2, <2>3, <2>4 DEF Init, TypeOK
<1>2. TypeOK /\ [Next]_vars => TypeOK'
  <2> SUFFICES ASSUME TypeOK, [Next]_vars PROVE TypeOK'
    OBVIOUS
  <2> USE FileUtilAssumption
  <2>1. CASE Walk
    <3>1. stack # <<>>
      BY <2>1 DEF Walk, At, EnterFile, EnterDirectory, ListFiles, ListFilesIsNull, EndLoop,
                  AddChild, Descend, CanonicalPathFails, Overflow, Taking
    <3>2. /\ Top \in Frame /\ Top.path \in Path /\ Top.rest \in SUBSET Path
          /\ Len(stack) \in Nat
      BY <3>1, StackParts DEF Frame, TypeOK
    <3>3. ASSUME EnterFile PROVE TypeOK'
      BY <2>1, <3>1, <3>2, <3>3, CallReturns, ListGrows DEF EnterFile, TypeOK, Walk
    <3>4. ASSUME EnterDirectory PROVE TypeOK'
      <4>1. [Top EXCEPT !.at = "list"] \in Frame
        BY <3>2 DEF Frame
      <4> QED BY <2>1, <3>1, <3>4, <4>1, MoveOn DEF EnterDirectory, TypeOK, Walk
    <3>5. ASSUME ListFiles PROVE TypeOK'
      <4>1. Listing(Top.path) \in SUBSET Path
        BY <3>2 DEF Listing
      <4>2. [Top EXCEPT !.at = "loop", !.rest = Listing(Top.path)] \in Frame
        BY <3>2, <4>1 DEF Frame
      <4> QED BY <2>1, <3>1, <3>5, <4>2, MoveOn DEF ListFiles, TypeOK, Walk
    <3>6. ASSUME Caught PROVE TypeOK'
      BY <2>1, <3>1, <3>2, <3>6, CallReturns DEF Caught, TypeOK, Walk
    <3>7. ASSUME EndLoop PROVE TypeOK'
      BY <2>1, <3>1, <3>2, <3>7, CallReturns DEF EndLoop, TypeOK, Walk
    <3>8. ASSUME NEW c \in Path, AddChild(c) PROVE TypeOK'
      <4>1. [Top EXCEPT !.rest = @ \ {c}] \in Frame
        BY <3>2 DEF Frame
      <4>2. stack' \in Seq(Frame) /\ Len(stack') <= StackLimit
        BY <3>1, <3>8, <4>1, MoveOn DEF AddChild, TypeOK
      <4>3. fileList' \in Seq(Path)
        BY <3>8, ListGrows DEF AddChild
      <4> QED BY <2>1, <3>8, <4>2, <4>3 DEF AddChild, TypeOK, Walk
    <3>9. ASSUME NEW c \in Path, Descend(c) PROVE TypeOK'
      <4>1. [Top EXCEPT !.rest = @ \ {c}] \in Frame /\ Call(Canonical[c]) \in Frame
        BY <3>2, CallIsFrame DEF Frame
      <4>2. stack' \in Seq(Frame) /\ Len(stack') = Len(stack) + 1
        BY <3>1, <3>9, <4>1, CallDeeper DEF Descend
      <4>3. Len(stack') <= StackLimit
        BY <3>2, <3>9, <4>2 DEF Descend
      <4>4. opened' \in SUBSET Path
        BY <3>9 DEF Descend, TypeOK
      <4> QED BY <2>1, <3>9, <4>2, <4>3, <4>4 DEF Descend, TypeOK, Walk
    <3>10. ASSUME NEW c \in Path, Overflow(c) PROVE TypeOK'
      BY <2>1, <3>1, <3>2, <3>10 DEF Overflow, TypeOK, Walk
    <3> QED BY <2>1, <3>3, <3>4, <3>5, <3>6, <3>7, <3>8, <3>9, <3>10
            DEF Walk, ListFilesIsNull, CanonicalPathFails
  <2>2. ASSUME NEW p \in Path, Change(p) PROVE TypeOK'
    BY <2>2 DEF Change, TypeOK
  <2>3. CASE Finished
    BY <2>3 DEF Finished, vars, TypeOK
  <2>4. CASE UNCHANGED vars
    BY <2>4 DEF vars, TypeOK
  <2> QED BY <2>1, <2>2, <2>3, <2>4 DEF Next
<1> QED BY <1>1, <1>2, PTL DEF Spec

-----------------------------------------------------------------------------
(* The inductive invariant.                                                *)

\* A step of the walk leaves the file system alone, and handles only more.
LEMMA WalkIsMonotone ==
  ASSUME Walk, opened \subseteq opened', Listed \subseteq Listed'
  PROVE  /\ \A c \in Path : IsDirectory(c)' = IsDirectory(c)
         /\ \A d, c \in Path : Steady(d, c)' = Steady(d, c)
         /\ \A c \in Path : Handled(c) => Handled(c)'
         /\ Untouched(Root)' = Untouched(Root)
BY DEF Walk, IsDirectory, Steady, Untouched, Listing, Handled

\* What is left to show of a step by which the innermost call becomes the
\* calls New: each call newly made is in New, unread; what the innermost call
\* owed is handled, or owed by New, or its call has printed an error.
LEMMA StepAccounts ==
  ASSUME TypeOK, Accounted, Walk, ~overflowed, stack # <<>>,
         opened \subseteq opened', reported \subseteq reported', Listed \subseteq Listed',
         opened' \in SUBSET Path,
         NEW New, Active' = New \cup Outer,
         \A d \in opened' \ opened : \E f \in New : f.path = d /\ f.at # "loop",
         \A d \in opened \ reported' : \A c \in Entries[d] :
           Steady(d, c) /\ Owes(Top, d, c) => Handled(c)' \/ \E f \in New : Owes(f, d, c),
         Top.path = Root /\ Top.at = "entry" /\ ~IsDirectory(Root) => Root \in Listed'
  PROVE  Accounted'
<1>1. Active = {Top} \cup Outer
  BY StackParts
<1>2. /\ \A c \in Path : IsDirectory(c)' = IsDirectory(c)
      /\ \A d, c \in Path : Steady(d, c)' = Steady(d, c)
      /\ \A c \in Path : Handled(c) => Handled(c)'
      /\ Untouched(Root)' = Untouched(Root)
  BY WalkIsMonotone
<1>3. ASSUME NEW d \in opened' \ reported', NEW c \in Entries[d], Steady(d, c)'
      PROVE  Handled(c)' \/ \E f \in Active' : Owes(f, d, c)
  <2>1. d \in Path /\ c \in Path /\ Steady(d, c)
    BY <1>2, <1>3, FileUtilAssumption
  <2>2. CASE d \notin opened
    BY <2>2 DEF Owes
  <2>3. CASE d \in opened
    <3>1. Handled(c) \/ \E f \in Active : Owes(f, d, c)
      BY <2>1, <2>3 DEF Accounted, EntriesAccounted
    <3>2. CASE Handled(c)
      BY <3>2, <2>1, <1>2
    <3>3. CASE Owes(Top, d, c)
      BY <3>3, <2>1, <2>3
    <3>4. CASE \E f \in Outer : Owes(f, d, c)
      BY <3>4
    <3> QED BY <3>1, <3>2, <3>3, <3>4, <1>1
  <2> QED BY <2>2, <2>3
<1>4. EntriesAccounted'
  BY <1>3 DEF EntriesAccounted, Owes
<1>5. RootAccounted'
  BY <1>1, <1>2, FileUtilAssumption DEF Accounted, RootAccounted
<1> QED BY <1>4, <1>5 DEF Accounted

\* Every step keeps the account.
LEMMA AccountKept ==
  ASSUME TypeOK, TypeOK', Accounted, [Next]_vars
  PROVE  Accounted'
<1>1. CASE Walk
  <2>1. CASE overflowed
    <3>1. overflowed'
      BY <1>1, <2>1 DEF Walk, EnterFile, EnterDirectory, ListFiles, ListFilesIsNull, Caught,
                        EndLoop, AddChild, Descend, CanonicalPathFails, Overflow
    <3> QED BY <3>1 DEF Accounted
  <2>2. CASE ~overflowed
    <3>1. stack # <<>>
      BY <1>1 DEF Walk, At, EnterFile, EnterDirectory, ListFiles, ListFilesIsNull, EndLoop,
                  AddChild, Descend, CanonicalPathFails, Overflow, Taking
    <3>2. /\ Top \in Frame /\ Top.path \in Path /\ Top.rest \in SUBSET Path
          /\ Top.at \in {"entry", "list", "loop"}
      BY <3>1, StackParts DEF Frame
    <3>3. opened' \in SUBSET Path /\ fileList \in Seq(Path)
      BY DEF TypeOK
    <3>4. ASSUME EnterFile PROVE Accounted'
      <4>1. Active' = {} \cup Outer
        BY <3>1, <3>4, CallReturns DEF EnterFile
      <4>2. Listed' = Listed \cup {Top.path}
        BY <3>2, <3>4, ListGrows DEF EnterFile
      <4>3. \A d, c \in Path : Steady(d, c) => ~Owes(Top, d, c)
        BY <3>4 DEF EnterFile, Steady, Owes
      <4>4. opened' = opened /\ reported' = reported
        BY <3>4 DEF EnterFile
      <4>5. \A d \in opened : d \in Path /\ \A c \in Entries[d] : c \in Path
        BY FileUtilAssumption DEF TypeOK
      <4> QED BY <1>1, <2>2, <3>1, <3>3, <4>1, <4>2, <4>3, <4>4, <4>5, StepAccounts
    <3>5. ASSUME EnterDirectory PROVE Accounted'
      <4> DEFINE f == [Top EXCEPT !.at = "list"]
      <4>1. f \in Frame /\ f.path = Top.path /\ f.at = "list" /\ f.rest = Top.rest
        BY <3>2 DEF Frame
      <4>2. Active' = {f} \cup Outer
        BY <3>1, <3>5, <4>1, MoveOn DEF EnterDirectory
      <4>3. opened' = opened /\ reported' = reported /\ Listed' = Listed
        BY <3>5 DEF EnterDirectory, Listed
      <4>4. \A d, c : Owes(Top, d, c) => Owes(f, d, c)
        BY <4>1 DEF Owes
      <4>5. ~(Top.path = Root /\ ~IsDirectory(Root))
        BY <3>5 DEF EnterDirectory
      <4> HIDE DEF f
      <4> QED BY <1>1, <2>2, <3>1, <3>3, <4>2, <4>3, <4>4, <4>5, StepAccounts
    <3>6. ASSUME ListFiles PROVE Accounted'
      <4> DEFINE f == [Top EXCEPT !.at = "loop", !.rest = Listing(Top.path)]
      <4>1. Listing(Top.path) \in SUBSET Path
        BY <3>2, FileUtilAssumption DEF Listing
      <4>2. f \in Frame /\ f.path = Top.path /\ f.at = "loop" /\ f.rest = Listing(Top.path)
        BY <3>2, <4>1 DEF Frame
      <4>3. Active' = {f} \cup Outer
        BY <3>1, <3>6, <4>2, MoveOn DEF ListFiles
      <4>4. opened' = opened /\ reported' = reported /\ Listed' = Listed
        BY <3>6 DEF ListFiles, Listed
      <4>5. \A d, c : Steady(d, c) /\ Owes(Top, d, c) => Owes(f, d, c)
        BY <4>2 DEF Owes, Steady
      <4>6. Top.at # "entry"
        BY <3>6 DEF ListFiles, At
      <4> HIDE DEF f
      <4> QED BY <1>1, <2>2, <3>1, <3>3, <4>3, <4>4, <4>5, <4>6, StepAccounts
    <3>7. ASSUME Caught, Top.at # "entry" PROVE Accounted'
      <4>1. Active' = {} \cup Outer
        BY <3>1, <3>7, CallReturns DEF Caught
      <4>2. opened' = opened /\ reported' = reported \cup {Top.path} /\ Listed' = Listed
        BY <3>7 DEF Caught, Listed
      <4>3. \A d, c : Owes(Top, d, c) => d \in reported'
        BY <4>2 DEF Owes
      <4> QED BY <1>1, <2>2, <3>1, <3>3, <3>7, <4>1, <4>2, <4>3, StepAccounts
    <3>8. ASSUME EndLoop PROVE Accounted'
      <4>1. Active' = {} \cup Outer
        BY <3>1, <3>8, CallReturns DEF EndLoop
      <4>2. opened' = opened /\ reported' = reported /\ Listed' = Listed
        BY <3>8 DEF EndLoop, Listed
      <4>3. Top.at = "loop" /\ Top.rest = {}
        BY <3>8 DEF EndLoop, At
      <4>4. \A d, c : ~Owes(Top, d, c)
        BY <4>3 DEF Owes
      <4> QED BY <1>1, <2>2, <3>1, <3>3, <4>1, <4>2, <4>3, <4>4, StepAccounts
    <3>9. ASSUME NEW c \in Path, AddChild(c) PROVE Accounted'
      <4> DEFINE f == [Top EXCEPT !.rest = @ \ {c}]
      <4>1. f \in Frame /\ f.path = Top.path /\ f.at = Top.at /\ f.rest = Top.rest \ {c}
        BY <3>2 DEF Frame
      <4>2. Active' = {f} \cup Outer
        BY <3>1, <3>9, <4>1, MoveOn DEF AddChild
      <4>3. opened' = opened /\ reported' = reported
        BY <3>9 DEF AddChild
      <4>4. Listed' = Listed \cup {c}
        BY <3>9, ListGrows DEF AddChild
      <4>5. IsDirectory(c)' = IsDirectory(c)
        BY <1>1 DEF Walk, IsDirectory
      <4>6. Handled(c)'
        BY <3>9, <4>4, <4>5 DEF Handled, AddChild
      <4>7. \A d, e : Owes(Top, d, e) => e = c \/ Owes(f, d, e)
        BY <4>1 DEF Owes
      <4>8. Top.at # "entry"
        BY <3>9 DEF AddChild, Taking, At
      <4> HIDE DEF f
      <4> QED BY <1>1, <2>2, <3>1, <3>3, <4>2, <4>3, <4>4, <4>6, <4>7, <4>8, StepAccounts
    <3>10. ASSUME NEW c \in Path, Descend(c) PROVE Accounted'
      <4> DEFINE f == [Top EXCEPT !.rest = @ \ {c}]
                 g == Call(Canonical[c])
      <4>1. f \in Frame /\ f.path = Top.path /\ f.at = Top.at /\ f.rest = Top.rest \ {c}
        BY <3>2 DEF Frame
      <4>2. g \in Frame /\ g.path = Canonical[c] /\ g.at = "entry"
        BY CallIsFrame, FileUtilAssumption DEF Call
      <4>3. Active' = {g, f} \cup Outer
        BY <3>1, <3>10, <4>1, <4>2, CallDeeper DEF Descend
      <4>4. /\ opened' = opened \cup {Canonical[c]}
            /\ reported' = reported
            /\ Listed' = Listed
        BY <3>10 DEF Descend, Listed
      <4>5. IsDirectory(c)' = IsDirectory(c)
        BY <1>1 DEF Walk, IsDirectory
      <4>6. Handled(c)'
        BY <3>10, <4>4, <4>5 DEF Handled, Descend
      <4>7. \A d, e : Owes(Top, d, e) => e = c \/ Owes(f, d, e)
        BY <4>1 DEF Owes
      <4>8. Top.at # "entry"
        BY <3>10 DEF Descend, Taking, At
      <4> HIDE DEF f, g
      <4>9. PICK New : New = {g, f}
        OBVIOUS
      <4> QED BY <1>1, <2>2, <3>1, <3>3, <4>2, <4>3, <4>4, <4>6, <4>7, <4>8, <4>9, StepAccounts
    <3>11. ASSUME NEW c \in Path, Overflow(c) PROVE Accounted'
      BY <3>11 DEF Overflow, Accounted
    <3> QED BY <1>1, <3>4, <3>5, <3>6, <3>7, <3>8, <3>9, <3>10, <3>11
            DEF Walk, ListFilesIsNull, CanonicalPathFails, At, Taking
  <2> QED BY <2>1, <2>2
<1>2. ASSUME NEW p \in Path, Change(p) PROVE Accounted'
  <2>1. /\ stack' = stack /\ fileList' = fileList /\ opened' = opened
        /\ reported' = reported /\ overflowed' = overflowed
        /\ touched' = touched \cup {p}
        /\ \A q \in Path \ {p} : disk'[q] = disk[q]
    BY <1>2 DEF Change, TypeOK
  <2>2. Active' = Active /\ Listed' = Listed
    BY <2>1 DEF Active, Elements, Listed
  <2>3. \A q \in Path : Untouched(q)' =>
          /\ Untouched(q)
          /\ disk'[q] = disk[q]
          /\ IsDirectory(q)' = IsDirectory(q)
    BY <2>1, FileUtilAssumption DEF Untouched, IsDirectory
  <2>4. \A d, c \in Path : Steady(d, c)' => Steady(d, c) /\ IsDirectory(c)' = IsDirectory(c)
    BY <2>3 DEF Steady, Listing
  <2>5. \A d \in opened : d \in Path /\ \A c \in Entries[d] : c \in Path
    BY FileUtilAssumption DEF TypeOK
  <2>6. EntriesAccounted => EntriesAccounted'
    BY <2>1, <2>2, <2>4, <2>5 DEF EntriesAccounted, Handled, Owes
  <2>7. RootAccounted => RootAccounted'
    BY <2>1, <2>2, <2>3, FileUtilAssumption DEF RootAccounted
  <2> QED BY <2>1, <2>6, <2>7 DEF Accounted
<1>3. CASE UNCHANGED vars
  BY <1>3 DEF vars, Accounted, EntriesAccounted, RootAccounted, Steady, Handled, Owes, Untouched,
              IsDirectory, Listing, Active, Elements, Listed
<1> QED BY <1>1, <1>2, <1>3 DEF Next, Finished

-----------------------------------------------------------------------------
\* When no call is active the account leaves nothing open: the opened
\* directories, the listed files and the argument are closed.
LEMMA NothingOwed ==
  ASSUME TypeOK, Accounted, Returned
  PROVE  NoSteadyFileLost
<1> USE FileUtilAssumption
<1> DEFINE S == {d \in opened : IsDirectory(d)} \cup {p \in Listed : ~IsDirectory(p)} \cup {Root}
<1>1. Active = {} /\ ~overflowed
  BY ElementsOfEmpty DEF Returned, Active
<1>2. Listed \subseteq Path /\ opened \subseteq Path
  BY LenProperties DEF TypeOK, Listed
<1>3. S \in SUBSET Path /\ Root \in S
  BY <1>2
<1>4. ASSUME NEW d \in S \ reported, NEW c \in Entries[d], Steady(d, c)
      PROVE  Target(c) \in S
  <2>1. d \in opened /\ c \in Path
    BY <1>1, <1>3, <1>4 DEF Accounted, Steady
  <2>2. Handled(c)
    BY <1>1, <1>4, <2>1 DEF Accounted, EntriesAccounted
  <2>3. CASE IsDirectory(c)
    <3>1. IsDirectory(Canonical[c])
      BY <2>1, <2>3 DEF IsDirectory
    <3> QED BY <2>2, <2>3, <3>1 DEF Handled, Target
  <2>4. CASE ~IsDirectory(c)
    BY <2>2, <2>4 DEF Handled, Target
  <2> QED BY <2>3, <2>4
<1>5. S \in ClosedSets(reported)
  BY <1>3, <1>4 DEF ClosedSets, Closed
<1>6. ASSUME NEW p \in FilesBelow(reported)
      PROVE  p \in Listed
  <2>1. p \in S /\ Untouched(p) /\ ~IsDirectory(p)
    BY <1>5, <1>6 DEF FilesBelow, Reachable
  <2>2. CASE p = Root
    BY <1>1, <2>1, <2>2 DEF Accounted, RootAccounted
  <2> QED BY <2>1, <2>2
<1> QED BY <1>6 DEF NoSteadyFileLost

(* A walk that returns has lost no file it could reach through directories  *)
(* whose call of getFilesUnderPath printed no error, whatever the corpus,   *)
(* its links, the Java stack and the changes made under the walk.           *)
THEOREM NothingLost == Spec => []NoSteadyFileLost
<1>1. Init => Accounted
  <2> SUFFICES ASSUME Init PROVE Accounted
    OBVIOUS
  <2>1. /\ Elements(<<Call(Root)>>) = {Call(Root)}
        /\ Call(Root).path = Root /\ Call(Root).at = "entry"
    BY DEF Elements, Call
  <2>2. Active = {Call(Root)} /\ opened = {Root}
    BY <2>1 DEF Init, Active
  <2> QED BY <2>1, <2>2 DEF Accounted, EntriesAccounted, RootAccounted, Owes
<1>2. TypeOK /\ TypeOK' /\ Accounted /\ [Next]_vars => Accounted'
  BY AccountKept
<1>3. TypeOK /\ Accounted => NoSteadyFileLost
  BY NothingOwed DEF NoSteadyFileLost
<1> QED BY <1>1, <1>2, <1>3, TypeCorrect, PTL DEF Spec
=============================================================================
