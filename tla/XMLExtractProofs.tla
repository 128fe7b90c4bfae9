-------------------------- MODULE XMLExtractProofs --------------------------
(***************************************************************************)
(* Theorems about XMLExtract, for every corpus, any number of files and of *)
(* processes, texts of any length and pipes of any size: type correctness, *)
(* that each file is started or reported, and that the processes, which    *)
(* run side by side, do not mix up or take away their texts.               *)
(***************************************************************************)
EXTENDS XMLExtract, SequenceTheorems, TLAPS

Piece == [by : Place, piece : Nat \ {0}]

-----------------------------------------------------------------------------
(* Sequences.                                                              *)

\* A list is a sequence of files, no longer than the bound.
LEMMA ListsAreSequences ==
  ASSUME NEW l \in Lists
  PROVE  /\ l \in Seq(File)
         /\ Len(l) \in 0 .. MaxFiles
         /\ DOMAIN l = 1 .. Len(l)
         /\ \A k \in 1 .. Len(l) : l[k] \in File
<1>1. PICK n \in 0 .. MaxFiles : l \in [1 .. n -> File]
  BY DEF Lists
<1>2. n \in Nat
  BY <1>1, XMLExtractAssumption
<1>3. l \in Seq(File) /\ Len(l) = n
  BY <1>1, <1>2
<1> QED BY <1>1, <1>2, <1>3

\* The text of m pieces is a sequence of them.
LEMMA TextIsSequence ==
  ASSUME NEW k \in Place, NEW m \in Nat
  PROVE  /\ TextOf(k, m) \in Seq(Piece)
         /\ Len(TextOf(k, m)) = m
         /\ \A i \in 1 .. m : TextOf(k, m)[i] = [by |-> k, piece |-> i]
<1>1. TextOf(k, m) \in [1 .. m -> Piece]
  BY DEF TextOf, Piece
<1> QED BY <1>1 DEF TextOf

\* A process that has written nothing has left an empty file.
LEMMA NoPieces ==
  ASSUME NEW k \in Place
  PROVE  TextOf(k, 0) = <<>>
BY TextIsSequence, EmptySeq

\* Writing one piece more makes the text one piece longer.
LEMMA OnePieceMore ==
  ASSUME NEW k \in Place, NEW m \in Nat
  PROVE  Append(TextOf(k, m), [by |-> k, piece |-> m + 1]) = TextOf(k, m + 1)
<1> DEFINE e == [by |-> k, piece |-> m + 1]
           s == Append(TextOf(k, m), e)
           t == TextOf(k, m + 1)
<1>1. e \in Piece /\ m + 1 \in Nat
  BY DEF Piece
<1>2. /\ TextOf(k, m) \in Seq(Piece)
      /\ Len(TextOf(k, m)) = m
      /\ \A i \in 1 .. m : TextOf(k, m)[i] = [by |-> k, piece |-> i]
  BY TextIsSequence
<1>3. /\ t \in Seq(Piece)
      /\ Len(t) = m + 1
      /\ \A i \in 1 .. m + 1 : t[i] = [by |-> k, piece |-> i]
  BY <1>1, TextIsSequence
<1> HIDE DEF t
<1>4. /\ s \in Seq(Piece)
      /\ Len(s) = m + 1
      /\ \A i \in 1 .. m : s[i] = TextOf(k, m)[i]
      /\ s[m + 1] = e
  BY <1>1, <1>2, AppendProperties
<1>5. ASSUME NEW i \in 1 .. m + 1 PROVE s[i] = t[i]
  <2>1. CASE i = m + 1
    BY <2>1, <1>3, <1>4
  <2>2. CASE i # m + 1
    BY <2>2, <1>2, <1>3, <1>4
  <2> QED BY <2>1, <2>2
<1> HIDE DEF s
<1>6. s = t
  BY <1>3, <1>4, <1>5, SeqEqual
<1> QED BY <1>6 DEF s, t

-----------------------------------------------------------------------------
(* The inductive invariant.                                                *)

\* The places before next, and no others, are started or reported.
Counted ==
  /\ \A k \in reported : k < next
  /\ done => next > Len(list)
  /\ \A k \in Place : k < next => (child[k] # "none" <=> k \notin reported)

\* What a process has written by the time it is where it is.
WrittenSoFar ==
  \A k \in Place :
    /\ child[k] \in {"none", "cmd"} => written[k] = 0
    /\ child[k] = "succeeded" => written[k] = Pieces[list[k]]

\* No two processes have one file open.
Alone ==
  \A j, k \in Place :
    child[j] = "xsltproc" /\ child[k] = "xsltproc" /\ Target(j) = Target(k) => j = k

\* Whoever has a file open has written all that is in it.
OwnText == \A k \in Place : child[k] = "xsltproc" => out[Target(k)] = TextOf(k, written[k])

\* Every text in a file is that of a process for its name.
Traced ==
  \A n \in Name : out[n] \notin {Missing, <<>>} =>
    \E k \in Place :
      /\ Opened(k) /\ Target(k) = n
      /\ written[k] # 0 /\ out[n] = TextOf(k, written[k])

IInv ==
  /\ TypeOK /\ Counted
  /\ WrittenSoFar /\ Alone /\ OwnText /\ Traced
  /\ ExtractedStays

\* A started place is one of the list, and has a target.
LEMMA StartedPlaces ==
  ASSUME TypeOK, NEW k \in Place, k < next
  PROVE  /\ k \in 1 .. Len(list) /\ k \in DOMAIN list
         /\ list[k] \in File
         /\ Target(k) \in Name
         /\ Pieces[list[k]] \in Nat
<1>1. k \in 1 .. Len(list)
  BY ListsAreSequences DEF TypeOK, Place
<1> QED BY <1>1, ListsAreSequences, XMLExtractAssumption DEF TypeOK, Target

LEMMA InitIInv == Init => IInv
<1> SUFFICES ASSUME Init PROVE IInv
  OBVIOUS
<1>1. Len(list) \in Nat
  BY ListsAreSequences DEF Init
<1>2. TypeOK
  <2>1. next \in 1 .. Len(list) + 1
    BY <1>1 DEF Init
  <2>2. out \in [Name -> {Missing} \cup Seq([by : Place, piece : Nat \ {0}])]
    BY DEF Init
  <2>3. child \in [Place -> {"none", "cmd", "xsltproc", "refused", "failed", "succeeded"}]
    BY DEF Init
  <2>4. written \in [Place -> Nat] /\ warned \in [Place -> Nat]
    BY DEF Init
  <2> QED BY <2>1, <2>2, <2>3, <2>4 DEF Init, TypeOK
<1>3. Counted
  BY <1>1 DEF Init, Counted, Place
<1>4. WrittenSoFar /\ Alone /\ OwnText /\ Traced /\ ExtractedStays
  BY DEF Init, WrittenSoFar, Alone, OwnText, Traced, ExtractedStays
<1> QED BY <1>2, <1>3, <1>4 DEF IInv

-----------------------------------------------------------------------------
\* What is in the file of a process that has succeeded.
LEMMA ExtractedText ==
  ASSUME IInv, NEW k \in Place, child[k] = "succeeded"
  PROVE  \E j \in Place : /\ Opened(j) /\ Target(j) = Target(k)
                          /\ out[Target(k)] = TextOf(j, written[j])
                          /\ child[j] = "succeeded" => written[j] = Pieces[list[j]]
BY DEF IInv, ExtractedStays, Target

\* A step that leaves the list, the children and their files alone.
LEMMA FilesAlone ==
  ASSUME IInv, UNCHANGED <<list, child, written, out>>
  PROVE  (WrittenSoFar /\ Alone /\ OwnText /\ Traced /\ ExtractedStays)'
BY DEF IInv, WrittenSoFar, Alone, OwnText, Traced, ExtractedStays, Opened, Target, TextOf

\* Where the loop is, while it goes on.
LEMMA NextPlace ==
  ASSUME TypeOK
  PROVE  /\ Len(list) \in Nat /\ Len(list) <= MaxFiles
         /\ \A k \in Place : k \in Nat
         /\ next \in Nat
         /\ Looping => next \in Place /\ next + 1 \in 1 .. Len(list) + 1 /\ child[next] = "none"
<1>1. Len(list) \in Nat /\ Len(list) <= MaxFiles /\ MaxFiles \in Nat
  BY ListsAreSequences, XMLExtractAssumption DEF TypeOK
<1>2. next \in 1 .. Len(list) + 1
  BY DEF TypeOK
<1>3. Looping => next \in Place /\ next + 1 \in 1 .. Len(list) + 1
  BY <1>1, <1>2 DEF Looping, Place
<1>4. next \in Place => child[next] = "none"
  BY <1>1, <1>2 DEF TypeOK
<1> QED BY <1>1, <1>2, <1>3, <1>4 DEF Place

LEMMA ExecKeeps ==
  ASSUME IInv, Exec, UNCHANGED list
  PROVE  IInv'
<1>1. /\ Len(list) \in Nat /\ Len(list) <= MaxFiles
      /\ next \in Nat /\ next \in Place /\ next + 1 \in 1 .. Len(list) + 1
      /\ \A k \in Place : k \in Nat
  BY NextPlace DEF IInv, Exec
<1>2. child[next] = "none"
  BY NextPlace DEF IInv, Exec
<1>3. /\ child' = [child EXCEPT ![next] = "cmd"]
      /\ \A k \in Place : child'[k] = IF k = next THEN "cmd" ELSE child[k]
      /\ next' = next + 1
      /\ UNCHANGED <<list, reported, done, jvm, written, warned, out>>
  BY DEF Exec, IInv, TypeOK
<1>4. TypeOK'
  BY <1>1, <1>3 DEF IInv, TypeOK, Exec
<1>5. Counted'
  BY <1>1, <1>3 DEF IInv, TypeOK, Counted, Exec, Looping
<1>6. WrittenSoFar' /\ Alone' /\ OwnText' /\ ExtractedStays'
  BY <1>2, <1>3 DEF IInv, WrittenSoFar, Alone, OwnText, ExtractedStays, Opened, Target, TextOf
<1>7. Traced'
  BY <1>2, <1>3 DEF IInv, Traced, Opened, Target, TextOf
<1> QED BY <1>4, <1>5, <1>6, <1>7 DEF IInv

LEMMA JavaKeeps ==
  ASSUME IInv, UNCHANGED list,
         ExecFails \/ PrintDone \/ Return \/ Killed \/ \E k \in Place : Collected(k)
  PROVE  IInv'
<1>1. UNCHANGED <<list, child, written, out>>
  BY DEF ExecFails, PrintDone, Return, Killed, Gone, Collected, world
<1>2. WrittenSoFar' /\ Alone' /\ OwnText' /\ Traced' /\ ExtractedStays'
  BY <1>1, FilesAlone
<1>3. /\ Len(list) \in Nat /\ Len(list) <= MaxFiles /\ next \in Nat
      /\ \A k \in Place : k \in Nat
  BY NextPlace DEF IInv
<1>4. ASSUME ExecFails PROVE TypeOK' /\ Counted'
  <2>1. next \in Place /\ next + 1 \in 1 .. Len(list) + 1 /\ child[next] = "none"
    BY <1>4, NextPlace DEF ExecFails, IInv
  <2>2. /\ reported' = reported \cup {next} /\ next' = next + 1 /\ next <= Len(list)
        /\ UNCHANGED <<list, done, jvm, child, written, warned, piped, out>>
    BY <1>4 DEF ExecFails, Looping, world
  <2>3. reported' \in SUBSET Place /\ next' \in 1 .. Len(list') + 1
    BY <2>1, <2>2 DEF IInv, TypeOK
  <2>4. \A k \in Place : child'[k] # "none" => k < next'
    BY <1>3, <2>2 DEF IInv, TypeOK
  <2>5. TypeOK'
    BY <2>2, <2>3, <2>4 DEF IInv, TypeOK
  <2>6. Counted'
    BY <1>3, <2>1, <2>2 DEF IInv, TypeOK, Counted
  <2> QED BY <2>5, <2>6
<1>5. ASSUME PrintDone PROVE TypeOK' /\ Counted'
  BY <1>3, <1>5 DEF PrintDone, world, IInv, TypeOK, Counted
<1>6. ASSUME Gone PROVE TypeOK' /\ Counted'
  BY <1>6 DEF Gone, main, IInv, TypeOK, Counted
<1>7. ASSUME NEW k \in Place, Collected(k) PROVE TypeOK' /\ Counted'
  BY <1>7 DEF Collected, main, IInv, TypeOK, Counted
<1> QED BY <1>2, <1>4, <1>5, <1>6, <1>7 DEF IInv, Return, Killed

-----------------------------------------------------------------------------
\* Steps of a process leave the Java program alone.
JavaAlone == UNCHANGED <<list, main, jvm, piped>>

\* A process that is started stays so, and counts as before.
LEMMA CountKept ==
  ASSUME IInv, JavaAlone, NEW k \in Place, child[k] # "none",
         NEW state, state # "none", child' = [child EXCEPT ![k] = state]
  PROVE  Counted'
BY DEF IInv, JavaAlone, main, Counted, TypeOK

LEMMA RedirectKeeps ==
  ASSUME IInv, JavaAlone, NEW k \in Place, Redirect(k)
  PROVE  IInv'
<1>1. child[k] = "cmd" /\ k < next /\ written[k] = 0
  BY DEF Redirect, IInv, TypeOK, WrittenSoFar
<1>2. Target(k) \in Name
  BY <1>1, StartedPlaces DEF IInv
<1>3. /\ \A j \in Place : child'[j] = IF j = k THEN "xsltproc" ELSE child[j]
      /\ \A n \in Name : out'[n] = IF n = Target(k) THEN <<>> ELSE out[n]
      /\ UNCHANGED <<list, next, reported, done, jvm, piped, written, warned>>
      /\ \A j \in Place : Target(j)' = Target(j)
  BY <1>2 DEF Redirect, Becomes, IInv, TypeOK, JavaAlone, main, Target
<1>4. TypeOK'
  BY <1>1, <1>2, <1>3 DEF Redirect, Becomes, IInv, TypeOK
<1>5. Counted'
  BY <1>1, CountKept DEF Redirect, Becomes
<1>6. WrittenSoFar'
  BY <1>1, <1>3 DEF IInv, WrittenSoFar
<1>7. \A j \in Place : child[j] = "xsltproc" => Target(j) # Target(k)
  BY DEF Redirect, Open, Live
<1>8. Alone'
  BY <1>3, <1>7 DEF IInv, Alone
<1>9. ASSUME NEW j \in Place, child'[j] = "xsltproc"
      PROVE  out'[Target(j)] = TextOf(j, written[j])
  <2>1. CASE j = k
    BY <1>1, <1>2, <1>3, <2>1, NoPieces
  <2>2. CASE j # k
    <3>1. child[j] = "xsltproc" /\ Target(j) # Target(k)
      BY <1>3, <1>7, <1>9, <2>2
    <3>2. Target(j) \in Name
      BY <3>1, StartedPlaces DEF IInv, TypeOK
    <3> QED BY <1>3, <3>1, <3>2 DEF IInv, OwnText
  <2> QED BY <2>1, <2>2
<1>10. OwnText'
  BY <1>3, <1>9 DEF OwnText, TextOf
<1>11. ASSUME NEW n \in Name, out'[n] \notin {Missing, <<>>}
       PROVE  \E j \in Place : /\ Opened(j)' /\ Target(j) = n
                               /\ written[j] # 0 /\ out'[n] = TextOf(j, written[j])
  BY <1>1, <1>3, <1>11 DEF IInv, Traced, Opened
<1>12. Traced'
  BY <1>3, <1>11 DEF Traced, TextOf
<1>13. ASSUME NEW j \in Place, child'[j] = "succeeded"
       PROVE  \E i \in Place : /\ Opened(i)' /\ Target(i) = Target(j)
                               /\ out'[Target(j)] = TextOf(i, written[i])
                               /\ child'[i] = "succeeded" => written[i] = Pieces[list[i]]
  <2>1. j # k /\ child[j] = "succeeded"
    BY <1>3, <1>13
  <2>2. Target(j) \in Name
    BY <2>1, StartedPlaces DEF IInv, TypeOK
  <2>3. CASE Target(j) = Target(k)
    BY <1>1, <1>2, <1>3, <2>3, NoPieces DEF Opened
  <2>4. CASE Target(j) # Target(k)
    BY <1>3, <2>1, <2>2, <2>4, ExtractedText DEF Opened
  <2> QED BY <2>3, <2>4
<1>14. ExtractedStays'
  BY <1>3, <1>13 DEF ExtractedStays, Target, TextOf
<1> QED BY <1>4, <1>5, <1>6, <1>8, <1>10, <1>12, <1>14 DEF IInv

\* A process that is refused its file, or fails while it writes, leaves what is there.
LEMMA FailureKeeps ==
  ASSUME IInv, JavaAlone, NEW k \in Place, NEW state,
         \/ child[k] = "cmd" /\ state = "refused"
         \/ child[k] = "xsltproc" /\ state = "failed",
         Becomes(k, state), UNCHANGED <<written, warned, piped, out>>
  PROVE  IInv'
<1>1. /\ \A j \in Place : child'[j] = IF j = k THEN state ELSE child[j]
      /\ UNCHANGED <<list, next, reported, done, jvm, piped, written, warned, out>>
      /\ \A j \in Place : Target(j)' = Target(j)
  BY DEF Becomes, IInv, TypeOK, JavaAlone, main, Target
<1>2. TypeOK'
  BY <1>1 DEF Becomes, IInv, TypeOK
<1>3. Counted'
  BY CountKept DEF Becomes
<1>4. WrittenSoFar' /\ Alone' /\ OwnText'
  BY <1>1 DEF IInv, WrittenSoFar, Alone, OwnText, TextOf
<1>5. Traced'
  BY <1>1 DEF IInv, Traced, Opened, TextOf
<1>6. ExtractedStays'
  BY <1>1 DEF IInv, ExtractedStays, Opened, TextOf
<1> QED BY <1>2, <1>3, <1>4, <1>5, <1>6 DEF IInv

LEMMA WritePieceKeeps ==
  ASSUME IInv, JavaAlone, NEW k \in Place, WritePiece(k)
  PROVE  IInv'
<1> DEFINE e == [by |-> k, piece |-> written[k] + 1]
<1>1. child[k] = "xsltproc" /\ k < next /\ written[k] \in Nat
  BY DEF WritePiece, IInv, TypeOK
<1>2. Target(k) \in Name
  BY <1>1, StartedPlaces DEF IInv
<1>3. written' = [written EXCEPT ![k] = written[k] + 1] /\ written'[k] = written[k] + 1
  BY DEF WritePiece, IInv, TypeOK
<1>4. Append(out[Target(k)], e) = TextOf(k, written[k] + 1)
  BY <1>1, OnePieceMore DEF IInv, OwnText
<1>5. out' = [out EXCEPT ![Target(k)] = TextOf(k, written[k] + 1)]
  BY <1>3, <1>4 DEF WritePiece
<1>6. /\ \A j \in Place : written'[j] = IF j = k THEN written[k] + 1 ELSE written[j]
      /\ \A n \in Name : out'[n] = IF n = Target(k) THEN TextOf(k, written[k] + 1) ELSE out[n]
      /\ UNCHANGED <<list, next, reported, done, jvm, piped, child, warned>>
      /\ \A j \in Place : Target(j)' = Target(j)
  BY <1>2, <1>3, <1>5 DEF WritePiece, IInv, TypeOK, JavaAlone, main, Target
<1>7. TypeOK'
  <2>1. TextOf(k, written[k] + 1) \in Seq(Piece)
    BY <1>1, TextIsSequence
  <2>2. out' \in [Name -> {Missing} \cup Seq([by : Place, piece : Nat \ {0}])]
    BY <1>5, <2>1 DEF IInv, TypeOK, Piece
  <2>3. written' \in [Place -> Nat]
    BY <1>1, <1>3 DEF IInv, TypeOK
  <2> QED BY <1>6, <2>2, <2>3 DEF IInv, TypeOK
<1>8. Counted'
  BY <1>6 DEF IInv, Counted
<1>9. WrittenSoFar' /\ Alone'
  BY <1>1, <1>6 DEF IInv, WrittenSoFar, Alone
<1>10. ASSUME NEW j \in Place, child[j] = "xsltproc"
       PROVE  out'[Target(j)] = TextOf(j, written'[j])
  <2>1. CASE j = k
    BY <1>2, <1>6, <2>1
  <2>2. CASE j # k
    <3>1. Target(j) # Target(k)
      BY <1>1, <1>10, <2>2 DEF IInv, Alone
    <3>2. Target(j) \in Name
      BY <1>10, StartedPlaces DEF IInv, TypeOK
    <3> QED BY <1>6, <1>10, <2>2, <3>1, <3>2 DEF IInv, OwnText
  <2> QED BY <2>1, <2>2
<1>11. OwnText'
  BY <1>6, <1>10 DEF OwnText, TextOf
<1>12. ASSUME NEW n \in Name, out'[n] \notin {Missing, <<>>}
       PROVE  \E j \in Place : /\ Opened(j) /\ Target(j) = n
                               /\ written'[j] # 0 /\ out'[n] = TextOf(j, written'[j])
  <2>1. CASE n = Target(k)
    BY <1>1, <1>6, <2>1 DEF Opened
  <2>2. CASE n # Target(k)
    <3>1. PICK j \in Place : /\ Opened(j) /\ Target(j) = n
                             /\ written[j] # 0 /\ out[n] = TextOf(j, written[j])
      BY <1>6, <1>12, <2>2 DEF IInv, Traced
    <3>2. j # k
      BY <2>2, <3>1
    <3> QED BY <1>6, <2>2, <3>1, <3>2
  <2> QED BY <2>1, <2>2
<1>13. Traced'
  BY <1>6, <1>12 DEF Traced, Opened, TextOf
<1>14. ASSUME NEW j \in Place, child[j] = "succeeded"
       PROVE  \E i \in Place : /\ Opened(i) /\ Target(i) = Target(j)
                               /\ out'[Target(j)] = TextOf(i, written'[i])
                               /\ child[i] = "succeeded" => written'[i] = Pieces[list[i]]
  <2>1. Target(j) \in Name
    BY <1>14, StartedPlaces DEF IInv, TypeOK
  <2>2. CASE Target(j) = Target(k)
    BY <1>1, <1>2, <1>6, <2>2 DEF Opened
  <2>3. CASE Target(j) # Target(k)
    BY <1>6, <1>14, <2>1, <2>3, ExtractedText
  <2> QED BY <2>2, <2>3
<1>15. ExtractedStays'
  BY <1>6, <1>14 DEF ExtractedStays, Opened, Target, TextOf
<1> QED BY <1>7, <1>8, <1>9, <1>11, <1>13, <1>15 DEF IInv

LEMMA WarnKeeps ==
  ASSUME IInv, JavaAlone, NEW k \in Place, Warn(k)
  PROVE  IInv'
<1>1. UNCHANGED <<list, next, reported, done, jvm, child, written, piped, out>>
  BY DEF Warn, JavaAlone, main
<1>2. WrittenSoFar' /\ Alone' /\ OwnText' /\ Traced' /\ ExtractedStays'
  BY <1>1, FilesAlone
<1>3. TypeOK'
  <2>1. warned' \in [Place -> Nat]
    BY DEF Warn, IInv, TypeOK
  <2> QED BY <1>1, <2>1 DEF IInv, TypeOK
<1>4. Counted'
  BY <1>1 DEF IInv, Counted
<1> QED BY <1>2, <1>3, <1>4 DEF IInv

LEMMA ExitKeeps ==
  ASSUME IInv, JavaAlone, NEW k \in Place, Exit(k)
  PROVE  IInv'
<1>1. child[k] = "xsltproc" /\ written[k] = Pieces[list[k]]
  BY DEF Exit
<1>2. /\ \A j \in Place : child'[j] = IF j = k THEN "succeeded" ELSE child[j]
      /\ UNCHANGED <<list, next, reported, done, jvm, piped, written, warned, out>>
      /\ \A j \in Place : Target(j)' = Target(j)
  BY DEF Exit, Becomes, IInv, TypeOK, JavaAlone, main, Target
<1>3. TypeOK'
  BY <1>1, <1>2 DEF Exit, Becomes, IInv, TypeOK
<1>4. Counted'
  BY <1>1, CountKept DEF Exit, Becomes
<1>5. WrittenSoFar' /\ Alone' /\ OwnText'
  BY <1>1, <1>2 DEF IInv, WrittenSoFar, Alone, OwnText, TextOf
<1>6. Traced'
  BY <1>1, <1>2 DEF IInv, Traced, Opened, TextOf
<1>7. out[Target(k)] = TextOf(k, written[k])
  BY <1>1 DEF IInv, OwnText
<1>8. ASSUME NEW j \in Place, child'[j] = "succeeded"
      PROVE  \E i \in Place : /\ Opened(i)' /\ Target(i) = Target(j)
                              /\ out[Target(j)] = TextOf(i, written[i])
                              /\ child'[i] = "succeeded" => written[i] = Pieces[list[i]]
  <2>1. CASE j = k
    BY <1>1, <1>2, <1>7, <2>1 DEF Opened
  <2>2. CASE j # k
    BY <1>1, <1>2, <1>8, <2>2, ExtractedText DEF Opened
  <2> QED BY <2>1, <2>2
<1>9. ExtractedStays'
  BY <1>2, <1>8 DEF ExtractedStays, Target, TextOf
<1> QED BY <1>3, <1>4, <1>5, <1>6, <1>9 DEF IInv

\* Every step keeps the invariant.
LEMMA StepIInv ==
  ASSUME IInv, [Next]_vars
  PROVE  IInv'
<1>1. CASE Main
  BY <1>1, ExecKeeps, JavaKeeps DEF Main
<1>2. CASE Killed /\ UNCHANGED list
  BY <1>2, JavaKeeps
<1>3. ASSUME NEW k \in Place, Collected(k) /\ UNCHANGED list PROVE IInv'
  BY <1>3, JavaKeeps
<1>4. ASSUME NEW k \in Place, Child(k) PROVE IInv'
  <2>1. JavaAlone
    BY <1>4 DEF Child, Progress, JavaAlone, Redirect, RedirectFails, WritePiece, Warn, Exit, Fail
  <2> QED BY <1>4, <2>1, RedirectKeeps, FailureKeeps, WritePieceKeeps, WarnKeeps, ExitKeeps
          DEF Child, Progress, RedirectFails, Fail
<1>5. CASE UNCHANGED vars
  <2>1. UNCHANGED <<list, child, written, out>> /\ UNCHANGED <<next, reported, done, jvm, warned, piped>>
    BY <1>5 DEF vars, main, world
  <2>2. TypeOK' /\ Counted'
    BY <2>1 DEF IInv, TypeOK, Counted
  <2> QED BY <2>1, <2>2, FilesAlone DEF IInv
<1> QED BY <1>1, <1>2, <1>3, <1>4, <1>5 DEF Next, Finished

LEMMA Inductive == Spec => []IInv
BY InitIInv, StepIInv, PTL DEF Spec

-----------------------------------------------------------------------------
(* Theorems.                                                               *)

(* Every variable of XMLExtract keeps its type, and no process is started  *)
(* for a place the loop of main has not come to.                           *)
THEOREM TypeCorrect == Spec => []TypeOK
<1>1. IInv => TypeOK
  BY DEF IInv
<1> QED BY <1>1, Inductive, PTL

(* Whatever fails, each file the loop of main is past has its process or   *)
(* its error line, and not both; after "done" that is each file.           *)
THEOREM StartedOrReported == Spec => []EachStartedOrReported
<1>1. ASSUME IInv PROVE EachStartedOrReported
  <2>1. ASSUME NEW k \in DOMAIN list, k < next \/ done
        PROVE  child[k] # "none" <=> k \notin reported
    <3>1. /\ k \in 1 .. Len(list) /\ Len(list) \in Nat /\ Len(list) <= MaxFiles
          /\ next \in Nat
      BY <1>1, <2>1, ListsAreSequences DEF IInv, TypeOK
    <3>2. k \in Place
      BY <3>1, XMLExtractAssumption DEF Place
    <3>3. k < next
      BY <1>1, <2>1, <3>1 DEF IInv, Counted
    <3> QED BY <1>1, <3>2, <3>3 DEF IInv, Counted
  <2> QED BY <2>1 DEF EachStartedOrReported
<1> QED BY <1>1, Inductive, PTL

(* However the processes run side by side, an output file holds the text   *)
(* of one of them, from its first piece on, whole if it has succeeded.     *)
THEOREM NeverTwoWriters == Spec => []OneWriter
<1>1. ASSUME IInv PROVE OneWriter
  <2>1. ASSUME NEW n \in Name, out[n] \notin {Missing, <<>>}
        PROVE  LET k == out[n][1].by IN
               /\ Target(k) = n
               /\ out[n] = TextOf(k, written[k])
               /\ child[k] = "succeeded" => written[k] = Pieces[list[k]]
    <3>1. PICK k \in Place : Target(k) = n /\ written[k] # 0 /\ out[n] = TextOf(k, written[k])
      BY <1>1, <2>1 DEF IInv, Traced
    <3>2. written[k] \in Nat /\ 1 \in 1 .. written[k]
      BY <1>1, <3>1 DEF IInv, TypeOK
    <3>3. TextOf(k, written[k])[1] = [by |-> k, piece |-> 1]
      BY <3>2, TextIsSequence
    <3>4. out[n][1] = [by |-> k, piece |-> 1]
      BY <3>1, <3>3
    <3>5. out[n][1].by = k
      BY <3>4
    <3> QED BY <1>1, <3>1, <3>5 DEF IInv, WrittenSoFar
  <2> QED BY <2>1 DEF OneWriter
<1> QED BY <1>1, Inductive, PTL

(* The text of a process that has succeeded stays, whatever the other      *)
(* processes do and whether the Java program has ended or been killed, or  *)
(* it gives way to what one process for the same name has written since it *)
(* opened the file.                                                        *)
THEOREM TextsStay == Spec => []ExtractedStays
<1>1. IInv => ExtractedStays
  BY DEF IInv
<1> QED BY <1>1, Inductive, PTL
=============================================================================
