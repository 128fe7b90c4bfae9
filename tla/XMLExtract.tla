----------------------------- MODULE XMLExtract -----------------------------
(***************************************************************************)
(* XMLExtract.main and getText: for each listed file a process             *)
(*     cmd.exe /c xsltproc justTheText.xsl file >directory\name            *)
(* is started and forgotten.  Nobody waits for it, looks at its exit code  *)
(* or reads its standard error, which is a pipe of bounded capacity; its   *)
(* standard output goes to a file that cmd.exe opens.                      *)
(*                                                                         *)
(* The processes, the pipe and the opening of the file are outside src/;   *)
(* they are modelled as far as getText relies on them.  A process is known *)
(* by the place of its file in the list.                                   *)
(***************************************************************************)
EXTENDS Naturals, Sequences, FiniteSets

CONSTANTS
  File,      \* the files the walk may list
  Name,      \* names of output files
  OutName,   \* OutName[f]: the name of f with "xml" replaced by "txt"
  Pieces,    \* Pieces[f]: the pieces the text of f is written in
  Missing,   \* an output file that does not exist
  Warnings,  \* Warnings[f]: the lines xsltproc prints on standard error for f
  PipeSize,  \* the lines that fit into an unread pipe
  MaxLive,   \* the processes the operating system runs at once
  MaxFiles   \* bound: length of the list

ASSUME XMLExtractAssumption ==
  /\ OutName \in [File -> Name]
  /\ Pieces \in [File -> Nat] /\ Warnings \in [File -> Nat]
  /\ PipeSize \in Nat \ {0} /\ MaxLive \in Nat \ {0} /\ MaxFiles \in Nat

VARIABLES
  list,      \* what getFilesUnderPath has added to allFile
  next,      \* the place in the list that the loop has come to
  reported,  \* the places for which "extraction failed" was printed
  done,      \* "extraction done" was printed
  jvm,       \* the Java program: running, or gone after its end or a kill
  child,     \* child[k]: what has become of the k-th process ("refused": it
             \* could not open its output file; "failed": it failed after that)
  written,   \* written[k]: the pieces it has written
  warned,    \* warned[k]: the lines it has printed on standard error
  piped,     \* the places whose pipe the Java program holds, and never reads
  out        \* out[n]: the pieces in output file n, each with its writer

main == <<next, reported, done>>
world == <<child, written, warned, piped, out>>
vars == <<list, main, jvm, world>>

Place == 1 .. MaxFiles
Lists == UNION {[1 .. n -> File] : n \in 0 .. MaxFiles}

\* Mutant: the file name is computed once, before the loop.
TargetOfFirst(k) == OutName[list[1]]

Target(k) == OutName[list[k]]
Live == {k \in Place : child[k] \in {"cmd", "xsltproc"}}

Init ==
  /\ list \in Lists
  /\ next = 1 /\ reported = {} /\ done = FALSE
  /\ jvm = "running"
  /\ child = [k \in Place |-> "none"]
  /\ written = [k \in Place |-> 0]
  /\ warned = [k \in Place |-> 0]
  /\ piped = {}
  /\ out = [n \in Name |-> Missing]

-----------------------------------------------------------------------------
(* The Java program.                                                       *)

\* Mutant: the loop waits for each process (waitFor) and does not read its pipe.
LoopingAfterWait ==
  jvm = "running" /\ next <= Len(list) /\ (next > 1 => next - 1 \notin Live)

Looping == jvm = "running" /\ next <= Len(list)

\* Mutant: the loop does not go on to the next file.
ExecAgain ==
  /\ Looping
  /\ Cardinality(Live) < MaxLive
  /\ child' = [child EXCEPT ![next] = "cmd"]
  /\ piped' = piped \cup {next}
  /\ UNCHANGED <<next, reported, done, jvm, written, warned, out>>

\* Runtime.exec returns a Process object that getText drops.
Exec ==
  /\ Looping
  /\ Cardinality(Live) < MaxLive
  /\ child' = [child EXCEPT ![next] = "cmd"]
  /\ piped' = piped \cup {next}
  /\ next' = next + 1
  /\ UNCHANGED <<reported, done, jvm, written, warned, out>>

\* Mutant: the exception is dropped without a message.
ExecFailsSilently ==
  /\ Looping
  /\ next' = next + 1
  /\ UNCHANGED <<reported, done, jvm, world>>

\* Runtime.exec throws an IOException: no such program, or no resources.
ExecFails ==
  /\ Looping
  /\ reported' = reported \cup {next}
  /\ next' = next + 1
  /\ UNCHANGED <<done, jvm, world>>

PrintDone ==
  /\ jvm = "running" /\ next > Len(list) /\ ~done
  /\ done' = TRUE
  /\ UNCHANGED <<next, reported, jvm, world>>

\* The program ends, and with it the reading end of every pipe.
Gone ==
  /\ jvm' = "gone"
  /\ piped' = {}
  /\ UNCHANGED <<main, child, written, warned, out>>

Return == jvm = "running" /\ done /\ Gone
Killed == jvm = "running" /\ ~done /\ Gone

Main == (Exec \/ ExecFails \/ PrintDone \/ Return) /\ UNCHANGED list

\* The dropped Process object may be collected, which closes its streams.
Collected(k) ==
  /\ k \in piped
  /\ piped' = piped \ {k}
  /\ UNCHANGED <<main, jvm, child, written, warned, out>>

-----------------------------------------------------------------------------
(* The processes.                                                          *)

Becomes(k, state) == child' = [child EXCEPT ![k] = state]

\* cmd.exe opens its output file for itself alone, and empties it.
Open(k) == \E j \in Live : child[j] = "xsltproc" /\ Target(j) = Target(k)

\* Mutant: the command appends (">>").
RedirectAppends(k) ==
  /\ child[k] = "cmd"
  /\ ~Open(k)
  /\ out' = [out EXCEPT ![Target(k)] = IF @ = Missing THEN <<>> ELSE @]
  /\ Becomes(k, "xsltproc")
  /\ UNCHANGED <<written, warned, piped>>

Redirect(k) ==
  /\ child[k] = "cmd"
  /\ ~Open(k)
  /\ out' = [out EXCEPT ![Target(k)] = <<>>]
  /\ Becomes(k, "xsltproc")
  /\ UNCHANGED <<written, warned, piped>>

RedirectFails(k) ==
  /\ child[k] = "cmd"
  /\ Becomes(k, "refused")
  /\ UNCHANGED <<written, warned, piped, out>>

WritePiece(k) ==
  /\ child[k] = "xsltproc"
  /\ written[k] < Pieces[list[k]]
  /\ written' = [written EXCEPT ![k] = @ + 1]
  /\ out' = [out EXCEPT ![Target(k)] = Append(@, [by |-> k, piece |-> written'[k]])]
  /\ UNCHANGED <<child, warned, piped>>

\* A full pipe blocks; what is written to one without a reader is lost.
Warn(k) ==
  /\ child[k] = "xsltproc"
  /\ warned[k] < Warnings[list[k]]
  /\ k \in piped => warned[k] < PipeSize
  /\ warned' = [warned EXCEPT ![k] = @ + 1]
  /\ UNCHANGED <<child, written, piped, out>>

Exit(k) ==
  /\ child[k] = "xsltproc"
  /\ written[k] = Pieces[list[k]] /\ warned[k] = Warnings[list[k]]
  /\ Becomes(k, "succeeded")
  /\ UNCHANGED <<written, warned, piped, out>>

\* No xsltproc at the relative path, an unreadable document, a full disk.
Fail(k) ==
  /\ child[k] = "xsltproc"
  /\ Becomes(k, "failed")
  /\ UNCHANGED <<written, warned, piped, out>>

Progress(k) ==
  /\ Redirect(k) \/ RedirectFails(k) \/ WritePiece(k) \/ Warn(k) \/ Exit(k)
  /\ UNCHANGED <<list, main, jvm>>

Child(k) == Progress(k) \/ (Fail(k) /\ UNCHANGED <<list, main, jvm>>)

Finished == jvm = "gone" /\ Live = {} /\ UNCHANGED vars

Next ==
  \/ Main
  \/ Killed /\ UNCHANGED list
  \/ \E k \in Place : Collected(k) /\ UNCHANGED list
  \/ \E k \in Place : Child(k)
  \/ Finished

Spec == Init /\ [][Next]_vars

\* The main thread and the processes are scheduled; none of them has to fail,
\* and no Process object has to be collected.
FairSpec == Spec /\ WF_vars(Main) /\ \A k \in Place : WF_vars(Progress(k))

-----------------------------------------------------------------------------
(* Properties.                                                             *)

\* Types; no process for a place the list does not have.
TypeOK ==
  /\ list \in Lists
  /\ next \in 1 .. Len(list) + 1
  /\ reported \in SUBSET Place
  /\ done \in BOOLEAN
  /\ jvm \in {"running", "gone"}
  /\ child \in [Place -> {"none", "cmd", "xsltproc", "refused", "failed", "succeeded"}]
  /\ written \in [Place -> Nat]
  /\ warned \in [Place -> Nat]
  /\ piped \in SUBSET Place
  /\ out \in [Name -> {Missing} \cup Seq([by : Place, piece : Nat \ {0}])]
  /\ \A k \in Place : child[k] # "none" => k < next

(* Processes run side by side, two of them perhaps for files of one name;  *)
(* an output file holds what one process wrote, from its first piece on,   *)
(* and all of it if that process has succeeded.                            *)
TextOf(k, m) == [i \in 1 .. m |-> [by |-> k, piece |-> i]]
OneWriter ==
  \A n \in Name : out[n] \notin {Missing, <<>>} =>
    LET k == out[n][1].by IN
    /\ Target(k) = n
    /\ out[n] = TextOf(k, written[k])
    /\ child[k] = "succeeded" => written[k] = Pieces[list[k]]

(* Once a process has succeeded, its text stays, or gives way to what one  *)
(* process for the same name has written since it opened the file, whole   *)
(* if that one has succeeded.  Nothing else takes it away: no process for  *)
(* another name, none that was refused the file, no end or kill of the     *)
(* Java program.  So the text for a name that no other file has is whole.  *)
Opened(k) == child[k] \in {"xsltproc", "failed", "succeeded"}
ExtractedStays ==
  \A k \in Place : child[k] = "succeeded" =>
    \E j \in Place :
      /\ Opened(j) /\ OutName[list[j]] = OutName[list[k]]
      /\ out[OutName[list[k]]] = TextOf(j, written[j])
      /\ child[j] = "succeeded" => written[j] = Pieces[list[j]]

(* "Done" is printed when each file has its process or its error line,     *)
(* never both: one failing exec costs one file (XMLExtract.java:48-50).    *)
EachStartedOrReported ==
  \A k \in DOMAIN list :
    (k < next \/ done) => (child[k] # "none" <=> k \notin reported)

(* Nobody reads the standard error of the processes, and still none of     *)
(* them hangs on a full pipe for ever: the program waits for no process,   *)
(* so it ends, and its end lets them all go on.                            *)
AllEnd == <>[](jvm = "gone" /\ Live = {})

(* "For each file, extract ... and write to the given directory"           *)
(* (XMLExtract.java:26): when all is over, a file without its text has    *)
(* been reported.                                                          *)
EachFileExtracted ==
  (done /\ Live = {}) =>
    \A k \in DOMAIN list \ reported : \E j \in DOMAIN list :
      list[j] = list[k] /\ out[Target(k)] = TextOf(j, Pieces[list[k]])

=============================================================================
