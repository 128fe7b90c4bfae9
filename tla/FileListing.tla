---------------------------- MODULE FileListing ----------------------------
(***************************************************************************)
(* What a caller of FileUtil.getFilesUnderPath relies on: files are listed *)
(* one by one, nothing outside the corpus is listed, and the call finishes *)
(* only when the list is complete or an error has been printed.            *)
(***************************************************************************)
CONSTANT Path

VARIABLES corpus, listed, complained, finished

vars == <<corpus, listed, complained, finished>>

Init ==
  /\ corpus \in SUBSET Path
  /\ listed = {}
  /\ complained = FALSE
  /\ finished = FALSE

List(p) ==
  /\ ~finished
  /\ p \in corpus
  /\ listed' = listed \cup {p}
  /\ UNCHANGED <<corpus, complained>>

Complain ==
  /\ ~finished
  /\ complained' = TRUE
  /\ UNCHANGED <<corpus, listed>>

Finish ==
  /\ complained' \/ listed' = corpus
  /\ finished' = TRUE

\* The last file, or the last error, may come with the return itself.
Next ==
  /\ (\E p \in Path : List(p)) \/ Complain \/ UNCHANGED <<corpus, listed, complained>>
  /\ Finish \/ UNCHANGED finished

Spec == Init /\ [][Next]_vars
=============================================================================
