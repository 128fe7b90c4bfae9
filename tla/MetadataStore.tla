--------------------------- MODULE MetadataStore ---------------------------
(***************************************************************************)
(* What a reader of XmlDocParser's console and outputs relies on: files    *)
(* are done in the order of the list; while one is being saved only the    *)
(* outputs of its own name change; it is committed when they are its       *)
(* metadata, all of them and whole.  An abort, or a new start of the       *)
(* program, rolls nothing back.                                            *)
(***************************************************************************)
EXTENDS Naturals, Sequences

CONSTANTS
  Name,     \* names of output files
  OutName   \* OutName[f]: the name file f is saved under

VARIABLES
  wanted,   \* wanted[f]: the metadata right for file f; none, if empty
  list,     \* the files of this run
  busy,     \* the name that is being saved, if any
  store,    \* store[n]: what is saved under name n
  console   \* what this run has said of the first files of the list

vars == <<wanted, list, busy, store, console>>

Pending == Len(console) < Len(list)
Current == list[Len(console) + 1]
OthersKept == \A n \in Name \ busy : store'[n] = store[n]

Init == busy = {} /\ console = <<>>

\* A file that has no metadata is never begun.
Begin ==
  /\ Pending /\ busy = {}
  /\ wanted[Current] # {}
  /\ busy' = {OutName[Current]}
  /\ UNCHANGED <<list, store, console>>

Save ==
  /\ Pending /\ busy # {}
  /\ OthersKept
  /\ UNCHANGED <<list, busy, console>>

Commit ==
  /\ Pending /\ busy = {OutName[Current]}
  /\ store[OutName[Current]] \in wanted[Current]
  /\ console' = Append(console, "parsed")
  /\ busy' = {}
  /\ UNCHANGED <<list, store>>

Abort ==
  /\ Pending
  /\ console' = Append(console, "error")
  /\ busy' = {}
  /\ OthersKept
  /\ UNCHANGED list

Restart ==
  /\ console' = <<>>
  /\ busy' = {}
  /\ OthersKept

Next == (Begin \/ Save \/ Commit \/ Abort \/ Restart) /\ UNCHANGED wanted

Spec == Init /\ [][Next]_vars
=============================================================================
