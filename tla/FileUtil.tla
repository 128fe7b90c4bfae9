------------------------------ MODULE FileUtil ------------------------------
(***************************************************************************)
(* FileUtil.getFilesUnderPath: the recursive directory walk that produces  *)
(* the list of corpus files both scripts work from.  Every Java call is a  *)
(* frame of its own, because every frame has its own try/catch; the file   *)
(* system may be changed by somebody else between any two of its reads.    *)
(*                                                                         *)
(* A path name is a member of Path.  A link is a path whose canonical path *)
(* is another one; its own disk entry is never a directory.                *)
(***************************************************************************)
EXTENDS Naturals, Sequences, FiniteSets

CONSTANTS
  Path,        \* the path names that may exist below the corpus directory
  Root,        \* the path given to the outermost call
  Entries,     \* Entries[d]: the paths that can be entries of directory d
  Canonical,   \* Canonical[p]: the answer of getCanonicalPath for p
  StackLimit,  \* the calls that fit on the Java stack
  MaxTouched   \* bound: paths that others may change during one walk

ASSUME FileUtilAssumption ==
  /\ Root \in Path
  /\ Entries \in [Path -> SUBSET Path]
  /\ Canonical \in [Path -> Path]
  /\ \A p \in Path : Canonical[Canonical[p]] = Canonical[p]
  /\ Canonical[Root] = Root
  /\ StackLimit \in Nat \ {0}
  /\ MaxTouched \in Nat

VARIABLES
  disk,        \* what each path is now: a directory, another entry, nothing
  touched,     \* the paths somebody has changed since the walk began
  stack,       \* the active calls, innermost first
  fileList,    \* the list every call appends to
  opened,      \* the paths some call was made with
  reported,    \* the paths whose call caught an exception and printed it
  overflowed   \* a StackOverflowError, which "catch (Exception)" lets through

vars == <<disk, touched, stack, fileList, opened, reported, overflowed>>

Kind == {"dir", "file", "none"}
Frame == [path : Path, at : {"entry", "list", "loop"}, rest : SUBSET Path]
Call(p) == [path |-> p, at |-> "entry", rest |-> {}]
Top == Head(stack)

Becomes(f) == <<f>> \o Tail(stack)

IsDirectory(p) == disk[p] # "none" /\ disk[Canonical[p]] = "dir"
Listing(d) == {p \in Entries[d] : disk[p] # "none"}

\* Disks that can exist: entries lie in directories, links are no directories.
Plausible(d) ==
  /\ \A p \in Path : \A q \in Entries[p] : d[q] # "none" => d[p] = "dir"
  /\ \A p \in Path : Canonical[p] # p => d[p] # "dir"

Init ==
  /\ disk \in {d \in [Path -> Kind] : Plausible(d)}
  /\ touched = {}
  /\ stack = <<Call(Root)>>
  /\ fileList = <<>>
  /\ opened = {Root}
  /\ reported = {}
  /\ overflowed = FALSE

-----------------------------------------------------------------------------
(* The walk: the step of the innermost call.                               *)

At(label) == stack # <<>> /\ Top.at = label

\* The argument is no directory (any more): it is added as it is.
EnterFile ==
  /\ At("entry")
  /\ ~IsDirectory(Top.path)
  /\ fileList' = Append(fileList, Top.path)
  /\ stack' = Tail(stack)
  /\ UNCHANGED <<opened, reported, overflowed>>

EnterDirectory ==
  /\ At("entry")
  /\ IsDirectory(Top.path)
  /\ stack' = Becomes([Top EXCEPT !.at = "list"])
  /\ UNCHANGED <<fileList, opened, reported, overflowed>>

ListFiles ==
  /\ At("list")
  /\ IsDirectory(Top.path)
  /\ stack' = Becomes([Top EXCEPT !.at = "loop", !.rest = Listing(Top.path)])
  /\ UNCHANGED <<fileList, opened, reported, overflowed>>

\* Mutant: the handler is around the outermost call.
CaughtOutside ==
  /\ reported' = reported \cup {Top.path}
  /\ stack' = <<>>
  /\ UNCHANGED <<fileList, opened, overflowed>>

\* Mutant: the handler is empty.
CaughtSilently ==
  /\ stack' = Tail(stack)
  /\ UNCHANGED <<fileList, opened, reported, overflowed>>

\* An exception ends this call alone; what it had not yet looked at is dropped.
Caught ==
  /\ reported' = reported \cup {Top.path}
  /\ stack' = Tail(stack)
  /\ UNCHANGED <<fileList, opened, overflowed>>

\* Mutant: the directory is listed until an answer comes.
ListFilesRetries == At("list") /\ UNCHANGED <<stack, fileList, opened, reported, overflowed>>

\* listFiles answers null (unreadable, or gone by now) and the loop dereferences it.
ListFilesIsNull == At("list") /\ Caught

\* The child c that the loop takes next; listFiles promises no order.
Taking(c) == At("loop") /\ c \in Top.rest

\* Mutant: a child is added without asking what it is.
AddAnyChild(c) ==
  /\ Taking(c)
  /\ fileList' = Append(fileList, c)
  /\ stack' = Becomes([Top EXCEPT !.rest = @ \ {c}])
  /\ UNCHANGED <<opened, reported, overflowed>>

\* Mutant: the recursive call is made for a file, too, which adds it again.
AddChildAndCall(c) ==
  /\ Taking(c)
  /\ ~IsDirectory(c)
  /\ fileList' = Append(fileList, c)
  /\ stack' = <<Call(Canonical[c])>> \o Becomes([Top EXCEPT !.rest = @ \ {c}])
  /\ opened' = opened \cup {Canonical[c]}
  /\ UNCHANGED <<reported, overflowed>>

AddChild(c) ==
  /\ Taking(c)
  /\ ~IsDirectory(c)
  /\ fileList' = Append(fileList, c)
  /\ stack' = Becomes([Top EXCEPT !.rest = @ \ {c}])
  /\ UNCHANGED <<opened, reported, overflowed>>

\* Mutant: one call more than the stack holds.
DescendTooDeep(c) ==
  /\ Taking(c)
  /\ IsDirectory(c)
  /\ Len(stack) <= StackLimit
  /\ stack' = <<Call(Canonical[c])>> \o Becomes([Top EXCEPT !.rest = @ \ {c}])
  /\ opened' = opened \cup {Canonical[c]}
  /\ UNCHANGED <<fileList, reported, overflowed>>

Descend(c) ==
  /\ Taking(c)
  /\ IsDirectory(c)
  /\ Len(stack) < StackLimit
  /\ stack' = <<Call(Canonical[c])>> \o Becomes([Top EXCEPT !.rest = @ \ {c}])
  /\ opened' = opened \cup {Canonical[c]}
  /\ UNCHANGED <<fileList, reported, overflowed>>

CanonicalPathFails(c) == Taking(c) /\ IsDirectory(c) /\ Caught

Overflow(c) ==
  /\ Taking(c)
  /\ IsDirectory(c)
  /\ Len(stack) >= StackLimit
  /\ overflowed' = TRUE
  /\ stack' = <<>>
  /\ UNCHANGED <<fileList, opened, reported>>

EndLoop ==
  /\ At("loop")
  /\ Top.rest = {}
  /\ stack' = Tail(stack)
  /\ UNCHANGED <<fileList, opened, reported, overflowed>>

Walk ==
  /\ \/ EnterFile \/ EnterDirectory
     \/ ListFiles \/ ListFilesIsNull
     \/ EndLoop
     \/ \E c \in Path : AddChild(c) \/ Descend(c) \/ CanonicalPathFails(c) \/ Overflow(c)
  /\ UNCHANGED <<disk, touched>>

-----------------------------------------------------------------------------
\* Somebody creates, deletes or replaces p while the walk is under way.
Change(p) ==
  /\ stack # <<>>
  /\ Cardinality(touched \cup {p}) <= MaxTouched
  /\ \E k \in Kind \ {disk[p]} :
       /\ disk' = [disk EXCEPT ![p] = k]
       /\ Plausible(disk')
  /\ touched' = touched \cup {p}
  /\ UNCHANGED <<stack, fileList, opened, reported, overflowed>>

Finished == stack = <<>> /\ UNCHANGED vars

Next == Walk \/ (\E p \in Path : Change(p)) \/ Finished

Spec == Init /\ [][Next]_vars
FairSpec == Spec /\ WF_vars(Walk)

-----------------------------------------------------------------------------
(* Properties.                                                             *)

Returned == stack = <<>> /\ ~overflowed
Listed == {fileList[i] : i \in DOMAIN fileList}

\* Types; the depth of the recursion never passes the stack.
TypeOK ==
  /\ disk \in [Path -> Kind]
  /\ touched \in SUBSET Path
  /\ stack \in Seq(Frame) /\ Len(stack) <= StackLimit
  /\ fileList \in Seq(Path)
  /\ opened \in SUBSET Path
  /\ reported \in SUBSET Path
  /\ overflowed \in BOOLEAN

\* Nobody touched p, or what it links to, since the walk began.
Untouched(p) == {p, Canonical[p]} \cap touched = {}

\* The least set with the root that is closed under the untouched entries of the
\* untouched directories outside Bad; a directory is entered by its canonical path.
Target(c) == IF IsDirectory(c) THEN Canonical[c] ELSE c
Steady(d, c) == Untouched(d) /\ IsDirectory(d) /\ Untouched(c) /\ c \in Listing(d)
Closed(S, Bad) == \A d \in S \ Bad : \A c \in Entries[d] : Steady(d, c) => Target(c) \in S
ClosedSets(Bad) == {S \in SUBSET Path : Root \in S /\ Closed(S, Bad)}
Reachable(Bad) == LET sets == ClosedSets(Bad) IN {p \in Path : \A S \in sets : p \in S}
FilesBelow(Bad) == {p \in Reachable(Bad) : Untouched(p) /\ ~IsDirectory(p)}

(* A walk that returns has listed every file it could reach through        *)
(* directories whose call printed no error, however the rest of the tree   *)
(* changed under it: an exception in one call costs the entries that call  *)
(* had not taken yet, and nothing of its callers (the try/catch is inside  *)
(* the recursion, FileUtil.java:26-42).                                    *)
NoSteadyFileLost == Returned => FilesBelow(reported) \subseteq Listed

(* The scripts open whatever is on the list.  A path on it is a file,      *)
(* unless somebody changed it, or it is the argument itself, which is      *)
(* added even when nothing is there (FileUtil.java:37-38).                 *)
OnlyFilesListed ==
  \A p \in Listed : Untouched(p) => ~IsDirectory(p) /\ (p = Root \/ disk[p] # "none")

(* In a corpus without links no file is listed twice, even while entries   *)
(* come and go: XMLExtract would start two processes on one output file.   *)
ListedOnce == \A i, j \in DOMAIN fileList : fileList[i] = fileList[j] => i = j

(* The walk ends with a return, never with the Error that no handler of    *)
(* the program catches: true of every corpus whose links lead to no        *)
(* directory above themselves.                                             *)
Terminates == <>Returned

(* What getFilesUnderPath promises its callers, while nobody touches the   *)
(* corpus: FileListing.                                                    *)
Promise ==
  INSTANCE FileListing WITH corpus <- FilesBelow({}),
                            listed <- Listed,
                            complained <- reported # {},
                            finished <- Returned
ListsTheCorpus == Promise!Spec

(* "Gets all files under the given path" (FileUtil.java:19), read as what  *)
(* a caller that looks only at the returned list may rely on.              *)
AllFilesUnderPath == Returned => FilesBelow({}) \subseteq Listed

=============================================================================
