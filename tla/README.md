# A verification of graduation-project-java

The repository holds the command-line scripts of a corpus project: they walk
the XML files of the British National Corpus and extract titles, keywords,
types and texts. This directory models them in TLA+, checks the models
with TLC on small instances, and proves the central theorems with TLAPS for all
values of the constants.

## The system

All own code is below `src/main/java/com/hugailei/graduation/corpus/`:
about 320 lines of Java; six stylesheets came with the corpus. The rest of the repository is a
Spring Boot skeleton and a third-party distribution of libxslt.

| Component | State | Operations | Used by |
|---|---|---|---|
| `utils/FileUtil.java` | the list under construction, the Java stack, the file system it reads | `getFilesUnderPath`, recursive | both scripts |
| `scripts/XmlDocParser.java` | the list, the place in it, three output directories, open writers, the console | `main`, `parseXml`, `saveTitle`, `saveKeywords`, `saveType` | started by hand |
| `scripts/XMLExtract.java` | the list, the place in it, one process per file, their pipes, one output directory, the console | `main`, `getText` | started by hand |
| `scripts/stylesheet/*.xsl` | none | template rules; `justTheText.xsl` is the one XMLExtract names | xsltproc |
| `utils/StanfordParserUtil.java` | none | `parse`: a text to its annotated tokens | its own `main` |
| `scripts/SaveParserResult.java` | a database connection | `main`: connect, select, close | started by hand |
| `CorpusApplication.java` and its test | none | start an empty Spring application | nothing |
| `scripts/xsltproc/` | third party; `applink.c` keeps a table and a flag | `OPENSSL_Applink` | XMLExtract, as a program |

How they interact. Both scripts call `FileUtil` once, with a list that it fills
and returns, and then go through that list one file after the other.
XmlDocParser does its own work, by dom4j and file writers. XMLExtract
starts a `cmd.exe` for each file, which runs xsltproc with its output redirected,
and never hears of it again. The two scripts share one output directory
(`bnc-title`, XmlDocParser.java:25 and XMLExtract.java:21) and name their files
the same way, so that each overwrites what the other has written.

What is hard about it:

- *Interleaving.* Both scripts write to one directory. The walk reads a file system that others change
  (isDirectory, then listFiles, then isDirectory of each child). XMLExtract's
  processes run side by side, and two may write to one file.
- *Failure.* All handlers print and go on. What they skip depends on where they
  are: around one call of the recursion, around one document, around one `exec`.
- *Ordering.* Three outputs per document are truncated and written one after the
  other; "done" is printed before the processes are.
- *Restart.* A script is killed or run again over the files it has left.
- *Resources.* Links make the recursion endless; writers are not closed when
  they fail; as many processes are started as there are files; a pipe nobody
  reads fills up.

What makes each component correct:

- *FileUtil*: no file that can be reached is lost unless an error was
  printed; nothing but files is listed; nothing twice; it returns.
- *XmlDocParser*: what the console says about the k-th file is true of its three
  outputs; what cannot be extracted overwrites nothing; one bad file does not
  stop the run.
- *XMLExtract*: each file is started or reported; outputs are not mixed; the
  program and all processes come to an end.
- *Both scripts*: neither destroys what the other has made (it does), and what
  is left is never a mixture of the two.
- *XmlDocParser with the walk*: each file of the corpus is accounted for.
- *Stylesheets*: the text of a document comes out, and nothing of its header.
- *StanfordParserUtil*: one line per token, in the order of the text (not
  modelled).
- *SaveParserResult*: the connection is closed however the program ends.

`PROJECT.json` lists the hazards one by one, at their lines.

## The modules

| Module | What it is |
|---|---|
| `FileUtil` | the walk |
| `FileListing` | what the walk's callers rely on (abstract) |
| `FileUtilProofs`, `FileListingProofs` | theorems about the walk |
| `XmlDocParser` | metadata extraction |
| `MetadataStore` | what readers of its console and outputs rely on (abstract) |
| `MetadataPipeline` | `FileUtil` and `XmlDocParser`, composed: the whole of main |
| `XmlDocParserProofs`, `MetadataPipelineProofs` | theorems about metadata extraction, alone and behind the walk |
| `XMLExtract` | text extraction and its processes |
| `XMLExtractProofs` | theorems about it |
| `CorpusScripts` | `XmlDocParser` and `XMLExtract`, composed over one directory |
| `CorpusScriptsProofs` | theorems about both scripts |
| `Stylesheets` | the four stylesheets that produce text, and a processor for them |
| `StylesheetsProofs` | theorems about what comes out of them |
| `SaveParserResult` | the database script, in several runs against one server |
| `SaveParserResultProofs` | theorems about it |
| `MC...` | the instances TLC checks, one module for each of the above but the abstract ones and the proofs |

Definitions marked "Mutant" in a module are plausible mistakes in the action
that follows them. No specification uses them; with one of them put in the place
of its action, the property it is paired with in `PROJECT.json` must fail.

### FileUtil

A state is a moment between two reads of the file system or two changes of the
list. `stack` is the Java stack: a frame for each active call, with its argument
(`path`), the place it is at (`entry`: line 28; `list`: line 29; `loop`: line
30) and the children it has still to take (`rest`). `disk` says what each path
is, `Entries` which paths can lie in a directory, and `Canonical` where a link
leads. `fileList` is the list. `opened`, the arguments of all calls so far,
`reported`, those whose call printed an error, and `touched`, the paths others
have changed, are there for the properties; no guard of the walk reads them.

| Action | Code |
|---|---|
| `EnterFile`, `EnterDirectory` | the test of line 28 and its two branches (38) |
| `ListFiles`, `ListFilesIsNull` | line 29; a null answer throws in the loop header (30) |
| `AddChild(c)` | 31, 34 |
| `Descend(c)` | 31, 32: canonical path, recursive call |
| `CanonicalPathFails(c)`, `Caught` | the handler of lines 40 to 42; it ends its own call alone |
| `Overflow(c)` | StackOverflowError, which `catch (Exception)` does not catch |
| `EndLoop` | the end of the loop and the return (44) |
| `Change(p)` | someone else creates, deletes or replaces `p` |

A null from listFiles is possible for every directory at any time: unreadable,
or gone. The order of the children is open, as listFiles leaves it.

`Descend` takes the test of line 31 and the canonical path of line 32 together.
Nothing that the model lets change is read by the second: where links lead is
fixed, and a failure of line 32 is an action of its own. A change between the
two has the effect of one before the called method's own test (28), and `Change`
can come there.

### XmlDocParser

`list` is whatever list the walk returned, of at most `MaxFiles` files and
possibly with repetitions. The console has one line per finished file, so the
current file is the one after `Len(console)`. `at` and `save` are the place in
`parseXml`. A document is the elements `parseXml` looks up: title by two routes,
keywords, `wtext`, `stext` and the attribute. Texts are sequences of tokens; the
three conversions (brackets removed; `" (none) "` emptied when the keywords are
looked up, blanks trimmed when they are saved) are modelled, line breaks are not.

| Action | Code |
|---|---|
| `Extract`, `ExtractFails` | 38 to 60: all that is read, before anything is written |
| `Open`, `OpenFails` | `new FileWriter`: 75, 82, 93; truncates |
| `WriteAndFlush`, `WriteFails` | 76-77, 83-88, 94-95; a failing write may leave a part; `write(null)` throws |
| `Close`, `CloseFails` | 78, 89, 96, and the line "parsed" (65) after the third |
| `Catch` | 66, 67: the error line, the next file; the writer stays open |
| `Rerun` | killed anywhere, or done, and started again on a new list |

An Error (out of memory in a huge document) is not caught and ends the program:
that is a kill.

`MetadataStore` sees three saves as one. A name is *busy* from the moment the
current file has been found complete (`Begin`), changes while it is (`Save`), and
is then committed, if its three outputs are the metadata of the file, or aborted
with an error line, without a rollback. The mapping takes the three outputs of a
name together as its store. `CommitsOrAborts` is the refinement.

`MetadataPipeline` puts the walk of `FileUtil` before it: `fileList` is one
variable of both modules, as `allFile` is one object in main. `WalkStep` is a step
of the one, `ParseStep`, once the walk has returned, a step of the other. A path
that is no file (any more) holds nothing that can be parsed, and a link to a file
holds what the file holds. Nobody changes the corpus here, so that the same
instance shows the walk to implement `FileListing`.

### XMLExtract

The Java program is `next`, `reported`, `done` and `jvm`. The rest is the
world `getText` relies on without looking at it, and is external: `child[k]`
(nothing yet, cmd.exe, xsltproc, refused its output file, failed after opening
it, succeeded), the pieces of text and the warnings it has written, `piped` (the
Java program still holds the reading end), and the output files.

| Action | Code |
|---|---|
| `Exec`, `ExecFails` | 43 to 48 and 48 to 50, with the step of the loop (27) |
| `PrintDone`, `Return` | 32, 33; the return closes all pipes |
| `Killed` | the program is killed; the processes live on |
| `Collected(k)` | the dropped Process object is finalized, which closes its pipe |
| `Redirect(k)`, `RedirectFails(k)` | cmd.exe opens the output file for itself alone and empties it, or fails |
| `WritePiece(k)`, `Warn(k)`, `Exit(k)`, `Fail(k)` | xsltproc; a warning blocks while the pipe is full and somebody holds it |

### CorpusScripts

Two instances, `P` of XmlDocParser and `X` of XMLExtract, over one file system:
`dir` holds XmlDocParser's three directories, and X's output directory is
`dir["title"]`. A step of one leaves the variables of the other alone, except
for this. `ProcessStep` offers each content the process may leave in its file and
lets `X!Child` choose. The composition adds what neither module knows by itself,
the locks of Windows: cmd.exe opens its output without sharing it for writing, so
a title that a process has open cannot be opened by a FileWriter, which throws
(`P!OpenFails`), and the reverse, which only cmd.exe notices (`X!RedirectFails`).
Both scripts take the same list, as both walk the same corpus at rest.

### Stylesheets

A stylesheet is a table from kinds of nodes to the instructions of the template
that matches: `<<"children">>` is `xsl:apply-templates`, any other instruction
writes one value of the node. Tables are put together with `++`, whose left
argument wins, so that explicit templates stand before `BuiltIn`, as they do in
XSLT. A document is the sequence of its nodes in document order, each with its
parent (`IsDocument`). The processor (external) is a stack of instructions: `Apply` replaces a
node by its template, `Descend` an `apply-templates` by the children, `Write`
writes. `OneByOne` says that some nodes have come out in their order, none left
out. Separators and line ends are left out; values are named, not computed.
`XMLExtract` treats the text of a file as any number of pieces; by the finding
below it is in fact none with the stylesheet it names.

### SaveParserResult

`at[r]` is the next call of run `r`; there is an action for each of the six calls
(41, 43, 44, 48, 50, 52), and `Throws` for any of them. The server is external:
it has room for `MaxSessions`, sees the socket of an ended virtual machine
close, and may drop a session at any time, which the script learns at its next
query at the earliest (`isClosed` does not ask the server).

## What the runs show

| Run | Instance | Shows |
|---|---|---|
| `walk_races` | seven paths, three levels, one entry may be a link to the root; stack of 3; any one path changes | `NoSteadyFileLost`, `OnlyFilesListed` under interference, null answers, failing canonical paths and overflow |
| `walk_tree` | the same without a link; stack of 4 | `ListedOnce`, `Terminates` |
| `walk_comment` | six paths, a link across two subdirectories; nobody else | counterexample to the method's comment |
| `parser_runs` | three files, two of one name, four documents; lists of up to two; two runs; fairness | `SavedOrReported`, `LeaksReported`, `OnlyDocumentsOverwrite`, `Completes`, and `CommitsOrAborts`: XmlDocParser implements `MetadataStore` |
| `pipeline_accounts` | six paths, a link across two subdirectories, two files of one name; a document, one without keywords, no XML | `ListsTheCorpus`: the walk implements `FileListing`; `EachFileAccountedFor`, `OnlyTheCorpusIsSaved` |
| `extract_processes` | three files, two of one name, up to three processes, two at once, pipes of one line, two warnings; fairness | `OneWriter`, `ExtractedStays`, `EachStartedOrReported`, `AllEnd` |
| `extract_comment` | lists of up to two files | counterexample to the comment in main |
| `scripts_shared` | lists of up to two of three files, two of one name, texts in two pieces, titles of two words, every failure of either script | `NeverMixed`, `ParsedTitleOrText`, `ExtractedTextOrTitle` |
| `scripts_comment` | the same | counterexample to the comment in main |
| `sheets_text` | every document of up to seven nodes, built as the BNC is | `HeaderStaysOut`, `AllWordsInOrder`, `CodesUnderTheirSentence`, `OneLinePerToken` |
| `sheets_comment` | up to five nodes | counterexample to the comment in justTheText.xsl |
| `db_sessions` | three runs, room for two sessions, fairness | `OrphansAreReported`, `SessionsEnd` |

`ParsedTitleOrText` is what is left of `SavedOrReported` when XMLExtract works on
the same directory (the text in the place of a title is that of a process that has
opened the file), and `ExtractedTextOrTitle` what is left of `ExtractedStays`:
neither holds there as it stands.

Why the bounds are enough. In the walk, calls interact only through the list and
the stack, so a tree with two subdirectories, one nested deep enough for a call
inside a call inside the root's, has every pair of positions a change can hit;
one changed path suffices for each of the races (each is about one read of one
path being stale), and with more the properties only promise less. The initial
disk is any disk over these paths, so empty directories, missing roots and roots
that are files occur. In XmlDocParser, files interact through a shared output
name only, and two files and two runs give every order of success, failure and
kill on one name. In XMLExtract three processes suffice for two on one name and
a third that holds a slot; one line of pipe and two of warnings block.
In CorpusScripts the two programs meet in one file at a time, so one document
behind all names loses nothing; two files give two processes of one name or of
two, beside the parser. In SaveParserResult a third run finds the server full.
Seven nodes are two sentences with a token each and what is around them, which is
where a template or a processor could mix up its nodes.

Fairness. The scripts are single-threaded Java programs whose main thread is
scheduled: weak fairness on `Walk`, on `Step` and on `Main`. Processes are
scheduled by the operating system: weak fairness on `Progress(k)` for each of
them, but not on `Fail` and not on `Collected`, since nobody owes us a failure or
a finalization. A run of SaveParserResult goes on, with an answer of the server
or an exception, and the socket of an ended virtual machine is closed: weak
fairness on both for each run, none on `Drop`. Nothing is assumed of kills, changes and reruns, which are
bounded. Each `Finished` disjunct says that a program that has ended may stay so;
every other deadlock is an error of the run.

### Where the code and its comments differ

- `AllFilesUnderPath`: "get all files under the given path" (FileUtil.java:19).
  The handler inside the recursion turns an unreadable directory into a shorter
  list, and the caller cannot see it; the console gets the identity of an array
  (FileUtil.java:41).
- `EachFileExtracted`: "for each file, extract subject and title and write them
  to the given directories" (XMLExtract.java:26). A process that fails leaves
  neither a text nor a message.
- `TitleAndText`: XmlDocParser "gets the title and type of the articles"
  (XmlDocParser.java:20) and XMLExtract "extracts the content of given nodes and
  puts it out" (XMLExtract.java:14). The texts of the one and the titles of the
  other go to files of the same names in the same directory; even when nothing
  fails, one of the two is gone.
- `TextComesOut`: "the text content will be output as plain text"
  (justTheText.xsl:22-23). The template for `text()` that is to suppress white
  space matches the words as well, and the comment does not know it. This is the
  stylesheet XMLExtract runs.

## What is proved

Every theorem is proved for all values of the constants: any corpus, any number
of files, runs and processes, texts of any length, stacks, pipes and servers of
any size. Each proof module has one inductive invariant (`FileListingProofs`
three), a lemma for each action that it survives, and then the theorems. TLC has
found no error in any of the invariants on the instance of the run named with it.

The assumptions are those of the modules, each named after its module, and say
what kind of thing a constant is. What they say beyond types: canonical paths
are canonical, and the path the walk is given is one (`FileUtilAssumption`); the
script is started at least once (`XmlDocParserAssumption`); a pipe holds a line
and a process can run (`XMLExtractAssumption`, `CorpusScriptsAssumption`); a
server has room for a session and the runs are finitely many
(`SaveParserResultAssumption`); in a document each node is a child of the one
before it or of what that is in, only elements have children, and neither tokens
nor sentences are nested (`StylesheetsAssumption`). Two theorems have a hypothesis besides; both are
described below.

| Module | Theorem | Property |
|---|---|---|
| `FileUtilProofs` | `TypeCorrect` | `TypeOK` |
| | `NothingLost` | `NoSteadyFileLost` |
| `FileListingProofs` | `OnlyFiles` | `OnlyFilesListed` |
| | `OnceInATree` | `ListedOnce`, if `IsTree` |
| | `KeepsItsPromise` | `ListsTheCorpus`: FileUtil implements `FileListing`, if nobody touches the corpus |
| `XmlDocParserProofs` | `TypeCorrect` | `TypeOK` |
| | `ConsoleIsTrue` | `SavedOrReported` |
| | `EachLeakReported` | `LeaksReported` |
| | `BadFilesDestroyNothing` | `OnlyDocumentsOverwrite`, an action property |
| | `Implements` | `CommitsOrAborts`: XmlDocParser implements `MetadataStore` |
| `MetadataPipelineProofs` | `AllAccountedFor` | `EachFileAccountedFor` |
| | `NothingElseIsSaved` | `OnlyTheCorpusIsSaved` |
| | `MainListsTheCorpus` | `ListsTheCorpus`, in the whole of main |
| `XMLExtractProofs` | `TypeCorrect` | `TypeOK` |
| | `StartedOrReported` | `EachStartedOrReported` |
| | `NeverTwoWriters` | `OneWriter` |
| | `TextsStay` | `ExtractedStays` |
| `CorpusScriptsProofs` | `NoMixture` | `NeverMixed` |
| | `ParsedStays` | `ParsedTitleOrText` |
| | `ExtractedGivesWay` | `ExtractedTextOrTitle` |
| `SaveParserResultProofs` | `TypeCorrect` | `TypeOK` |
| | `OrphansReported` | `OrphansAreReported` |
| `StylesheetsProofs` | `TypeCorrect` | `TypeOK` |
| | `HeaderOut` | `HeaderStaysOut` |
| | `WordsInOrder` | `AllWordsInOrder` |
| | `CodesInSentences` | `CodesUnderTheirSentence` |
| | `LinesOfTokens` | `OneLinePerToken` |

### The walk

`NoSteadyFileLost` speaks only of walks that have returned, so it is not
inductive. The invariant `Accounted` (`walk_races`) says where every unlisted file is
meanwhile: each steady entry of an opened directory whose call has printed no
error is *handled* (listed, or its directory opened) or *owed* by an active call,
one that has not read the directory yet or still has the entry in `rest`; and
the argument itself is opened. The lemmas first turn stacks into the sets of their
frames (`MoveOn`, `CallDeeper`, `CallReturns`); then `StepAccounts` reduces each
step of the walk to what happens to the entries that the innermost call owed, and
`AccountKept` goes through the actions. When the stack is empty nothing is owed,
and the opened directories, the listed files and the argument together are a set
closed under steady entries (`NothingOwed`), which the least such set, the one
`NoSteadyFileLost` speaks about, lies within.

`OnlyFiles` needs what the calls have read and not yet used: `TakenWereThere`
(`walk_races`). An entry of `rest` that nobody has touched is still there, and an
untouched directory a call was made for still is one.

`OnceInATree` is about trees: `IsTree` says that no canonical path differs from
the path, no path is an entry of two directories, and the argument is an entry of
none. Any corpus without links is one; it is the condition without which the
property is false, as the walk follows links. The invariant `TakenOnce`
(`walk_tree`) works on positions of the stack: no two calls are for the same
path, what a call may still take has not been taken, and nothing has been taken
unless its directory has been opened. That paths make no cycle below the argument
follows from the last of these and need not be assumed. Others may change the corpus
under this walk as they like.

`KeepsItsPromise` has the hypothesis `MaxTouched = 0`, since `FileListing`
promises a list of a corpus at rest; what remains true when it is not at rest is
`NothingLost` and `OnlyFiles`. The proof uses it only through the lemma
`WhileUndisturbed`: in a behaviour in which nobody has touched anything, every
step of the walk lists files of the corpus or nothing (`WithinCorpus`,
`walk_races` with nobody else), and the last returns with all of it, by `NothingLost`, or with an
error reported.

### XmlDocParser

`SavedOrReported` and `LeaksReported` are about the console and say little while
a file is under way. `Core` (`parser_runs`) adds two facts about the place in
`parseXml`: `InItsPlace`, a save is under way only for a document that has all
that is needed, and the saves before it have left their texts; `HoldsItsWriter`,
what is written to is open. `BadFilesDestroyNothing` and `Implements` follow from
the same invariant, for the refinement with a case for each action: `Extract`
begins, the last `Close` commits, a failure aborts, whether anything has been
begun or not, and what comes between changes the one name that is busy. A rerun, which may
come at any place, gives up what is busy.

`Core` leaves out the two bounds, on the list and on the runs, that `TypeOK`
has. So it is an invariant of parseXml for whatever list there is, and the
pipeline can use it.

### The whole of main

`MetadataPipelineProofs` proves nothing twice. `MainIsWalk` shows that main, seen
from the walk's variables, is the walk, so that `NothingLost` and
`WhileUndisturbed` hold of it; `SameInit` and `SameStep` show that its second
half is the program of `XmlDocParserProofs`, of which it takes an instance with
the list of the walk, so that each step keeps `Core` (`StepCore`) and touches the output of the current file only
(`StepTouches`). The invariant `Parsing` (`pipeline_accounts`) is `Core`, that
nothing is parsed before the walk has returned, and `OnlyTheCorpusIsSaved`. At the
end a file of the corpus is on the list by the one half and has its line by the
other. `MainListsTheCorpus` needs no hypothesis: here nobody changes the corpus.

### XMLExtract

The invariant (`extract_processes`) says of each place what its process has
written when it is where it is (`WrittenSoFar`), that no two processes have one file open
(`Alone`), that the file a process has open holds its own text and no more
(`OwnText`), that whatever is in a file is the text of a process (`Traced`), and
that each place the loop is past has been counted (`Counted`). `Alone` is the
lock of Windows that `Redirect` models, and what everything else rests on.
`ExtractedStays` is inductive with these. It allows for files of one name, whose
processes replace each other's texts: the process whose text stands in the file of
one that has succeeded may change, but it is always one that has opened the file.

### Both scripts

Neither script's own invariant holds here, since each overwrites the other's
files. The invariant (`scripts_shared`) keeps what remains: XmlDocParser is in
its place, with the title it has written possibly replaced by a text for the same
name (`InItsPlace`); the processes are alone with their files among themselves,
and apart from the file XmlDocParser has open (`Apart`). The last is where the
interleavings are: `Apart` makes a step of one program in the file of the other
impossible, so that a step of either leaves intact what the other is writing.
What is proved in `XMLExtractProofs` of the texts of processes is used in an
instance whose output directory is `dir["title"]`.

### SaveParserResult

The invariant (`db_sessions`) adds that a run past `getConnection` has had a
session (`Connected`). The number of sessions is a cardinality, which the server's limit
bounds: `RoomForOne` and `NoMoreSessions` follow it through a step.

### Stylesheets

What a node is in (`UpIn`) is defined by recursion, so the module first shows that
the recursive function exists (`UpStep`: the least sets closed under parents are
one), and then, from a node of least number for which it would fail, what is needed
of documents: what a node is in comes before it (`UpBefore`), being in something is
transitive (`UpUp`), what is in a node stands together (`TogetherIn`), and the way
to it leads through a child (`ThroughAChild`). `Least` gives that least number: it
is the well-foundedness of inclusion among finite sets, applied to intervals.

The invariant (`sheets_text`) is about what waits. `InLine`: a node that waits
comes after all that is in what waits before it. `HeaderClosed`: the header may
wait to be applied, but nothing in it. `OnTheWay`: what has come out is before what
waits, and every node to be written has come out or something waits that leads to
it. `AtWork`: the work is the rest of one template and nodes behind it. With it,
`Columns` and `Lines` count the columns of a line, and `Numbered` and `Numbers`
say that whatever waits within a sentence waits under its number: when the number
of the next is written, nothing that waits can be in a sentence before it, as such a
sentence would stand together across the new one, and sentences do not nest.
Each of the three kinds of step has a lemma for each part of this.

### What is only model-checked

- `Terminates`, `Completes`, `AllEnd`, `SessionsEnd`: liveness under fairness is
  out of the prover's reach.
- The findings: each of these runs shows a counterexample, and there is nothing to prove.

## What is not modelled

- Wording and encoding of outputs and of messages, line breaks.
- The order in which listFiles answers, and case-insensitive file names.
- dom4j, beyond the elements parseXml looks up; xsltproc, beyond what is said
  above; file systems that fail in other ways than by an exception.
- The lock of a writer that XmlDocParser has left open after a failure: it may be
  collected at any time, and the model takes it to be at once.
- `StanfordParserUtil.parse`: two nested loops that write a line for each token
  of CoreNLP's answer. All that could go wrong is in CoreNLP; there is no shared
  state, and nothing in the program calls it except its own `main`.
- `whoSpeaks.xsl` and `display.xsl`: the layout of a page for reading, one template
  per element, without state or a choice that goes beyond the node at hand and one
  key; nothing in the program runs them.
- What `SaveParserResult` is said to do and does not (SaveParserResult.java:12,
  "annotates the corpus and stores the results in the MySQL database"): there is
  no code for it.
- The Spring Boot skeleton: an empty application.
- The bundled distribution of xsltproc. Almost all lines of C in the repository
  are the headers of libxml, libxslt, libexslt, iconv, zlib, xmlsec, openssl and
  the interface files of xsldbg: declarations, constants and documentation, whose
  bodies are in libraries that are not in the repository. There is no behaviour
  in them to translate, and the program uses none of them but through the
  executable. The one function with a body, `OPENSSL_Applink` in `applink.c`, fills
  a table of C library functions; the openssl that would call it is not there,
  and no program here links it. By lines, therefore, nearly all C of the
  repository is outside this verification, and nearly all Java is inside it.

## Plan

1. Done: `FileUtil`, `FileListing`, `FileUtilProofs`, `XmlDocParser`,
   `MetadataStore`, `MetadataPipeline`, `XMLExtract`, `CorpusScripts`,
   `Stylesheets`, `SaveParserResult`.
2. Done: theorems for every safety property that holds, in all modules, and for
   both refinements.
3. What is left is out of the prover's reach (above) or of the model's (the
   section before this one).
