# Verification of mhl-tool

`mhl` creates ("seals") and verifies media hash lists (MHL): XML files that
name the files of a folder with their sizes and hash sums, so that a copy of
the folder can be checked later. This directory holds TLA+ models of the
program, the TLC configurations that check them, and proofs of the most
important properties for every instance. Paths below are relative to the
repository; the C sources are under `src/`.

## 1. Inventory

The program is one sequential process per command, without threads. What makes
it hard is the world around it: files it does not lock are read several times
while other programs change them, many steps can fail half-way, output is
buffered, and one exit status has to sum up a long walk.

| Component | State | Operations | Uses |
|---|---|---|---|
| Walk (`args_fileslist_support`, `os_filepath_handlers.c`) | index of the path at hand, `overall_res`, counters of `st_progress_data`, an open folder or the number in a sequence | `run_func_on_args`, `process_files_recurs`, `search_files_fit_to_sequence`, `calculate_total_sz` | calls back into the command for every file |
| Hashing (`hashing.c`) | an open file, a running digest | five `wcalculate_..._hash` | file system |
| `mhl seal` (`mhl_seal.c`) | options, hash strings of the file at hand | `calculate_and_fill_hash`, `prepare_data_for_mhl_create`, `process_calculate_and_fill_hash`, `run_mhl_seal` | walk twice, hashing, creation |
| Creation of lists (`mhl_creator.c`, `print_mhl.c`, `files_data.c`) | `files_data_array`, per output folder a list of indices into it and an open stdio stream | `process_file`, `add_data_to_containing_folders`, `create_mhl_files`, `create_mhl`, `finalize_mhlcreate_data` | file system, user database |
| `mhl verify` (`mhl_verify`) | options -e and -c, the hash table `check_witems`, `full_res` | `check_files_from_mhl`, `check_passed_files`, `check_file_against_mhl_wcontent` | walk twice, hashing, parser |
| Parser and search (`parsemhl`) | the record at hand, `check_witems` | `parse_mhl_wfile`, `aux_parse_hash`, `search_mhl_wfile` | libxml2, paths |
| `mhl hash` (`mhl_hash`) | options, progress | `process_calculate_hash`, `run_check_hash` | walk twice, hashing |
| `mhl file` (`mhl_file`) | records read from standard input | `input_parse_mode` | creation |
| Paths (`file_path_decomposition.c`) | none (functions) | normalise, make absolute, make relative | |
| Log and progress (`logging.c`) | a growing buffer, counters | `logit`, progress messages | |
| Options, main, help, conversions, memory | options | parsing, texts, iconv and malloc wrappers | |

Behaviours that are hard, and what makes the components correct:

* *Partial failure.* An unreadable subfolder, a missing number of a sequence or
  a file outside of all output folders must prevent every list, although files
  before and after it were processed well. An error of one path must not be
  overwritten by the success of the next.
* *Changing files.* A file can come, go or change at any moment. For a file
  that nobody touches, the answer of the program must nevertheless be right:
  the list is complete, the record is true, verification neither misses damage
  nor raises a false alarm.
* *Creation of lists.* An existing list is never overwritten. Lists are printed
  into stdio buffers and closed at the very end, also after an error: no list
  may be left half-written, and a program that is killed must not leave a
  truncated list that parses.
* *Order.* `verify` sorts its hash table between two loops over it, reads
  options -e and -c in the right places, and must judge every record once.
* *Termination*, whatever happens to the files.

* *Names.* A list names files relative to its own folder; `verify` has to come
  from any spelling of a path to the same record, and to find the nearest list.
* *Parsing.* What is compared in the end is decided by the order in which sums
  were stored, printed and read back, and by what a second record may change.
* *Several programs.* `mhl hash` feeds `mhl file` through a pipe, and programs
  started in the same second come to the same names of lists.

The full list of hazards, each at its line, is under "hazards" in
`PROJECT.json`, with the properties that guard against it or the reason why
none does.

## 2. Modules

| Module | Role |
|---|---|
| `ArgWalk` | the walk over the command line that all commands share |
| `HashRead` (extends `ArgWalk`) | one read of one file for one hash |
| `MhlSeal` (extends `HashRead`) | `mhl seal` |
| `ListRace` | the creation of lists by several programs: the abstract specification that `MhlSeal` implements |
| `MhlVerify` (extends `HashRead`) | `mhl verify` after the list has been parsed |
| `FsPath` | the functions on paths, as pure operators |
| `MhlLocate` (extends `FsPath`) | the names in lists, the search for a list, the lookup of a file in it |
| `MhlParse` | from the sums that are stored to the table that is compared with |
| `FileSequence` | patterns of sequences, numbering and padding |
| `MhlHash` (extends `HashRead`) | `mhl hash`, with and without -h |
| `MhlFile` (extends `MhlHash`) | `mhl hash` and `mhl file` composed by a pipe |
| `MC...` | small instances of these for TLC |
| `ArgWalk_proofs`, `MhlSeal_proofs`, `ListRace_proofs`, `MhlVerify_proofs`, `MhlFile_proofs`, `MhlParse_proofs`, `MhlLocate_proofs`, `FileSequence_proofs` | theorems and proofs |

### ArgWalk

`args` is the command line from `files_argv_index` on and `arg` the loop index
of `run_func_on_args`. `walk` says where in a folder or sequence the program
stands and `cur` is the file whose callback runs, `NoFile` between callbacks.
`overall` is `overall_res`, `count` the counters of `st_progress_data` that
this function writes. Each action is one turn of a loop: `MissingPath`,
`IgnorePath` and `BeginFile` are the branches over the type of a path;
`BeginFolder`, `VisitEntry`, `EndFolder`, `FolderFails` are
`aux_process_entries_recurs`; `RefuseSequence`, `BeginSequence`, `ProbeNumber`,
`ProbesDone`, `VisitNumber`, `EndSequence` are `search_files_fit_to_sequence`: a refused
pattern or number, and the two loops over a sequence.
`CallbackReturns(res)` is what the three callers do with the result of the
callback.

A folder is the set `below` of the files in it and its subfolders. `must` holds
those that `readdir` still has to return, `may` those that came or went since
`opendir` and may or may not be returned. The recursion is flattened: entries
are visited in any order, and a folder that is not `readable` (itself or one of
its subfolders) fails after any number of visits. A sequence is the list of its
files in ascending order; its numbers come from the argument, not from the disk. One that
is not `readable` is a pattern that `init_mhl_sequence` refuses or that has a number too long
for its marks; which patterns those are is the subject of `FileSequence`.

`disk` is the content of every file; `Edit` is another program that creates,
overwrites or deletes one. `touched` and `edits` are history: the properties
speak of files nobody touched.

### HashRead

`stream` is the set of contents the open file has had since it was opened
(empty: no file is open). The digest is one of these contents or, if there is
more than one, also `Mixed`, a sum of bytes that were never together. A deleted
file stays readable once opened. Files in `BadFiles` may fail in the middle.

### MhlSeal

`pass` goes from "size" over "hash" and "create" to "close" and "exited";
"killed" can follow any of them. In the second pass the callback of a file is
`OpenForHash`, `FinishHash` once for every selected type in the code's order,
and `AddEntry`, which is `prepare_data_for_mhl_create` with `process_file` and
`add_data_to_containing_folders`; `ReadFails` leaves it early. `sums` are the
hash strings, `entries` is `files_data_array`, `refs[o]` the references of
output folder o. Only two of the selected types are `Kept`, the major and the
auxiliary hash of `fill_data_directly`.

Creation takes `CheckMhl` (`does_wpath_exist`) and `OpenMhl` (`fopen` with
mode "w") as two steps. `out[o]` counts the pieces printed into the buffer (header,
creator info, records, footer) and the pieces flushed to disk; `Flush` may happen
any time, and a piece flushed while the volume is `full` is lost (`torn`).
`CreatorUnknown` and `PrintCreatorFails` are the two failures that
`create_mhl` does recognise. `Exit` is `finalize_mhlcreate_data`: everything
printed has been flushed. `owner` tells who created the file at each MHL path.

### MhlVerify

`list` is `check_witems` in iteration order. With files on the command line
(`ByArgs`) the program walks twice: `SizePass`, `CheckWalk`. Without, `LookAtTime`
and `LookAtSize` are the two `lstat` calls of the first loop, `SortRecords` is
the stable `HASH_SORT`, and `BeginRecord` and `RecordReturns` make up the second
loop. The check itself is `CheckSize` (search for the record, size, -e, null tag),
`OpenForHash`, `CompareHash` and `ReadFails`. `verdicts` is history: the result of
every check.

### ListRace

Any number of programs, each with the lists it wants, create them in the same
second. `Decide` stands for all that a command does before `create_mhl_files`:
it may end in an error, and then there are no lists. `Check` is
`does_wpath_exist`, `Open` is `open_wfile`, `EndList` the end of one turn of the
loop; `Settle` says that what has been printed is on disk some time later, in
whole or cut off; `Exit` is `finalize_mhlcreate_data`. `taken[l]` is the set of
programs that have opened list l with mode "w".

`MhlSeal` ends with a refinement mapping to this module with one program
(`Race == INSTANCE ListRace WITH ...`): the two passes are the phase "decide",
the stage of a list is computed from its printed, flushed and torn pieces, and
the reason of a failure from the exit status and the place it came from.
`CreatesLists == Race!Spec` is checked by the run `seal` and proved.

### FsPath and MhlLocate

A path is the sequence of what lies between its separators, absolute or
relative. `FsPath` has one operator for each function of
`file_path_decomposition.c` and of the upper part of `os_filepath_handlers.c`;
each returns a code and a path. `MhlLocate` has a small tree of folders
and `RealPath`, what the operating system makes of a text. `SealList` makes a
list (`process_file`, `add_data_to_containing_folders`: the names relative to
the output folder). `VerifyPath`, `VerifyNothing` and `VerifyList` are the three
ways `verify_mhl` begins; `SearchFolder` is one turn of the loop of
`search_mhl_wfile`, with `inner` as its variable; `ParseList` files the records
under their absolute names, and `CheckPaths` and `CheckList` look files up.
Meanwhile `RemoveList` and `CopyFolder` change the tree.

### MhlParse

A list is a sequence of records, a record a sequence of elements. `SealFile`
makes records in the way of `fill_data_directly` and `print_file_hash_info`: the
first two of the selected types, in the order sha1, md5, xxhash, xxhash64,
xxhash64be. `EndSeal` leaves the list whole or cut off; `GivenList` is a list of
other origin (`GivenLists`, a part of `Lists`). The parser is one action for each turn of its loops: `OpenList`,
`BeginRecord`, `NextElement`, `EndRecord`, `EndOfList`. `item` is
`p_check_witem` and `table` is `check_witems`. Two ends of the parser are crashes
of the C program: a list without a version (`atof(NULL)`) and a reference to
another list (`aux_parse_hash` calls itself with the element after the last).

### FileSequence

A pattern is what stands before the marks, the number of marks, and the text
after them, as sequences of digits and other letters. `ParseSequence` is
`init_mhl_sequence` with `strtoul`'s view of a text; `NameOf` is
`create_file_wpath_for_sequence_number`, which takes the number as an int and
refuses one that does not fit into its buffer. The widths of unsigned long, int and
unsigned char (in which the marks are counted, `NumberLen`) are constants: the counter of
the loop starts again at 0 behind the last unsigned long. What the loops do with the
names is in `ArgWalk`. The digits of a number and the value of a text are recursive
functions, so that they can be proved about.

### MhlHash and MhlFile

`MhlHash` has the two passes of `process_calculate_hash` with the total and the
processed size, every type of a file read and printed on its own (`PrintSum`),
and `run_check_hash` of -h, in which type and prefix of the sum are guessed
from the length of the text (`TypeOf`, `HashVal`). With -v and -vv messages get between
the sums (`Told`), and only with -vv the bytes read for xxhash64be are counted
(`BytesCounted`); for all other types they always are.
`MhlFile` adds the buffer of standard output, of `BufferSize` lines, for which a full
pipe makes the writer wait (`HashStep`, `Flush`), a pipe of `PipeSize` lines
with SIGPIPE (`BrokenPipe`), and the loop of `process_input` (`ReadLine`,
`EndInput`), which asks for the size of a file when it reads the line. A last line that
lacks nothing but its newline counts as sent, since `fill_data_from_input` accepts it
(`files_data.c:217`).

## 3. Runs

| Run | Question | Result |
|---|---|---|
| `seal` (`MCMhlSeal.cfg`) | are the lists complete, truthful and whole, and nothing overwritten, with edits, kills and a full volume? | holds, about 932,000 states |
| `seal_volume_full` (`MCMhlSealVolume.cfg`) | does exit status 0 mean that the lists are on disk, as the help says? | **violated** |
| `race` (`MCListRace.cfg`) | what do programs that create lists in the same second do to each other? | holds, about 2,900,000 states |
| `verify` (`MCMhlVerify.cfg`) | does exit status 0 vouch for all requested files, without false alarms, and is every record checked once? | holds, about 191,000 states |
| `verify_existence` (`MCMhlVerifyExistence.cfg`) | does -e ask only for existence, as the help says? | **violated** |
| `locate` (`MCMhlLocate.cfg`) | is the nearest list found, and in it the record of the file that was named? | holds, about 25,000 states |
| `locate_root` (`MCMhlLocateRoot.cfg`) | is a list found in every place the help names? | **violated** |
| `parse` (`MCMhlParse.cfg`) | does the table hold what the list means, and for a sealed list a sum of what was sealed? | holds, about 752,000 states |
| `sequence` (`MCFileSequence.cfg`) | which names does a pattern stand for? | holds, 4,464 states |
| `sequence_padding` (`MCFileSequencePadding.cfg`) | do the marks tell the padding, as the help says? | **violated** |
| `pipe` (`MCMhlFile.cfg`) | what do two exits with 0 of `mhl hash ... \| mhl file -s` promise, and does -h answer its question? | holds, about 110,000 states |
| `pipe_syntax` (`MCMhlFileSyntax.cfg`) | does `mhl file` read what `mhl hash` prints, as the help says? | **violated** |

Properties of `seal`: `TypeOK` (references point to entries), `CompleteLists` (also of
files named on the command line that others touch),
`BadInputPreventsLists`, `TruthfulRecords`, `NoHalfWrittenLists`,
`ErrorsAreRemembered`, the action property `NeverOverwrites`, the refinement
`CreatesLists`, and `Termination`. Properties of `race`: `OneSucceeds` (programs with
the same command do not make each other all fail; with their lists in different
orders they can) and the action property `WritersAreFixed` (once a list is opened,
only programs that had looked for it before still open it).

Properties of `verify`: `TypeOK` (the iterator stays in the list), `ZeroMeansIntact`,
`IntactMeansZero`, `MissingFileStopsEarly`, `EveryRecordIsChecked`,
`ErrorsAreRemembered`, `Termination`. Of `locate`: `NearestList` and
`SearchFailsForAReason` about the search, `LookupIsRight`, `NamesLeadToFiles` and
`RecordsBelongToTheFolder` about the names, and `Termination`. Of `parse`:
`ParsedAsWritten`, `SealedListsAreVerifiable`, and the action property
`FirstRecordWins`. Of `sequence`: `NamesAreDocumented`, `NamesAreDistinct`,
`NumbersFit`. Of `pipe`: `TypeOK` (the types printed for a file are among those asked for,
and lines are read after they were written), `ProgressFits`, `CheckIsRight`,
`PipelineSealsAll`, `ListIsWhatWasPrinted`, `PipelineEnds`.

`ProgressFits` excepts the options with which the code's own sizes cannot agree
(`CountsWhatItAnnounces`): the total leaves out xxhash64be when sums are calculated and has
it with -h, and what is read for it is counted with -vv only. So `mhl hash -t xxhash64be -vv`
processes more than the total, and `mhl hash -h` with a sum of this type and without -vv
ends with 0 processed.

Each is stated in words above its definition, and `PROJECT.json` names for each a
mutated form of the code (kept next to the original in the module) that TLC shows
to break it.

### Bounds

Commands that walk (`seal`, `verify`, `pipe`):

* Three files; the hazards need a file in a folder, one outside of it, and one
  that is both named and in a folder.
* Command lines of at most two paths: enough for an error before and after a
  success, a folder with an unreadable subfolder, a sequence with a gap or refused, the
  same file twice. One of them is empty for `verify`, which then works by the list.
* Two contents for `seal` and `pipe` and three for `verify` (one that differs in size
  and one that does not).
* One edit (`MaxEdits`), at any point, of any file. Every property speaks of one
  record or file that one edit disturbs; the theorems hold for any number.
* One file on a medium that cannot be read to the end (`BadFiles`): for `verify`
  a file that only some of the lists and command lines name, so that the promise of
  no false alarms is put to the test too.
* Output folders of `seal`: one; two that overlap; the same one twice; two of which
  the second is not writable. One MHL path may be taken by an older list.
* Times 1 and 2 (`MaxTime`) at the start of `verify`, so that records are sorted both
  ways and tie.
* The writer's buffer and the pipe hold one line each (`BufferSize`, `PipeSize`), so that
  both programs wait for each other; file `f3` lies outside of the output folder
  (`Covered`). -v is tried with one type and -vv with two, and every check with -h
  without messages and with -vv.
* `MCInit` limits which files are missing or damaged at the start; it does not
  change the next-state relation.

The others:

* `race`: three programs, the lists l1 and l2, l3 that cannot be written, and an older
  list that may be at l2; every program gets one of a few orders of these. No symmetry,
  since `WritersAreFixed` is a property of steps.
* `locate`: five folders in two trees, of which the second is a copy made during the
  run and has a subfolder that cannot be opened; up to two lists (`MaxSeals`), one
  change, three working directories, paths in every spelling ("..", ".", trailing
  separators, absolute and relative, and through a folder that does not exist).
* `parse`: two records and one change of a file for sealed lists; any three elements
  in lists of other origin, which is enough for two sums, two references and two
  sizes in any order.
* `sequence`: up to four marks; int has 8 bits and unsigned long 12 here
  (`IntMod`, `UlongMod`), so that three digits reach the first limit and four hold
  every int with its sign, among them a range of more than all ints (`-0258` is a large
  unsigned long). 7 to 10 marks pass the limit of what `UcharMod = 8` can count.

### Fairness

`WF_vars(Program)` for a command on its own: a started program goes on; it waits for
nobody, has no locks and reads no input while it runs. Nothing is assumed about other
programs, the volume or signals. Reads end because only `MaxEdits` changes
happen: the code reads until `feof`, so a file that grows for ever would never
be finished. The order between the program's own steps and `Flush` needs no
fairness of its own, because `Exit` waits for the buffers and they only empty.

For the pipe, weak fairness of each program's steps and of the system's delivery of what is
in the buffer or of SIGPIPE; being killed is not fair. A writer without room in its buffer and
a reader without a line are not enabled, so that nothing is assumed of one that waits. `race`,
`parse` and `sequence` state safety only and assume no fairness.

## 4. What the violations show

* **A full volume is not reported** (`ExitStatusTellsSuccess`). `print_mhl.c`
  tests the results of `fprintf` with `res == 0`, but `fprintf` reports failure
  by a negative number; the result of the footer is dropped by `create_mhl`, and
  that of `fclose` by `finalize_mhlcreate_data`. A truncated list is left and the
  exit status is 0, against `help_topics.c:102`.
* **-e compares sizes** (`ExistenceOptionAsksForExistence`). The help says that
  -e only checks for existence (`help_topics.c:136-137`); `check_file.c:361-378`
  compares the size first.
* **A list in "/" is never found** (`EveryLocationIsDiscovered`). The help names "/"
  among the places where a list is discovered (`help_topics.c:408-418`), but
  `fs_wpath_to_wstring` refuses a path without items
  (`file_path_decomposition.c:539`), so `search_mhl_wfile` ends with an internal error
  before it looks there.
* **Marks do not pad by themselves** (`MarksMeanPadding`). `###1-300` is
  documented as padded to three digits (`help_topics.c:374`), but stands for
  `1` to `300`: `init_mhl_sequence` pads only if the first number begins with 0 or
  the last is shorter than the marks (`file_sequences.c:195-197, 244-246, 268-270`).
* **`mhl file` refuses xxhash lines of `mhl hash`** (`HashOutputIsInput`).
  `hash_calculate.c:193` prints `XXHash(`, and `fill_data_from_input` expects
  `xxHash`, against `help_topics.c:354-356`.

## 5. Proofs

The theorems are about `Spec` of `MhlSeal`, `ListRace`, `MhlVerify`, `MhlFile`,
`MhlParse`, `MhlLocate` and `FileSequence`, for all values of the constants that satisfy
the assumptions of these modules (`ArgWalkAssumption`, `HashReadAssumption`,
`SealAssumption`, `RaceAssumption`, `VerifyAssumption`, `HashAssumption`,
`FileAssumption`, `ParseAssumption`, `NamesAssumption`, `LocateAssumption`,
`SequenceAssumption`): any files, contents, command lines, options, lists, folders,
programs, patterns, sizes of the buffer and the pipe, and number of edits. TLC evaluates these assumptions
in the runs above.

The inductive invariants of the last two modules, and `ProgressInv` of `mhl hash`, were
checked by TLC on the instances of the runs `locate`, `sequence` and `pipe` before they were
proved.

### mhl seal

| Theorem | States |
|---|---|
| `TypeCorrect` | `Spec => []TypeOK` |
| `SealRemembersErrors` | `Spec => []ErrorsAreRemembered` |
| `SealNeverOverwrites` | `Spec => NeverOverwrites` |
| `SealLeavesNoHalfWrittenLists` | `Spec => []NoHalfWrittenLists` |
| `SealedListsAreComplete` | `Spec => []CompleteLists` |
| `SealRefusesBadInput` | `Spec => []BadInputPreventsLists` |
| `SealedRecordsAreTruthful` | `Spec => []TruthfulRecords` |
| `SealCreatesLists` | `Spec => CreatesLists` (refinement of `ListRace`) |

* `TypeInv` is `TypeOK` with the shape of the walk (`WalkShape`): inside a folder
  or a sequence there is a path at hand of that kind, a sequence that was not refused, and
  the callback of a file path or of a number is about that file.
  `TypeOK` alone is not inductive, since `ThePath` would be undefined.
  `ArgWalk_proofs` proves once that every step of the walk, every return of a callback
  and every edit keeps it; `MhlVerify_proofs` uses the same lemmas.
* `ListInv` relates lists, their owners and the buffers: lists after `at` have not
  been begun, the path of a checked list is still free, something is torn only
  if the volume was full, the lists before `at` are printed to the end, and a
  program that closes with a result other than "UNKNOWN_ERROR" has no list half
  printed unless the volume was full. It yields `NeverOverwrites` and
  `NoHalfWrittenLists`.
* `SealInv` is a loop invariant of the second pass: as long as no error has been
  remembered, the files of the paths before `arg` are sealed in every folder that covers
  them (`PathsSoFar`): those that are named always, since their callback would have failed
  without them, and those below a folder if nobody touched them. Those of the folder at hand
  are sealed or still in `must` (`FolderSoFar`), and those of the sequence at hand are
  sealed up to the number at hand (`NumbersSoFar`). When lists are created the loop
  has ended without an error (`ListsAfterwards`). The step lemma `Growth` says that
  files once sealed stay sealed. It yields `CompleteLists` and
  `BadInputPreventsLists`.
* `ReadInv` ties the sums of the file at hand to its content while `clean` holds,
  and yields `TruthfulRecords`.
* `MapInv` adds to `TypeInv` and `ListInv` what the refinement mapping needs: a result
  other than "OK" ends the walk or the creation (`ErrorsEndIt`), and the pieces of a
  list are flushed in the order in which they are printed (`PiecesInOrder`). Under it
  every step of `MhlSeal` is a step of `ListRace` with one program, or leaves the
  mapped variables as they are: a lemma for every action shows which one.

### Creation by several programs

| Theorem | States |
|---|---|
| `RaceTypeCorrect` | `Spec => []TypeOK` |
| `RaceWritersAreFixed` | `Spec => WritersAreFixed` |
| `RaceHasAWinner` | `Spec => []OneSucceeds` |

* `WritersAreFixed` needs `NotLookedFor`: a program that has not come to a list has not
  looked for it.
* `OneSucceeds` follows from `LeadInv`. The score of a program tells how far it has
  come in the list of lists; as long as nothing but taken lists made programs fail,
  one with the highest score has not failed (`SomeoneLeads`). Whoever took a list is
  at it or beyond (`TakenByThoseAhead`), so a leader that fails over a taken list leaves
  a program that is at least as far. This holds for any set of programs.

### mhl verify

| Theorem | States |
|---|---|
| `VerifyTypeCorrect` | `Spec => []TypeOK` |
| `VerifyRemembersErrors` | `Spec => []ErrorsAreRemembered` |
| `VerifyStopsForMissingFiles` | `Spec => []MissingFileStopsEarly` |
| `ZeroVouches` | `Spec => []ZeroMeansIntact` |
| `VerifyRaisesNoFalseAlarm` | `Spec => []IntactMeansZero` |
| `VerifyChecksEveryRecord` | `Spec => []EveryRecordIsChecked` |

* `TypeInv` again has the shape of the walk, for the form with paths (`ArgsShape`),
  and of the loop over the list for the form without (`ListShape`); no file is listed
  twice (`UniqueFiles`), which the sorting keeps.
* `StopInv`: without -c the first loop has found no file missing when the second begins,
  and before that nothing has been judged.
* `IntactInv` is the loop invariant for exit status 0: as long as no error is
  remembered, the files behind the place at hand are intact, in the paths, the
  folder, the sequence (`PathsSoFar`, `FolderSoFar`, `NumbersSoFar`) or the list
  (`RecordsSoFar`).
* `NoAlarmInv`: if all requested files are intact and readable and nobody has
  touched one so far, no error has been found. Being all well is monotone backwards
  (what is well after a step was well before), which makes it inductive.
* `CountInv`: the records before the iterator have one verdict each, those behind it
  none, and the counters are the numbers of checked and failed records. Here the
  library's theorems on cardinalities are used.

### mhl hash and mhl file

| Theorem | States |
|---|---|
| `PipeTypeCorrect` | `Spec => []TypeOK` |
| `PipeListsWhatWasPrinted` | `Spec => []ListIsWhatWasPrinted` |
| `PipelineIsComplete` | `Spec => []PipelineSealsAll` |
| `CheckAnswersRight` | `Spec => []CheckIsRight` |
| `ProgressIsRight` | `Spec => []ProgressFits` |

* `TypeInv` has the shape of the walk while `mhl hash` calculates, and that an open
  file means that a type is left (`Working`); without it `NextType` would choose from
  an empty set.
* `ListInv` follows a line through the pipe: while the list can still be made there is a
  record for every line that was read (`RecordForLine`), from the moment the reader begins
  to make it the writer is done and the pipe is empty (`NothingMissing`), and the sums
  and sizes are those of the contents (`TrueSums`, `TrueStream`, `TrueSizes`) of all
  files nobody has touched.
* `PrintInv` is the loop invariant of the writer, like `SealInv` for `mhl seal`, with one
  line for every type of a file (`TypesSoFar`). Together with `ListInv` it yields that the
  pipeline is complete: neither program alone could tell.
* `CheckInv`: the file and the type of `-h` are settled before the file is read. That a
  documented way of giving a sum leads to its type (`DocumentedIsUnderstood`) is proved
  over all lengths of sums and prefixes.

* `ProgressInv`: the sizes the first pass adds up and those the second one reads are
  sums over walks that may meet the files of a folder in different orders. A visit of
  the walk is a slot (path, number in a sequence, file), and a slot has as many bytes as its
  file; the sums are the cardinalities of the sets of bytes of the slots that have been passed
  (`Passed`), times the types. `WalkPasses` and `CallbackPasses` say once for both passes
  that the walk passes a slot exactly when its callback returns, and that it skips some only
  when it finds an error. That no more is processed than announced is a statement about all
  slots, `DueFits`: those passed, and the one at hand, are some of them. Finiteness comes
  from the first pass, which ended. Of the types of the file at hand those count that are
  `DoneAndCounted`, all but xxhash64be; the theorem makes the same exception as the property
  (`Plain`).

### Parsing

| Theorem | States |
|---|---|
| `ParserTypeCorrect` | `Spec => []TypeOK` |
| `FirstEntryStays` | `Spec => FirstRecordWins` |
| `ParserReadsTheWhole` | `Spec => []ParsedAsWritten` |
| `SealedListsCanBeVerified` | `Spec => []SealedListsAreVerifiable` |

Lists have any number of records here, and records any number of elements in any
order (`Lists`); `ParseAssumption` adds that the values that stand for "nothing" and
"not usable" are no files and no sums.

* `TypeInv` contains the loop invariant of the inner loop (`HereRead`): the item has what
  the elements before the one at hand say (`ReadSoFar`): the last file, whether there
  is a size, the sum that decides for now (the first sha1, or else the last sum), and
  that nothing that was looked at is bad. `ElementRead` and `ElementRefused` are its two
  steps; `RecordRead` shows that at the end of a record the item is complete if and only
  if the record is well-formed, and then has what the record means.
* `ParseInv` is the loop invariant of the outer loop (`TableOf`): the records so far are
  well-formed and in the table, with what the first record of each file means. What
  ended the parser with an error is kept in it (a malformed record, or a reference).
* `SealInv`: a list made by `mhl seal` consists of `SealedElements` of the contents in
  `sealed`. `SealedRecord` shows that such a record is well-formed and which of its
  sums decides; with `ParseInv` this is the composition of writer and reader.

The least and the greatest of a set of places exist because < is well-founded on the
natural numbers (`LeastNumber`).

### Paths and the search for a list

| Theorem | States |
|---|---|
| `TypeCorrect` | `Spec => []TypeOK` |
| `SearchInvariant` | `Spec => []SearchInv` |
| `NearestListFound` | `Spec => []NearestList` |
| `SearchFailsRightly` | `Spec => []SearchFailsForAReason` |
| `NamesLead` | `Spec => []NamesLeadToFiles` |
| `RecordsBelong` | `Spec => []RecordsBelongToTheFolder` |
| `LookupRight` | `Spec => []LookupIsRight` |

Folders are any tree of any depth, and texts on the command line any sequence of items.
Assumed is what a file system guarantees: no name is empty, "." or ".."
(`NamesAssumption`); every folder but the root lies in one, and every file lies in a
folder and is none; where a folder is copied to, there is room for its subfolders
(`LocateAssumption`).

* The program computes with texts and the operating system walks folders; they disagree
  about "gone/..", which the text cancels and the system refuses. The lemma everything rests
  on is `AddedIsReached`: as long as the system gets anywhere and the program does not give
  up, both are at the same place. The folds over items are taken apart at the last item,
  and what holds for all texts is shown by a least counterexample.
* `Shape` and `Phases` say what the variables are in each phase of the program.
* `Disk`: every file lies in a folder, and the names of every list lead to files from the
  folder of the list. It is kept by copying, since names are relative and the files are
  copied with the list, which is why lists can be transferred at all.
* `SearchInv`: the loop has passed the folders between the path and the one at hand, and a
  folder that was passed was readable and without a list, or was changed meanwhile
  (`Searched`); where it ended with a list this is so for all folders below it (`Nearest`);
  where it ended without one each list lies above a folder that cannot be read, or in the
  root (`Reasons`). The properties speak of the end of the search only, from which nothing
  about the next turn follows.
* `Parsed` ties the keys of the table to the names in the list, and `LookedUp` the files
  reported as missing to the folders the texts lead to.

The proof found that `NearestList` was false for a path through a folder that does not
exist: for "gone/../clip" `lstat` fails, but the text is normalised and the search goes on
in a place the path does not lead to. The property now speaks of paths that lead
somewhere (`Plain`), and the run `locate` has such a path among its arguments. It is no
disagreement with the documentation, which does not say what such a path means.

### Sequences

| Theorem | States |
|---|---|
| `TypeCorrect` | `Spec => []TypeOK` |
| `SequenceInvariant` | `Spec => []IInv` |
| `NamesDistinct` | `Spec => []NamesAreDistinct` |
| `NumbersHaveRoom` | `Spec => []NumbersFit` |
| `NamesDocumented` | `Spec => []NamesAreDocumented` |

Patterns have any length, any number of marks and any numbers; the widths of the
three types are any numbers of values of which that of an int divides that of an unsigned
long (`SequenceAssumption`), as powers of two do.

* `IInv` says what every accepted pattern was read as (`Phases`), that the counter is the first
  number plus the number of names made, modulo the width of an unsigned long (`Counter`), that
  the k-th name is the name of the k-th number in this sense (`Made`), and that a refusal is
  for a number that does not fit. `NamesAreDistinct` relates names only; it needs to know of
  which numbers they are.
* A name determines its number as an int: the texts have the same start and end, so their
  middles are the same (`PartsTogether`), the same text has the same sign and digits
  (`PrintedDetermines`), and the digits of a number determine it (`DigitsDetermine`). Two
  numbers less than `IntMod` apart are different ints also where the counter starts again at 0
  (`RemaindersDiffer`). Without that limit the property is false: a range such as `##1--5`
  runs through all values of an unsigned long, and the names come again after every int had
  its turn. The property says so since this was found in the proof.
* `ParsedIs` is what `init_mhl_sequence` guarantees of an accepted pattern: the last number
  has at most as many digits as there are marks, or two dashes follow each other. With
  `PrintedFits` it gives `NumbersFit`.
* `DocumentedIsParsed`: the grammar of the help text and the code, with its stripped zeros,
  its search for '-' and its `strtoul`, come to the same numbers and the same end of
  the name.

Facts about recursive functions (`Quotient`, `Value`) are proved from the well-foundedness
of the natural numbers, each by the least number for which it would fail (`UpTo`).

### Only model-checked

`Termination` and `PipelineEnds` (liveness under fairness is out of reach of the
prover). Every invariant, every action property and the refinement that the runs check
are proved.

## 6. Not modelled

* Lack of memory, failing character conversion (also of a file name while a list
  is printed) and a failing clock.
* Permissions: a file without read permission is one that cannot be opened, which
  the code reports as missing. Folders that cannot be opened are modelled.
* `readdir` that fails in the middle, which the code takes for the end.
* The syntax of options; the text of the lists; messages and the buffer of the log,
  on which nothing but their own text depends.
* A sum that happens to be 0, which the code takes for an error; collisions of hashes.
* The parts of the code that only return ERRCODE_NOT_IMPLEMENTED: `input_verify.c`
  and the parse mode of `mhl file`.
* XML and its errors below the level of elements, which are libxml2's.
* Windows.

## 7. State of the plan

All commands and the functions between them are modelled; seal, verify, the creation
of lists, the pipeline of hash and file, the parser, the search for lists, and the names of
sequences are proved. What is left, in order of value:

1. Sealing, transferring and verifying composed, with a verdict for every file as the
   abstract specification; its parts are proved for each command alone.
2. The safety part of `Termination`: a measure that every step of a command lowers as long
   as nobody changes files.
3. The log: growth of its buffer and its second conversion.
