# Verification of ssu_lsp

The repository holds the programs of a Linux system programming course. Two of
them are applications with a logic of their own:

- `p2`: a finder of duplicate files. A shell (`ssu_sdup`) starts `fmd5` or
  `fsha1`, which search a directory tree for files of equal size and digest,
  print them as numbered sets, and let the user delete members of a set, or move
  them to the trash.
- `p1`: a finder of files with a given name and size, which then compares two of
  them line by line, or two directories entry by entry.

The directories `b1` to `b15` and `q3` are exercises of a page or less each.

This project models the logic of `p2` and of `p1` as a whole, and the exercises
on signals and processes, checks the models with TLC, and proves the most
important results with TLAPS.

## Inventory

| Component | Source | State | Operations | What makes it correct |
| --- | --- | --- | --- | --- |
| Interactive commands | `p2/ssu_find.c` 3-58, 133-171, 239-376; `print_result` in `ssu_find-md5.c` and `ssu_find-sha1.c` 302-343 | linked list of sets (`start`), each with a linked list of members; `list_leng`; locals `m_time`, `temp` of `option_command`; the disk | `d`, `i` with its answers, `f`, `t`, `exit`; printing and dropping of sets | no content is lost that the user did not give up; the newest copy stays; indices lead to members; only members of the chosen set are touched |
| Duplicate search | `ssu_find-md5.c` / `ssu_find-sha1.c` 12-300; `ssu_find.c` 60-131, 173-208 | the limits; the same list; the walks of two recursive functions | arguments, directory, stat, digest, compare, insert | all duplicates asked for and no others; no file listed twice; it ends |
| Trash | `ssu_find.c` 378-444 | `$HOME/.local/share/Trash/files` and `info`, shared with every other session | choice of a name, rename, information file | nothing in the trash is replaced that could be seen; every file can be restored |
| Shell | `ssu_sdup.c` 15-71 | process tree; the last line read | read, fork, exec, wait, exit | one process reads the terminal; no child is left; no deadlock |
| Line comparison | `p1/main.c` 570-958 | `result1`, `result2`, `block` | two matching passes, choice, blocks | matched lines are equal and in order; the blocks turn one file into the other; equal files are called equal |
| File listing and prompts of p1 | `p1/main.c` 36-250, 289-469, 960-974 | `file_list` and its length; the disk | find, two walks over the tree, choice of a row, exit | the second walk fits into what the first counted; the rows are what was asked for; the numbers typed lead to rows |
| Directory comparison of p1 | `p1/main.c` 471-568 | two sorted listings, `i`, `j`, `index`, `in` | merge walk, comparison of common files | each entry is reported once and in order, common files are compared with each other |
| Signal exercises | `b13`, `b14` | handlers, masks, pending signals, jump buffers | install, block, wait, jump, deliver | handlers exclude one another; no signal is lost; jumps lead home |
| Process exercises | `b11`, `b12`, `b15` | processes, the buffers of their output | fork, exec, wait, exit, print | children reaped; every line once |
| File exercises | `b1`-`b10`, `q3` | files | single system calls | as the system call |

How they interact. `ssu_sdup` and the program it starts share the terminal and
nothing else. `search_src_file` builds the list, `rearr_list` turns it round,
`print_result` drops what is no set and counts the rest, `command_sub` and
`option_command` work on it; `option_command` calls `trash`. In `p1`, `ssu_find`
builds the rows and calls `ssu_diff` or `ssu_dir_diff`, which calls `ssu_is_diff`
and `ssu_diff` for each common file. Everything on the disk is shared with
whatever else runs on the machine, and no call locks anything.

What is hard here: system calls that fail and are not checked; a list and a disk
that drift apart; two-phase walks (times first, removals second; count first,
fill second; scandir first, rename second) with other programs between the
phases; sets that overlap; long mixtures of commands, some cut short; index and
boundary values (0, 10, the epoch); children that do not become the program they
should be; signals in front of the wait they are meant to end. `PROJECT.json`
lists these hazards at their lines.

## Modules

`SetCommands` is the interactive phase. The state is the disk (`files`, `mtime`,
`bin` for the trash), the list (`sets`, a sequence of sequences of paths), the
copy of its length (`list_leng`), and the place and locals of `option_command`
(`pc`, `set_index`, `option`, `cursor` for `arrow_j`, `m_time`, `temp`).
`DeleteOne` is option d; `AskEach`, `AnswerYes`, `AnswerNo`, `AnswerOther` and
`AskDone` are option i; `KeepNewest`, `StatMember`, `StatDone`, `SweepKeep`,
`SweepRemove`, `SweepStop` and `SweepDone` are options f and t, one action for
each system call; `PrintResult` is `print_result` with `delete_list`. `Unlink` and
`Rename` may fail. `temp` starts with a value no one has written: any node of the
list or none. `removedBy` is a history variable.
`Interfere` is another program that deletes, creates or rewrites a file.

`Dedup` is the abstract promise of the same phase: groups of equal files, copies
the user names (`Name`), the decision for a whole group (`Decide`), the removals
that follow (`Discard`), groups that are none any more (`Prune`). `SetCommands`
contains the refinement mapping (`Promise == INSTANCE Dedup WITH ...`):
f and t decide when their first walk is over, and from then on all members but
`temp` are doomed.

`DupSearch` is the search. `ReadArguments` makes the limits: a number with a tenth
and a unit, refused when the number alone is below 1. Their product is a double, cut to
whole bytes by the cast to long: `Bytes` drops what is behind the point, and one byte more for the
limits that the constant `Inexact` names, whose product comes out below the whole number
(64.1 * 1000). Numbers with more than one digit behind the point are left out. The recursion over directories is flattened: `Tree`
lists the directories in the order of the recursion. The walk of
`search_src_file` (`outer`) and that of `search_file` (`inner`) are separate
states, each a directory and the positions of its files that are left of what
scandir gave; scandir (`EnterSrcDir`, `EnterDir`), lstat (`StatSrc`, `Stat`) and the
reading of a file (`HashSrc`, `Compare`) are separate steps. Digests of different
contents differ; what `create_new_node` and `hashcmp` make of equal ones is
modelled.

`DuplicateSets` is the interface of the two (`IsReport`): sets of two files or more, all of
one content, no file in two places. `Delivers` says that the search ends with it, and
`SetCommands` assumes it of the `Report` it starts from (`ReportAssumption`).

`Trash` is the trash directory with several sessions. Names are sequences of
character codes, so that the order of entries, the suffix `_n`, `itoa` and the
restart of the loop at index 1 can be modelled as they are.

`LineDiff` is the comparison of two files: `MatchFirst` and `MatchSecond` are one
iteration of the two matching loops, `Choose` the choice of the better matching,
`PrintLine` and `PrintLast` the blocks, `Return` the verdict of `ssu_is_diff`. What is printed
of a block (`Hunk`) is its header line and the lines of the second file below it. The header line
is a sequence of commands (`Header`), since that of a single deleted line has two. The
loops of `ssu_diff` and `ssu_is_diff` are the same, `caller` says which runs.

`FileFind` is the command find of `p1`. Both walks (`get_file_list_leng` and
`get_file_list`) are the same steps, scandir for the name (`ScanName`), stat
(`CountMatch` or `FillMatch`) and scandir for the subdirectories (`ScanDirs`), with
`walk` telling which one runs and `todo` for the recursion. `CountDone` is the malloc
of the rows between them, `Choose` the sub-prompt with `atoi` of an int that wraps.
Two values of `pc` stand for undefined behaviour: `overrun`, a row written behind
the allocated ones, and `undefined`, an unset pointer or a null stream used.

`DirDiff` is `ssu_dir_diff`, one action for each turn of a loop and each branch;
`ssu_is_diff` is the constant `Differ`, its verdict. Files that it calls equal are
dealt with as "same", for which nothing is printed.

`Signals` has thirteen of the programs of `b13` and `b14` as data, a record of routines each of
which is a sequence of calls, and the kernel and the C library as actions: `Install`, `ChangeMask`,
`Wait`, `SetJump`, `LongJump`, `Return`, `Deliver` and so on. The programs are the constant
`Program`, which the run sets to `Exercises`; what the kernel asks of any program is
`ProgramAssumption`. `stack` holds main and the handlers that interrupt it. A record that sigaction
reads before the program has written it is any of its values.

`Processes` has twelve of the programs of `b11`, `b12` and `b15` in the same form,
with the kernel's `Fork`, `Exec`, `Wait` and `Exit`, and the buffer of standard
output that fork copies and exec drops. `fork2` and `fork3` write every character with a call
of its own; the first and the last one of a row stand for the row, so that rows come
out mixed here as they do there.

`SsuSdup` is the shell: `Read`, `ShellFork`, `ShellExec`, `ShellWait`, `End` for each process,
`Finish` for the programs. A child whose exec fails goes on behind it, as a shell. What has
`Shell` in its name here would otherwise have one with `Processes`: `ProcessProofs` extends both.

The `MC` modules give the constants values; `MCDirDiff` also gives the initial
listings one by one, since `Seq` cannot be enumerated. The eight modules that end in
`Proofs` hold the theorems. An operator
whose name has an underscore (`StatMember_LaterWins`) is the definition it is
named after with a plausible mistake in it; it is part of no specification, and
shows, put in the place of the right one, that a property can fail.

## Runs

| Run | Instance | Shows |
| --- | --- | --- |
| `SetCommands_alone` | two sets (three and two files), times 0 to 2, LIST_IDX 0 to 3 | `ContentKept`, `KeepsPromise`, `NewestStays`, `OnlyChosenTouched` with the program alone on its directory, unlink and rename failing at will |
| `SetCommands_shared` | one set of three, times 0 to 2, another program at work between any two steps | `IndexLeadsToSet`, `SweepLeavesCandidate`, `SweepEnds` |
| `Trash_two` | two sessions (three and two files, names that collide), one of them or both running, eight initial trash directories | `ReplacedOnlyUnseen` always; `NothingLost`, `InfoTellsOrigin` for a session alone |
| `DupSearch_search` | five files in three directories, one of another extension, four contents of sizes 0, 1000 and 64100, limits ~, 64100, 0.5MB and ~, 1KB, 64.1KB, one file changed by another program | `ListedOnce`, `SearchEnds` always; `Delivers` while nothing was changed, `Complete` then but for 64.1KB |
| `LineDiff_plain` | all pairs of files of up to three lines out of three, none blank | `Matched`, `EditsLeadToSecond`, `EqualNotDifferent` |
| `SsuSdup_chain` | four processes | `OneAtWork`, `AllReaped`, `SomeoneReads` |
| `FileFind_walks` | all trees over eight paths in which the name occurs as a file and as a directory, in the root, twice nested, in an excluded and in an unreadable directory; two start files, two start paths; three paths changed by another program | `Complete` while nothing was changed; `ChosenListed`, `FindReturns` always |
| `DirDiff_merge` | all pairs of directories with up to three names, each a directory, an empty file or one of two others; either scandir may fail | `EachOnce`, `InOrder` |
| `Signals_sent` | thirteen programs, two of SIGINT, SIGQUIT, SIGUSR1 from outside at any time | `ShowsAsSaid`, `Excluded`, `JumpsHome`, `EndsWhenTold` |
| `Processes_all` | twelve programs, up to five processes, a terminal or a file | `NoneLeft`, `ShownOnce`, and that no process waits for good (deadlock is checked) |

Why the bounds are enough. A set of three members has a first, a middle and a
last one, which is what list surgery and cursors tell apart; the second set of
`SetCommands_alone` is there to be left alone. Three modification
times give the value 0 that the code cannot see, a tie, and an order. Two sessions are enough for every
race on one directory entry; three names, one of them in front of "." in the order
of the directory, give a collision, a second collision with the suffixed name, and a
first entry other than ".". Four files of one extension give two sets of different
sizes; the contents include two of one size, an empty one, and one beyond a limit.
Three lines are enough for a match to cross another. Four processes give a chain
of two shells left by failed execs with a program at the end. In `FileFind` the
volatile paths are a candidate at the top, a directory on the way to another
candidate, and that candidate: each can appear, vanish and change its size or kind
between the walks; an int of eight values wraps at the number 4, and the typed numbers
reach 9. Three names make every way two listings can interleave around a match. Two
signals are one in a handler and one while it is blocked. `wait3`
with failing execs has four processes, more than any other program, so five are never all used.
Bounds named in the modules: `MaxLines` (length of files), `MaxTail` (the numbers
`itoa` is tried on; scans that need a higher one are left out), `MaxSent`, `MaxProcs`,
`IntValues`, `Typed`. Of the 20 turns of the loop in `sigsetjmp3` two are kept.
`CHECK_DEADLOCK` is off where the program really ends; `Processes` has the step
`Rest` for its end and checks it.

Fairness. `SetCommands`, `FileFind` and `Signals` assume weak fairness of the steps
that need no input (`Run`), since a scheduled process goes on and a clock runs down;
none for the user, who may stop typing, nor for those who send signals.
`DupSearch` assumes weak fairness of the search, none of the
other programs. `SsuSdup` assumes weak fairness for each process that is not
reading the terminal; `fmd5` and `fsha1` may read lines for ever.

### What the code does against its own comments

Two runs end in a counterexample.

| Run | Property | The code |
| --- | --- | --- |
| `DupSearch_zero` | `Complete` | the digest is copied by `strcpy`, up to its first zero byte (`ssu_find.c:93`), and equal files are not reported |
| `DirDiff_namesakes` | `ComparesNamesakes` | `dir1[i]` and `dir2[j]` have one name, `dir2[i]` is opened (`p1/main.c:531`) |

The models contain these deviations too, without a run for each:

- `d 0` skips the walk that would find a member, unlinks a path nobody wrote and uses a
  pointer nobody set (`ssu_find.c:255`; `DeleteOne` leads to the state `crashed`, and
  nothing is claimed of the file);
- a limit is a double that the cast to long cuts: 64.1KB becomes 64099, and files of 64100
  bytes are left out (`ssu_find-md5.c:76-77`; `Bytes` and `Inexact`; `Complete` excepts such
  limits, and fails in `DupSearch_search` without the exception);
- the walk spells a file of the root with two slashes, so that `strcmp` does not know the
  start file there and it is listed as a match of itself, against the comment at
  `p1/main.c:382` (`p1/main.c:180-187`, `225-233`; `NotStartFile`; `Complete` says that the rows
  are those wanted and this one);
- an `else` is missing: the deletion of line 1 alone is headed "1d01,1d0"
  (`p1/main.c:915-917`; `Header`; `EditsLeadToSecond` reads the last command of the line);
- print_result ends the program at the first listed file that is gone (`ssu_find-md5.c:325`);
- f deletes the whole set when the time of every member is 0 and `temp` is none of
  them (`ssu_find.c:313`); an unlink that fails still takes the file off the list
  (`ssu_find.c:265`);
- the name in the trash is chosen from a listing that is old when rename uses it
  (`ssu_find.c:396-417`); `itoa` turns 10 into 0 (`ssu_find.c:435`), which the
  rescan of the directory makes harmless;
- `hashcmp` reads 20 bytes of an MD5 digest of 16 (`ssu_find.c:202`); `strstr` finds the
  first of two equal extensions (`ssu_find.c:70`); no run that passes has either.
  0.5MB is refused (`ssu_find-md5.c:31`);
- with blank lines, equal files may be called different and a matching may
  pair unequal lines (`p1/main.c:622`, `p1/main.c:803`); a file and one with more lines count as
  equal (`p1/main.c:885`); the choice by numbers of zeros can make the result worse
  (`p1/main.c:707`);
- a file that appears between the two walks makes the second one write behind the
  rows (`p1/main.c:374`, the state `overrun`); get_dir_size frees an unset pointer
  below a directory it may not read (`p1/main.c:139`);
- `ssu_dir_diff` stores both streams in `fp1` and gives `ssu_diff` the closed `fp2`
  (`p1/main.c:539-546`);
- `sigaction3` sets `sa_flags` behind the call that reads it, `sigsetjmp3` never; a
  signal in front of `pause` does not end `sigaction3`; longjmp leaves SIGINT blocked in
  `sigsetjmp1`, and a SIGINT in front of its setjmp jumps to a buffer that is not set (the state
  `undefined`; `JumpsHome` is about `sigsetjmp2` and `sigsetjmp3` only); `fork1` shows a line
  twice in a file.

## Proofs

All for any values of the constants that satisfy the named assumptions.

`SetCommandsProofs`: `TypeCorrect` (`SharedSpec => []TypeOK`) and `IndexIsSafe`
(`SharedSpec => []IndexLeadsToSet`). The inductive invariant `TypeInv` adds to the
types where each `pc` allows `set_index` and `cursor` to be, and that the count is
that of the list at the prompt, which is not true while a command runs. The
lemma `RemoveAtProps` says what taking one element out of a sequence does.

It goes on with `PromiseKept` (`Spec => KeepsPromise`), the refinement, with one
lemma for each action, from an inductive invariant: no file is listed twice; a
listed file is still on the disk with its content; during the first walk `m_time`
bounds the times seen and `temp` has it; during the second walk what the cursor
has passed is the candidate.

`GroupsAreKept` (`KeepsPromise => []Promise!GroupKept`) is about `Dedup`: whatever
implements it keeps the promise. Alone, `GroupKept` is not inductive; the invariant
says that every group found is in one of three situations: partly on offer, with
everything on offer stored and everything else named by the user; or safe, with a
stored copy no later step can reach; or spent, all its copies named or undated. It needs
disjoint groups, which `ReportAssumption` gives. `ContentIsKept` (`Spec => []ContentKept`)
follows from `PromiseKept` and `GroupsAreKept`.

It ends with the action properties. `OnlyChosen` speaks of every step that changes the list
or takes the program to another place, the rename that ends the program included: what it removes
is of the set chosen, and all other sets are as before. The run checks it with the program alone and
two sets; next to other programs it is this theorem that shows it. `CandidateIsLeft` and `OnlyChosen` are about
`SharedSpec`: with other programs at work nothing of the above about the disk is
true; what is left is that the candidate is a member of the chosen set once a time
above 0 was seen, and that what the cursor has passed is the candidate. `NewestIsKept`
(`Spec => NewestStays`) needs more: during the first walk `temp` is the first of the newest
members passed, during the second it is still in the set, no member is newer, and those
in front of it are older. Both hold on when another member is taken out, since that changes
no order.

`DupSearchProofs`: `TypeCorrect`, `EachListedOnce` and `DeliversSets`. `search_file` does
not test whether a file is a member of its node already; that it adds none twice is
due to the order of the walk. The invariant says so: no member is still ahead of
the inner walk, the node at hand shares no file with the list, and,
while nothing was changed, all members have the content of their node. The lemma
`InsertAtProps` says what `add_node` does to the list. `DeliversSets` discharges what
`SetCommands` assumes of its `Report`: together with `PromiseKept` it covers `p2` from the
search to the last command.

`NothingLeftOut` (`Spec => []Complete`) is the other half: when the search is over,
every file that is wanted and has a twin is in the set of its content. It is proved for
`Plain` constants, which say what the code needs for it: digests that `strcpy`
copies whole, the whole node and not the one that MD5's shorter digest leaves, a smallest size
in whole bytes (the code cuts 1.5 to 1 and so admits a file of one byte,
`ssu_find-md5.c:76`), an extension that a name has no more than once (`ssu_find.c:70`). `Complete` itself
is about limits whose product is exact. The invariant `FullInv` says that a directory keeps only names of the extension (`Sieved`),
that what the outer walk has passed is in a set that has all its twins, or has no twin
(`Settled`), and that what the inner walk has passed is a member of the node if it is a twin
of its file (`Gathered`).

`TrashProofs`: `TypeCorrect`, `OnlyUnseenReplaced`, `AloneLosesNothing`, `OriginIsTold`,
for any number of sessions, names and contents of the trash. The loop that restarts
at index 1 never compares the first entry again. The heart of the proof is that this does
no harm: after a collision the name without a tail is in the directory, and a name with
a tail comes behind it (`TailComesLater`), so the first entry is no candidate. `itoa` is a
recursive function; that it has a value for every number and that the value is a string of
digits is proved with the least-element principle (`WFMin` of
`WellFoundedInduction`), since the induction theorems of the library cannot be instantiated.

`DirDiffProofs`: `TypeCorrect`, `EveryEntryOnce` and `ReportsInOrder`, for listings of any
length. The invariant says how far each listing has been reported at each `pc`, and
that everything in front of that has its report.

`ProcessProofs` is about the shell and the exercises on processes, for any number of processes.
The shell: `ShellTypeCorrect`, `OneWorker` and `NoChildLeft` (`OneAtWork` and `AllReaped`).
The invariant `Chain` says that every process but `Main` has a parent that waits
for it, and nobody has two children; without it a step of `ShellWait` could free a parent with
another child still at work. `NeverAllWait` and `UserIsAskedSoon` follow from it: behind
each step there is exactly one process at work, and from one such process to the next
`StepsToGo` falls, from four at most, until it is the user's turn.

The exercises: what is known of a process follows from its place in its program. `Prints` names
the place of each line, `Bound` how many children a process may have at a place, `Clear` where
its buffer is empty and `Outward` where its output still leads out. `Checked`, `Counted` and `Voiced` say
what these tables ask of one call, `Calls_fork1` to `Calls_syslog` show it for every call of the
twelve programs, and the lemmas `...Effect` say what the kernel's actions do with a call.

- `TypeCorrect`: `TypeOK`, which says that no process runs past the end of its block.
- `ChildrenWaitedFor`: `NoneLeft`. It speaks only of processes that have ended, and their children
  depend on where they were; `FamilyInv` bounds the children at every place, also behind a
  `wait` that has failed ("told") and in the children that go on as parents.
- `LinesShownOnce`: `ShownOnce`. It speaks only of the end; the invariant `VoiceInv` accounts for
  every printed line before that: it has come out, or is in one buffer, once (`Accounted`). It
  needs that a process is behind all it has printed (`Printers`), where buffers are empty and
  outputs open (`Buffers`, `Open`), that `wait4` reports no child twice, since what wait has
  taken it does not find again (`Reports`), and what a child of `wait1` can do behind its
  division (`Strays`).
- `NobodyWaitsForGood`: no deadlock. A child has a higher number than its parent (`Ranked`), so the
  youngest process that runs waits for none that runs.

`LineDiffProofs`: `TypeCorrect` for all files, and `MatchesInOrder` and `EqualIsSame` (`Matched`
and `EqualNotDifferent`) for files of any length that have no blank line (`Plain`): only there the
code has them. The invariant says that a pass at line `i` has a matching of the lines in
front of `i` with lines in front of `start`, so that each new pair comes behind all the
others, and that in equal files `start` is `i`. The exchange of `Choose` takes a greatest
element, whose existence is again due to `WFMin`.
`EditsAreRight` (`EditsLeadToSecond`) says that the last command of every header line, with the
lines below it, turns the first file into the second; the header line of a lone deletion has
the same command in front once more, and is as printed no edit script. Its invariant `BlocksInv` says that the files are the same between two blocks
(`Bridged`), and behind the last block up to the line at hand (`Caught`). That blocks of this form
rebuild the second file is a lemma about `Rebuilt`.

`FileFindProofs`: `TypeCorrect`, `OnlyListed` (`ChosenListed`) and `FindsAll`
(`Complete`), for directory trees of any finite size. `ShapeInv` holds whatever other programs
do: the first row is the start file, and the others are paths of its name. `WalkInv` is about a walk
over a tree nobody changes: what is still to be entered is reached by the walk and no
part of another (`Reach`, `Apart`); the count is the number of files passed that the walk finds
(`Found`: those wanted, and the start file if it is in the root); the rows are those, in the
order of the tree, and lie in front of what is still to be
entered (`Filled`, `RowsBefore`). It is needed because the second walk writes into
rows that were allocated for the count of the first: only if both pass the same files is each row
written, and none behind the last. The assumption `PathsAssumption` says that the
paths are finitely many and closed under taking the directory. The sum over a directory in
`get_dir_size` is a fold; that it has a value is proved by the least-element principle.

`SignalsProofs` first proves `TypeCorrect` about the kernel, for any programs that are well-formed
(`ProgramAssumption`: calls follow those that do not end a routine, jumps stay in their routine,
buffers are set in main, only handlers return) and any number of signals. Its invariant `KernelInv`
adds that a frame waits only at a call that waits and that every buffer leads back to a place of
main; without the first a return could move a routine past its end. The lemmas `PlainStack`,
`ReturnFrames`, `ChangeMaskStack`, `LongJumpStack` and `DeliverStack` say what each kind of step
does to the stack. On them rest the theorems about the exercises (`Program = Exercises`), with one
inductive invariant for each program: `HandlersExcluded` from `Apart3` (both handlers of
`sigaction3` run with the signal of the other blocked, so that all frames above main are of one
handler, however many there are) and `Region` (SIGINT is blocked in the region of `sigsuspend2` but
for the wait); `JumpsGoHome` from `Jumps2` and `Jumps3` (a buffer is set before anything that leads
to its longjmp, with the empty mask of main); `ShownAsSaid` from `Region`, `Held` and `Jumps2` (the
alarm of `sigsetjmp2` runs or rings only while `ssu_func` waits for it, so handlers nest only as the
comments say).

Only model-checked: liveness (`SweepEnds`, `SearchEnds`, `SomeoneReads`, `FindReturns`,
`EndsWhenTold`), since the prover has neither fairness nor ENABLED. For four of them the safety half is
proved: every step of the process leads nearer to the end, and no step of anybody else leads back.

| Liveness | Theorem | What becomes less |
| --- | --- | --- |
| `SweepEnds` | `SweepAlwaysAdvances` | the members that the two walks have still to pass (`ToDo`) |
| `SearchEnds` | `SearchAlwaysAdvances` | what is ahead of the outer walk, then the steps of one file (`Phase`), then what is ahead of the inner walk (`Forward`) |
| `FindReturns` | `WalksAlwaysAdvance` | the second walk before the first, then the paths at or below what is still to be entered (`Unvisited`), then the steps of one directory (`Turn`) |
| `SomeoneReads` | `UserIsAskedSoon` | the steps to the next prompt (`StepsToGo`) |

All but the last hold with other programs at work between any two steps. In `WalksAlwaysAdvance`
this rests on `TodoApart`: what is still to be entered never lies below what was entered, also if
directories appear. What TLC adds is that such a step is always possible until the end.
`EndsWhenTold` is left to TLC as a whole: what a program has still to do depends on where each of
the thirteen is, and on the signals that still come.

## Not modelled

- Memory outside arrays (more than three words in a line, paths, lines or lists
  beyond the buffers), `start->next` before its first assignment, and failing malloc.
- Input through a pipe, and what a shell makes of the end of its input beyond
  "some command".
- In the search: the silent return on EPERM, directories that come and go, links.
- Printing, times and formatting; the usage text of `ssu_help.c`; the notes of
  `p1` on a missing newline at the end of a file.
- `vfork`, whose child runs in the memory of its parent; `execv2` and `execve`, which do
  what `execl1` does; `getpid`, `getrlimit`, `setjmp` and `sigemptyset`, which only print.
- The file exercises `b1` to `b10` and `q3`: straight-line programs of a few system
  calls, whose behaviour is that of the calls.

## Plan

Everything planned is done, in this order: `SetCommands` with `Dedup` and the
refinement; `DupSearch`; `Trash`; `LineDiff`; `SsuSdup`; `FileFind`; `DirDiff`; `Signals`;
`Processes`; the proofs, of each component's types and invariants first, then of the refinement
and the action properties, then of the steps that lead to the liveness properties. What could be
added: `Trash` as the implementation of the `bin` of `SetCommands`.
