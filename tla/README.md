# pipex in TLA+

`pipex infile cmd1 ... cmdn outfile` does what a shell does for
`< infile cmd1 | ... | cmdn > outfile`; `pipex here_doc LIMITER cmd1 cmd2 outfile`
does `cmd1 << LIMITER | cmd2 >> outfile`. The program is about 520 lines of C in
`src/src` on top of a general library, `src/libft`. This directory models the
program: processes, descriptor tables, pipes, `fork`, `waitpid` and the temporary
file, with every system call that may fail; the memory of its struct; the reading of
a here_doc; and the functions of `libft`. The properties are checked by TLC on small
instances. The safety properties of pipex itself, of its input and of the part of libft
that works on memory, strings and lists are also proved with TLAPS: for pipelines of any
length, texts of any length, any size of pipes and buffers, any number of here_doc runs,
and whatever fails.

## Inventory

| Component | State | Operations | Interacts through |
|---|---|---|---|
| Parent (`pipex.c`, `pipex_children.c:77-104`) | `pipe[2][2]`, `child_pids`, `nb_cmds`, `i`, its descriptor table | two `pipe`s, fork of the first, middle and last command, reuse of a pipe slot after each fork, closing of all ends | descriptors inherited by the children |
| Children up to `execve` (`pipex_children.c`, `pipex_here_doc.c:40-62`, `pipex_parsing.c:118-138`) | a copy of the struct and of the descriptor table | open the file, `dup2` to the streams, close the pipes, look the command up, `execve`, or leave through `ft_cleanup_exit` | the pipes; TEMP_FILE; the exit status |
| Waiting and reporting (`pipex_error.c`) | `child_ret`, `err`, `i` | `waitpid` in the order of the pipeline, one verdict, messages | the statuses of the children |
| Start-up (`pipex_utils.c:22-79`, `pipex_parsing.c:16-114`) | `mode`, `nb_cmds`, `cmds`, `cmd_args`, `path` | validation of the arguments, allocation, splitting of the commands and of PATH | the struct every child copies |
| Cleanup (`pipex_utils.c:81-108`) | the pointers of the struct, TEMP_FILE | free, unlink, exit with eight bits | TEMP_FILE is shared by all processes |
| here_doc input (`pipex_here_doc.c:15-38`) | TEMP_FILE | create or truncate, copy lines up to the delimiter, close | standard input through `ft_get_next_line`; TEMP_FILE |
| `get_next_line` | one static buffer per descriptor | the next line; reads of `BUFFER_SIZE` bytes | called by here_doc input; shares standard input with the commands |
| libft: strings, numbers, memory, characters | none | pure functions, some with allocations | called by everything above; `ft_split` and `ft_strncmp` by start-up |
| libft: formatted output | none | `ft_printf`, `ft_printf_err`, `ft_fprintf` | the messages, and the lines of TEMP_FILE |
| libft: linked lists | the caller's nodes | make, add, map, clear, walk | not used by pipex |

What is hard here:

- *Descriptors.* Two slots serve any number of pipes, chosen by parity. A slot that
  is renewed one turn too early or too late joins the wrong commands; one write end
  that stays open anywhere means that a reader never sees end of file.
- *Order.* Children run, fail and end in any order, while the parent waits for them
  in the order of the pipeline and folds their statuses into one verdict.
- *Failure.* `pipe`, `fork`, `malloc`, `open` and `execve` can fail, and the program
  does not look at all of their results: the `pipe` in `ft_malcolm`, the forks after
  the first, the `ENOMEM` of `ft_parse_cmds`.
- *Sharing.* TEMP_FILE is read by the first child and unlinked by whichever child or
  parent leaves through `ft_cleanup_exit`.
- *Text.* `get_next_line` keeps what it read too much for the next call, which may be
  for another descriptor; its reads return any number of bytes; the delimiter is
  compared up to its own length.
- *Memory.* Every pointer of the struct may be unset, NULL or allocated when
  `ft_cleanup_exit` frees it, and loops that free an array stop at its first NULL.
- *Boundaries.* The smallest int, products that overflow, regions that overlap, bytes
  above 127, sizes that are larger or smaller than what they bound.
- *Conflation.* `errno` of a failed `open`, the exit code of a command and the `-1`
  of `execve` all become the same eight bits.

What makes each part correct: the parent and the children, that every command is
joined to its neighbours and to nothing else (`Plumbing`) and that end of file can
reach everybody (`NoStrayEnds`, `HangsOnlyOnLostPipe`); waiting, that nobody is left behind
(`NoOrphans`), that the verdict is the one the statuses call for (`ExitTruth`,
`VerdictSticks`) and that what failed is reported under its own name (`ReportTruth`);
start-up and cleanup, that no more stays allocated than the code never frees (`LeftBehind`),
nothing is read before it is set and the arrays have room (`AllSet`, `StructInv`), that a
pipeline that starts has its commands and runs each from the first directory that has it
(`FindsFirst`), and
that TEMP_FILE does not outlive the run (`TempGone`) nor hand its text to another
(`OwnText`, `NoStaleLine`, `FileInv`); here_doc input, that TEMP_FILE is the text in front
of the delimiter (`TempIsText`), from lines that are whole and in order (`LineInv`,
`NothingLost`, `LinesWhole`, `StreamSpec`); libft, that each function does what its name
says at its boundaries too; the whole, that what
arrives in the outfile is the input (`InOrder`, `Conserved`, `Delivered`) and that pipex keeps the
contract a user sees (`Contract`).

## Modules

| Module | What it models |
|---|---|
| `Descriptors` | the descriptor table of a process: lowest free number, `pipe`, `dup2`, `close`, a chain of `close`s that stops at the first failure |
| `ExitStatus` | `ft_errno_127`, `ft_errno_1_2_13` and the order they are called in, the truncation of `exit`; and, next to it, the verdict without the loop (`Verdict`) |
| `Pipex` | the parent and its children as processes that interleave, from `main` to `exit`; the type invariant and the safety properties |
| `PipelineContract` | what a user relies on: commands start in order, end, and pipex answers once with the verdict |
| `PipexContract` | the refinement mapping from `Pipex` to it, and the fairness |
| `Pipeline` | `Pipex` with data: commands that read and write through the descriptors they were given, pipes of bounded capacity, end of file, SIGPIPE |
| `PipexInvariants` | the inductive invariants |
| `PipexClaims` | three statements of the code about itself that do not hold |
| `PipexProofs`, `PlumbingProofs` | theorems about `Pipex`, and that it implements `PipelineContract` |
| `PipelineProofs` | theorems about the data in `Pipeline` |
| `GetNextLineProofs` | theorems about `GetNextLine` and `HereDocInput` |
| `HereDocProofs`, `StartupProofs` | theorems about the here_doc runs, and about the struct |
| `LibftProofs` | theorems about the memory, string and character functions, `ft_split`, `ft_calloc` and the check of a base |
| `ListProofs` | theorems about the linked lists |
| `Startup` | the memory of one process, parent or child, from `ft_init_env` to `ft_cleanup_exit` or `execve`: which pointer of the struct is unset, NULL or set, which blocks are live, and the search of PATH |
| `LineStream` | what a caller of `ft_get_next_line` relies on |
| `GetNextLine` | `ft_get_next_line` with its static buffers, and the refinement mapping to `LineStream` |
| `HereDocInput` | `ft_here_doc_inp`: composes `GetNextLine` with the loop that fills TEMP_FILE |
| `HereDoc` | several here_doc runs in one directory that share TEMP_FILE, any process killed at any moment |
| `CStrings`, `CNumbers`, `CMemory`, `CChars`, `CPrintf` | the functions of libft as operators, and what each promises |
| `CLists` | linked lists on memory that is used again |
| `Libft` | a caller of libft: one call of a function with any arguments, or a sequence of calls on a list |
| `MCPipex`, `MCStartup`, `MCGetNextLine`, `MCHereDocInput`, `MCLibft` | values for model checking |

How `Pipex` follows the code. `main` is the program point of the parent; every action
of the parent is the code between two points at which another process can see a
difference: one for each `pipe` of `ft_pipex_init`, one for each of
`ft_validate_args`, `ft_parse_cmds`, `ft_grab_envp`, `ft_here_doc_inp`, one for each
`fork`, one for the body of `ft_malcolm` behind the fork (`RenewPipe`), one for
`ft_close_all_fds`, one for each turn of `ft_wait_error`, and `Finish`. A child has the
points *forked*, *exec* (its streams are set up), *run* (the command runs), *zombie* and
*reaped*. The steps of a child function between `fork` and `ft_search_cmd` touch only
its own table and are one action; a child has its own `cpipe`, the copy of `pipe[2][2]`
at the moment of the fork, which is what the parity is about. A descriptor table is a
function from numbers to open files, and a pipe end is known by the number of its
pipe, so that `pipe[1][1]` of two children can be seen to be the same or another pipe.
`fate` is a history variable: it says why a child ended and no action reads it.

The data of the program are abstracted to what the control depends on: `flag` is
whether `argv[1]` passes `ft_strncmp(.., "here_doc", 8)`; `parsed` is how many commands
`ft_parse_cmds` got through; `path` is a usable list, an empty one or NULL; whether a
command is found is a choice. Mutants of definitions stand before the definition they
change, marked as such.

The constant `Faults` of `Pipex` says what may go wrong in an instance: `pipe` and `fork` return
-1, `malloc` returns NULL, `empty` is a command argument without a word, `nopath` an
environment without PATH or a PATH without a directory, `nocmd` a command that is not
found, `noexec` one that `execve` refuses, `signal` a command that is killed.
`InErrs` and `OutErrs` are the errors with which the files may fail to open. Running
out of descriptors is no constant: `MaxFd` bounds the table and `EMFILE` follows.

How `Pipeline` follows the code. It EXTENDS `Pipex` and conjoins to each step of pipex what
happens to the data: only the `open` of the outfile changes any (`PipexChildStep`). The
commands are filters that read through descriptor 0 and write through descriptor 1, whatever
these are bound to; the only facts about the input are its length and its order, so the
items are numbered and a part of it is a `Stretch`. `taken` and `drained` are history
variables. `PipeLost`, in `Pipex`, says that the pipe behind a command that was started was
refused and nobody noticed.

How `Startup` follows the code. Each function called by `ft_pipex_init` is an action, each
turn of the loop of `ft_parse_cmds` another. A block of memory is known by the field its
pointer is kept in and the indices into it, so that the arrays, the words and the
directories of PATH can be told apart; `ft_free_2d` and `ft_free_3d` free the entries in
front of the first NULL. `ft_alloc_t_pipex` tries all six allocations before it looks at
any, and each may fail (`SUBSET Six`). Freeing a pointer that was never set is undefined:
`CleanupExit` either goes through or crashes. A process that has come to *run* is the parent
and goes on to `ft_cleanup_exit` (`Leave`), or is the child for one command on its own copy of
the memory: it cannot open its file (`OpenFails`), or searches PATH (`SearchCmd`) and comes to
`execve` (`Exec`). Two blocks are kept outside the struct: the name that `ft_search_cmd`
returns, which nobody frees when `execve` fails, and the look-ahead that
`ft_get_next_line` keeps in its static buffer behind the here_doc input (`Input`). `Pipex` has
the same calls with the descriptors and processes around them and without the blocks.

How `GetNextLine` and `HereDocInput` follow the code. A string is the sequence of the
positions its bytes have in the input, so that a byte lost, repeated or moved can be
seen; what is equal in content is equal through `input`. `CString` is what the C string
functions see of a chunk with a zero byte in it. One call is the actions `Call`, `Read`
for each turn of `ft_read_if_no_nl`, `LoopDone` and `Split`; a `read` returns any number
of bytes up to `BUFFER_SIZE`, 0 at the end (and, for a terminal, before it), or -1; each
`malloc` may fail; a NULL given to `ft_strchr` is `Crash`. `HereDocInput` EXTENDS
`GetNextLine` and takes its actions as its own (`Answering`).

How `HereDoc` follows the code. A run is its parent, its first child and its last child,
the processes that touch TEMP_FILE; the rest of a run is in `Pipex`. `name` is the
directory entry, `file` the contents, and a process keeps the file it has opened when
the name is gone. A line is the number of the run it belongs to and its place. Every
process that leaves through `ft_cleanup_exit` unlinks whatever TEMP_FILE names then, also a run
that fails before it has opened the file (`GiveUp`) or at its first fork (`ForkFails`).
`alone` and `before` are history variables; a run is alone if no process of another run that
has opened TEMP_FILE is alive while it lives.

How the libft modules follow the code. A function without state is an operator from its
arguments to what it returns and writes; a string is a sequence of bytes with the zero
behind its end, an allocation that fails is a parameter, signed numbers have `Width` bits
(and twice that for `long`) and wrap, a memory is a function from addresses to bytes.
What each function promises stands as a predicate at the end of its module and uses other
means than the function: a maximal run of bytes, a buffer between two regions, the value
of a sequence of digits. `Libft` is the caller: `args` is one call with any arguments, or
"lists", and then the actions of `CLists` follow one another in any order; the loops of
`ft_lstmap`, `ft_lstclear` and `ft_lstiter` take one turn at a time, and `malloc` hands out
freed addresses again.

## Runs

| Run | Config | Instance | What it shows |
|---|---|---|---|
| `faults` | `Pipex_faults` | up to 3 commands, here_doc, all faults, fair | `TypeOK`, `NoOrphans`, `ExitTruth`, `ReportTruth`, `TempGone`, `VerdictSticks`, the inductive invariant `AnswerInv`, and `Contract`: refinement of `PipelineContract`, liveness included |
| `long` | `Pipex_long` | 2 to 5 commands, `fork` and `pipe` may fail | `Plumbing`, `NoStrayEnds` and the inductive invariant `PipexInv` |
| `fdlimit` | `Pipex_fdlimit` | table of 7 descriptors: the pipes take what the streams leave | `PipexInv` when every `open` fails with EMFILE |
| `data` | `Pipeline_data` | 2 to 4 commands, 2 items, pipes of 1 item, commands that stop early or are killed, `fork` and `pipe` may fail | `InOrder`, `Conserved`, `Delivered`, `HangsOnlyOnLostPipe` |
| `memory` | `Startup_memory` | up to 3 commands of 0 to 2 words, 3 directories, every malloc may fail; parent and every child | `LeftBehind`, `FindsFirst`, `AllSet`, `StructInv` |
| `lines_stream` | `GetNextLine_stream` | 2 descriptors whose calls are mixed, all texts of 3 bytes, all faults, fair | `StreamSpec`: refinement of `LineStream`, liveness included |
| `heredoc_text` | `HereDoc_input` | all texts of 5 bytes, of 4 with zero bytes, all faults, failing writes, fair | `LineInv`, `NothingLost`, `LinesWhole`, `EndsClean`, `TempIsText`, `LookAheadBounded`, `InputEnds` |
| `heredoc_runs` | `HereDoc_runs` | 2 runs of up to 2 lines, killed or not | `OwnText`, `NoStaleLine`, `FileInv` |
| `libft` | `Libft_calls` | see below | one property for each group of functions |
| `heredoc_input` | `Claim_heredoc_input` | here_doc, `cmd2` may not exist | `HereDocFeedsFirst` is violated |
| `heredoc_blame` | `Claim_heredoc_blame` | here_doc, TEMP_FILE may not open | `HereDocBlamesTempFile` is violated |
| `empty_command` | `Claim_empty_command` | a command without a word | `InvalidCommandIsNotFound` is violated |

Bounds of the processes. Slots are reused by parity with period two, and slot 0 is first
renewed after the third command, slot 1 after the second; five commands see both slots
renewed and one of them used a second time after its renewal. Three commands are a first,
a middle and a last one, which is all that `ft_wait_error` and the children tell apart. Two
items and a capacity of one make a pipe that is full, empty and in between while its
writer still has something to write. Descriptors 0 to 7 are the streams, four pipe
ends and one file, the most pipex ever has open; with 0 to 6 the file does not fit.
Nothing else is bounded: the processes do not run in circles.

Bounds of the memory and the text. `Startup` repeats itself per command; with three of them
an allocation fails in the first, a middle and the last turn, and three directories let a
copy fail in front of another, behind one and between, each of them with or without the command. With a `BUFFER_SIZE` of two and five
bytes of text a read ends in front of, at and behind a newline and behind two of them, and
the delimiter of two bytes is split over two reads, begins a line, is one, or stands in the
middle of one. `Size` bounds the lines a here_doc run is given: with two, a run leaves a
longer text behind than the next one writes, and writes at an offset behind the end of a
file that was truncated meanwhile. Two runs are every order of two: one after the other,
one that begins while orphans of the other live, both at once.

Bounds of libft. Strings of up to four bytes out of three, one of them negative as a
`char`: words in front, between, behind and none, and needles up to one byte shorter. An
int has six bits, so that the smallest, -32, has two digits like the largest, and a long
has twelve; texts of five bytes are a sign, blanks, leading zeros, more digits than an int
has and what follows them. Every product of two numbers of six bits for `ft_calloc`. All
regions in four bytes of memory, overlapping or not. All characters and EOF. Formats
with up to two conversions, at the ends of their ranges, a char having four bits. Three contents in five nodes: a
list of three does not fit twice, so that `ft_lstmap` runs out of memory, besides failing at
any turn, and freed nodes are used again.

Fairness. `FairSpec` and `PSpec` ask for weak fairness of the parent and of every
child: the scheduler runs each process that can run. In `FairSpec` a command that runs
ends at last; that is an assumption about the commands there, and in `Pipeline` it is
derived: a command has to take the steps that reading, writing and end of file allow,
no command has to stop early, and pipex ends all the same. `FairSpec` of `GetNextLine` and
`HereDocSpec` ask that the one process there runs and need not fail to get on: a call that
only a failure would end does not end. A deadlock would be reported by every run but
one: all processes gone, the caller answered, the struct freed are the only ways to stop.
The run `data` does not check for deadlock, because a pipe that was refused makes pipex
hang; `HangsOnlyOnLostPipe` says that nothing else does.

## What does not hold

- A here_doc run can lose its input. Any child that leaves through `ft_cleanup_exit`
  unlinks TEMP_FILE; if the last command is not found before the first child has
  opened the file, `cmd1` does not run (`HereDocFeedsFirst`).
- The branch of `ft_errno_1_2_13` that names TEMP_FILE cannot be taken
  (`HereDocBlamesTempFile`); the message prints the NULL of `infile`.
- A command argument without a word is not rejected, because `ft_parse_cmds` returns
  `ENOMEM` and `ft_pipex_init` tests for -1; the child crashes
  (`InvalidCommandIsNotFound`).
- `ft_malcolm` does not look at the result of `pipe`: pipex can then hang. This is
  stated as what does hold, `HangsOnlyOnLostPipe`, and it is why `Plumbing`, `NoStrayEnds`,
  `Conserved` and `Delivered` assume that `pipe` did not fail.
- When a later `fork` fails, `waitpid(-1)` takes any child and the verdict is not
  reliable; `ExitTruth` and `ReportTruth` assume that no fork failed. `NoOrphans` does not.

Exceptions that the properties of the other modules name, because the code has them:

- `ft_validate_args` compares eight characters: an infile whose name begins with
  `here_doc` is taken for the flag (`pipex_parsing.c:24`).
- Without PATH in the environment `ft_split` is given `&NULL[5]` and pipex crashes
  (`GrabNothing`).
- When the copy of the infile or of the delimiter finds no memory, `ft_cleanup_exit` reads
  three pointers that were never set (`AllSet`).
- When the copy of a directory of PATH finds no memory, the loops that search and free
  `path` stop at its NULL: the directories behind it are not freed (`LeftBehind`), and a
  command that only they have is not found (`FindsFirst`).
- When `execve` fails the child leaves with the name of its command still allocated, and the
  look-ahead of the here_doc input is never freed (`LeftBehind`).
- A `malloc` that fails in `ft_read` makes `ft_get_next_line` search a NULL (`EndsClean`);
  in `Pipex` the parent is then killed and TEMP_FILE stays (`TempGone` excludes it);
  one that fails elsewhere, a read that fails or a write that fails shortens a here_doc
  without a word (`TempIsText`).
- A zero byte drops the rest of the read it came with (`NothingLost`).
- What was read behind the delimiter, less than one buffer, is gone for whoever shares
  standard input (`LookAheadBounded`).
- Two here_doc runs at the same time mix their texts, or read nothing: `OwnText` is about a
  run that is alone, and lets it end without `cmd1` if a run that fails in its start-up unlinks
  the file, while `NoStaleLine` and `FileInv` are about all of them.
- `ft_atoi` and `ft_atol` do not skip the last leading zero, so that a number with as many
  digits as there can be is misread behind a zero (`ReadsNumber`).
- `ft_pnb_b_fd` and `ft_pnb_b_fd_s` do not count the sign of the smallest number, a case
  no conversion of `ft_printf` reaches (`CountsDigits`).
- `ft_strnstr` goes on behind the end of a haystack that is shorter than `len`
  (`SearchesAgree`), and the escapes of `ft_putstr_non_printable` can be read back up to
  127 only, and without a backslash (`EscapesReadable`).

## Proofs

What a theorem assumes is the `ASSUME` of the module it is about, and nothing else:

| Module | Constants | Assumption |
|---|---|---|
| `Pipex` | number of commands, descriptors, errors, faults | there are at least the three streams; `MaxCmds` is no smaller than what `Argcs` asks for |
| `Pipeline` | length of the input, capacity of a pipe, `Lazy` | a pipe holds at least one item; a command may exit with 0, and may be killed |
| `GetNextLine`, `HereDocInput` | descriptors, inputs, `BufferSize`, delimiter, faults | `BUFFER_SIZE` is positive; NULL is not a string |
| `HereDoc` | `Runs`, `Size` | runs are numbered, from 1 |
| `Libft` | `Width`, `CharWidth`, `Size`, bytes, bounds on the strings | widths and sizes are positive; bytes are bytes, those of strings not zero |
| `Startup` | `Argcs`, `Words`, `Dirs` | the values of `argc` have a largest one, above 3 |

`StreamSafety` alone has a hypothesis, `NoZeros`: no zero byte in any input, since
behind one the rest of a read is dropped and the next line is not what comes next. Each
theorem about a process rests on an inductive invariant; TLC has checked every one of them
on an instance. None of the properties themselves is inductive.

*The processes.*

- `PipexProofs`: `TypeCorrect`. `TypeOK` is not inductive: that `i` stays an index
  while `ft_malcolm` counts it up needs the loop conditions (`PhaseInv`), and that
  `child_pids` of an index says whether there is a child needs to know who has been
  forked (`ChildInv`). `CoreInv` is the three together.
- `PlumbingProofs`: `PlumbingCorrect` and `NoStrayEndsCorrect`, from `PipexInv`. The heart
  of it is `Layout(t, p, k)`: at the fork of command `k`, slot `k % 2` is the pipe
  `Link(k)` that it reads, the other slot the pipe `Link(k + 1)` that it writes, all four
  numbers differ and lie above the streams, and nothing else is open. `RenewPipe` turns
  `Layout(.., k)` into `Layout(.., k + 1)`; the set-up of a child turns it into `Streams`. The
  run of a child keeps `Streams`, and `Link` never uses a number twice, so two commands
  hold the same pipe only if they are neighbours. All of this is said of states in which no
  `pipe` of `ft_malcolm` was refused (`PipeLost`), and `PipeLost` is never taken back. When one
  is refused, `Severed(c)` says what is left, `c` being the last command that is joined to
  the one before it: command `c` finds `Torn`, its own pipe in one slot and closed numbers in
  the other, and writes the terminal (or, being the last of all, the outfile); the
  commands behind `c` find `Adrift`, in which the numbers of the two slots may be closed
  or the same, but no descriptor of any table is an end of a pipe up to `c`. The commands in
  front of `c` are as they would be without the fault. `LossStep` is the step that
  loses the pipe, `SeveredStep` all later ones.
  `TempInv` is needed for the first command of a here_doc: the file it opens is the one of
  this run.
- `PipexProofs`, second part: `NoOrphansCorrect`, `ExitTruthCorrect`, `ReportTruthCorrect`,
  `VerdictSticksCorrect` from `AnswerInv`. In the loop `err` is the verdict on the
  statuses read so far (`Partial`), every command below `i` that was forked has been
  reaped, and unless a fork failed no command at or above `i` has. The lemma
  `VerdictOfOneMore` says that one turn of the two functions of `pipex_error.c` takes
  the closed form from `i` to `i + 1`. `TempGoneCorrect` needs only `CoreInv`.
- `PipexProofs`, last part: `ContractSafety`, the refinement `Spec => Abstract!Safety` under the
  mapping of `PipexContract`. One lemma for each action of the contract says what it is in the
  terms of the mapping (`StartMaps`, `ForkMaps`, ...), and one for each group of steps of
  pipex which of them the step is: a fork is `Start` of the next command, or, when it
  fails, the command is skipped; a child that ends is `End`; leaving `ft_wait_error` is the one
  `Answer`, because `AnswerInv` says that by then every child has ended and `err` is the verdict.

*The data.*

- `PipelineProofs`: `PipelineIsPipex` (`PSpec => Spec`), so that the theorems above hold
  of `Pipeline`; then `ConservedCorrect`, `DeliveredCorrect` and
  `InOrderCorrect` from `DataInv`. `Flow(n)` is `InOnePlace` for a pipeline that ends at command
  `n`, the commands that were not forked yet included: each pipe holds the stretch between what its reader has taken and
  what its writer has passed on. `OutInv` says when the outfile is still the old one. `DrainInv`
  is about the end of the input: a command that met it has taken all that its
  predecessor ever passed on, since by `NoStrayEnds` nobody else could hold the write end, and
  the predecessor is gone. `KeptForReader`, the part of `Conserved` that says
  that no pipe is discarded with something in it, needs both halves: `Flow` says that a pipe with
  something in it has a writer that was forked, and `Layout` and `Streams` that its read end is
  then in pipex until the reader is forked, and with the reader from then on. A refused pipe does not end the argument: `n` is then the `c` of
  `Severed(c)`, no command behind it has ever taken an item (`Wired`, `FlowResized`), and so
  what reaches the outfile is still an initial part of the input, or nothing.

*The text.*

- `GetNextLineProofs`, about `ft_get_next_line`: `LineInvCorrect`, `NothingLostCorrect`,
  `LinesWholeCorrect`, `EndsCleanCorrect`. Every step has one of four effects on the buffer of
  a descriptor (none; lost; a chunk joined; split into line and rest), and each part of
  `Inv` is proved once for each effect. `CallInv` is what a call knows of its own progress,
  `NullInv` what a NULL that was returned says from then on, `WholeInv` that a line without
  a newline is the last, `TightInv` that less than one buffer waits behind a newline.
- `StreamSafety`: `Spec => Stream!Safety`. It needs `GapInv`, that what waits is all that
  was read behind the last byte returned, to show that `Split` is `Deliver` of just the next
  line; a step after a failure is `Fail`.
- About `ft_here_doc_inp`: `HereDocCalls` (`HereDocSpec => Spec`: the loop uses
  `ft_get_next_line` as its specification allows), `TempIsTextCorrect` and `LookAheadCorrect`,
  from `HereDocInv`. `FlowInv` says whose turn it is, `CopyInv` that TEMP_FILE is a beginning of
  the text, up to the last line that was looked at, with no delimiter in it.

*TEMP_FILE and the struct.*

- `HereDocProofs`: `FileInvCorrect`, `NoStaleLineCorrect`, `OwnTextCorrect`, for any set of
  runs. `StaleInv`: what TEMP_FILE names since a run began has been truncated since then, and
  so has the file its first command reads, thus no line of an earlier run is in either.
  `AloneInv`: while a run that is alone lives its file holds its own lines in order.
- `StartupProofs`: `LeftBehindCorrect`, `FindsFirstCorrect`, `AllSetCorrect`, `StructCorrect`.
  `OrderInv` and `SetInv` say which pointers are set at which point; `LiveInv` that every
  live block can be reached from a set pointer without a gap in front of it, which is what
  makes the frees find it; `ReadyInv` which directories and commands there are; `SearchInv` what
  the search of PATH has returned and for whom. That a child dies only with a cause
  (`NothingMissing`) needs `LiveInv` and `ReadyInv`: the slot it reads is filled.

*libft.*

- `LibftProofs`: a caller's arguments stay what they are (`ArgsInvariance`), so each theorem
  is about all arguments. `NoShortBlockCorrect`: the product modulo `2^Width` divided by one
  factor gives the other exactly if nothing was cut off (`ProductFits`).
- `MemoryCorrect`: the loop of a memory function is a recursive function over its turns.
  `SameTurns` shows, by the least turn in which they would differ, that two such functions
  with the same start and the same turns are equal; so each loop is equal to what the memory
  looks like after `i` turns in closed form. For `ft_memmove` that closed form, and the reason
  why a source byte has not been overwritten yet, differ with the direction.
- `CutAndJoinCorrect`: `ft_strlen`, `ft_strdup`, `ft_substr` and `ft_strjoin` in closed form,
  and the two pieces next to each other are the old string.
- `StringsRightCorrect`: the other string functions in closed form. `ft_strncmp` stops at the
  first of three places (`Stops`: the bytes differ, a string ends, `n` bytes are compared), and
  `LessIs` says that the sign of the difference there is the order of unsigned bytes. A
  search stops at the first or last of its hits (`FirstAt`, `LastAt`, `Hits`), and each
  theorem about one compares two ways to that place. `TrimIs` finds both ends of
  `ft_strtrim`, also where nothing is left, and `Holds` what `ft_strlcpy` and `ft_strlcat` leave
  in a block of `n` bytes.
- `SplitWordsCorrect` and `SplitAllOrNothingCorrect`. `ft_core` finds word `i` behind the end
  of word `i - 1`, so what it finds is induction over the words, and the count that it relies
  on is made by another function. `Rank(s, c, k)` is the number of word ends up to
  the place `k`: each step of `ft_core` raises it by exactly one (`Begins`, `Ends`), hence the
  ends it finds are all of them and in order, and their number is what `ft_count_words`
  counts. `StepsExist` shows that the recursive function of the model exists at all, which
  the prover does not grant. The maximal runs of `SplitWords` are counted by their first
  bytes, the words by their last ones: `SameSize` joins the two. That `ft_free` reaches all
  that was allocated needs that no word is empty, since it stops at an empty one.
- `ClassesCorrect` and `BaseCorrect`, parts of `OutputRight` and `NumbersRight`: the class and case
  functions agree for every character; the two loops of `ft_strlen_check` find exactly
  the bases with a digit that comes twice (`NoneTwice`, by counting) or is a sign.
- `ListProofs`: `ListsCorrect`, for any finite set of nodes and any number of contents, from
  `ListInv`. The calls of `ft_lst*` are loops over `next` fields of nodes that are freed and used
  again, so the invariant speaks of sequences: `Linked(next, n, p)` says that the nodes from
  `n` on are those of `p` and then NULL, and `PathIs` that the walk of `CLists` finds just
  these if no node comes twice (`NoLonger`: then it ends within the number of nodes). `Lists(l, c)`
  says that the list, the copy of `ft_lstmap` and a new node that is in neither are three
  sequences without a common node, and that they are all that is live; `Held` that every
  content is in one node; `InOrder` that the list holds what was added to it, in order; `Mapping`
  and `Going` how far a loop has come. `ListsRight` alone is not inductive: that a
  freed node is reached from nowhere, and hence can be used again, is what `Lists` adds. Each
  action is then a change of sequences: a node joins in front or behind, or the first one goes.

Only model-checked:

- `HangsOnlyOnLostPipe`, `InputEnds`, and the fairness part of `Contract` and `StreamSpec`:
  liveness is out of the prover's reach.
- libft: `NumbersRight` and `OutputRight`, but for the two parts above. The weight of a digit
  is `10 ^ n`, and the provers know nothing of a power whose exponent is not a
  numeral, not even that it is a number; what the formats render is a fold over a sequence,
  which is induction over data.
- The three statements under "What does not hold", which are refuted, not proved.

## Not modelled

`perror` and the wording of messages; an `unlink` that fails; signals sent to pipex itself
except for a kill during here_doc; a pipex that is started with standard streams closed
(see the hazards in `PROJECT.json`: pipe ends would get the numbers 0 to 2 and `Layout`
would not hold); a descriptor outside 0..`MAX_FD` given to `ft_get_next_line`, answered with
NULL at once; `ft_strmapi` and `ft_striteri`, which call the caller's function on each byte
and do nothing else; `ft_putstr_fd`, `ft_putendl_fd` and `ft_putchar_fd`, one `write` each;
writes of the printf functions that fail; lists whose caller gives no `del`; the Makefiles
and the headers, which have no behaviour.

## Plan

Done: all modules above, and the theorems under "Proofs". Next:

1. `NumbersRight` without powers: the weights of the digits as a recursive function with a
   proved law (`w[n + 1] = 10 * w[n]`) in place of `10 ^ n`, and from it that `ft_itoa` and
   `ft_atoi` are inverse to each other.
2. `EscapesReadable` for texts of any length, with the place at which the escape of byte `k`
   begins in closed form.
3. A `Pipex` that is started with standard streams closed, and `Layout` for it.
