# inotify-daemon: a TLA+ development

`inotify-daemon` watches directories with inotify and launches a command for
the events its configuration names. It is one C process (`src/src/*.c`) with
one loop; what makes it hard is around it: the kernel that queues events and
numbers watches, the commands that write, block and die when they like, signals
that merge, a configuration that is read again in the middle of all that, and
other daemons that start at the same time.

This directory holds TLA+ modules for these parts, configurations with which
TLC checks them on small instances, and proofs that TLAPS checks for every
instance. `PROJECT.json` says which lines of the source each definition stands
for, which runs check which properties, and which mistakes in the code each
property would find. To use it, in this directory:

    tlc -workers 2 -config MCRenames.cfg MCRenames
    tlapm RenamesProofs.tla

and the same for the other modules with theorems: `RenameListProofs`,
`EventsProofs`, `CommandsProofs`, `PidFileProofs`, `ConfigurationProofs`,
`DaemonProofs`, `SequenceLemmas`. The longest takes some minutes.

## 1. Inventory

| Part | Source | State | Operations | Talks to |
|---|---|---|---|---|
| Main loop | `ind_engi.c` | `poll` set, on the stack | `in_engine` | all below, in the order output, events, signals |
| Event loop and watches | `ind_inot.c:135-227` | `in_evt_fd` | `in_events_init`, `in_events_process` | registry (lookup by watch), rename correlation, launcher |
| Rename correlation | `ind_inot.c:229-307` | `dir_renamed` of each directory, `ren_free`, 8 static cells | `event_process` | launcher (old name, new name) |
| Directory registry | `ind_dire.c` | `dir_first` list, inode, wd, actions | register, get by watch or inode, purge | configuration reader, event loop |
| Command launcher | `ind_comm.c` | list of running commands, free list, count, a buffer for each stream | `in_cmd_run`, `in_cmd_count`, `in_cmd_log`, `in_cmd_exited` | loop, signals, log |
| Signals | `ind_sign.c`, `ind_main.c:273-285` | `in_signal_fd`, `main_env` (setjmp) | init, process, terminate | launcher (`in_cmd_exited`), main (longjmp on SIGUSR1) |
| Start-up, reload, control | `ind_main.c`, `ind_fork.c` | `main_env`, `pid_file`, `conf_file` | `main`, `in_reread_configuration`, `-R`, `-S`, `-s` | configuration, log, pid file, engine |
| Pid file | `ind_pidf.c` | static `pidfile`, the file | `in_pidfile`, `in_get_pidfile`, `in_set_pidfile` | main, engine, other daemons |
| Configuration reader | `ind_conf.c` | line buffer and positions, tables of keywords | `in_configuration_read`, `readline`, one function for each keyword | registry, log, pid file |
| Logging | `ind_logg*.c` | driver in force, level, options of each driver, open file, descriptor of `syslog` | choose a driver (opens the new one, closes the old one), set options, write | configuration, main, everyone |
| Options | `ind_opts.c`, `ind_nopt.c` | `cliopts` | `in_options` | main, configuration |
| Small helpers | `ind_form.c`, `ind_path.c`, `ind_misc.c`, `ind_erro.c` | none | names, paths, messages | everyone |

What is hard in each part, and what makes it correct:

- **Rename correlation.** The two halves of a rename are two events; other
  renames, other directories, a reload or an empty heap come in between.
  Correct: a cell is never at two places; a report joins the two halves of one
  rename, old name first; the ordinary rename is always reported; no cell is
  lost.
- **Event loop, watches and registry.** Watch numbers restart at 1 with each
  reading of the configuration, names are looked up twice, directories vanish.
  Correct: a command runs for the directory its event happened in; two
  registered directories do not share a watch, as long as their names lead
  where they did.
- **Command launcher, signals, loop.** Commands block on full pipes; deaths
  merge into one SIGCHLD; SIGUSR1 leaves the signal handler by `longjmp`;
  `pipe2`, `fork` and `malloc` fail half way. Correct: the count that sizes the
  `poll` array is the length of the list that fills it; entries and
  descriptors are accounted for; output is neither mixed, reordered nor
  invented; the loop over a packet stays in its buffer (it does not always:
  section 4); every command is waited for.
- **Pid file.** Several system calls make one check; daemons race, die, leave
  files, and pids come back. Correct: once a daemon is named and alone, and
  none that starts holds an older file, no second one gets to its loop.
- **Configuration reader.** The buffer cuts lines anywhere; files include
  others and themselves; an error may come in the middle of anything; a reload
  forgets directories and keeps settings. Correct: every line that fits is
  handed over once, as it is; each event of a directory leads to one command at
  most; the actions fit in the places there are; what is in force is what the
  lines say; every reading ends. (It does, but for one kind of last line:
  section 4.)
- **Main, reload, control.** Signals may come before they are blocked, while
  one is handled, and more than once; a reload passes through every module and
  may fail anywhere. Correct: a request is carried out or the daemon is gone;
  nothing stays open behind a reload.
- **Logging.** Drivers are opened and closed while others use descriptors, and
  numbers are given again. Correct: messages go where the configuration in
  force says, and nobody closes a descriptor that is another one's.
- **Options** are read once, before anything else runs; what they leave behind
  is a constant of the models.

## 2. Modules

| Module | Models | Uses |
|---|---|---|
| `RenamePairing` | the promise of rename correlation: remember, pair, forget | |
| `Renames` | rename correlation on sequences | `RenamePairing` (INSTANCE) |
| `RenameList` | the same on `ren_nxt`, `ren_prv`, `dir_renamed`, `ren_free` | `Renames` (INSTANCE) |
| `SequenceLemmas` | what cut, push, pop, append and removal do to a sequence; least and greatest numbers with a property | TLAPS |
| `RenamesProofs` | theorems about `Renames` | `Renames`, `SequenceLemmas` |
| `RenameListProofs` | theorems about `RenameList` | `RenameList`, `RenamesProofs` (INSTANCE) |
| `Events` | registry, watches, event loop, choice of an action | EXTENDS `Renames` |
| `EventsProofs` | theorems about `Events` | `Events`, `RenamesProofs` |
| `OutputPromise` | the promise of the launcher: one stream of one command, alone | |
| `Commands` | launches, output, deaths, signals and turns of the loop | `OutputPromise` (INSTANCE, one for each stream) |
| `CommandsProofs` | theorems about `Commands` and `OutputLines` | both, `SequenceLemmas` |
| `PidFile` | the pid file through starts and reloads of several daemons | |
| `PidFileProofs` | theorems about `PidFile` | `PidFile`, TLAPS |
| `OutputLines` | `cmd_do_log` on the bytes of packets | |
| `LineReader` | `get_one_line`, `refill_buffer`, `readline` | |
| `ConfigPromise` | the promise of a reading: one command for an event | |
| `Configuration` | sections, keywords, included files, errors, settings | `ConfigPromise` (INSTANCE) |
| `ConfigurationProofs` | theorems about `Configuration` and `LineReader` | both, `SequenceLemmas` |
| `Logging` | log drivers, by what they do to descriptors (operators) | |
| `Daemon` | `main`, the loop, signals, reload, control, descriptors | EXTENDS `Logging` |
| `DaemonProofs` | theorems about `Daemon` | `Daemon`, `SequenceLemmas` |

`MC*` modules give constants to these for TLC. In each module, actions whose
comment starts with "Mistake" are no part of the specification: each is one
wrong variant of the action after it, of the kind a slip in the code would
make. They exist to show that the properties can fail.

### How the modules correspond to the code

**Renames / RenameList.** A half is a directory, a side (`moved_from`,
`moved_to`) and a cookie; the name it carries is identified with it, so a wrong
name is a wrong half. `MoveEvent` is one call of `event_process` with a pure
`IN_MOVED_*` mask: `Pair` is the branch in which the search of `dir_renamed`
finds the cookie (`ind_inot.c:237-263`), the others the insertion
(`:265-289`). `Purge` is what `in_directory_purge` does to the lists. The
insertion does not set the `ren_prv` of the old head (`:284-286`). That makes
unlinking a cell that is not the head cut off all newer cells: `Renames` says
so as an explicit `SubSeq`, and `RenameList`, which has the pointers and no
such statement, is checked and proved to implement it. That refinement is the
evidence that the claim in `Renames` is what the pointers do. `history` is a history
variable: the halves read, and what became of each.

**Events.** `path` and `watch` are the kernel's; `sent` is everything it
queued, `taken` the position of the reader. `ReadConfiguration` empties and
refills the registry (inode compared, `ind_dire.c:78-107`), `InitEvents` is
`in_events_init` (the old inotify instance is closed with its queue, watch
numbers restart, the name is looked up a second time), `TakeEvent` one turn of
`in_events_process` with the whole of `event_process` and of the search for an
action in `in_cmd_run` (`ind_comm.c:384-391`). `Kernel*` and `Replace` are the
environment. Events carry the inode they happened in, which the code cannot
see and `RightDirectory` uses.

**Commands.** One daemon, with `pc` in the loop of `in_engine`, one process per
command. `Poll`, `Log`, `Launch`/`EventsDone`, `ReadSigchld`/`Reload`/
`SignalsDone`, `Reap`/`NobodyDead` are the steps of a turn; commands and the
kernel interleave between any two. `Log` reads one packet per turn because
`stp` stays set (`ind_comm.c:353-367`). `Launch` has the four outcomes of
`in_cmd_run`: followed; not followed as no entry could be had; a pipe is
missing; `fork` failed. `Forget` is `in_cmd_exited`.

**OutputPromise.** One stream of one command as if nothing else ran: it is
followed or not, its packets go through a pipe in order, a packet that is a
line is logged behind the part that was read before, a part takes the place of
that part, and at the end the part is logged and the pipe is dropped. There is
no list of entries, no other command and no order of reading, which are what
the code has to get right for that. `Output(p, s)` of `Commands` is the
instance for a stream: `part` is the buffer of the entry that follows `p`,
wherever it is on the list, and nothing when no entry does; `unsaid` and `ends`
are what the plan of `p` still has to say on `s`, and its lines.
`OutputsPromised` says that this holds of all streams at once.

**PidFile.** One step for each system call of `in_pidfile` with `docreate`:
open for reading, read, `kill(pid, 0)`, `unlink`, open for writing, write.
Inodes are explicit, because a daemon can read a file, or write to one, that
another has unlinked since it was opened. Each start and reload goes through it
twice: `main` with its own `pid_file`, the engine with the name of
`in_get_pidfile`. A file without a number leaves `pfpid` unset, so that `Scan`
takes any value for it; `CannotRead` is an `fopen` that fails on a file that is
there, which the code takes for no obstacle.

**OutputLines.** One action for each kind of turn of the loop of `cmd_do_log`.
A letter is told by its place in its packet, so that a lost or moved byte
shows. `rbuf` has `RbufSize` bytes, 256 in the code; a packet leaves one for
the NUL behind it, and what lies behind that in `rbuf`, which is on the stack
and not cleared, is any mixture of NULs, newlines and letters. The loop can get
behind `rbuf`. What it finds there may be a newline (`Stray`) or not
(`NextByte`); once it has written a NUL there, or begun to copy a string that
does not end in `rbuf`, the module says no more.

**LineReader.** The buffer with its junk, NULs and moves, one action per call.
Bytes are newline, blank and "letter", which stands for the rest; `Cut` is the
NUL `strtok_r` leaves behind the first word.

**Configuration / ConfigPromise.** A line is its keyword and its argument, the
way `LineReader` and `strtok_r` deliver them. There is one action for each
`kw_*` function (`Directory`, `Event`, `Owner` for user, group and shell,
`Include`, `Logging`, `Set`, `Level`, `Pidfile`, ...), one for the end of each
section, and `Fail`, the error that goes up through all sections and files.
`stack` is the C stack of `in_configuration_read` called by
`kw_main_include`; its depth is limited by the descriptors, `MaxOpen`, and
only by them. `RunOffTable` is the keyword table of `SETTINGS`, which has no
last row. `Overwrite` is `refill_buffer` writing over the driver's name, which
`ct_data` points to. A text may end with the mark "unended": the line before it
has no newline. `readline` hands such a line over and leaves it in the buffer,
so that it comes again, without its argument, for ever (`Again`, `Line`); the
first time no NUL ends it in the buffer, and what older lines left behind it
may make other words of it (`Garbled`). `taken` is a history variable, the
lines handed over since the reading began, and what `AsWritten` compares the
registry and the settings with. In `ConfigPromise` the state is only the
command of each directory and event: declared once, forgotten all at once.

**Logging / Daemon.** A process is a record with its descriptor table (`fds`:
what each number is) and the numbers its modules believe are theirs (`file`,
`slog`, `evt`, `sig`). The operators of `Logging` are the functions of the
drivers, from process to process; `Said` is one message. `Daemon` has one
action for each stretch of `main` and `in_engine` between two points where
something from outside can be seen (`Initialise` is the code behind `setjmp`,
`ReadConfiguration`, `NamePid`, `EventsInit`, `SignalInit`), and one for each
round of the loops inside a turn (`Poll`, `ReadEvents`, `Terminate`, `Reload`,
`ChildSignal`, `Wait`). A configuration is what it changes in the log, and
whether it can be read and watched; `given` is the driver of the command line.
`Ask` is `-R` or `-S`: before `in_signal_init` has blocked the signals, either
ends the process. Closing a number closes whatever it is by then, which is the
point of the module.

## 3. Runs

| Run | Question | Bounds |
|---|---|---|
| `renames` | does correlation pair rightly and keep its promise? | 2 directories, 3 renames, 2 static cells and 1 from malloc |
| `rename_list` | do the pointers do what the sequences do? | the same |
| `events` | does a command run for the right directory? | 2 directories, 2 inodes, 1 rename cookie, 3 events, 2 readings |
| `commands` | is output kept in order, is every command waited for, are count, entries and descriptors right? | 2 launches, 4 ways of writing, pipes of 1 packet, 1 static entry and 1 from malloc, 1 reload, 2 failures |
| `output_lines` | do all lines of a packet get to the log? | packets of up to 5 bytes in an `rbuf` of 6, anything of 3 kinds behind them, any remainder kept before |
| `pid_file` | is a guarded daemon guarded for ever? | 3 pids, 4 starts or reloads, two file names |
| `line_reader` | are all lines read? | every file of up to 8 bytes of 3 kinds, a buffer of 3 |
| `configuration` | is what is in force what is written, and does a reading end? | 2 readings out of 453 sets of files, 20 of them with a last line without newline, 2 directories, 2 events, 3 commands, 2 drivers, 3 descriptors, 3 command lines |
| `daemon` | do descriptors, messages and requests stay right through reloads? | 4 descriptors, 2 edits, 2 requests, 1 event queued, 1 command, 6 configurations |

The three runs of section 4 (`renames_lost`, `pid_file_named`, `daemon_stops`)
use the same modules and end in a violation.

Why these bounds are enough to meet the interesting cases: three renames are
what it takes to have a cell in the middle of a list (one newer, one older);
two static cells and three halves exhaust the pool and reach malloc and its
failure; two readings of the configuration are what it takes for a watch number
to be used again; two commands are what it takes to merge SIGCHLDs, to mix
output and to reuse an entry, and a pipe of one packet blocks a command that
writes two; three pids allow two daemons to race while a third one's pid is
reused; eight bytes with a buffer of three give lines of every length up to
beyond the buffer cut at every position; four bytes hold two lines with their
ends, the least for which the loop of `cmd_do_log` looks behind the packet, and
a fifth one fills `rbuf`, so that it looks behind that; two events are the
least that make actions overlap, or one command get both, and the second
reading meets what the first one left; three descriptors let a file include one
that includes a third, and run out; four descriptors are the inotify instance,
the signals, a command and the one that is missing, so that they run out in
`daemon` too. `MaxLines` (10) only stops a reader that would go on for ever; a
file of at most eight bytes has at most eight lines.

Deadlock is not checked: in each model events, launches, starts or files are
bounded, and the system may rest when they are used up. That something must go
on is stated by the liveness properties instead.

What the passing runs show (all of it is proved too, in section 6, but for the
liveness properties, which end in "in the end" here):

- `renames`: `CellsOwnedOnce`, `ReportsFaithful`, `BackToBackReported`;
  `PoolWholeAgain`: renames that come one after the other never wear
  out the pool; `PairingSpec`: refinement of `RenamePairing`.
- `rename_list`: `RenamesSpec`, refinement; `NoCellLost`: as long as halves of
  a directory are paired in turn, each cell stays within reach.
- `events`: `RightDirectory`; `DistinctWatches`, with the condition the code
  needs: that a name still leads, at the second look-up, to the inode that was
  compared at the first (without it the property is false, as two
  names can come to share a watch in between); `PairedInOneReading`.
- `commands`: `OutputInOrder`, `OutputKept`; `OutputsPromised`: refinement of
  `OutputPromise` by each of the streams; `EveryCommandReaped`, in the end;
  `EntriesAccounted`, the count that sizes the array of `poll` included, and
  `DescriptorsAccounted`. The last also says precisely what leaks: a failed
  `fork` leaves both ends of both pipes open, a failed `pipe2` the write end of
  the other pipe.
- `output_lines`: `LinesLogged`. The loop does not look at the byte behind a
  newline, which is harmless as long as no line is empty, and counts one byte
  for two, which makes it look as far behind the packet as there are newlines
  in it; with two or more it may log what it finds there. The property says
  which lines are logged in spite of that, and when the loop may leave `rbuf`.
- `pid_file`: `StaysGuarded`, with the ways out the code leaves (a second file
  in the configuration, a file that another daemon cannot open), and
  `FreshStartGuarded`. A daemon is guarded once no other one runs and none that
  starts holds an older file or has read another pid. That two start at once,
  and both run, is in the model and outside these properties (section 4).
- `line_reader`: `RegularLinesRead` against the definition of the lines of a
  file; `ReadToTheEnd`: a file with regular lines only is read to its end, in
  the end.
- `configuration`: `ActionsDisjoint`, `PlacesEnough` and `PromiseSpec`;
  `AsWritten`: after a reading that succeeds, of files that include others or
  not, directories, commands, shells, the users and groups that are given and
  settings are those of the lines taken, by a definition of its own over
  these lines, with the exceptions the code makes: settings that are no
  longer written keep their old value, and a driver's name may be overwritten.
  In a file without include directives and unreadable lines, all lines are
  taken. It says nothing of the settings when there is more than one `SETTINGS`
  section, nor of a user or group that no line gives: there the manuals
  contradict the code (section 4);
  `ReadingEnds`: in the end, also when files include themselves; the exception
  is the last line without newline that is blank or a comment, behind which the
  property says the reading stays for ever.
- `daemon`: `DescriptorsRight` and `LogWhereConfigured`, for configurations
  whose log keeps no descriptor that a reload changes: those of the run are
  `Discreet`, which `MCDaemon` assumes and TLC evaluates (one that is not is
  `daemon_stops`); `RequestKept`, `ChildrenKnown`: no request and no death is
  ever forgotten, wherever the `longjmp` leaves; `StopsWhenAsked`,
  `ReloadTakesEffect`, `CommandsReaped`: they are dealt with in the end.

## 4. Disagreements between the code and what it says

Three runs check one property each that a manual of the repository states and
TLC finds violated; `findings` in `PROJECT.json` quotes the lines.

- `renames_lost` (`ind_inot.c:286`): a rename whose halves are interleaved with
  those of another one in the same directory may run no action, and its cell
  is lost until the process ends.
- `pid_file_named` (`ind_pidf.c:184`): a pid file of a dead process is neither
  rewritten nor removed, and the next daemon runs while the file names a
  process that does not.
- `daemon_stops` (`ind_sign.c:154`): `in_signal_terminate` closes the signal
  descriptor and keeps its number. With a log file that stays open, a reload
  may give that number to the log, and a later one to the inotify instance,
  which `in_signal_init` then closes. From then on the daemon polls its signals
  as events, throws them away, and neither stops nor reloads.

Found by reading and modelling, and not stated as runs:

- `IN_IGNORED` and `IN_Q_OVERFLOW` have no bit in `IN_ALL_EVENTS`; the test
  "all bits of the event are in the action" is then true of every action, and
  the first one is run (`ind_comm.c:388`; `TakeEvent` of `Events`).
- Renaming a directory sets `IN_ISDIR` too, the mask is compared with `==`, and
  the command gets no old name (`ind_inot.c:233`; `TakeEvent`).
- What a command wrote last is lost when its death is handled before its pipes
  are read (`ind_comm.c:296`; `Forget` of `Commands`).
- The part of a line that was kept is lost when the next packet of its stream
  has no newline: `strcpy` replaces it (`ind_comm.c:337-338`; `Keep` of
  `OutputLines`, `Read` of `Commands`).
- The loop over a packet leaves `rbuf` when the packet holds two lines or more
  and nearly fills it, or newlines lie behind it: it looks behind the 256 bytes,
  writes a NUL on the stack for a newline it finds there, and may begin to copy
  there (`ind_comm.c:317-338`; `Stray` of `OutputLines`, which `LinesLogged`
  allows in just these cases).
- A failed `fork` leaves both ends of both pipes open, a failed `pipe2` the
  write end of the other pipe (`ind_comm.c:401`; `Launch` of `Commands`).
- Two directories whose names come to lead to one inode between the two
  look-ups share a watch (`ind_inot.c:163`; what `SameInodes` excludes from
  `DistinctWatches`).
- The user of a command is always nobody: the test is inverted
  (`ind_comm.c:222-223`), and the end of the `DIRECTORY` section has put 0 for
  a user that is not given (`ind_conf.c:218-219`), so that every user, given or
  not, is replaced. `USER` has no effect.
- For the same 0, the default group is root, where the manuals say nogroup, and
  what the reader leaves as the default user is root, where they say nobody
  (`conf.5` (en):289-291 and 306-308, (fr):298-300 and 317-319, texi (en):445
  and 457). `AsWritten` says nothing of users and groups that are not given.
- `SETTINGS` is a single directive (`conf.5` (en):92), and a second section was
  to be refused (`ind_conf.c:296-299`), but nothing sets the bit that is tested:
  any number of them is accepted. `AsWritten` says what settings are in force
  for one section.
- Numbers never parse in `str2integer`, so that users and groups must be given
  by name (`ind_conf.c:375`).
- The table of the keywords of `SETTINGS` has no last row; an unknown keyword
  there is searched for in what lies behind it (`ind_conf.c:135-139`;
  `RunOffTable`).
- A reload does not reset settings (`ind_conf.c:833`; `AsWritten`), and one
  that fails ends the daemon (`ind_main.c:475`; `ReadConfiguration` of
  `Daemon`).
- When the command line gives the file driver and its file stays open, a
  reload with another file name goes on writing to the old one
  (`ind_logg_file.c:67-90`; the condition of `LogWhereConfigured`).
- The test on the names of options of the syslog driver is inverted
  (`ind_logg_syslog.c:159`).
- `-o` ends the name of the option one byte before its `=` and takes the `=`
  for a part of the value, and `-s` is refused as the switch of `main` has a
  `t` in its place (`ind_main.c:353-396`).
- The last line of a configuration is handed over for ever if it has no newline
  (`ind_conf.c:707-713`; `LeftOver` of `LineReader`, `Again` of
  `Configuration`). When it is blank or a comment the reader never ends, which
  is the exception of `ReadingEnds`; when it has a keyword the reading fails, at
  the latest at the second time. `ReadToTheEnd` is about files that end with a
  newline.
- A line that does not fit in the buffer ends the reading as the end of the
  file does, with success (`ind_conf.c:767`), so `RegularLinesRead` is about the
  lines before it, and `AsWritten` promises all lines of a file only when there
  is none such.
- A pid file that cannot be opened counts as no obstacle (`ind_pidf.c:144`).
- Two daemons that start at once may both run (`ind_pidf.c:137-186`): both find
  no file; or one has opened an old file without a pid, which the other
  unlinks and replaces by its own, reads nothing in the old one and unlinks the
  new one. `Guarded` holds of a daemon only when no other one is on such a way.
- Signals sent between the writing of the pid file and `in_signal_init` end the
  daemon (`ind_engi.c:78`; `Ask` of `Daemon`).

## 5. Fairness

- `Commands`: weak fairness of the daemon as one process, which is scheduled as
  long as it can go on and blocks only in `poll`; and of the writes and the
  end of each command, which are processes of their own. A command that has
  to wait for a full pipe is given no more than that: that it gets through is
  a consequence of the daemon reading. Nothing is assumed of signals, events,
  kills and failures. Events are finite in this model (`MaxLaunches`), which
  liveness does rely on: with an unending stream `in_events_process` does not
  return to the loop.
- `LineReader`: weak fairness of the reader, which is one sequential program.
- `Configuration`: weak fairness of a step of the reader, which is one
  sequential program; nothing of the start of a reading.
- `Daemon`: weak fairness of a step of the process, as one: it runs. Which
  outcome a step has (a command is launched or not, the pid file accepts it
  or not) is not constrained. Events may come for ever, and then
  `in_events_process` may find its queue filled each time it looks and never
  return (`ind_inot.c:208`). The code gives no remedy and the kernel no
  promise; the liveness properties say so, with `Flooded` as the one excuse.
- The other specifications have safety properties only.

## 6. Proofs

Every safety property of the passing runs is proved for every value of the
constants, from the named assumption of its module: sizes and bounds are
natural numbers, and what stands for "none" is not one of the things. In the
tables, each theorem is an invariant of `Spec` unless it says otherwise; the
last column says what the induction needs beside the property.

Few of these properties are inductive as they stand, but for the types.

### Rename correlation: `RenamesProofs`, `RenameListProofs`

For all sets of directories and cookies, all sizes of the pool and the heap.

| Theorem | Property | Needs |
|---|---|---|
| `TypeCorrect` | `TypeOK` | `TypeInv`: a listed cell holds a half, and only purges note `NoHalf` |
| `OwnedOnce` | `CellsOwnedOnce` | `OwnedInv`: listed and free cells are at most `brk`; otherwise the next cell of malloc could be in use |
| `Faithful` | `ReportsFaithful` | `FaithfulInv`: a pending half was read and is pending at one place, so that a half found by its cookie has the other side, as the kernel announces each side of a cookie once (`Fresh`) |
| `BackToBack` | `BackToBackReported` | `BackInv`: the half kept last is the first of its list, where its counterpart finds it |
| `PoolWhole` | `PoolWholeAgain` | `WholeInv`: while renames come one after the other, after an even number of halves no list has a cell (`NonePending`), after an odd one a single cell is out (`OnePending`) |
| `KeepsPromise` | `Spec => PairingSpec` | `OwnedInv`: an insertion overwrites no pending half |
| `ImplementsRenames` | `Spec => RenamesSpec`, of `RenameList` | `ListInv` |
| `PointersFaithful` | `ReportsFaithful`, of the pointers | the two before |
| `NothingLost` | `NoCellLost` | `TurnInv` |

`KeepsPromise` maps `pending` to the halves in listed cells: an insertion is
`Remember`, pairing is `Pair` with a subset of the others dropped, a purge is
`ForgetAll`, a skip stutters.

`ImplementsRenames` is about lists made of pointers. `Chained(s, p, nxt)` says
that the cells of `s` lead from `p` to `Null`. `Chain`, which follows the
pointers for as many steps as there are cells, is a recursive function; that it
returns the `s` with `Chained(s, p, ren_nxt)` is proved by contradiction, with
the least place from which it would return something else (`Least`, of
`SequenceLemmas`; the induction theorems of the library cannot be used).
`ListInv` says that every list is a chain and that every listed cell has `Null`
as its `ren_prv`: no insertion sets the `ren_prv` of the old head. So the code
that unlinks a cell always takes it for the first one, and cuts off the newer
ones, which is what `Renames` says. That no cell is in two chains is not proved
again: it is `OwnedInv` of `Renames`, whose sequences the chains are, so that
each step of the pointers is at the same time a step of the sequences and
keeps `OwnedInv` by the lemmas of `RenamesProofs`, instantiated as `R`.

`TurnInv` says why nothing is cut off while halves are paired in turn: a list
has one cell at most, and no half that came since was the partner of the one
it holds. An insertion in a list that has a cell would therefore contradict
the condition of `NoCellLost`.

### Event loop: `EventsProofs`

For all sets of names and inodes, all actions, any number of events and of
readings. `EventsAssumption` says that the two sides of a rename are kinds of
events, that actions are masks, and that there are finitely many inodes.

| Theorem | Property | Needs |
|---|---|---|
| `EventsTypeCorrect` | `EventsTypeOK` | `EventsInv`: `FaithfulInv`, types of what surrounds it, the kernel sends each side of a cookie once (`SentOnce`), and no half was read but from an event taken (`HistoryRead`) |
| `CorrelationWithinLoop`, `BackToBackWithinLoop`, `LoopKeepsPromise` | `ReportsFaithful`, `BackToBackReported`, `PairingSpec`, of the whole loop | the same |
| `RightDirectoryAlways` | `RightDirectory` | `WatchInv` |
| `DistinctWatchesAlways` | `DistinctWatches` | `WatchInv` |
| `PairedInOneReadingAlways` | `PairedInOneReading` | `ReadingInv`: no purge came since what is pending was read (`PendingSince`) |

`WatchInv` says what a watch number a directory holds stands for: the inode
it was opened on (`HeldOpen`, and the same one for all that hold it,
`HeldAlike`), on the watches of the kernel (`HeldWatches`) and on all events
that are not taken yet (`HeldEvents`). The numbers start from 1 again with each
reading, and events of the old ones would carry the same numbers; they went
with the old instance. `DistinctWatches` follows, as registered directories
have different inodes (`InodesApart`).

`Renames` takes its input to be `Fresh`; here the loop and the kernel are shown
to provide that, so that every theorem about the correlation alone holds in the
place it is used.

### Command launcher: `CommandsProofs`

For any number of launches, entries, reloads and failures, pipes of any
capacity, and commands that write what they like; and, as far as `OutputLines`
goes, for an `rbuf` of any size and any packet that fits in it with its NUL.
The assumption is that the static entries are among the entries and that a pipe
holds a packet.

| Theorem | Property | Needs |
|---|---|---|
| `TypeCorrect` | `TypeOK` | `Inv` |
| `EntriesAlways` | `EntriesAccounted` | `Inv` |
| `DescriptorsAlways` | `DescriptorsAccounted` | `DescriptorsInv`: no descriptor is of a launch to come |
| `OrderAlways` | `OutputInOrder` | `OutInv`: log, buffer and pipe, one behind the other, are in order (`Ordered`) and their command's (`Mine`) |
| `KeptAlways` | `OutputKept` | `KeptInv`: a buffer holds one part of a line at most, and what was written after what is there is behind it (`Latest`, `Kept`) |
| `OutputsKeepPromise` | `Spec => OutputsPromised`, of `Commands` | `OutInv`, `Ignored` |
| `LinesAlways` | `LogSpec => []LinesLogged`, of `OutputLines` | `LogInv` |

`Inv` says that the two lists of entries have no entry twice and none in
common, and that each entry up to `brk` is on one of them (`Lists`); that the
entries in use are of different processes that were not waited for yet
(`Followers`), so that `in_cmd_exited` finds one entry or none; that there is
a process only for launches that were handled (`Unstarted`), so that the next
one is of a command nothing was seen of; and that what `poll` returned is about
pipes that still hold something when it is used (`Answered`): nobody but the
daemon reads them. The last one is why the `read` of a turn, which is not
checked against a second `poll`, does not block.

`OutputsKeepPromise` goes through `OutputMoves`, which says what any step of
`Commands` does to a stream: it rests, is read, is flushed or is written to,
and how the command's process and the entry that follows it change with that.
Each of these is a step of `OutputPromise` or a stutter: a launch is `Follow`
or `Miss`, a read is `Read`, whose packet is among `ends` if the plan of its
writer says so, which is the plan of this command because of `Mine`; the end of
the process is `End`; all that other commands do is a stutter, entries that are
used again included. `Ignored` says that a command that is not followed has
nothing in its pipes, and nothing to say unless its end was waited for.
Without it, such a command could write what the promise does not allow, and its
end, which the code passes over as no entry has its pid, would have to drop
something.

`LinesLogged` says which lines a packet makes by positions: `Cuts` are the
newlines of it at which the loop ends a line, each one but the one right behind
another at which it does. In `LogInv`, `SoFar` says that the cuts the loop has
come by are those of the part of the packet it has looked at, that there is one
logged line for each, and that these are the lines of the packet; that they are
as many as the turns by which `estr` is ahead is in `Memory`, which is how far
behind the packet the loop can get, and so when it can leave `rbuf`: the turns
left and the lines ended are at most as many as the packet has bytes. It is
`Inside` while `bstr` is not behind the NUL that ends the packet, and then
knows what the next line begins with; afterwards it is `Outside`: all lines of
the packet are logged, and what is left too if a newline was found behind it,
and what comes now has no letter of the packet. `StringAt`, the string at a
pointer, ends at the least NUL (`StringFound`): the one just written, for a
line; the one behind the packet, or one behind that if there is one in `rbuf`,
for what is kept.

### Pid file: `PidFileProofs`

For all sets of pids and any number of daemons, starts and files made, whether
or not the configuration names a file of its own.

| Theorem | Property | Needs |
|---|---|---|
| `TypeCorrect` | `TypeOK` | |
| `GuardedForEver` | `Spec => StaysGuarded`, an action property | `Inv` |
| `FreshGuarded` | `FreshStartGuarded` | `FreshInv` |

`Inv` says that two names never lead to one file and that nothing is in a file
before it is made (otherwise a write to one file could change what another one
names), and that a daemon named by main's file has opened no older one, read
its own pid there, or could not read it, and is not about to make that file
anew. Nobody but a daemon itself writes its pid, so that each action either
leaves the guarded daemon alone or is its own. `FreshInv` says that a daemon
that starts alone stays alone until its loop, and goes through seven stages on
its way (`Stage`), in the last three of which the file names it. `Guarded`
demands of every other daemon that starts what `Foreseen` says: it has opened
nothing yet, or the file that names the guarded one, or has read its pid there.
Without that, a step of a daemon with an older file would unlink the file of
the guarded one.

### Configuration reader: `ConfigurationProofs`

For all files, directories, events, commands, drivers and command lines, any
number of descriptors and readings, and for a line buffer of any size.
`ConfigurationAssumption` says that files hold lines, that sets of events are
finite, and that there are no more events than places in `dir_actions`, which
are 12 bits and 16 places.

| Theorem | Property | Needs |
|---|---|---|
| `TypeCorrect` | `TypeOK` | `Inv` |
| `Disjoint` | `ActionsDisjoint` | `Inv` |
| `Enough` | `PlacesEnough` | follows from `Inv` |
| `KeepsPromise` | `Spec => PromiseSpec` | `Inv` |
| `InForceAsWritten` | `AsWritten` | `ReadInv`, `MainInv` |
| `ReaderTypeCorrect` | `ReaderSpec => []ReaderTypeOK` | |
| `ReaderLinesRead` | `ReaderSpec => []RegularLinesRead` | `LinesInv` |

`Inv` adds two facts to the properties: no section is open when a reading
begins, so that a `directory` section never outlives the purge of the directory
it fills; and a directory that is not on the list holds nothing, so that
declaring it again starts from nothing. `ActionsDisjoint` is preserved by
`Event` because the new mask is disjoint from the directory's mask, which is
the union of the actions', and `Joined` adds it to the one action with the
command or to a new one. `PlacesEnough` is a consequence: masks of different
actions are disjoint and not empty, so that choosing one event of each is an
injection into `Events`, and an array that no code bounds cannot overflow.
`KeepsPromise` maps `Event` to `Declare`, a new reading to `Forget`, all else
to a stutter.

`ReadInv` is `AsWritten` for the lines taken so far, whatever files they are of:
with `p` lines taken, directories (`LinesRead`), what they have
(`RegistrySoFar`) and settings (`SettingsSoFar`) are what the first `p` lines
say. A line extends each of these by what it says itself, and the end of the
text makes it the property. When a last line is handed over again it claims
nothing: such a reading has no success (`AgainStays`, `EndNotAgain`). `MainInv`
says that without include directives and unreadable lines the lines taken are
the first ones of the file, as many as were read, which are all of them at the
end.

`LinesInv` says that either the reader is in step with the file (`Synced`: the
unread part of the buffer is the part of the file that begins where the next
line does, and as many lines were handed over as there are newlines before it),
or a line came that is not regular, or none is left, and of what comes then
nothing is said (`Lost`). Newlines are counted with `Cardinality`, so that the
number of a line needs no recursion.

### Main loop: `DaemonProofs`

For every number of descriptors and every set of configuration files.

| Theorem | Property | Needs |
|---|---|---|
| `TypeCorrect` | `TypeOK` | |
| `DescriptorsAlways` | `Discreet /\ Spec => []DescriptorsRight` | `DaemonInv` |
| `LogAlwaysThere` | `Discreet /\ Spec => []LogWhereConfigured` | `DaemonInv` |
| `RequestsKept` | `Discreet /\ Spec => []RequestKept` | `DaemonInv` |
| `ChildrenAlwaysKnown` | `Discreet /\ Spec => []ChildrenKnown` | `DaemonInv` |

`Discreet` is a condition on the configurations, not on what happens: unless
the command line gives the driver no log file is kept open, and a driver that
keeps a descriptor has nothing to say while the loop's descriptors are made.
It is needed. `in_signal_terminate` keeps the number of the descriptor it
closed, and `daemon_stops` is what a configuration that is not discreet leads
to. The configurations of the run `daemon` satisfy it.

`DaemonInv` says that every descriptor the log holds is one it knows of, and
no other is (`LogRight`); who holds what in which phase (`PhaseInv`); and what
the settings of a process are under a discreet configuration (`SettingsInv`).
The interesting part of `PhaseInv` is `LoopLeft`: behind a reload the number in
`in_signal_fd` is stale and free, and there is a free number below it, the one
the inotify instance had. The kernel gives the lowest number that is free, so
that the new inotify instance never gets the stale one, and `in_signal_init`,
which closes that, closes nothing. `RequestKept` and `ChildrenKnown` need this
too: a loop that polls something else as its events would throw signals away.

### What is only model-checked

- All liveness: `EveryCommandReaped`, `ReadToTheEnd`, `ReadingEnds`,
  `StopsWhenAsked`, `ReloadTakesEffect`, `CommandsReaped`. The prover has no
  rules for fairness and `ENABLED`.
- The violations of section 4, which are runs of TLC.

## 7. Not modelled, and why

- Reads and writes of pipes that fail, and `poll` that does: signals are
  blocked, so that nothing interrupts them.
- `in_str2events` and `in_events2str`; expansion of command lines; changing
  user in the child, which ends in `exec` and touches nothing of the daemon.
- A command that writes NULs, or packets of more than 255 bytes, which the
  kernel cuts (`pipe2(O_DIRECT)`).
- `LineReader` takes `memcpy` of overlapping bytes to behave as `memmove`.
- The tests of the names of pid files. In `PidFile`, that `chdir`, `fork` and
  signals of a start are not steps: they touch nothing the pid file logic
  reads. In `Daemon`, both calls of `in_pidfile` are one step, whose outcomes
  are those of `PidFile`.
- SIGINT, which is handled as SIGTERM is; `-s`, which is refused; `-T`, `-h`
  and `-V`, which end at once.
- The text of log messages, file names that change with the time (an option
  that is off), the mode of log files and the options of `openlog`.
- Options of the command line (`ind_opts.c`, `ind_nopt.c`): read once, before
  the daemon exists; what they leave behind is `given` and `cliopts`.
- Formatting, paths and names: bounded copying without state. Build files,
  packages and manuals are not part of the running program.

## 8. Plan

Done, in this order: `RenamePairing`, `Renames`, `RenameList`,
`RenamesProofs`, `Events`, `Commands`, `PidFile`, `LineReader`;
`ConfigPromise`, `Configuration`, `ConfigurationProofs`, `Logging`, `Daemon`,
`OutputLines`, `PidFileProofs`; `SequenceLemmas`, `CommandsProofs`,
`EventsProofs`, `DaemonProofs`, `RenameListProofs`, the proofs about
`LineReader`; `OutputPromise` with its refinement, and the proof about
`OutputLines`. What may follow:

1. The options of the command line as far as they choose driver and files.
2. A `poll` that fails for another reason than a signal, which ends the daemon.
