----------------------------- MODULE Configuration -----------------------------
(***************************************************************************)
(* in_configuration_read of ind_conf.c: how the lines of the configuration  *)
(* files become directories, actions and settings, at the start and at each *)
(* reload.                                                                  *)
(*                                                                          *)
(* A line is a keyword and its argument, as split and strtok_r give them;   *)
(* Bad is an argument that the function of the keyword refuses by itself    *)
(* (missing, too many words, unknown user, level, driver or event, no such  *)
(* directory, a pid file that is not an absolute name).  The argument of    *)
(* include is the list of names glob finds.  "unreadable" stands for a line *)
(* that does not fit in the buffer, and for a read that fails there;        *)
(* "unended", at the end of a text, for a last line without its newline,    *)
(* which is the one before it.  "comment" is also a blank line.             *)
(***************************************************************************)
EXTENDS Naturals, Sequences, FiniteSets

CONSTANTS Names,      \* names of configuration files
          Main,       \* conf_file
          Contents,   \* what the files may hold when they are read
          MaxOpen,    \* descriptors left for configuration files
          Inodes,     \* directories
          Events,     \* the bits of a mask of events
          Commands,   \* command lines
          NoCommand,
          Places,     \* length of dir_actions
          Ids,        \* users and groups, by name
          Shells,
          Drivers,    \* log drivers
          DrvOpts,    \* their options: [Drivers -> set of names]
          Values,     \* of settings
          CommandLines, \* the sets of CL_OPT flags of the command line
          MaxReadings,  \* bound: readings
          Bad, Unset, Junk

Flags == {"PIDFILE", "LOGDRV", "LOGLVL", "LOGOPT"}
Settings == {"pidfile", "driver", "level"} \cup UNION {DrvOpts[v] : v \in Drivers}

Ways == [mask : (SUBSET Events) \ {{}}, command : Commands]

Lines ==
  [kw : {"comment", "unreadable", "unended", "settings", "end", "unknown"}, arg : {Unset, Bad}]
  \cup [kw : {"include"}, arg : Seq(Names) \cup {Bad}]
  \cup [kw : {"directory"}, arg : Inodes \cup {Bad}]
  \cup [kw : {"event"}, arg : Ways \cup {Bad}]
  \cup [kw : {"user", "group"}, arg : Ids \cup {Bad}]
  \cup [kw : {"shell"}, arg : Shells \cup {Bad}]
  \cup [kw : {"logging"}, arg : Drivers \cup {Bad}]
  \cup [kw : {"set"}, arg : [name : STRING, value : Values] \cup {Bad}]
  \cup [kw : {"level", "pidfile"}, arg : Values \cup {Bad}]

ASSUME ConfigurationAssumption ==
  /\ Main \in Names
  /\ \A f \in Contents : DOMAIN f \subseteq Names
  /\ \A f \in Contents, n \in Names : n \in DOMAIN f =>
       /\ f[n] \in Seq(Lines)
       /\ \A k \in DOMAIN f[n] : f[n][k].kw = "unended" =>
            k = Len(f[n]) /\ k > 1 /\ f[n][k - 1].kw # "unreadable"
  /\ MaxOpen \in Nat
  /\ MaxReadings \in Nat
  /\ Places \in Nat
  /\ IsFiniteSet(Events)
  /\ Cardinality(Events) <= Places
  /\ NoCommand \notin Commands
  /\ DrvOpts \in [Drivers -> SUBSET STRING]
  /\ \A v \in Drivers : DrvOpts[v] \cap {"pidfile", "driver", "level"} = {}
  /\ Unset \notin Ids
  /\ CommandLines \subseteq SUBSET Flags

Sections == {"main", "directory", "settings", "logging"}

Keywords == [s \in Sections |->
  CASE s = "main"      -> {"directory", "include", "settings"}
    [] s = "directory" -> {"end", "event", "group", "shell", "user"}
    [] s = "settings"  -> {"end", "logging", "pidfile"}
    [] s = "logging"   -> {"end", "level", "set"}]

VARIABLES phase,      \* of the reading; "start" when there was none yet
          readings,   \* readings begun
          content,    \* the files, when the reading began
          stack,      \* the files being read, the included one first
          taken,      \* history: the lines of this reading, in order
          section,    \* the table of keywords of the first of them
          at,         \* dire: the directory whose section is read
          ct_driver,  \* ct_data: the driver whose section is read
          clobbered,  \* history: ct_driver was overwritten in this reading
          registered, \* the directories of the list
          dirs,       \* what each of them holds
          setting,    \* pidfile, current driver, level and driver options
          before,     \* history: setting when the reading began
          cliopts     \* the settings the command line gave

reader == <<phase, readings, content, stack, taken, section>>
data == <<at, ct_driver, clobbered>>
registry == <<registered, dirs>>
settings == <<setting, before, cliopts>>
vars == <<reader, data, registry, settings>>

Blank == [mask |-> {}, actions |-> <<>>, uid |-> Unset, gid |-> Unset, shell |-> Unset]

Init ==
  /\ phase = "start"
  /\ readings = 0
  /\ content = [n \in {} |-> <<>>]
  /\ stack = <<>>
  /\ taken = <<>>
  /\ section = "main"
  /\ at = Unset
  /\ ct_driver = Unset
  /\ clobbered = FALSE
  /\ registered = {}
  /\ dirs = [i \in Inodes |-> Blank]
  /\ setting = [s \in Settings |-> Unset]
  /\ before = setting
  /\ cliopts \in CommandLines

-----------------------------------------------------------------------------
(* The files.  The first one of the stack is read, at its position pos;     *)
(* todo are the names its include directive still has to read.              *)
Frame(n) == [name |-> n, pos |-> 0, todo |-> <<>>]

Begin ==
  /\ phase \in {"start", "ok"}
  /\ readings < MaxReadings
  /\ readings' = readings + 1
  /\ content' \in Contents
  /\ IF Main \in DOMAIN content' /\ MaxOpen > 0
     THEN phase' = "reading" /\ stack' = <<Frame(Main)>>
     ELSE phase' = "failed" /\ stack' = <<>>
  /\ taken' = <<>>
  /\ clobbered' = FALSE
  /\ before' = setting
  /\ UNCHANGED <<section, at, ct_driver, setting, cliopts>>

(* Mistake: the directories of the last reading stay on the list.           *)
BeginUnpurged == Begin /\ UNCHANGED registry

(* in_configuration_read: the directories are forgotten, the settings not.  *)
BeginReading ==
  /\ Begin
  /\ registered' = {}
  /\ dirs' = [i \in Inodes |-> Blank]

(* readline.  What is left behind the last newline is handed over and not   *)
(* taken out of the buffer: the next call hands it over again, without its  *)
(* argument, which strtok_r has cut off.                                    *)
Reading == phase = "reading" /\ stack[1].todo = <<>>
Text == content[stack[1].name]
Again == stack[1].pos < Len(Text) /\ Text[stack[1].pos + 1].kw = "unended"
Line == IF Again THEN [kw |-> Text[stack[1].pos].kw, arg |-> Bad] ELSE Text[stack[1].pos + 1]
AtEnd == stack[1].pos < Len(Text) => Line.kw = "unreadable"
AtLine == Reading /\ ~AtEnd

Advance ==
  IF Again THEN UNCHANGED <<stack, taken>>
  ELSE /\ stack' = [stack EXCEPT ![1].pos = @ + 1]
       /\ taken' = Append(taken, Line)

(* When what is left is handed over first, no NUL ends it in the buffer:    *)
(* what older lines left there may make other words of it, with which the   *)
(* reading fails, at the latest when they are handed over again.            *)
Garbled == stack[1].pos + 2 = Len(Text) /\ Text[stack[1].pos + 2].kw = "unended"

(* The end of kw_main_directory, which has an end also when it fails.       *)
Defaults(d) == [d EXCEPT !.uid = IF @ = Unset THEN "root" ELSE @,
                         !.gid = IF @ = Unset THEN "root" ELSE @]
Closed == IF section = "directory" THEN [dirs EXCEPT ![at] = Defaults(@)] ELSE dirs

(* An error goes up through all sections and all files.                     *)
Fail ==
  /\ phase' = "failed"
  /\ stack' = <<>>
  /\ section' = "main"
  /\ dirs' = Closed
  /\ UNCHANGED <<readings, content, taken, data, registered, settings>>

Comment ==
  /\ AtLine
  /\ Line.kw = "comment"
  /\ Advance
  /\ UNCHANGED <<phase, readings, content, section, data, registry, settings>>

(* A keyword that the table of the section has, with an argument that its   *)
(* function takes.                                                          *)
Known == Line.kw \in Keywords[section] \cup {"comment"}
Takes(kw) == AtLine /\ Line.kw = kw /\ Known /\ (kw = "end" \/ Line.arg # Bad)

(* It is not in the table, the argument is bad, or memory cannot be had.    *)
Refuse ==
  /\ AtLine
  /\ \/ ~Known
     \/ Line.kw \notin {"comment", "end"} /\ Line.arg = Bad
     \/ Line.kw \in {"include", "directory", "event", "shell"}
     \/ Garbled
  /\ Fail

(* The table of settings has no last row: the search for a keyword that it  *)
(* does not have goes on in what lies behind it.                            *)
RunOffTable ==
  /\ AtLine
  /\ section = "settings"
  /\ ~Known \/ Garbled
  /\ phase' = "crashed"
  /\ stack' = <<>>
  /\ UNCHANGED <<readings, content, taken, section, data, registry, settings>>

(* Mistake: the included file is read again, not left.                      *)
EndOfLinesAgain ==
  /\ Reading
  /\ AtEnd
  /\ section = "main"
  /\ IF Len(stack) = 1
     THEN phase' = "ok" /\ stack' = <<>>
     ELSE UNCHANGED phase /\ stack' = [stack EXCEPT ![1].pos = 0]
  /\ UNCHANGED <<readings, content, taken, section, data, registry, settings>>

(* No line is left, or it cannot be read.  At the top level of a file that  *)
(* is its end, and success; in a section it is an error.                    *)
EndOfLines ==
  /\ Reading
  /\ AtEnd
  /\ section = "main"
  /\ stack' = Tail(stack)
  /\ phase' = IF Len(stack) = 1 THEN "ok" ELSE phase
  /\ UNCHANGED <<readings, content, taken, section, data, registry, settings>>

PrematureEnd == Reading /\ AtEnd /\ section # "main" /\ Fail

(* kw_main_include: one name after the other, each read to its end.         *)
Include ==
  /\ Takes("include")
  /\ stack' = [stack EXCEPT ![1] = [name |-> @.name, pos |-> @.pos + 1, todo |-> Line.arg]]
  /\ taken' = Append(taken, Line)
  /\ UNCHANGED <<phase, readings, content, section, data, registry, settings>>

(* Mistake: descriptors never run out.                                      *)
OpenUnlimited ==
  /\ phase = "reading"
  /\ stack[1].todo # <<>>
  /\ LET n == Head(stack[1].todo) IN
     IF n \in DOMAIN content
     THEN /\ stack' = <<Frame(n)>> \o [stack EXCEPT ![1].todo = Tail(@)]
          /\ UNCHANGED <<phase, readings, content, taken, section, data, registry, settings>>
     ELSE Fail

OpenIncluded ==
  /\ phase = "reading"
  /\ stack[1].todo # <<>>
  /\ LET n == Head(stack[1].todo) IN
     IF n \in DOMAIN content /\ Len(stack) < MaxOpen
     THEN /\ stack' = <<Frame(n)>> \o [stack EXCEPT ![1].todo = Tail(@)]
          /\ UNCHANGED <<phase, readings, content, taken, section, data, registry, settings>>
     ELSE Fail

-----------------------------------------------------------------------------
(* Directories.                                                             *)

(* kw_main_directory, up to its lines; a directory that is on the list,     *)
(* under whatever name, is refused.                                         *)
Directory ==
  /\ Takes("directory")
  /\ IF Line.arg \in registered THEN Fail
     ELSE /\ Advance
          /\ section' = "directory"
          /\ at' = Line.arg
          /\ registered' = registered \cup {Line.arg}
          /\ dirs' = [dirs EXCEPT ![Line.arg] = Blank]
          /\ UNCHANGED <<phase, readings, content, ct_driver, clobbered, settings>>

EndDirectory ==
  /\ Takes("end")
  /\ section = "directory"
  /\ Advance
  /\ section' = "main"
  /\ dirs' = Closed
  /\ UNCHANGED <<phase, readings, content, data, registered, settings>>

(* Mistake: the command is not looked for among the actions.                *)
JoinedAlways(d, S, c) ==
  [d EXCEPT !.mask = @ \cup S, !.actions = Append(@, [mask |-> S, command |-> c])]

(* The action of a command gets the events; a command that has none yet     *)
(* takes the next place, whether there is one or not.                       *)
Joined(d, S, c) ==
  LET a     == d.actions
      here  == {n \in DOMAIN a : a[n].command = c}
      first == CHOOSE n \in here : \A m \in here : n <= m
  IN  [d EXCEPT !.mask = @ \cup S,
                !.actions = IF here = {} THEN Append(a, [mask |-> S, command |-> c])
                            ELSE [a EXCEPT ![first].mask = @ \cup S]]

(* Mistake: only the actions are compared with the command, not the mask    *)
(* with the events.                                                         *)
EventTwice ==
  /\ Takes("event")
  /\ Advance
  /\ dirs' = [dirs EXCEPT ![at] = Joined(@, Line.arg.mask, Line.arg.command)]
  /\ UNCHANGED <<phase, readings, content, section, data, registered, settings>>

(* kw_dire_event: an event that already leads to a command is refused, even *)
(* to the same one.                                                         *)
Event ==
  /\ Takes("event")
  /\ IF Line.arg.mask \cap dirs[at].mask # {} THEN Fail
     ELSE /\ Advance
          /\ dirs' = [dirs EXCEPT ![at] = Joined(@, Line.arg.mask, Line.arg.command)]
          /\ UNCHANGED <<phase, readings, content, section, data, registered, settings>>

(* kw_dire_user, kw_dire_group, kw_dire_shell: the last one counts.         *)
Owner ==
  /\ \/ /\ Takes("user")
        /\ dirs' = [dirs EXCEPT ![at].uid = Line.arg]
     \/ /\ Takes("group")
        /\ dirs' = [dirs EXCEPT ![at].gid = Line.arg]
     \/ /\ Takes("shell")
        /\ dirs' = [dirs EXCEPT ![at].shell = Line.arg]
  /\ Advance
  /\ UNCHANGED <<phase, readings, content, section, data, registered, settings>>

-----------------------------------------------------------------------------
(* Settings.                                                                *)

(* kw_main_settings: nothing sets the bit of unicity that it tests, so that *)
(* there may be any number of these sections.                               *)
SettingsSection ==
  /\ Takes("settings")
  /\ Advance
  /\ section' = "settings"
  /\ UNCHANGED <<phase, readings, content, data, registry, settings>>

EndSettings ==
  /\ Takes("end")
  /\ section = "settings"
  /\ Advance
  /\ section' = "main"
  /\ UNCHANGED <<phase, readings, content, data, registry, settings>>

Put(s, value, flag) ==
  setting' = IF flag \in cliopts THEN setting ELSE [setting EXCEPT ![s] = value]

Pidfile ==
  /\ Takes("pidfile")
  /\ Advance
  /\ Put("pidfile", Line.arg, "PIDFILE")
  /\ UNCHANGED <<phase, readings, content, section, data, registry, before, cliopts>>

(* kw_sett_logging, up to its lines; ct_data points to the name of the      *)
(* driver in the buffer.                                                    *)
Logging ==
  /\ Takes("logging")
  /\ Advance
  /\ section' = "logging"
  /\ ct_driver' = Line.arg
  /\ UNCHANGED <<phase, readings, content, at, clobbered, registry, settings>>

(* refill_buffer writes over the line that holds the name.                  *)
Overwrite ==
  /\ AtLine
  /\ section = "logging"
  /\ ct_driver # Junk
  /\ ct_driver' = Junk
  /\ clobbered' = TRUE
  /\ UNCHANGED <<reader, at, registry, settings>>

Level ==
  /\ Takes("level")
  /\ Advance
  /\ Put("level", Line.arg, "LOGLVL")
  /\ UNCHANGED <<phase, readings, content, section, data, registry, before, cliopts>>

(* kw_logg_set: the driver must exist, and have the option.                 *)
Set ==
  /\ Takes("set")
  /\ IF ct_driver \notin Drivers THEN Fail
     ELSE IF Line.arg.name \notin DrvOpts[ct_driver] THEN Fail
     ELSE /\ Advance
          /\ Put(Line.arg.name, Line.arg.value, "LOGOPT")
          /\ UNCHANGED <<phase, readings, content, section, data, registry, before, cliopts>>

(* The driver is chosen; what in_log_set_driver returns is not looked at.   *)
EndLogging ==
  /\ Takes("end")
  /\ section = "logging"
  /\ Advance
  /\ section' = "settings"
  /\ IF ct_driver \in Drivers THEN Put("driver", ct_driver, "LOGDRV") ELSE UNCHANGED setting
  /\ UNCHANGED <<phase, readings, content, data, registry, before, cliopts>>

-----------------------------------------------------------------------------
Step ==
  \/ Comment \/ Refuse \/ RunOffTable \/ EndOfLines \/ PrematureEnd
  \/ Include \/ OpenIncluded
  \/ Directory \/ Event \/ Owner \/ EndDirectory
  \/ SettingsSection \/ Pidfile \/ Logging \/ Level \/ Set \/ EndLogging \/ EndSettings

Next == BeginReading \/ Step \/ Overwrite

(* The reader is one sequential program.                                    *)
Spec == Init /\ [][Next]_vars /\ WF_vars(Step)

-----------------------------------------------------------------------------
Directories == [mask : SUBSET Events, actions : Seq(Ways), uid : Ids \cup {"root", Unset},
                gid : Ids \cup {"root", Unset}, shell : Shells \cup {Unset}]

TypeOK ==
  /\ phase \in {"start", "reading", "ok", "failed", "crashed"}
  /\ readings \in 0 .. MaxReadings
  /\ content \in Contents \cup {[n \in {} |-> <<>>]}
  /\ stack \in Seq([name : DOMAIN content, pos : Nat, todo : Seq(Names)])
  /\ \A k \in DOMAIN stack : stack[k].pos <= Len(content[stack[k].name])
  /\ Len(stack) <= MaxOpen
  /\ taken \in Seq(Lines)
  /\ stack # <<>> <=> phase = "reading"
  /\ section \in Sections
  /\ section = "directory" => at \in registered
  /\ section = "logging" => ct_driver \in Drivers \cup {Junk}
  /\ clobbered \in BOOLEAN
  /\ registered \subseteq Inodes
  /\ dirs \in [Inodes -> Directories]
  /\ setting \in [Settings -> Values \cup Drivers \cup {Unset}]
  /\ cliopts \in CommandLines

(* An event that arrives leads to one command or to none: the actions of a  *)
(* directory have different commands, and events of their own, which        *)
(* together are those watched (ind_conf.c:337-364).                         *)
Sound(d) ==
  /\ \A m, n \in DOMAIN d.actions : m # n =>
       /\ d.actions[m].mask \cap d.actions[n].mask = {}
       /\ d.actions[m].command # d.actions[n].command
  /\ d.mask = UNION {d.actions[n].mask : n \in DOMAIN d.actions}

ActionsDisjoint == \A i \in Inodes : Sound(dirs[i])

(* No action is written behind the end of dir_actions, which has 16 places  *)
(* and no test: there are never more actions than kinds of events           *)
(* (ind_conf.c:360-362, inotify-daemon.h:72).                               *)
PlacesEnough == \A i \in Inodes : Len(dirs[i].actions) <= Places

(* The command of each event, as in_cmd_run finds it.                       *)
Command(d, e) ==
  LET for == {n \in DOMAIN d.actions : e \in d.actions[n].mask}
  IN  IF for = {} THEN NoCommand ELSE d.actions[CHOOSE n \in for : TRUE].command

Promise == INSTANCE ConfigPromise
             WITH command <- [i \in Inodes |-> [e \in Events |-> Command(dirs[i], e)]]

(* Within a reading, what was declared stays as it is, whatever sections,   *)
(* files and errors follow; a reading forgets all that older ones declared  *)
(* (ind_conf.c:313-367 and 826-839, ind_dire.c:195-221).                    *)
PromiseSpec == Promise!Spec

(* What lines t say.                                                        *)
Says(t, kw) == {k \in DOMAIN t : t[k].kw = kw}
SaysOf(t, i, kw) ==
  {k \in Says(t, kw) : \E j \in Says(t, "directory") :
     /\ t[j].arg = i
     /\ j < k
     /\ \A l \in Says(t, "end") : ~(j < l /\ l < k)}
Last(K) == CHOOSE k \in K : \A l \in K : l <= k

Flag(s) == CASE s = "pidfile" -> "PIDFILE" [] s = "driver" -> "LOGDRV"
             [] s = "level" -> "LOGLVL" [] OTHER -> "LOGOPT"
SaysSetting(t, s) ==
  CASE s = "driver" -> Says(t, "logging") [] s \in {"pidfile", "level"} -> Says(t, s)
    [] OTHER -> {k \in Says(t, "set") : t[k].arg.name = s}
Value(t, k) == IF t[k].kw = "set" THEN t[k].arg.value ELSE t[k].arg

(* A directory has what its section says.  Of the users and groups that no  *)
(* line gives nothing is said: the code and the manuals disagree.           *)
OfSection(t, i) ==
  /\ \A e \in Events :
       LET K == {k \in SaysOf(t, i, "event") : e \in t[k].arg.mask} IN
       /\ \A k \in K : Command(dirs[i], e) = t[k].arg.command
       /\ K = {} => Command(dirs[i], e) = NoCommand
  /\ \A f \in {<<"user", dirs[i].uid>>, <<"group", dirs[i].gid>>, <<"shell", dirs[i].shell>>} :
       SaysOf(t, i, f[1]) # {} => f[2] = t[Last(SaysOf(t, i, f[1]))].arg
  /\ SaysOf(t, i, "shell") = {} => dirs[i].shell = Unset

OfSettings(t) ==
  \A s \in Settings :
    ~(s = "driver" /\ clobbered) =>
      setting[s] = IF Flag(s) \in cliopts \/ SaysSetting(t, s) = {} THEN before[s]
                   ELSE Value(t, Last(SaysSetting(t, s)))

(* A second settings section is one that the manual does not know.          *)
OneSettings(t) == \A j, k \in Says(t, "settings") : j = k

WholeInMain == Says(content[Main], "include") \cup Says(content[Main], "unreadable") = {}

(* A configuration that is read with success is in force as its lines say,  *)
(* those of included files in their places: its directories and no others;  *)
(* for each event the command of the one line that names it; the last user, *)
(* group and shell of each section; the last value of each setting that the *)
(* command line does not give, the old value if none - a setting that is    *)
(* not in the file any more keeps what an older reading gave it.  The       *)
(* driver is, unless its name was overwritten.  Without include directives, *)
(* and lines that cannot be read, those are all the lines of the file       *)
(* (ind_conf.c:193-222, 282-600 and 699-839).                               *)
AsWritten ==
  phase = "ok" =>
    /\ registered = {taken[k].arg : k \in Says(taken, "directory")}
    /\ \A i \in registered : OfSection(taken, i)
    /\ OneSettings(taken) => OfSettings(taken)
    /\ WholeInMain => taken = content[Main]

(* Every reading ends, also when a file includes itself: descriptors run    *)
(* out, and that is an error.  The exception is a file whose last line has  *)
(* no newline and is blank or a comment: there the reading stays for ever   *)
(* (ind_conf.c:259-275, 699-723 and 799-804).                               *)
ReadingEnds ==
  phase = "reading" ~> (phase # "reading" \/ [](Reading /\ Again /\ Line.kw = "comment"))
=============================================================================
