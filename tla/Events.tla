-------------------------------- MODULE Events --------------------------------
(***************************************************************************)
(* Directories, their inotify watches, and the loop that takes events from  *)
(* the inotify descriptor and hands them to in_cmd_run: ind_dire.c,         *)
(* ind_inot.c and the choice of an action in ind_comm.c.  Rename halves go  *)
(* through Renames.  The kernel (inode of each name, watches, queue) is     *)
(* external; the queue is a sequence with a read position.                  *)
(***************************************************************************)
EXTENDS Renames, Integers, FiniteSets

CONSTANTS Inodes,     \* inodes of directories
          Gone,       \* what a name leads to when there is no directory
          AllEvents,  \* IN_ALL_EVENTS, as a set of event bits
          Actions,    \* of each directory: the sequence of its action masks
          MaxSent,    \* bound: events the kernel queues
          MaxReads    \* bound: times the configuration is read

ASSUME EventsAssumption ==
  /\ Gone \notin Inodes
  /\ Sides \subseteq AllEvents
  /\ \A d \in Dirs : Actions[d] \in Seq(SUBSET AllEvents)
  /\ IsFiniteSet(Inodes)
  /\ MaxSent \in Nat
  /\ MaxReads \in Nat

VARIABLES path,      \* kernel: the inode each directory's name leads to
          watch,     \* kernel: wd and mask of the watch on each inode, wd 0 if none
          sent,      \* kernel: every event queued so far
          taken,     \* kernel: how many of them were read or thrown away
          dirs,      \* the registry: registered directories, dir_first first
          dir_ino,   \* dir_dev and dir_ino of each registered directory
          dir_wd,    \* dir_wd of each directory
          opened,    \* history: the inode each directory was opened on, if any
          watching,  \* in_events_init has run since the configuration was read
          reads,     \* times the configuration was read
          launched   \* history: the commands launched, oldest first

kernel == <<path, watch, sent>>
registry == <<dirs, dir_ino, dir_wd, opened, watching, reads>>
evars == <<kernel, taken, registry, launched>>
allvars == <<vars, evars>>

NoWatch == [wd |-> 0, mask |-> {}]
DirMask(d) == UNION {Actions[d][a] : a \in DOMAIN Actions[d]}

EventsInit ==
  /\ Init
  /\ path \in [Dirs -> Inodes]
  /\ watch = [i \in Inodes |-> NoWatch]
  /\ sent = <<>>
  /\ taken = 0
  /\ dirs = <<>>
  /\ dir_ino = [d \in Dirs |-> Gone]
  /\ opened = [d \in Dirs |-> Gone]
  /\ dir_wd = [d \in Dirs |-> -1]
  /\ watching = FALSE
  /\ reads = 0
  /\ launched = <<>>

-----------------------------------------------------------------------------
(* Mistake: the inodes of the names are not compared.                       *)
ReadUncompared ==
  /\ reads < MaxReads
  /\ reads' = reads + 1
  /\ \E n \in 1 .. Cardinality(Dirs) : \E s \in [1 .. n -> Dirs] :
       /\ \A k \in 1 .. n : path[s[k]] # Gone
       /\ \A k, l \in 1 .. n : s[k] = s[l] => k = l
       /\ dirs' = s
       /\ dir_ino' = [d \in Dirs |-> IF \E k \in 1 .. n : s[k] = d THEN path[d] ELSE Gone]
  /\ dir_wd' = [d \in Dirs |-> -1]
  /\ opened' = [d \in Dirs |-> Gone]
  /\ watching' = FALSE
  /\ Purge
  /\ UNCHANGED <<kernel, taken, launched>>

(* Mistake: the pending halves outlive the directories they were read from. *)
ReadUnpurged ==
  /\ reads < MaxReads
  /\ reads' = reads + 1
  /\ \E n \in 1 .. Cardinality(Dirs) : \E s \in [1 .. n -> Dirs] :
       /\ \A k \in 1 .. n : path[s[k]] # Gone
       /\ \A k, l \in 1 .. n : path[s[k]] = path[s[l]] => k = l
       /\ dirs' = s
       /\ dir_ino' = [d \in Dirs |-> IF \E k \in 1 .. n : s[k] = d THEN path[d] ELSE Gone]
  /\ dir_wd' = [d \in Dirs |-> -1]
  /\ opened' = [d \in Dirs |-> Gone]
  /\ watching' = FALSE
  /\ Note(NoHalf, "purge")
  /\ UNCHANGED <<kernel, taken, launched, renamed, free, brk, cell, reports>>

(* in_configuration_read: the registry is emptied and filled again.  It     *)
(* accepts a name that leads to a directory, and one name per inode; the    *)
(* last one of the file is the first of the registry.                       *)
ReadConfiguration ==
  /\ reads < MaxReads
  /\ reads' = reads + 1
  /\ \E n \in 1 .. Cardinality(Dirs) : \E s \in [1 .. n -> Dirs] :
       /\ \A k \in 1 .. n : path[s[k]] # Gone
       /\ \A k, l \in 1 .. n : path[s[k]] = path[s[l]] => k = l
       /\ dirs' = s
       /\ dir_ino' = [d \in Dirs |-> IF \E k \in 1 .. n : s[k] = d THEN path[d] ELSE Gone]
  /\ dir_wd' = [d \in Dirs |-> -1]
  /\ opened' = [d \in Dirs |-> Gone]
  /\ watching' = FALSE
  /\ Purge
  /\ UNCHANGED <<kernel, taken, launched>>

(* in_events_init: the old inotify instance goes, with its watches and the  *)
(* events nobody read; the new one numbers its watches from 1.  A name is   *)
(* looked up again here.  Watching an inode twice gives the same wd and     *)
(* replaces the mask.  inotify_add_watch may fail.                          *)
Opened(failed) ==
  {k \in DOMAIN dirs : dirs[k] \notin failed /\ path[dirs[k]] # Gone}

WatchNumber(i, failed) ==
  LET first == CHOOSE k \in Opened(failed) :
                 /\ path[dirs[k]] = i
                 /\ \A l \in Opened(failed) : path[dirs[l]] = i => k <= l
  IN  Cardinality({path[dirs[k]] : k \in {l \in Opened(failed) : l <= first}})

LastMask(i, failed) ==
  LET last == CHOOSE k \in Opened(failed) :
                /\ path[dirs[k]] = i
                /\ \A l \in Opened(failed) : path[dirs[l]] = i => l <= k
  IN  DirMask(dirs[last])

SetWatches ==
  \E failed \in SUBSET Dirs :
    LET found == {path[dirs[k]] : k \in Opened(failed)}
        open(d) == \E k \in Opened(failed) : dirs[k] = d
    IN  /\ watch' = [i \in Inodes |->
                       IF i \in found
                       THEN [wd |-> WatchNumber(i, failed), mask |-> LastMask(i, failed)]
                       ELSE NoWatch]
        /\ dir_wd' = [d \in Dirs |-> IF open(d) THEN WatchNumber(path[d], failed) ELSE -1]
        /\ opened' = [d \in Dirs |-> IF open(d) THEN path[d] ELSE Gone]

(* Mistake: what was queued for the old watches is still read.              *)
InitEventsKeepingQueue ==
  /\ reads > 0
  /\ ~watching
  /\ SetWatches
  /\ watching' = TRUE
  /\ UNCHANGED <<vars, path, sent, taken, dirs, dir_ino, reads, launched>>

InitEvents ==
  /\ reads > 0
  /\ ~watching
  /\ SetWatches
  /\ taken' = Len(sent)
  /\ watching' = TRUE
  /\ UNCHANGED <<vars, path, sent, dirs, dir_ino, reads, launched>>

-----------------------------------------------------------------------------
(* The command an event leads to: an action that covers all of the event's  *)
(* bits that are in IN_ALL_EVENTS.  The loop goes on to the next such       *)
(* action when no process could be forked.                                  *)
Covers(d, a, e) == e.mask \cap AllEvents \subseteq Actions[d][a]

Run(d, e, old) ==
  LET covering == {a \in DOMAIN Actions[d] : Covers(d, a, e)}
      start(a) == launched' = Append(launched,
                    [dir |-> d, act |-> a, event |-> e, ino |-> opened[d], old |-> old])
  IN  (\E a \in covering : start(a)) \/ launched' = launched

(* in_directory_getbywatch: the first registered directory with this wd.    *)
Owner(k, wd) ==
  /\ dir_wd[dirs[k]] = wd
  /\ \A l \in 1 .. k - 1 : dir_wd[dirs[l]] # wd

(* Only a mask that is nothing but IN_MOVED_FROM or IN_MOVED_TO is a half.  *)
IsHalf(e) == \E s \in Sides : e.mask = {s}

HalfOf(d, e) == [dir |-> d, side |-> CHOOSE s \in Sides : s \in e.mask, cok |-> e.cok]

HandleEvent(d, e) ==
  \/ /\ IsHalf(e)
     /\ \/ Pair(HalfOf(d, e)) /\ Run(d, e, reports'[Len(reports')].old)
        \/ /\ KeepInFreeCell(HalfOf(d, e)) \/ KeepInNewCell(HalfOf(d, e)) \/ SkipHalf(HalfOf(d, e))
           /\ UNCHANGED launched
  \/ /\ ~IsHalf(e)
     /\ Run(d, e, NoHalf)
     /\ UNCHANGED vars

(* Mistake: the read position moves over two events.                        *)
TakeEventAndSkip ==
  LET e == sent[taken + 1] IN
  /\ watching
  /\ taken < Len(sent)
  /\ taken' = taken + 2
  /\ \/ \E k \in DOMAIN dirs : Owner(k, e.wd) /\ HandleEvent(dirs[k], e)
     \/ /\ \A k \in DOMAIN dirs : dir_wd[dirs[k]] # e.wd
        /\ UNCHANGED <<launched, vars>>
  /\ UNCHANGED <<kernel, registry>>

TakeEvent ==
  LET e == sent[taken + 1] IN
  /\ watching
  /\ taken < Len(sent)
  /\ taken' = taken + 1
  /\ \/ \E k \in DOMAIN dirs : Owner(k, e.wd) /\ HandleEvent(dirs[k], e)
     \/ /\ \A k \in DOMAIN dirs : dir_wd[dirs[k]] # e.wd
        /\ UNCHANGED <<launched, vars>>
  /\ UNCHANGED <<kernel, registry>>

-----------------------------------------------------------------------------
(* The kernel.  An event carries, besides what the program reads, the inode *)
(* it happened in.                                                          *)
Queue(i, bits, cok) ==
  /\ Len(sent) < MaxSent
  /\ watch[i].wd # 0
  /\ sent' = Append(sent, [wd |-> watch[i].wd, mask |-> bits, cok |-> cok, ino |-> i])

KernelEvent(i) ==
  /\ \E b \in watch[i].mask \ Sides : Queue(i, {b}, 0)
  /\ UNCHANGED <<vars, path, watch, taken, registry, launched>>

(* One half of a rename, of a file or of a directory.                       *)
KernelHalf(i) ==
  /\ \E s \in Sides \cap watch[i].mask, c \in Cookies, isdir \in {{}, {"isdir"}} :
       /\ \A k \in DOMAIN sent : sent[k].cok = c =>
            s \notin sent[k].mask /\ ("isdir" \in sent[k].mask <=> isdir # {})
       /\ Queue(i, {s} \cup isdir, c)
  /\ UNCHANGED <<vars, path, watch, taken, registry, launched>>

(* The directory is removed: its watch ends with IN_IGNORED.                *)
KernelRemoved(i) ==
  /\ Queue(i, {"ignored"}, 0)
  /\ watch' = [watch EXCEPT ![i] = NoWatch]
  /\ path' = [d \in Dirs |-> IF path[d] = i THEN Gone ELSE path[d]]
  /\ UNCHANGED <<vars, taken, registry, launched>>

(* The queue is full: events are lost, and IN_Q_OVERFLOW comes with wd -1.  *)
KernelOverflow ==
  /\ \E i \in Inodes : watch[i].wd # 0
  /\ Len(sent) < MaxSent
  /\ sent' = Append(sent, [wd |-> -1, mask |-> {"q_overflow"}, cok |-> 0, ino |-> Gone])
  /\ UNCHANGED <<vars, path, watch, taken, registry, launched>>

(* A name is made to lead to another directory.  Names are looked up when   *)
(* the configuration is read and when the watches are set; a change while   *)
(* the daemon watches shows at the next reading, as one between the two     *)
(* look-ups does, and is left out.                                          *)
Replace(d) ==
  /\ ~watching
  /\ \E i \in Inodes : path[d] # i /\ path' = [path EXCEPT ![d] = i]
  /\ UNCHANGED <<vars, watch, sent, taken, registry, launched>>

EventsNext ==
  \/ ReadConfiguration
  \/ InitEvents
  \/ TakeEvent
  \/ \E i \in Inodes : KernelEvent(i) \/ KernelHalf(i) \/ KernelRemoved(i)
  \/ KernelOverflow
  \/ \E d \in Dirs : Replace(d)

EventsSpec == EventsInit /\ [][EventsNext]_allvars

-----------------------------------------------------------------------------
Events == [wd : Int, mask : SUBSET (AllEvents \cup {"isdir", "ignored", "q_overflow"}),
           cok : Cookies \cup {0}, ino : Inodes \cup {Gone}]

EventsTypeOK ==
  /\ TypeOK
  /\ path \in [Dirs -> Inodes \cup {Gone}]
  /\ watch \in [Inodes -> [wd : 0 .. Cardinality(Inodes), mask : SUBSET AllEvents]]
  /\ sent \in Seq(Events)
  /\ taken \in 0 .. Len(sent)
  /\ dirs \in Seq(Dirs)
  /\ dir_ino \in [Dirs -> Inodes \cup {Gone}]
  /\ opened \in [Dirs -> Inodes \cup {Gone}]
  /\ dir_wd \in [Dirs -> (1 .. Cardinality(Inodes)) \cup {-1}]
  /\ watching \in BOOLEAN
  /\ reads \in 0 .. MaxReads
  /\ launched \in Seq([dir : Dirs, act : Nat, event : Events,
                        ino : Inodes \cup {Gone}, old : Halves \cup {NoHalf}])

(* A command runs for the directory its event happened in, even though      *)
(* watch descriptors start from 1 again each time the configuration is read *)
(* (ind_inot.c:176-191): the inode of the event is the one that directory   *)
(* was opened on.  IN_Q_OVERFLOW, which belongs to no directory, is apart.  *)
RightDirectory ==
  \A k \in DOMAIN launched :
    launched[k].event.wd # -1 => launched[k].ino = launched[k].event.ino

(* Two registered directories never share a watch, of which the second one  *)
(* would get nothing, as long as each name still leads, when its watch is   *)
(* set, to the directory that was compared with the others when the name    *)
(* was registered (ind_dire.c:78-87 and 99-107, ind_inot.c:163).            *)
SameInodes == \A k \in DOMAIN dirs : opened[dirs[k]] \in {Gone, dir_ino[dirs[k]]}

DistinctWatches ==
  SameInodes =>
    \A k, l \in DOMAIN dirs :
      dir_wd[dirs[k]] = dir_wd[dirs[l]] /\ dir_wd[dirs[k]] # -1 => k = l

(* A report never joins a half read before the configuration was read again *)
(* and one read after it: the directory of the first was freed              *)
(* (ind_dire.c:195-221).                                                    *)
PairedInOneReading ==
  \A r \in DOMAIN reports : \A k, l \in DOMAIN history :
    /\ history[k].half \in {reports[r].old, reports[r].new}
    /\ history[l].half \in {reports[r].old, reports[r].new}
    => \A m \in k .. l : history[m].fate # "purge"
=============================================================================
