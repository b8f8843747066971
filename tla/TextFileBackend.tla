----------------------------- MODULE TextFileBackend ----------------------------
(***************************************************************************)
(* text_file_backend writes records to a file in a directory of its own,   *)
(* rotates the file, and hands the rotated one to the file collector of    *)
(* the target directory, which several backends share and which keeps the  *)
(* total size of the stored files within a quota.  Processes end in order  *)
(* or crash, and a new process scans for the files of earlier ones.        *)
(*                                                                         *)
(* A backend is called under the lock of its frontend.  An action is a     *)
(* part of a call between two points where backends with one collector can *)
(* interleave, or where a call can fail.                                   *)
(***************************************************************************)
EXTENDS Integers, Sequences, FiniteSets, SequencesExt, FiniteSetsExt, Functions, TLC

CONSTANTS
    Backends,        \* backends with the same pattern and target directory
    NoPath,          \* no file
    MaxSize,         \* max_size of the collector
    RotationSize,    \* m_FileRotationSize, in messages
    MaxFiles,        \* bound: files ever opened
    MaxClock,        \* bound: time from which only a new file gets a record
    MaxFaults        \* bound: failing calls of the file system, deletions by
                     \* the user, crashes

VARIABLES
    inPlace,         \* the files are written in the target directory itself
    fs,              \* the regular files: path -> [id, by, size, time of the
                     \* last write]; ids count the files that were opened
    clock,           \* the time, in the resolution of the file system
    files,           \* m_Files of the collector: [path, id, by, size, time]
    total,           \* m_TotalSize
    current,         \* m_FileName of each backend
    open,            \* m_File.is_open()
    good,            \* m_File.good()
    written,         \* m_CharactersWritten
    fileCounter,     \* m_FileCounter
    step,            \* where each backend stands
    target,          \* info.m_Path of the file being stored
    started,         \* history: files opened so far
    inherited,       \* history: files opened by earlier processes
    faults,          \* history: faults so far
    mistaken,        \* history: since a file could not be opened, one of an earlier
                     \* process that had its name was stored as if it were new
    disturbed        \* history: the user deleted a stored file, or two backends
                     \* stored files under one name at the same time

diskVars == <<inPlace, fs, clock, started, inherited, disturbed>>
collectorVars == <<files, total, mistaken>>
backendVars == <<current, open, good, written, fileCounter>>
tfVars == <<diskVars, collectorVars, backendVars, step, target, faults>>

\* A path: the directory of a backend or the target directory, the counter in
\* the name, and the number appended when the name was in use (-1 if none).
Path(dir, n, clash) == [dir |-> dir, n |-> n, clash |-> clash]
Paths == [dir : Backends \cup {"target"}, n : Nat, clash : {-1} \cup Nat]

ASSUME TFAssumptions ==
    /\ "target" \notin Backends /\ NoPath \notin Paths
    /\ MaxSize \in Nat /\ MaxFiles \in Nat

Dir(b) == IF inPlace THEN "target" ELSE b
Exists(path) == path \in DOMAIN fs

\* The file_info of the file f under a path.
Info(path, f) == [path |-> path, id |-> f.id, by |-> f.by, size |-> f.size, time |-> f.time]
SizeOf(list) ==
    LET upTo[i \in 0..Len(list)] == IF i = 0 THEN 0 ELSE upTo[i - 1] + list[i].size
    IN  upTo[Len(list)]

FreshBackends ==
    [current |-> [b \in Backends |-> NoPath], open |-> [b \in Backends |-> FALSE],
     good |-> [b \in Backends |-> TRUE], written |-> [b \in Backends |-> 0],
     fileCounter |-> [b \in Backends |-> 0], target |-> [b \in Backends |-> NoPath]]

\* A process has one or more backends; it has one if the files are written in
\* the target directory, as two with the same pattern would share them.
Starts(oneDirectory) ==
    {[b \in Backends |-> IF b \in process THEN "idle" ELSE "ended"] :
        process \in {p \in SUBSET Backends :
                        IF oneDirectory THEN Cardinality(p) = 1 ELSE p # {}}}

TFStart(oneDirectory, backends) ==
    /\ inPlace = oneDirectory
    /\ fs = <<>> /\ clock = 0 /\ started = 0 /\ inherited = 0 /\ disturbed = FALSE
    /\ files = <<>> /\ total = 0 /\ mistaken = FALSE
    /\ current = FreshBackends.current
    /\ open = FreshBackends.open
    /\ good = FreshBackends.good
    /\ written = FreshBackends.written
    /\ fileCounter = FreshBackends.fileCounter
    /\ step = backends
    /\ target = FreshBackends.target
    /\ faults = 0

TFInit ==
    \E oneDirectory \in BOOLEAN :
        \E backends \in Starts(oneDirectory) : TFStart(oneDirectory, backends)

-------------------------------------------------------------------------------
ContinueAt(b, location) == step' = [step EXCEPT ![b] = location]
Fault == faults < MaxFaults /\ faults' = faults + 1

\* A write happens in the second of the last one or in a later one.
Passes == clock' \in {clock, clock + 1}

Without(f, paths) == [p \in DOMAIN f \ paths |-> f[p]]
With(f, path, file) == [p \in DOMAIN f \cup {path} |-> IF p = path THEN file ELSE f[p]]

\* consume when the file is open and no rotation is due.
consume(b) ==
    /\ step[b] = "idle" /\ open[b] /\ good[b]
    /\ written[b] + 1 < RotationSize /\ clock < MaxClock
    /\ Exists(current[b])
    /\ Passes
    /\ fs' = [fs EXCEPT ![current[b]].size = @ + 1, ![current[b]].time = clock']
    /\ written' = [written EXCEPT ![b] = @ + 1]
    /\ UNCHANGED <<inPlace, started, inherited, disturbed, collectorVars, current, open, good,
                   fileCounter, step, target, faults>>

\* rotate_file up to the call of store_file.
CloseFile(b) ==
    /\ open' = [open EXCEPT ![b] = FALSE]
    /\ good' = [good EXCEPT ![b] = TRUE]
    /\ written' = [written EXCEPT ![b] = 0]

\* consume when the file is full, the time-based predicate fires, or the last
\* file could not be opened: rotate first.
consume_rotates(b) ==
    /\ step[b] = "idle" /\ (open[b] \/ ~good[b])
    /\ CloseFile(b)
    /\ ContinueAt(b, "store")
    /\ UNCHANGED <<diskVars, collectorVars, current, fileCounter, target, faults>>

\* consume with no file open, at once or after the rotation: a file with the
\* next name is opened and truncated, or the call throws.
consume_opens(b) ==
    /\ (step[b] = "idle" /\ ~open[b] /\ good[b]) \/ step[b] = "open"
    /\ LET path == Path(Dir(b), fileCounter[b], -1)
           file == [id |-> started + 1, by |-> b, size |-> 1, time |-> clock']
       IN  /\ current' = [current EXCEPT ![b] = path]
           /\ fileCounter' = [fileCounter EXCEPT ![b] = @ + 1]
           /\ \/ /\ started < MaxFiles
                 /\ started' = started + 1 /\ Passes
                 /\ fs' = With(fs, path, file)
                 /\ open' = [open EXCEPT ![b] = TRUE]
                 /\ written' = [written EXCEPT ![b] = 1]
                 /\ UNCHANGED <<good, faults>>
              \/ /\ Fault
                 /\ good' = [good EXCEPT ![b] = FALSE]
                 /\ UNCHANGED <<fs, clock, open, written, started>>
    /\ ContinueAt(b, "idle")
    /\ UNCHANGED <<inPlace, inherited, disturbed, collectorVars, target>>

-------------------------------------------------------------------------------
\* Mutant: the name in the target directory is taken as it is.
NameUnchecked(b) ==
    /\ step[b] \in {"store", "store_and_end"}
    /\ IF ~Exists(current[b])
       THEN /\ ContinueAt(b, IF step[b] = "store" THEN "idle" ELSE "ended")
            /\ UNCHANGED target
       ELSE /\ target' = [target EXCEPT ![b] = Path("target", current[b].n, -1)]
            /\ ContinueAt(b, IF step[b] = "store" THEN "collect" ELSE "collect_and_end")
    /\ UNCHANGED <<diskVars, collectorVars, backendVars, faults>>

\* The first name with a number appended that is free in the target directory.
FreeName(n) ==
    Path("target", n, CHOOSE k \in 0..MaxFiles :
                        /\ ~Exists(Path("target", n, k))
                        /\ \A m \in 0..k - 1 : Exists(Path("target", n, m)))

\* store_file before it takes the mutex: a source file that does not exist makes
\* it throw (the record of consume is lost with it); otherwise it looks for a
\* name that no file in the target directory has.
ChooseName(b) ==
    /\ step[b] \in {"store", "store_and_end"}
    /\ IF ~Exists(current[b])
       THEN /\ ContinueAt(b, IF step[b] = "store" THEN "idle" ELSE "ended")
            /\ UNCHANGED target
       ELSE /\ LET plain == Path("target", current[b].n, -1)
               IN  target' = [target EXCEPT ![b] =
                                IF ~inPlace /\ Exists(plain) THEN FreeName(current[b].n) ELSE plain]
            /\ ContinueAt(b, IF step[b] = "store" THEN "collect" ELSE "collect_and_end")
    /\ UNCHANGED <<diskVars, collectorVars, backendVars, faults>>

\* Mutant: whatever the quota, all old files are erased.
RoomForOne(size, locked, needed) ==
    LET remains(info) == Exists(info.path) /\ info.path \in locked
    IN  [kept |-> SelectSeq(files, remains), total |-> SizeOf(SelectSeq(files, remains)),
         erased |-> {info.path : info \in {x \in ToSet(files) : ~remains(x)}}, done |-> FALSE]

\* Mutant: the size of the new file is not counted in.
RoomForOldFiles(size, locked, needed) ==
    FoldLeft(LAMBDA s, info :
                IF s.done \/ (s.total <= MaxSize /\ Cardinality(s.erased) >= needed)
                THEN [s EXCEPT !.kept = Append(@, info), !.done = TRUE]
                ELSE IF Exists(info.path) /\ info.path \in locked
                THEN [s EXCEPT !.kept = Append(@, info)]
                ELSE [s EXCEPT !.total = @ - info.size, !.erased = @ \cup {info.path}],
             [kept |-> <<>>, total |-> total, erased |-> {}, done |-> FALSE], files)

\* The loop that makes room for a file: the oldest files are erased until the
\* quota is kept and there is enough free space, which takes at least "needed"
\* files.  A file that cannot be removed is skipped, one that is gone already
\* leaves the list.
MakeRoom(size, locked, needed) ==
    LET visit(s, info) ==
            IF s.done \/ (s.total + size <= MaxSize /\ Cardinality(s.erased) >= needed)
            THEN [s EXCEPT !.kept = Append(@, info), !.done = TRUE]
            ELSE IF Exists(info.path) /\ info.path \in locked
            THEN [s EXCEPT !.kept = Append(@, info)]
            ELSE [s EXCEPT !.total = @ - info.size, !.erased = @ \cup {info.path}]
        after[i \in 0..Len(files)] ==
            IF i = 0 THEN [kept |-> <<>>, total |-> total, erased |-> {}, done |-> FALSE]
            ELSE visit(after[i - 1], files[i])
    IN  after[Len(files)]

\* store_file under the mutex of the collector: make room, move the file, and
\* count it.  When the move throws, what was erased stays erased.
store_file(b) ==
    /\ step[b] \in {"collect", "collect_and_end"}
    /\ Exists(current[b])
    /\ \E locked \in {{}} \cup {{files[i].path} : i \in DOMAIN files}, needed \in 0..1, moved \in BOOLEAN :
          LET file == fs[current[b]]
              room == MakeRoom(file.size, locked, needed)
              left == Without(fs, room.erased)
          IN  /\ IF locked = {} /\ needed = 0 /\ moved THEN UNCHANGED faults ELSE Fault
              /\ \/ /\ moved
                    /\ fs' = IF inPlace THEN left
                             ELSE With(Without(left, {current[b]}), target[b], file)
                    /\ files' = Append(room.kept, Info(target[b], file))
                    /\ total' = room.total + file.size
                    /\ ContinueAt(b, IF step[b] = "collect" THEN "open" ELSE "ended")
                 \/ /\ ~inPlace /\ ~moved
                    /\ fs' = left /\ files' = room.kept /\ total' = room.total
                    /\ ContinueAt(b, IF step[b] = "collect" THEN "idle" ELSE "ended")
    /\ target' = [target EXCEPT ![b] = NoPath]
    /\ disturbed' = (disturbed \/ \E other \in Backends \ {b} : target[other] = target[b])
    /\ mistaken' = (mistaken \/ fs[current[b]].id <= inherited)
    /\ UNCHANGED <<inPlace, clock, started, inherited, backendVars>>

-------------------------------------------------------------------------------
\* The destructor stores the file it has written to.
destroy_backend(b) ==
    /\ step[b] = "idle"
    /\ IF open[b] /\ written[b] > 0
       THEN CloseFile(b) /\ ContinueAt(b, "store_and_end")
       ELSE ContinueAt(b, "ended") /\ UNCHANGED <<open, good, written>>
    /\ UNCHANGED <<diskVars, collectorVars, current, fileCounter, target, faults>>

\* A new process: new backends and an empty collector.  It follows one that
\* ended, or that was killed anywhere.
restart ==
    /\ IF \A b \in Backends : step[b] = "ended" THEN UNCHANGED faults ELSE Fault
    /\ started < MaxFiles
    /\ files' = <<>> /\ total' = 0 /\ mistaken' = FALSE
    /\ current' = FreshBackends.current
    /\ open' = FreshBackends.open
    /\ good' = FreshBackends.good
    /\ written' = FreshBackends.written
    /\ fileCounter' = FreshBackends.fileCounter
    /\ step' \in Starts(inPlace)
    /\ target' = FreshBackends.target
    /\ inherited' = started
    /\ UNCHANGED <<inPlace, fs, clock, started, disturbed>>

\* Mutant: every file in the directory is taken for a new one.
NeverAccounted(path) == FALSE

Accounted(path) == \E i \in DOMAIN files : files[i].path = path

\* Mutant: the files are taken as the directory lists them.
Unsorted(list) == {list}

\* The arrangements that a stable sort by the time of the last write can make
\* of a list (there is one).
SortedByTime(list) ==
    {[i \in DOMAIN list |-> list[p[i]]] :
        p \in {q \in Bijection(DOMAIN list, DOMAIN list) :
                 \A i, j \in DOMAIN list : i < j =>
                    \/ list[q[i]].time < list[q[j]].time
                    \/ list[q[i]].time = list[q[j]].time /\ q[i] < q[j]}}

\* scan_for_files before the first record: the files of the target directory
\* that the collector does not know yet and whose names match, which a name with
\* an appended number never does (see FileNamePattern), as the directory lists
\* them.  Then the whole list is sorted.  The counter starts at 0 again and goes on behind
\* the files found.
scan_for_files(b, method, update_counter) ==
    /\ step[b] = "idle" /\ current[b] = NoPath
    /\ LET found == {p \in DOMAIN fs : p.dir = "target" /\ ~Accounted(p)
                                         /\ (method = "scan_matching" => p.clash = -1)}
       IN  /\ \E it \in Bijection(1..Cardinality(found), found) :
                 LET list == [i \in DOMAIN it |-> Info(it[i], fs[it[i]])]
                 IN  files' \in SortedByTime(files \o list) /\ total' = total + SizeOf(list)
           /\ fileCounter' =
                IF method = "scan_matching" /\ update_counter
                THEN [fileCounter EXCEPT ![b] = Max({0} \cup {p.n + 1 : p \in found})]
                ELSE fileCounter
    /\ UNCHANGED <<diskVars, current, open, good, written, step, target, faults, mistaken>>

\* Somebody deletes a stored file.
UserDeletes ==
    /\ Fault
    /\ disturbed' = TRUE
    /\ \E p \in DOMAIN fs : /\ p.dir = "target" /\ \A b \in Backends : p # current[b]
                            /\ fs' = Without(fs, {p})
    /\ UNCHANGED <<inPlace, clock, started, inherited, collectorVars, backendVars, step, target>>

TFNext ==
    \/ \E b \in Backends :
          \/ consume(b) \/ consume_rotates(b) \/ consume_opens(b)
          \/ ChooseName(b) \/ store_file(b)
          \/ destroy_backend(b)
          \/ \E method \in {"scan_matching", "scan_all"}, update_counter \in BOOLEAN :
                scan_for_files(b, method, update_counter)
    \/ restart
    \/ UserDeletes

TFSpec == TFInit /\ [][TFNext]_tfVars

-------------------------------------------------------------------------------
\* The collector's books are right in spite of files that cannot be removed,
\* moved or found and of earlier processes: the total is the size of the files
\* in its list.  Unless the files are written in the target directory itself, no
\* file is listed twice, and the files that a backend wrote are listed in the
\* order of their last writes, those of this process in the order in which it
\* opened them.  Only a file that could not be opened may break the order: the
\* next rotation stores what has its name.
AccountsAreExact ==
    /\ total = SizeOf(files)
    /\ ~inPlace => \A i, j \in DOMAIN files :
                      i < j /\ files[i].by = files[j].by =>
                         /\ files[i].id # files[j].id
                         /\ ~mistaken => /\ files[i].time <= files[j].time
                                         /\ files[j].id > inherited => files[i].id < files[j].id

\* The stored files that a step removes or replaces.
Gone == {p \in DOMAIN fs : p.dir = "target" /\ (Exists(p)' => fs'[p].id # fs[p].id)}

\* A step takes away stored files only if they are among these in the list.
TakesOnly(entries) == \A p \in Gone : \E i \in entries : files[i].path = p /\ files[i].id = fs[p].id

\* The oldest k files are as many as have to go for a file of this size to fit.
Newest(k) == SubSeq(files, k + 1, Len(files))
HaveToGo(k, size) ==
    /\ k > 0 => SizeOf(Newest(k - 1)) + size > MaxSize
    /\ k < Len(files) => SizeOf(Newest(k)) + size <= MaxSize

\* store_file goes on under the mutex of the collector.
Stores(b) ==
    /\ step[b] \in {"collect", "collect_and_end"}
    /\ step'[b] # step[b] /\ UNCHANGED inherited

\* A rotation without failing calls takes the oldest files out of the list, as
\* few as make room for the new one, erases no other file, and lists the new one
\* behind the rest.
RotationMakesRoom ==
    \A b \in Backends :
       Stores(b) /\ UNCHANGED faults =>
          \E k \in 0..Len(files) :
             /\ HaveToGo(k, fs[current[b]].size)
             /\ files' = Append(Newest(k), Info(target[b], fs[current[b]]))
             /\ ~inPlace /\ ~disturbed' => TakesOnly(1..k)

\* Stored files disappear only in a rotation, and only if they are listed.
OnlyRotationsErase ==
    ~inPlace /\ ~disturbed' =>
       /\ TakesOnly(DOMAIN files)
       /\ Gone # {} => \E b \in Backends : Stores(b)

\* The collector keeps to its quota, and a file that it has stored disappears
\* only to that end: a rotation erases the oldest files, as few as it has to,
\* unless calls of the file system fail; even then it erases only listed files,
\* and nothing but a rotation erases any.  No stored file is ever replaced by
\* another of the same name.  On the disk this is so unless the files are written
\* in the target directory itself, the user deletes files, or two backends rotate
\* at the same time: each looks for a free name before it takes the mutex.
CollectorErasesTheOldest == [][RotationMakesRoom /\ OnlyRotationsErase]_tfVars
===============================================================================
