--------------------------- MODULE DirectoryCache ---------------------------
(***************************************************************************)
(* The same LRU strategy (src/webpp/storage/lru_cache.hpp) over            *)
(* directory_gate (directory_gate.hpp): an entry is a file, its stamp is   *)
(* the options field of the file.  The files outlive the process, several  *)
(* processes may open the same directory under the same name, and a call   *)
(* is a sequence of file system operations between which other processes   *)
(* act, each of which may fail, and at which a process may die.            *)
(*                                                                         *)
(* A file keeps its contents for whoever has it open after its name was    *)
(* removed, and whoever opens the name then gets another file.  Contents   *)
(* are cut where a write may end: a header (key, newline, stamp, newline)  *)
(* and the pieces of the value; headers are taken to be of one length.     *)
(***************************************************************************)
EXTENDS Naturals, Sequences, FiniteSets

CONSTANTS
    Procs,        \* the processes that have the cache open
    Keys, Values,
    Long,         \* the values that may take two writes, for their length
    NoValue,      \* std::nullopt
    Paths,        \* file names
    path,         \* key_path: the hash of a key names its file
    Inodes,       \* tells the files apart that have had one name
    NoFile,
    MaxSize,      \* strategy::max_size
    MaxUsage,     \* bound: the stamps one incarnation of a process takes
    MaxCrashes    \* bound: deaths and restarts of processes

ASSUME DirectoryAssumption ==
    /\ NoValue \notin Keys \cup Values
    /\ Long \subseteq Values
    /\ path \in [Keys -> Paths]
    /\ NoFile \notin Inodes /\ NoFile \notin Paths
    /\ MaxSize \in Nat
    /\ MaxUsage \in Nat
    /\ MaxCrashes \in Nat

\* What files consist of.
HeaderCells == [kind : {"header"}, of : Keys, n : 1 .. MaxUsage]
TextCells   == [kind : {"text"}, of : Values, n : {1, 2}]
Nul         == [kind |-> "nul", of |-> NoValue, n |-> 0]
Cells       == HeaderCells \cup TextCells \cup {Nul}

Text(v) == [i \in 1 .. (IF v \in Long THEN 2 ELSE 1) |-> [kind |-> "text", of |-> v, n |-> i]]
Empty   == <<>>       \* value_type{}

\* What is read or written as a value.
Written == Seq(TextCells \cup {Nul})

\* A bundle: the key, the text of the value, the options.
Entries == [key : Keys, value : Written, used : 1 .. MaxUsage]
NoEntry == [key |-> NoValue, value |-> <<>>, used |-> 0]

VARIABLES
    dir,         \* the directory: the file each name has
    disk,        \* what is in the files of each name
    next_usage,  \* strategy::next_usage of each process
    pc,          \* where each process is in its current call
    task,        \* what it reads or writes a file for
    write,       \* the bundle it is about to write
    at, fd,      \* the name and the file it has opened, or is about to open
    size,        \* the size of the file it is about to read
    todo,        \* the paths erase_if has still to visit
    call,        \* the key looked up and the value found
    crashes,     \* deaths so far
    everSet,     \* history: the values ever passed to set for each key
    clashed,     \* history: names whose file was open twice, once for writing,
                 \* or was not read to its end
    failed,      \* history: has a file that was there not been read to its end?
    missed       \* history: did the last clean_up of a process pass over a file?

fileVars == <<dir, disk, clashed>>
openVars == <<at, fd, size>>
callVars == <<pc, task, write, todo, call>>
history  == <<crashes, everSet, failed, missed>>
vars == <<fileVars, openVars, callVars, next_usage, history>>

NoCall == [key |-> NoValue, result |-> NoValue]

Init ==
    /\ dir = [q \in Paths |-> NoFile]
    /\ disk = [q \in Paths |-> [i \in Inodes |-> <<>>]]
    /\ next_usage = [p \in Procs |-> 1]
    /\ pc = [p \in Procs |-> "idle"]
    /\ task = [p \in Procs |-> "none"]
    /\ write = [p \in Procs |-> NoEntry]
    /\ at = [p \in Procs |-> NoFile]
    /\ fd = [p \in Procs |-> NoFile]
    /\ size = [p \in Procs |-> 0]
    /\ todo = [p \in Procs |-> {}]
    /\ call = [p \in Procs |-> NoCall]
    /\ crashes = 0
    /\ everSet = [k \in Keys |-> {}]
    /\ clashed = {}
    /\ failed = FALSE
    /\ missed = [p \in Procs |-> FALSE]

Goto(p, label) == pc' = [pc EXCEPT ![p] = label]

\* The contents under a name, nothing when there is no file.
Contents(q) == IF dir[q] = NoFile THEN <<>> ELSE disk[q][dir[q]]

\* serialize_file
Bytes(e) == <<[kind |-> "header", of |-> e.key, n |-> e.used]>> \o e.value

\* deserialize_file finds its two newlines.
Readable(c) == c # <<>> /\ c[1].kind = "header"

\* A write at an offset leaves what is before and behind it; a gap is zero.
WriteAt(old, offset, new) ==
    LET end == offset + Len(new)
    IN  [i \in 1 .. (IF Len(old) > end THEN Len(old) ELSE end) |->
            IF i \in offset + 1 .. end THEN new[i - offset]
            ELSE IF i <= Len(old) THEN old[i] ELSE Nul]

\* file::read_to: a buffer of the size found, filled with what is there now.
Sized(c, n) == [i \in 1 .. n |-> IF i <= Len(c) THEN c[i] ELSE Nul]

\* Who else has the file i of name q open, and who for writing.
Holders(p, q, i) == {r \in Procs \ {p} : at[r] = q /\ fd[r] = i}
Writers(p, q, i) == {r \in Holders(p, q, i) : pc[r] \in {"write", "write2"}}
Clash(q, others) == clashed' = IF others = {} THEN clashed ELSE clashed \cup {q}

Close(p) ==
    /\ at' = [at EXCEPT ![p] = NoFile]
    /\ fd' = [fd EXCEPT ![p] = NoFile]
    /\ size' = [size EXCEPT ![p] = 0]

\* Mistake: one entry too many is spared.
break_index_off(p) == next_usage[p] - MaxSize - 1

break_index(p) == next_usage[p] - MaxSize
----------------------------------------------------------------------------
(* Writing: storage_gate::set                                              *)

\* Mistake: the stamp is not used up.
set_sharing_stamp(p, k, v) ==
    /\ pc[p] = "idle" /\ next_usage[p] <= MaxUsage
    /\ write' = [write EXCEPT ![p] = [key |-> k, value |-> Text(v), used |-> next_usage[p]]]
    /\ everSet' = [everSet EXCEPT ![k] = @ \cup {v}]
    /\ task' = [task EXCEPT ![p] = "set"]
    /\ call' = [call EXCEPT ![p] = NoCall]
    /\ Goto(p, "open")
    /\ UNCHANGED <<fileVars, openVars, next_usage, todo, crashes, failed, missed>>

\* strategy::set(key, value): takes a stamp and begins the gate's set.
set(p, k, v) ==
    /\ pc[p] = "idle" /\ next_usage[p] <= MaxUsage
    /\ write' = [write EXCEPT ![p] = [key |-> k, value |-> Text(v), used |-> next_usage[p]]]
    /\ next_usage' = [next_usage EXCEPT ![p] = @ + 1]
    /\ everSet' = [everSet EXCEPT ![k] = @ \cup {v}]
    /\ task' = [task EXCEPT ![p] = "set"]
    /\ call' = [call EXCEPT ![p] = NoCall]
    /\ Goto(p, "open")
    /\ UNCHANGED <<fileVars, openVars, todo, crashes, failed, missed>>

\* The gate's set is over: clean_up() in set, nothing more in get.
WriteOver(p) ==
    /\ Goto(p, IF task[p] = "set" THEN "cleanup" ELSE "idle")
    /\ task' = [task EXCEPT ![p] = "none"]
    /\ write' = [write EXCEPT ![p] = NoEntry]

\* The file of that name, or else one that nobody has open.
NewFile(q) == IF dir[q] # NoFile THEN {dir[q]}
              ELSE Inodes \ {fd[p] : p \in {r \in Procs : at[r] = q}}

\* Mistake: the file keeps its old contents.
OpenKeeping(p) ==
    /\ pc[p] = "open"
    /\ LET q == path[write[p].key]
       IN  \E i \in NewFile(q) :
             /\ dir' = [dir EXCEPT ![q] = i]
             /\ disk' = [disk EXCEPT ![q][i] = Contents(q)]
             /\ at' = [at EXCEPT ![p] = q]
             /\ fd' = [fd EXCEPT ![p] = i]
             /\ Clash(q, Holders(p, q, i))
    /\ Goto(p, "write")
    /\ UNCHANGED <<size, next_usage, task, write, todo, call, history>>

\* The ofstream opens the file and truncates it.
Open(p) ==
    /\ pc[p] = "open"
    /\ LET q == path[write[p].key]
       IN  \E i \in NewFile(q) :
             /\ dir' = [dir EXCEPT ![q] = i]
             /\ disk' = [disk EXCEPT ![q][i] = <<>>]
             /\ at' = [at EXCEPT ![p] = q]
             /\ fd' = [fd EXCEPT ![p] = i]
             /\ Clash(q, Holders(p, q, i))
    /\ Goto(p, "write")
    /\ UNCHANGED <<size, next_usage, task, write, todo, call, history>>

\* It cannot be opened: logged, no more.
OpenFails(p) ==
    /\ pc[p] = "open"
    /\ WriteOver(p)
    /\ UNCHANGED <<fileVars, openVars, next_usage, todo, call, history>>

\* What p writes from an offset on, wherever other writers have got to.
PutFrom(p, from, to) ==
    disk' = [disk EXCEPT ![at[p]][fd[p]] = WriteAt(@, from, SubSeq(Bytes(write[p]), from + 1, to))]

\* A long value may reach the file in two writes.
WritePart(p) ==
    /\ pc[p] = "write" /\ Len(write[p].value) > 1
    /\ PutFrom(p, 0, 2)
    /\ Goto(p, "write2")
    /\ UNCHANGED <<dir, clashed, openVars, next_usage, task, write, todo, call, history>>

\* The last write, and close; errors are not looked at.
Write(p) ==
    /\ pc[p] \in {"write", "write2"}
    /\ \/ PutFrom(p, IF pc[p] = "write" THEN 0 ELSE 2, Len(Bytes(write[p])))
       \/ UNCHANGED disk
    /\ Close(p)
    /\ WriteOver(p)
    /\ UNCHANGED <<dir, clashed, next_usage, todo, call, history>>
----------------------------------------------------------------------------
(* Reading: strategy::get and set_options, storage_gate::get               *)

\* strategy::get begins with the gate's has(): no such file, or exists()
\* throws, and it is over.
get(p, k) ==
    /\ pc[p] = "idle" /\ next_usage[p] <= MaxUsage
    /\ call' = [call EXCEPT ![p] = [key |-> k, result |-> NoValue]]
    /\ \/ UNCHANGED <<pc, task, at>>
       \/ /\ dir[path[k]] # NoFile
          /\ task' = [task EXCEPT ![p] = "get"]
          /\ at' = [at EXCEPT ![p] = path[k]]
          /\ Goto(p, "fetch")
    /\ UNCHANGED <<fileVars, fd, size, next_usage, write, todo, history>>

\* set_options: has() again, with the default bundle at hand.
has(p) ==
    /\ pc[p] = "has"
    /\ IF dir[path[call[p].key]] = NoFile
       THEN Goto(p, "open") /\ UNCHANGED at
       ELSE Goto(p, "fetch") /\ at' = [at EXCEPT ![p] = path[call[p].key]]
    /\ UNCHANGED <<fileVars, fd, size, next_usage, task, write, todo, call, history>>

\* exists() throws out of set_options and get.
HasThrows(p) ==
    /\ pc[p] = "has"
    /\ WriteOver(p)
    /\ UNCHANGED <<fileVars, openVars, next_usage, todo, call, history>>

\* read_to opens the file and asks for its size.
OpenToRead(p) ==
    /\ pc[p] = "fetch"
    /\ LET q == at[p]
       IN  /\ dir[q] # NoFile
           /\ fd' = [fd EXCEPT ![p] = dir[q]]
           /\ size' = [size EXCEPT ![p] = Len(Contents(q))]
           /\ Clash(q, Writers(p, q, dir[q]))
    /\ Goto(p, "read")
    /\ UNCHANGED <<dir, disk, at, next_usage, task, write, todo, call, history>>

\* Mistake: a lookup takes its stamp twice.
LookedUpTwoStamps(p, c) ==
    /\ task[p] = "get"
    /\ IF Readable(c)
       THEN /\ call' = [call EXCEPT ![p].result = Tail(c)]
            /\ write' = [write EXCEPT ![p] = [key |-> call[p].key, value |-> Empty,
                                              used |-> next_usage[p]]]
            /\ next_usage' = [next_usage EXCEPT ![p] = @ + 2]
            /\ task' = [task EXCEPT ![p] = "touch"]
            /\ Goto(p, "has")
       ELSE /\ task' = [task EXCEPT ![p] = "none"]
            /\ Goto(p, "idle")
            /\ UNCHANGED <<call, write, next_usage>>

\* The lookup: found, a stamp is taken and set_options begins, whose default
\* is a bundle with an empty value.  The key in the file is not compared with
\* the key asked for.
LookedUp(p, c) ==
    /\ task[p] = "get"
    /\ IF Readable(c)
       THEN /\ call' = [call EXCEPT ![p].result = Tail(c)]
            /\ write' = [write EXCEPT ![p] = [key |-> call[p].key, value |-> Empty,
                                              used |-> next_usage[p]]]
            /\ next_usage' = [next_usage EXCEPT ![p] = @ + 1]
            /\ task' = [task EXCEPT ![p] = "touch"]
            /\ Goto(p, "has")
       ELSE /\ task' = [task EXCEPT ![p] = "none"]
            /\ Goto(p, "idle")
            /\ UNCHANGED <<call, write, next_usage>>

\* Mistake: the value is not read again.
ReadAgainOptions(p, c) ==
    /\ task[p] = "touch"
    /\ Goto(p, "open")
    /\ UNCHANGED <<call, write, next_usage, task>>

\* set_options: what is found now is written back, under the key found.
ReadAgain(p, c) ==
    /\ task[p] = "touch"
    /\ write' = IF Readable(c)
                THEN [write EXCEPT ![p] = [key |-> c[1].of, value |-> Tail(c), used |-> @.used]]
                ELSE write
    /\ Goto(p, "open")
    /\ UNCHANGED <<call, next_usage, task>>

\* erase_if: what cannot be read is passed over, what is old is removed.
Scanned(p, c) ==
    /\ task[p] = "scan"
    /\ Goto(p, IF Readable(c) /\ c[1].n < break_index(p) THEN "remove" ELSE "scan")
    /\ UNCHANGED <<call, write, next_usage, task>>

\* The end of get_file: the file is closed, its reader goes on.
Took(p, c) ==
    /\ fd' = [fd EXCEPT ![p] = NoFile]
    /\ size' = [size EXCEPT ![p] = 0]
    /\ LookedUp(p, c) \/ ReadAgain(p, c) \/ Scanned(p, c)
    /\ at' = IF pc'[p] = "remove" THEN at ELSE [at EXCEPT ![p] = NoFile]

ReadFile(p) ==
    /\ pc[p] = "read"
    /\ Took(p, Sized(disk[at[p]][fd[p]], size[p]))
    /\ UNCHANGED <<fileVars, todo, history>>

\* The read breaks off: what has been read counts, zeros stand for the rest.
ReadPart(p) ==
    /\ pc[p] = "read"
    /\ LET c == disk[at[p]][fd[p]]
       IN  \E n \in 1 .. Len(c) - 1 : Took(p, Sized(SubSeq(c, 1, n), size[p]))
    /\ clashed' = clashed \cup {at[p]}
    /\ failed' = TRUE
    /\ UNCHANGED <<dir, disk, todo, crashes, everSet, missed>>

\* The file is gone, or it cannot be opened or read.
CannotRead(p) ==
    /\ pc[p] \in {"fetch", "read"}
    /\ Took(p, <<>>)
    /\ failed' = (failed \/ Contents(at[p]) # <<>>)
    /\ missed' = [missed EXCEPT ![p] = @ \/ (task[p] = "scan" /\ Contents(at[p]) # <<>>)]
    /\ UNCHANGED <<fileVars, todo, crashes, everSet>>
----------------------------------------------------------------------------
(* clean_up() and storage_gate::erase_if                                   *)

\* The directory is listed; files that appear meanwhile may be listed or not.
clean_up(p) ==
    /\ pc[p] = "cleanup"
    /\ IF next_usage[p] <= MaxSize
       THEN Goto(p, "idle") /\ UNCHANGED todo
       ELSE /\ Goto(p, "scan")
            /\ \E S \in SUBSET Paths : /\ {q \in Paths : dir[q] # NoFile} \subseteq S
                                       /\ todo' = [todo EXCEPT ![p] = S]
    /\ missed' = [missed EXCEPT ![p] = FALSE]
    /\ UNCHANGED <<fileVars, openVars, next_usage, task, write, call, crashes, everSet, failed>>

ScanFile(p, q) ==
    /\ pc[p] = "scan" /\ q \in todo[p]
    /\ todo' = [todo EXCEPT ![p] = @ \ {q}]
    /\ task' = [task EXCEPT ![p] = "scan"]
    /\ at' = [at EXCEPT ![p] = q]
    /\ Goto(p, "fetch")
    /\ UNCHANGED <<fileVars, fd, size, next_usage, write, call, history>>

\* The iterator cannot be opened, or its increment throws out of set.
ListFails(p) ==
    /\ pc[p] \in {"cleanup", "scan"} /\ next_usage[p] > MaxSize
    /\ todo' = [todo EXCEPT ![p] = {}]
    /\ task' = [task EXCEPT ![p] = "none"]
    /\ missed' = [missed EXCEPT ![p] = TRUE]
    /\ Goto(p, "idle")
    /\ UNCHANGED <<fileVars, openVars, next_usage, write, call, crashes, everSet, failed>>

\* fs::remove(file.path()), whatever file has the name by now.
Remove(p) ==
    /\ pc[p] = "remove"
    /\ dir' = [dir EXCEPT ![at[p]] = NoFile]
    /\ at' = [at EXCEPT ![p] = NoFile]
    /\ Goto(p, "scan")
    /\ UNCHANGED <<disk, clashed, fd, size, next_usage, task, write, todo, call, history>>

\* It fails: logged, and the next file.
RemoveFails(p) ==
    /\ pc[p] = "remove"
    /\ at' = [at EXCEPT ![p] = NoFile]
    /\ missed' = [missed EXCEPT ![p] = TRUE]
    /\ Goto(p, "scan")
    /\ UNCHANGED <<fileVars, fd, size, next_usage, task, write, todo, call, crashes, everSet, failed>>

ScanDone(p) ==
    /\ pc[p] = "scan" /\ todo[p] = {}
    /\ task' = [task EXCEPT ![p] = "none"]
    /\ Goto(p, "idle")
    /\ UNCHANGED <<fileVars, openVars, next_usage, write, todo, call, history>>
----------------------------------------------------------------------------
\* A process dies at any point, or ends, and a new one opens the directory.
Restart(p) ==
    /\ crashes < MaxCrashes
    /\ crashes' = crashes + 1
    /\ next_usage' = [next_usage EXCEPT ![p] = 1]
    /\ Goto(p, "idle")
    /\ task' = [task EXCEPT ![p] = "none"]
    /\ write' = [write EXCEPT ![p] = NoEntry]
    /\ todo' = [todo EXCEPT ![p] = {}]
    /\ call' = [call EXCEPT ![p] = NoCall]
    /\ Close(p)
    /\ missed' = [missed EXCEPT ![p] = FALSE]
    /\ UNCHANGED <<fileVars, everSet, failed>>

Process(p) ==
    \/ \E k \in Keys : get(p, k) \/ \E v \in Values : set(p, k, v)
    \/ Open(p) \/ OpenFails(p) \/ WritePart(p) \/ Write(p)
    \/ has(p) \/ HasThrows(p) \/ OpenToRead(p) \/ ReadFile(p) \/ ReadPart(p) \/ CannotRead(p)
    \/ clean_up(p) \/ (\E q \in Paths : ScanFile(p, q)) \/ ListFails(p)
    \/ Remove(p) \/ RemoveFails(p) \/ ScanDone(p)
    \/ Restart(p)

\* Bound: no process has a stamp left for another call.
Exhausted ==
    /\ \A p \in Procs : pc[p] = "idle" /\ next_usage[p] > MaxUsage
    /\ UNCHANGED vars

Next == Exhausted \/ \E p \in Procs : Process(p)

Spec == Init /\ [][Next]_vars
----------------------------------------------------------------------------
TypeOK ==
    /\ dir \in [Paths -> Inodes \cup {NoFile}]
    /\ disk \in [Paths -> [Inodes -> Seq(Cells)]]
    /\ next_usage \in [Procs -> 1 .. MaxUsage + 1]
    /\ pc \in [Procs -> {"idle", "open", "write", "write2", "has", "fetch", "read",
                         "cleanup", "scan", "remove"}]
    /\ task \in [Procs -> {"none", "set", "get", "touch", "scan"}]
    /\ write \in [Procs -> Entries \cup {NoEntry}]
    /\ at \in [Procs -> Paths \cup {NoFile}]
    /\ fd \in [Procs -> Inodes \cup {NoFile}]
    /\ size \in [Procs -> Nat]
    /\ todo \in [Procs -> SUBSET Paths]
    /\ call \in [Procs -> [key : Keys \cup {NoValue}, result : Written \cup {NoValue}]]
    /\ crashes \in 0 .. MaxCrashes
    /\ everSet \in [Keys -> SUBSET Values]
    /\ clashed \in SUBSET Paths
    /\ failed \in BOOLEAN
    /\ missed \in [Procs -> BOOLEAN]

\* The beginning of a value set for k: all of it, or part, or nothing.
Beginning(t, k) == \E v \in everSet[k] : \E n \in 0 .. Len(Text(v)) : t = SubSeq(Text(v), 1, n)

\* Whatever processes do at once and wherever they fail and die, a lookup
\* returns a value that was set for that key, or its beginning: the part that
\* reached the file of a writer that died, nothing when set_options no longer
\* found the entry.  Only where two processes had the file open at once, one
\* of them for writing, or a read broke off, the value may be pieced together,
\* and even then from values set for that key and zeros.
GetReturnsOwnValue ==
    \A p \in Procs : LET c == call[p]
                     IN  c.result # NoValue =>
                            /\ path[c.key] \notin clashed => Beginning(c.result, c.key)
                            /\ \A i \in DOMAIN c.result :
                                  c.result[i] = Nul \/ c.result[i].of \in everSet[c.key]

\* "Get the value if exists": what get returns for a key is a value that was
\* set for that very key, never another key's, a truncated or a made-up one;
\* an empty one after a file could not be read, or what it was read as.
GetReturnsSetValue ==
    \A p \in Procs : LET c == call[p]
                     IN  c.result # NoValue =>
                            \/ \E v \in everSet[c.key] : c.result = Text(v)
                            \/ failed /\ (c.result = Empty \/ path[c.key] \in clashed)

\* "clean up the old data": between the calls of a process that has not been
\* restarted the directory holds no more than max_size readable entries, unless
\* its last clean_up could not list, read or remove a file.
SizeBound ==
    crashes = 0 /\ (\A p \in Procs : pc[p] = "idle" /\ ~missed[p]) =>
        Cardinality({q \in Paths : Readable(Contents(q))}) <= MaxSize

\* In one process that has not restarted, stamps never repeat and are of the
\* past, at every step of a call: what clean_up() removes is what was used
\* longest ago.
StampsDistinct ==
    crashes = 0 =>
        \A q, r \in Paths :
            Readable(Contents(q)) /\ Readable(Contents(r)) =>
                /\ \E p \in Procs : Contents(q)[1].n < next_usage[p]
                /\ Contents(q)[1].n = Contents(r)[1].n => q = r
============================================================================
