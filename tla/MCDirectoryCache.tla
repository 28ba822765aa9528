-------------------------- MODULE MCDirectoryCache --------------------------
(* Two instances of DirectoryCache over one state, for TLC: two processes  *)
(* share a directory, or one process has a directory to itself.  Which of  *)
(* them runs is settled in the initial state, by who has a next_usage.     *)
EXTENDS DirectoryCache, TLC

OneKey == {"k"}
OnePath == {"f"}
OneOwnPath == [k \in OneKey |-> "f"]

CONSTANTS Lonely,       \* the process that is alone
          LonelyKeys,   \* its keys, which name their files
          LonelyValues  \* the values it stores

OwnPath == [k \in LonelyKeys |-> k]

\* What DirectoryAssumption asks of the second instance.
ASSUME LonelyAssumption ==
    /\ Lonely \notin Procs
    /\ NoValue \notin LonelyKeys \cup LonelyValues
    /\ NoFile \notin LonelyKeys
    /\ NoFile \notin {1}

\* One process, max_size 2 and four stamps, dying once at most.
Alone == INSTANCE DirectoryCache WITH
            Procs <- {Lonely}, Keys <- LonelyKeys, Values <- LonelyValues, Long <- {},
            Paths <- LonelyKeys, path <- OwnPath, Inodes <- {1},
            MaxSize <- 2, MaxUsage <- 4, MaxCrashes <- 1

Together == DOMAIN next_usage = Procs

EitherSpec ==
    /\ Init \/ Alone!Init
    /\ [][(Together /\ Next) \/ (~Together /\ Alone!Next)]_vars

\* Two processes: the strategy's counter, its calls and the files keep their
\* types through interleaved storage_gate operations and their failures.
TypeOKTogether == Together => TypeOK

\* Two processes: storage_gate::get never returns what nobody wrote for the
\* key, whatever the other process writes or removes meanwhile; where none
\* wrote while another had the file open, it is the beginning of one value.
GetReturnsOwnValueTogether == Together => GetReturnsOwnValue

\* One process: between calls clean_up has left no more than max_size files,
\* until a restart, unless it could not list, read or remove one.
SizeBoundAlone == ~Together => Alone!SizeBound

\* One process: until a restart no two files carry the same next_usage stamp.
StampsDistinctAlone == ~Together => Alone!StampsDistinct

\* One process: what get returns was set for the key, also after a crash
\* between the truncation and the write of storage_gate::set; an empty or a
\* damaged one only after a read has failed.
GetReturnsSetValueAlone == ~Together => Alone!GetReturnsSetValue

Symmetric == Permutations(Procs) \cup Permutations(LonelyKeys)
=============================================================================
