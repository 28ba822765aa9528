----------------------- MODULE MCDirectoryCacheProofs -----------------------
(***************************************************************************)
(* The properties of the two instances that MCDirectoryCache gives to TLC, *)
(* from the lemmas of DirectoryCacheProofs: with any processes, keys and   *)
(* paths together, and for the one process alone with any keys and values. *)
(***************************************************************************)
EXTENDS MCDirectoryCache, DirectoryCacheProofs

\* Alone, with what is proved of it.
Lone == INSTANCE DirectoryCacheProofs WITH
            Procs <- {Lonely}, Keys <- LonelyKeys, Values <- LonelyValues, Long <- {},
            Paths <- LonelyKeys, path <- OwnPath, Inodes <- {1},
            MaxSize <- 2, MaxUsage <- 4, MaxCrashes <- 1

\* The constants of the instance are as the specification asks.
LEMMA LoneConstants == Lone!DirectoryAssumption /\ Lone!DistinctPaths
<1>1. OwnPath \in [LonelyKeys -> LonelyKeys] /\ \A k \in LonelyKeys : OwnPath[k] = k
  BY DEF OwnPath
<1>2. Lone!DistinctPaths
  BY <1>1 DEF Lone!DistinctPaths
<1>3. Lone!DirectoryAssumption
  BY <1>1, DirectoryAssumption, LonelyAssumption DEF Lone!DirectoryAssumption
<1>4. QED
  BY <1>2, <1>3

\* Both instances name the same specification.
LEMMA SameSpecification ==
    /\ Alone!Init <=> Lone!Init
    /\ Alone!Next => UNCHANGED vars \/ Lone!Process(Lonely)
    /\ UNCHANGED vars <=> UNCHANGED Lone!vars
<1> USE DEF Alone!fileVars, Lone!fileVars, Alone!openVars, Lone!openVars, Alone!callVars,
            Lone!callVars, Alone!history, Lone!history, Alone!Goto, Lone!Goto, Alone!WriteOver,
            Lone!WriteOver, Alone!Close, Lone!Close, Alone!NoCall, Lone!NoCall, Alone!NoEntry,
            Lone!NoEntry, Alone!Clash, Lone!Clash, Alone!Holders, Lone!Holders, Alone!Writers,
            Lone!Writers
<1>1. Alone!Init <=> Lone!Init
  BY DEF Alone!Init, Lone!Init
<1>2. UNCHANGED vars <=> UNCHANGED Lone!vars
  BY DEF vars, Lone!vars, fileVars, openVars, callVars, history
<1>3. Alone!Process(Lonely) => Lone!Process(Lonely)
  <2>1. ASSUME NEW p, NEW c PROVE Alone!Took(p, c) => Lone!Took(p, c)
    BY DEF Alone!Took, Lone!Took, Alone!LookedUp, Lone!LookedUp, Alone!ReadAgain, Lone!ReadAgain,
           Alone!Scanned, Lone!Scanned, Alone!Goto, Lone!Goto, Alone!Readable, Lone!Readable,
           Alone!Empty, Lone!Empty, Alone!break_index, Lone!break_index
  <2>2. ASSUME NEW c, NEW n PROVE Alone!Sized(c, n) = Lone!Sized(c, n)
    BY DEF Alone!Sized, Lone!Sized, Alone!Nul, Lone!Nul
  <2>3. ASSUME NEW p, NEW k PROVE Alone!get(p, k) => Lone!get(p, k)
    BY DEF Alone!get, Lone!get
  <2>4. ASSUME NEW p, NEW k, NEW v PROVE Alone!set(p, k, v) => Lone!set(p, k, v)
    BY DEF Alone!set, Lone!set, Alone!Text, Lone!Text
  <2>5. ASSUME NEW p PROVE Alone!Open(p) => Lone!Open(p)
    BY DEF Alone!Open, Lone!Open, Alone!NewFile, Lone!NewFile
  <2>6. ASSUME NEW p PROVE Alone!OpenFails(p) => Lone!OpenFails(p)
    BY DEF Alone!OpenFails, Lone!OpenFails
  <2>7. ASSUME NEW p PROVE Alone!WritePart(p) => Lone!WritePart(p)
    BY DEF Alone!WritePart, Lone!WritePart, Alone!PutFrom, Lone!PutFrom, Alone!WriteAt,
           Lone!WriteAt, Alone!Bytes, Lone!Bytes, Alone!Nul, Lone!Nul
  <2>8. ASSUME NEW p PROVE Alone!Write(p) => Lone!Write(p)
    BY DEF Alone!Write, Lone!Write, Alone!PutFrom, Lone!PutFrom, Alone!WriteAt, Lone!WriteAt,
           Alone!Bytes, Lone!Bytes, Alone!Nul, Lone!Nul
  <2>9. ASSUME NEW p PROVE Alone!has(p) => Lone!has(p)
    BY DEF Alone!has, Lone!has
  <2>10. ASSUME NEW p PROVE Alone!HasThrows(p) => Lone!HasThrows(p)
    BY DEF Alone!HasThrows, Lone!HasThrows
  <2>11. ASSUME NEW p PROVE Alone!OpenToRead(p) => Lone!OpenToRead(p)
    BY DEF Alone!OpenToRead, Lone!OpenToRead, Alone!Contents, Lone!Contents
  <2>12. ASSUME NEW p PROVE Alone!ReadFile(p) => Lone!ReadFile(p)
    BY <2>1, <2>2 DEF Alone!ReadFile, Lone!ReadFile
  <2>13. ASSUME NEW p PROVE Alone!ReadPart(p) => Lone!ReadPart(p)
    BY <2>1, <2>2 DEF Alone!ReadPart, Lone!ReadPart
  <2>14. ASSUME NEW p PROVE Alone!CannotRead(p) => Lone!CannotRead(p)
    BY <2>1 DEF Alone!CannotRead, Lone!CannotRead, Alone!Contents, Lone!Contents
  <2>15. ASSUME NEW p PROVE Alone!clean_up(p) => Lone!clean_up(p)
    BY DEF Alone!clean_up, Lone!clean_up
  <2>16. ASSUME NEW p, NEW q PROVE Alone!ScanFile(p, q) => Lone!ScanFile(p, q)
    BY DEF Alone!ScanFile, Lone!ScanFile
  <2>17. ASSUME NEW p PROVE Alone!ListFails(p) => Lone!ListFails(p)
    BY DEF Alone!ListFails, Lone!ListFails
  <2>18. ASSUME NEW p PROVE Alone!Remove(p) => Lone!Remove(p)
    BY DEF Alone!Remove, Lone!Remove
  <2>19. ASSUME NEW p PROVE Alone!RemoveFails(p) => Lone!RemoveFails(p)
    BY DEF Alone!RemoveFails, Lone!RemoveFails
  <2>20. ASSUME NEW p PROVE Alone!ScanDone(p) => Lone!ScanDone(p)
    BY DEF Alone!ScanDone, Lone!ScanDone
  <2>21. ASSUME NEW p PROVE Alone!Restart(p) => Lone!Restart(p)
    BY DEF Alone!Restart, Lone!Restart
  <2>22. QED
    BY <2>3, <2>4, <2>5, <2>6, <2>7, <2>8, <2>9, <2>10, <2>11, <2>12, <2>13, <2>14, <2>15, <2>16,
       <2>17, <2>18, <2>19, <2>20, <2>21 DEF Alone!Process, Lone!Process
<1>4. Alone!Next => UNCHANGED vars \/ Alone!Process(Lonely)
  BY DEF Alone!Next, Alone!Exhausted, Alone!vars, vars, fileVars, openVars, callVars, history
<1>5. QED
  BY <1>1, <1>2, <1>3, <1>4

\* Who runs is settled by who has a counter, and stays settled.
SharedOrAlone ==
    /\ DOMAIN next_usage \in {Procs, {Lonely}}
    /\ Together => TInv
    /\ ~Together => Lone!AInv /\ Lone!RoomInv

\* With keys the hash tells apart, the processes find their own values.
SharedValues == SharedOrAlone /\ (Together => VInv)

LEMMA TogetherTyped == TInv => Together
BY DEF TInv, TypeOK, Together

LEMMA AloneTyped == Lone!AInv => DOMAIN next_usage = {Lonely} /\ ~Together
<1>1. {Lonely} # Procs
  BY LonelyAssumption
<1>2. QED
  BY <1>1 DEF Lone!AInv, Lone!LInv, Lone!EInv, Lone!TInv, Lone!TypeOK, Together

LEMMA EitherStarts ==
    ASSUME Init \/ Alone!Init
    PROVE  SharedValues
<1>1. CASE Init
  <2>1. VInv /\ TInv
    BY <1>1, ValuesStart, TypeStart
  <2>2. Together
    BY <2>1, TogetherTyped
  <2>3. QED
    BY <2>1, <2>2 DEF SharedValues, SharedOrAlone, Together
<1>2. CASE Alone!Init
  <2>1. Lone!AInv /\ Lone!RoomInv
    BY <1>2, SameSpecification, LoneConstants, Lone!AloneStart, Lone!RoomStart
  <2>2. DOMAIN next_usage = {Lonely} /\ ~Together
    BY <2>1, AloneTyped
  <2>3. QED
    BY <2>1, <2>2 DEF SharedValues, SharedOrAlone
<1>3. QED
  BY <1>1, <1>2

LEMMA EitherSteps ==
    ASSUME [(Together /\ Next) \/ (~Together /\ Alone!Next)]_vars, SharedOrAlone
    PROVE  /\ SharedOrAlone'
           /\ DistinctPaths /\ SharedValues => SharedValues'
<1>1. CASE UNCHANGED vars
  <2>1. Together' <=> Together
    BY <1>1 DEF Together, vars
  <2>2. (DOMAIN next_usage \in {Procs, {Lonely}})'
    BY <1>1 DEF SharedOrAlone, vars
  <2>3. (TInv => TInv') /\ (VInv => VInv')
    BY <1>1, ValuesStutter
  <2>4. (Lone!AInv => Lone!AInv') /\ (Lone!RoomInv => Lone!RoomInv')
    BY <1>1, SameSpecification, LoneConstants, Lone!AloneStutter, Lone!RoomStutter
  <2>5. QED
    BY <2>1, <2>2, <2>3, <2>4 DEF SharedOrAlone, SharedValues
<1>2. CASE Together /\ Next /\ ~UNCHANGED vars
  <2>1. PICK p \in Procs : Process(p)
    BY <1>2 DEF Next, Exhausted
  <2>2. TInv'
    BY <1>2, <2>1, TypeStep DEF SharedOrAlone
  <2>3. Together'
    BY <2>2 DEF TInv, TypeOK, Together
  <2>4. ASSUME DistinctPaths, VInv PROVE VInv'
    BY <2>1, <2>4, ExclusiveStep, ValuesStep DEF VInv
  <2>5. QED
    BY <1>2, <2>2, <2>3, <2>4 DEF SharedOrAlone, SharedValues, Together
<1>3. CASE ~Together /\ Alone!Next /\ ~UNCHANGED vars
  <2>1. Lone!Process(Lonely) /\ Lone!AInv /\ Lone!RoomInv
    BY <1>3, SameSpecification DEF SharedOrAlone
  <2>2. Lone!AInv'
    BY <2>1, LoneConstants, Lone!AloneStep
  <2>3. Lone!RoomInv'
    BY <2>1, LoneConstants, Lone!RoomStep
  <2>4. (DOMAIN next_usage = {Lonely} /\ ~Together)'
    BY <2>2, LonelyAssumption DEF Lone!AInv, Lone!LInv, Lone!EInv, Lone!TInv, Lone!TypeOK, Together
  <2>5. QED
    BY <2>2, <2>3, <2>4 DEF SharedOrAlone, SharedValues
<1>4. QED
  BY <1>1, <1>2, <1>3
----------------------------------------------------------------------------
\* Of processes that share the directory: the counters, calls and files of
\* storage_gate keep their types, also when processes die.
THEOREM SharedTypeCorrect == EitherSpec => []TypeOKTogether
<1>1. Init \/ Alone!Init => SharedOrAlone
  BY EitherStarts DEF SharedValues
<1>2. SharedOrAlone /\ [(Together /\ Next) \/ (~Together /\ Alone!Next)]_vars => SharedOrAlone'
  BY EitherSteps DEF SharedValues
<1>3. SharedOrAlone => TypeOKTogether
  BY DEF SharedOrAlone, TypeOKTogether, TInv
<1>4. QED
  BY <1>1, <1>2, <1>3, PTL DEF EitherSpec

\* Of processes that share the directory: storage_gate::get returns nothing
\* that was not written for the key, and the beginning of one value where none
\* wrote while another had the file open.
THEOREM SharedOwnValueReturned == DistinctPaths => (EitherSpec => []GetReturnsOwnValueTogether)
<1> SUFFICES ASSUME DistinctPaths PROVE EitherSpec => []GetReturnsOwnValueTogether
  OBVIOUS
<1>1. Init \/ Alone!Init => SharedValues
  BY EitherStarts DEF SharedValues
<1>2. SharedValues /\ [(Together /\ Next) \/ (~Together /\ Alone!Next)]_vars => SharedValues'
  BY EitherSteps DEF SharedValues
<1>3. SharedValues => GetReturnsOwnValueTogether
  BY ValuesReturned DEF SharedValues, GetReturnsOwnValueTogether
<1>4. QED
  BY <1>1, <1>2, <1>3, PTL DEF EitherSpec

\* Of the process alone: what get returns was set for the key, also after it
\* died between the truncation and the write of a file, but for what a failed
\* read leaves of it.
THEOREM AloneSetValueReturned == EitherSpec => []GetReturnsSetValueAlone
<1>1. Init \/ Alone!Init => SharedOrAlone
  BY EitherStarts DEF SharedValues
<1>2. SharedOrAlone /\ [(Together /\ Next) \/ (~Together /\ Alone!Next)]_vars => SharedOrAlone'
  BY EitherSteps DEF SharedValues
<1>3. SharedOrAlone => GetReturnsSetValueAlone
  <2>1. Lone!AInv => Lone!GetReturnsSetValue
    BY LoneConstants, Lone!AloneReturned
  <2>2. Lone!GetReturnsSetValue => Alone!GetReturnsSetValue
    BY DEF Lone!GetReturnsSetValue, Alone!GetReturnsSetValue, Lone!Text, Alone!Text, Lone!Empty, Alone!Empty
  <2>3. QED
    BY <2>1, <2>2 DEF SharedOrAlone, GetReturnsSetValueAlone
<1>4. QED
  BY <1>1, <1>2, <1>3, PTL DEF EitherSpec

\* Of the process alone: no two files carry the same next_usage stamp until it
\* dies.
THEOREM AloneStampsDistinct == EitherSpec => []StampsDistinctAlone
<1>1. Init \/ Alone!Init => SharedOrAlone
  BY EitherStarts DEF SharedValues
<1>2. SharedOrAlone /\ [(Together /\ Next) \/ (~Together /\ Alone!Next)]_vars => SharedOrAlone'
  BY EitherSteps DEF SharedValues
<1>3. SharedOrAlone => StampsDistinctAlone
  <2>1. Lone!RoomInv => Lone!StampsDistinct
    BY LoneConstants, Lone!StampsTold DEF Lone!RoomInv, Lone!OneProcess
  <2>2. Lone!StampsDistinct => Alone!StampsDistinct
    BY DEF Lone!StampsDistinct, Alone!StampsDistinct, Lone!Readable, Alone!Readable,
           Lone!Contents, Alone!Contents
  <2>3. QED
    BY <2>1, <2>2 DEF SharedOrAlone, StampsDistinctAlone
<1>4. QED
  BY <1>1, <1>2, <1>3, PTL DEF EitherSpec

\* Of the process alone: between calls clean_up has left no more than max_size
\* readable files until it dies, unless it could not list, read or remove one.
THEOREM AloneSizeBounded == EitherSpec => []SizeBoundAlone
<1>1. Init \/ Alone!Init => SharedOrAlone
  BY EitherStarts DEF SharedValues
<1>2. SharedOrAlone /\ [(Together /\ Next) \/ (~Together /\ Alone!Next)]_vars => SharedOrAlone'
  BY EitherSteps DEF SharedValues
<1>3. SharedOrAlone => SizeBoundAlone
  <2>1. Lone!RoomInv => Lone!SizeBound
    BY LoneConstants, Lone!RoomTold DEF Lone!OneProcess
  <2>2. Lone!SizeBound => Alone!SizeBound
    BY DEF Lone!SizeBound, Alone!SizeBound, Lone!Readable, Alone!Readable, Lone!Contents, Alone!Contents,
           Lone!Cardinality, Alone!Cardinality
  <2>3. QED
    BY <2>1, <2>2 DEF SharedOrAlone, SizeBoundAlone
<1>4. QED
  BY <1>1, <1>2, <1>3, PTL DEF EitherSpec

=============================================================================
