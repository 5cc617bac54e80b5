--------------------------- MODULE Resume_proofs ---------------------------
(***************************************************************************)
(* What Resume keeps whatever is killed and whatever fails (Inv), and what *)
(* it keeps on top of that when writes succeed, the removal of the         *)
(* directory is not interrupted and commands are read back as they were    *)
(* (Books, Complete).                                                      *)
(***************************************************************************)
EXTENDS Resume, TLAPS

USE ResumeAssumption

\* Who may be where: workers run in phase "encode" only, the mutex belongs to
\* the worker that finishes a chunk, the log is open once it was emptied.
Structure ==
    /\ phase # "down" => asked \in Cmds /\ cur \in Cmds
    /\ phase # "encode" => lock = {} /\ \A w \in Workers : wpc[w] = "recv"
    /\ phase \in {"down", "save", "write", "load"} => book = {} /\ todo = {} /\ opened = FALSE
    /\ lock = {} \/ \E w \in Workers : lock = {w}
    /\ \A w \in Workers : wpc[w] \in {"finish", "rewrite"} <=> lock = {w}
    /\ \A w \in Workers : wpc[w] = "rewrite" => opened

\* Nothing is in the log on disk that is not in the log in memory.
Logged == phase = "encode" => doneTxt \subseteq book

Inv == TypeOK /\ Structure /\ OnePlace /\ LogOnDisk /\ Logged

----------------------------------------------------------------------------
LEMMA ChunkNumbers == 0 \in Idx /\ \A c \in Cmds : Chunks(c) \subseteq Idx
  <1>1. \A c \in Cmds : Chunks(c) \subseteq Idx /\ 0 \in Chunks(c)
    BY DEF Chunks, Idx
  <1> QED
    BY <1>1

LEMMA InitInv == Init => Inv
  <1> SUFFICES ASSUME Init PROVE Inv
    OBVIOUS
  <1>1. TypeOK
    <2>1. \E S \in SUBSET Idx : out \in [S -> Files]
      <3>1. out \in [{} -> Files]
        BY DEF Init
      <3> QED
        BY <3>1
    <2>2. file \in [Idx -> Files \cup {NoFile}]
      BY DEF Init
    <2>3. chnk \in [Workers -> Idx]
      BY ChunkNumbers DEF Init
    <2>7. wpc \in [Workers -> WLabels]
      BY DEF Init, WLabels
    <2>4. kills \in 0 .. MaxKills
      BY DEF Init
    <2>8. opened \in BOOLEAN
      BY DEF Init
    <2>5. phase \in Phases /\ doneTxt \subseteq Idx /\ todo \subseteq Idx /\ book \subseteq Idx
          /\ lock \subseteq Workers /\ ever \subseteq Idx
      BY DEF Init, Phases
    <2>6. cmdTxt = NoCmd /\ asked = NoCmd /\ cur = NoCmd
      BY DEF Init
    <2> QED
      BY <2>1, <2>2, <2>3, <2>4, <2>5, <2>6, <2>7, <2>8 DEF TypeOK
  <1> QED
    BY <1>1 DEF Init, Inv, Structure, OnePlace, LogOnDisk, Logged

\* The end of a process, killed or not.
LEMMA GoneKeeps ==
    ASSUME Inv, Gone, kills' \in 0 .. MaxKills
    PROVE  Inv'
  <1>1. TypeOK'
    BY ChunkNumbers DEF Inv, TypeOK, Gone, disk, Phases, WLabels
  <1> QED
    BY <1>1 DEF Inv, Gone, Structure, OnePlace, LogOnDisk, Logged, disk

\* The steps up to the workers.
LEMMA StartKeeps ==
    ASSUME Inv, (\E c \in Cmds : GetArgs(c)) \/ SaveArgs \/ LoadResume
    PROVE  Inv'
  <1> USE DEF Inv, Phase, disk, args, log, workers
  <1>1. ASSUME NEW c \in Cmds, GetArgs(c) PROVE Inv'
    <2>1. TypeOK'
      BY <1>1 DEF GetArgs, SavedArgs, TypeOK, Phases
    <2>2. Structure'
      BY <1>1 DEF GetArgs, SavedArgs, TypeOK, Structure
    <2> QED
      BY <1>1, <2>1, <2>2 DEF GetArgs, OnePlace, LogOnDisk, Logged
  <1>2. CASE SaveArgs
    <2>1. TypeOK'
      BY <1>2 DEF SaveArgs, TypeOK, Structure, Phases
    <2> QED
      BY <1>2, <2>1 DEF SaveArgs, Structure, OnePlace, LogOnDisk, Logged
  <1>3. CASE LoadResume
    <2>1. TypeOK'
      BY <1>3, ChunkNumbers DEF LoadResume, TypeOK, Structure, Phases
    <2>2. Structure'
      BY <1>3 DEF LoadResume, Structure
    <2>3. OnePlace'
      BY <1>3 DEF LoadResume, Structure, OnePlace, InWork, Busy
    <2> QED
      BY <1>3, <2>1, <2>2, <2>3 DEF LoadResume, LogOnDisk, Logged
  <1> QED
    BY <1>1, <1>2, <1>3

\* A worker's steps happen in phase "encode".
LEMMA WorkEncodes ==
    ASSUME Inv, NEW w \in Workers, Work(w)
    PROVE  phase = "encode" /\ phase' = "encode" /\ cur \in Cmds /\ cur' = cur
  BY DEF Inv, Structure, Work, Recv, CreateFile, Encode, Lock, CreateLog, Finish, WStep, args

LEMMA WorkTypes ==
    ASSUME Inv, NEW w \in Workers, Work(w)
    PROVE  TypeOK'
  <1> USE DEF Inv, TypeOK, WStep, WLabels, disk, args, log
  <1>1. CASE Recv(w)
    BY <1>1 DEF Recv
  <1>2. CASE CreateFile(w)
    BY <1>2, WorkEncodes DEF CreateFile, Files, Content
  <1>3. CASE Encode(w)
    <2>1. file' \in [Idx -> Files \cup {NoFile}]
      <3>1. CASE file' = [file EXCEPT ![chnk[w]] = Content(cur, TRUE)]
        BY <3>1, WorkEncodes DEF Files, Content
      <3>2. CASE file' = file
        BY <3>2
      <3> QED
        BY <1>3, <3>1, <3>2 DEF Encode
    <2> QED
      BY <1>3, <2>1 DEF Encode
  <1>4. CASE Lock(w)
    BY <1>4 DEF Lock
  <1>5. CASE CreateLog(w)
    BY <1>5 DEF CreateLog
  <1>6. CASE Finish(w)
    BY <1>6 DEF Finish
  <1> QED
    BY <1>1, <1>2, <1>3, <1>4, <1>5, <1>6 DEF Work

LEMMA WorkStructure ==
    ASSUME Inv, NEW w \in Workers, Work(w)
    PROVE  Structure'
  <1>0. phase = "encode" /\ phase' = "encode" /\ asked \in Cmds /\ asked' = asked /\ cur \in Cmds /\ cur' = cur
    BY WorkEncodes DEF Inv, Structure, Work, Recv, CreateFile, Encode, Lock, CreateLog, Finish, WStep, args
  <1>1. CASE Recv(w) \/ CreateFile(w) \/ Encode(w)
    <2>1. \A v \in Workers : \/ wpc'[v] = wpc[v]
                             \/ {wpc[v], wpc'[v]} \cap {"finish", "rewrite"} = {}
      BY <1>1 DEF Inv, TypeOK, Recv, CreateFile, Encode, WStep
    <2>2. UNCHANGED log
      BY <1>1 DEF Recv, CreateFile, Encode
    <2> QED
      BY <1>0, <2>1, <2>2 DEF Inv, Structure, log
  <1>2. CASE Lock(w)
    BY <1>0, <1>2 DEF Inv, TypeOK, Structure, Lock, WStep
  <1>3. CASE CreateLog(w)
    BY <1>0, <1>3 DEF Inv, TypeOK, Structure, CreateLog, WStep
  <1>4. CASE Finish(w)
    BY <1>0, <1>4 DEF Inv, TypeOK, Structure, Finish, WStep
  <1> QED
    BY <1>1, <1>2, <1>3, <1>4 DEF Work

LEMMA WorkPlaces ==
    ASSUME Inv, NEW w \in Workers, Work(w)
    PROVE  OnePlace'
  <1>0. phase = "encode" /\ cur' = cur
    BY WorkEncodes
  <1> USE DEF Inv, TypeOK, WStep
  <1>1. CASE Recv(w)
    <2>1. PICK i \in todo : todo' = todo \ {i} /\ chnk' = [chnk EXCEPT ![w] = i]
      BY <1>1 DEF Recv
    <2>2. Busy' = Busy \cup {w} /\ w \notin Busy
      BY <1>1 DEF Recv, Busy
    <2>3. \A v \in Busy : chnk'[v] = chnk[v]
      BY <2>1, <2>2 DEF Busy
    <2>4. InWork' = InWork \cup {i} /\ chnk'[w] = i
      BY <2>1, <2>2, <2>3 DEF InWork, Busy
    <2>5. book' = book
      BY <1>1 DEF Recv, log
    <2> QED
      BY <1>0, <2>1, <2>2, <2>3, <2>4, <2>5 DEF OnePlace, Chunks, InWork
  <1>2. CASE CreateFile(w) \/ Encode(w) \/ Lock(w) \/ CreateLog(w)
    <2>1. Busy' = Busy /\ UNCHANGED <<chnk, todo, book>>
      BY <1>2 DEF CreateFile, Encode, Lock, CreateLog, Busy, log
    <2> QED
      BY <1>0, <2>1 DEF OnePlace, Chunks, InWork
  <1>3. CASE Finish(w)
    <2>1. Busy' = Busy \ {w} /\ w \in Busy
      BY <1>3 DEF Finish, Busy
    <2>2. UNCHANGED <<chnk, todo>> /\ book' = book \cup {chnk[w]}
      BY <1>3 DEF Finish
    <2>3. InWork' = InWork \ {chnk[w]}
      BY <1>0, <2>1, <2>2 DEF OnePlace, InWork
    <2> QED
      BY <1>0, <2>1, <2>2, <2>3 DEF OnePlace, Chunks, InWork
  <1> QED
    BY <1>1, <1>2, <1>3 DEF Work

LEMMA WorkLogs ==
    ASSUME Inv, NEW w \in Workers, Work(w)
    PROVE  LogOnDisk' /\ Logged'
  <1>0. phase = "encode"
    BY WorkEncodes
  <1> USE DEF Inv, TypeOK, WStep
  <1>1. CASE Recv(w) \/ CreateFile(w) \/ Encode(w) \/ Lock(w)
    BY <1>0, <1>1 DEF Recv, CreateFile, Encode, Lock, LogOnDisk, Logged, disk, log
  <1>2. CASE CreateLog(w)
    BY <1>2 DEF CreateLog, LogOnDisk, Logged
  <1>3. CASE Finish(w)
    <2>1. CASE wpc[w] = "rewrite"
      BY <1>3, <2>1 DEF Finish, LogOnDisk, Logged
    <2>2. CASE wpc[w] = "finish"
      <3>1. \A v \in Workers : wpc[v] # "rewrite"
        BY <2>2 DEF Structure
      <3>2. doneTxt = book
        BY <1>0, <3>1 DEF LogOnDisk
      <3> QED
        BY <1>3, <2>2, <3>2 DEF Finish, LogOnDisk, Logged
    <2> QED
      BY <1>3, <2>1, <2>2 DEF Finish
  <1> QED
    BY <1>1, <1>2, <1>3 DEF Work

\* The steps after the workers.
LEMMA EndKeeps ==
    ASSUME Inv, JoinWorkers \/ Mux \/ Remove \/ Removed
    PROVE  Inv'
  <1> USE DEF Inv, Phase, disk, args, log, workers
  <1>1. CASE JoinWorkers
    <2>1. TypeOK'
      BY <1>1 DEF JoinWorkers, TypeOK, Phases
    <2>2. Structure'
      BY <1>1 DEF JoinWorkers, Structure
    <2> QED
      BY <1>1, <2>1, <2>2 DEF JoinWorkers, OnePlace, LogOnDisk, Logged
  <1>2. CASE Mux
    <2>1. Found \subseteq Idx /\ \A i \in Found : file[i] \in Files
      BY DEF Found, TypeOK
    <2>2. \E S \in SUBSET Idx : out' \in [S -> Files]
      <3>1. CASE Found = Paths /\ out' = [i \in Paths |-> file[i]]
        <4>1. out' \in [Found -> Files]
          BY <2>1, <3>1
        <4> QED
          BY <2>1, <4>1
      <3>2. CASE out' = out
        BY <3>2 DEF TypeOK
      <3> QED
        BY <1>2, <3>1, <3>2 DEF Mux
    <2>3. TypeOK'
      BY <1>2, <2>2 DEF Mux, TypeOK, Phases
    <2> QED
      BY <1>2, <2>3 DEF Mux, Structure, OnePlace, LogOnDisk, Logged
  <1>3. CASE Remove
    <2>1. TypeOK'
      BY <1>3 DEF Remove, TypeOK, Found
    <2> QED
      BY <1>3, <2>1 DEF Remove, Structure, OnePlace, LogOnDisk, Logged
  <1>4. CASE Removed
    <2>1. TypeOK'
      BY <1>4 DEF Removed, TypeOK, Phases
    <2> QED
      BY <1>4, <2>1 DEF Removed, Structure, OnePlace, LogOnDisk, Logged
  <1> QED
    BY <1>1, <1>2, <1>3, <1>4

LEMMA StepInv == Inv /\ [Next]_vars => Inv'
  <1> SUFFICES ASSUME Inv, [Next]_vars PROVE Inv'
    OBVIOUS
  <1>1. ASSUME NEW w \in Workers, Work(w) PROVE Inv'
    BY <1>1, WorkTypes, WorkStructure, WorkPlaces, WorkLogs DEF Inv
  <1>2. CASE Exit
    BY <1>2, GoneKeeps DEF Exit, Inv, TypeOK
  <1>3. CASE Kill
    <2>1. kills' \in 0 .. MaxKills
      BY <1>3 DEF Kill, Inv, TypeOK
    <2> QED
      BY <1>3, <2>1, GoneKeeps DEF Kill
  <1>4. CASE UNCHANGED vars
    BY <1>4 DEF vars, disk, args, log, workers, Inv, TypeOK, Structure, OnePlace, InWork, Busy,
                LogOnDisk, Logged
  <1> QED
    BY <1>1, <1>2, <1>3, <1>4, StartKeeps, EndKeeps DEF Next, Run, Finished

\* The inductive invariant of the whole encode, for any commands, sizes,
\* workers, kills and failures.
THEOREM ResumeInvariant == Spec => []Inv
  BY InitInv, StepInv, PTL DEF Spec

\* Types of the disk, the process and its workers.
THEOREM ResumeTypes == Spec => []TypeOK
  <1>1. Inv => TypeOK
    BY DEF Inv
  <1> QED
    BY <1>1, ResumeInvariant, PTL

\* While workers run, every chunk of the video waits, is with one worker or is
\* book-kept (the decoder's skipping and the workers' loop in enc.rs).
THEOREM ChunksOncePlaced == Spec => []OnePlace
  <1>1. Inv => OnePlace
    BY DEF Inv
  <1> QED
    BY <1>1, ResumeInvariant, PTL

\* No finish overwrites a line of another, nor of an earlier run (ResumeInf).
THEOREM LogNotOverwritten == Spec => []LogOnDisk
  <1>1. Inv => LogOnDisk
    BY DEF Inv
  <1> QED
    BY <1>1, ResumeInvariant, PTL

\* A finished chunk's file is not touched before the directory is removed.
THEOREM FinishedImmutable == Spec => Immutable
  <1>1. ASSUME Inv, [Next]_vars, phase # "cleanup", NEW i \in doneTxt
        PROVE  file'[i] = file[i]
    <2>1. CASE file' = file
      BY <2>1
    <2>2. ASSUME NEW w \in Workers, CreateFile(w) \/ Encode(w), file' # file
          PROVE  file'[i] = file[i]
      <3>1. phase = "encode" /\ w \in Busy
        BY <1>1, <2>2, WorkEncodes DEF CreateFile, Encode, WStep, Busy, Work
      <3>2. chnk[w] # i
        BY <1>1, <3>1 DEF Inv, Logged, OnePlace, InWork
      <3> QED
        BY <1>1, <2>2, <3>2 DEF CreateFile, Encode, Inv, TypeOK
    <2> QED
      BY <1>1, <2>1, <2>2 DEF Next, GetArgs, Run, SaveArgs, LoadResume, JoinWorkers, Mux, Remove,
           Removed, Work, Recv, Lock, CreateLog, Finish, Exit, Kill, Gone, Finished, vars, disk
  <1>2. Inv /\ [Next]_vars => [phase # "cleanup" => \A i \in doneTxt : file'[i] = file[i]]_vars
    BY <1>1
  <1> QED
    BY <1>2, ResumeInvariant, PTL DEF Spec, Immutable

----------------------------------------------------------------------------
\* What follows holds when nothing but kills goes wrong.
Reliable == ~WritesFail /\ ~KillInCleanup /\ ReadBack = [c \in Cmds |-> c]

\* The command executed is the one saved, if anything is book-kept under it.
Saved ==
    /\ phase # "cleanup" /\ doneTxt # {} => cmdTxt \in Cmds
    /\ phase = "save" => cur = (IF doneTxt = {} THEN asked ELSE cmdTxt)
    /\ phase = "write" => doneTxt = {} /\ cur = asked
    /\ phase \in {"load", "encode", "mux"} => cmdTxt = cur

\* What is book-kept, on disk or in memory, and what is about to be, is whole.
Whole ==
    /\ BookedIsWhole
    /\ phase \in {"encode", "mux"} => \A i \in book : file[i] = Content(cur, TRUE)
    /\ \A w \in Workers : wpc[w] \in {"lock", "finish", "rewrite"} =>
                            file[chnk[w]] = Content(cur, TRUE)

Books == Saved /\ Whole

LEMMA InitBooks == Init => Books
  BY DEF Init, Books, Saved, Whole, BookedIsWhole

LEMMA WorkBooks ==
    ASSUME Reliable, Inv, Books, NEW w \in Workers, Work(w)
    PROVE  Books'
  <1>0. phase = "encode" /\ phase' = "encode" /\ cur \in Cmds /\ cur' = cur
    BY WorkEncodes
  <1>1. cmdTxt' = cmdTxt
    BY DEF Work, Recv, CreateFile, Encode, Lock, CreateLog, Finish, disk
  <1>2. Saved'
    BY <1>0, <1>1 DEF Books, Saved
  <1> USE DEF Inv, TypeOK, Books, WStep
  <1>3. CASE Recv(w) \/ Lock(w) \/ CreateLog(w)
    <2>1. UNCHANGED <<file, book>> /\ doneTxt' \subseteq doneTxt
      BY <1>3 DEF Recv, Lock, CreateLog, disk, log
    <2>2. \A v \in Workers : wpc'[v] \in {"lock", "finish", "rewrite"} =>
                              wpc[v] \in {"lock", "finish", "rewrite"} /\ chnk'[v] = chnk[v]
      BY <1>3 DEF Recv, Lock, CreateLog
    <2> QED
      BY <1>0, <1>1, <1>2, <2>1, <2>2 DEF Whole, BookedIsWhole
  <1>4. CASE CreateFile(w) \/ Encode(w)
    <2>1. w \in Busy /\ chnk[w] \in Idx /\ chnk[w] \notin book
      <3>1. w \in Busy /\ chnk[w] \in Idx
        BY <1>4 DEF CreateFile, Encode, Busy
      <3>2. chnk[w] \in InWork
        BY <3>1 DEF InWork
      <3> QED
        BY <1>0, <3>1, <3>2 DEF OnePlace
    <2>2. \A i \in Idx : i # chnk[w] => file'[i] = file[i]
      BY <1>4 DEF CreateFile, Encode
    <2>3. UNCHANGED <<doneTxt, book, chnk>> /\ doneTxt \subseteq book
      BY <1>0, <1>4 DEF CreateFile, Encode, log, Logged
    <2>4. ASSUME NEW v \in Workers, wpc'[v] \in {"lock", "finish", "rewrite"}
          PROVE  file'[chnk[v]] = Content(cur, TRUE)
      <3>1. CASE v = w
        <4>1. Encode(w)
          BY <1>4, <2>4, <3>1 DEF CreateFile
        <4> QED
          BY <3>1, <4>1, <2>1 DEF Encode, Reliable
      <3>2. CASE v # w
        <4>1. wpc[v] = wpc'[v]
          BY <1>4, <3>2 DEF CreateFile, Encode
        <4>2. v \in Busy /\ chnk[v] # chnk[w] /\ chnk[v] \in Idx
          BY <1>0, <2>1, <2>4, <3>2, <4>1 DEF Busy, OnePlace
        <4> QED
          BY <2>2, <2>4, <4>1, <4>2 DEF Whole
      <3> QED
        BY <3>1, <3>2
    <2>5. \A i \in book : file'[i] = Content(cur, TRUE)
      BY <1>0, <2>1, <2>2 DEF Whole
    <2>6. cmdTxt = cur
      BY <1>0 DEF Saved
    <2>7. BookedIsWhole'
      BY <1>0, <1>1, <2>3, <2>5, <2>6 DEF BookedIsWhole
    <2> QED
      BY <1>0, <1>2, <2>3, <2>4, <2>5, <2>7 DEF Whole
  <1>5. CASE Finish(w)
    <2>1. UNCHANGED <<file, chnk>> /\ book' = book \cup {chnk[w]} /\ doneTxt' \subseteq book'
      BY <1>0, <1>5 DEF Finish, Logged
    <2>2. wpc[w] \in {"finish", "rewrite"}
      BY <1>5 DEF Finish
    <2>3. \A i \in book' : file'[i] = Content(cur, TRUE)
      BY <1>0, <2>1, <2>2 DEF Whole
    <2>4. cmdTxt = cur
      BY <1>0 DEF Saved
    <2>5. BookedIsWhole'
      BY <1>0, <1>1, <2>1, <2>3, <2>4 DEF BookedIsWhole
    <2>6. \A v \in Workers : wpc'[v] \in {"lock", "finish", "rewrite"} => wpc'[v] = wpc[v]
      BY <1>5 DEF Finish
    <2> QED
      BY <1>0, <1>2, <2>1, <2>3, <2>5, <2>6 DEF Whole
  <1> QED
    BY <1>3, <1>4, <1>5 DEF Work

LEMMA RunBooks ==
    ASSUME Reliable, Inv, Books, (\E c \in Cmds : GetArgs(c)) \/ Run
    PROVE  Books'
  <1> USE DEF Inv, TypeOK, Books, Phase, disk, args, log, workers
  <1>0. phase # "encode" => \A w \in Workers : wpc[w] = "recv"
    BY DEF Structure
  <1>1. ASSUME NEW c \in Cmds, GetArgs(c) PROVE Books'
    <2>1. Saved'
      BY <1>1 DEF GetArgs, SavedArgs, Saved, Reliable
    <2> QED
      BY <1>0, <1>1, <2>1 DEF GetArgs, Whole, BookedIsWhole
  <1>2. CASE SaveArgs
    <2>1. Saved'
      BY <1>2 DEF SaveArgs, Saved, Structure
    <2>2. cmdTxt' = cmdTxt \/ doneTxt = {}
      BY <1>2 DEF SaveArgs, Saved
    <2> QED
      BY <1>0, <1>2, <2>1, <2>2 DEF SaveArgs, Whole, BookedIsWhole
  <1>3. CASE LoadResume
    BY <1>0, <1>3 DEF LoadResume, Saved, Whole, BookedIsWhole
  <1>4. CASE JoinWorkers
    BY <1>4 DEF JoinWorkers, Saved, Whole, BookedIsWhole
  <1>5. CASE Mux
    BY <1>0, <1>5 DEF Mux, Saved, Whole, BookedIsWhole
  <1>6. CASE Remove
    BY <1>0, <1>6 DEF Remove, Saved, Whole, BookedIsWhole
  <1>7. CASE Removed
    BY <1>0, <1>7 DEF Removed, Saved, Whole, BookedIsWhole
  <1> QED
    BY <1>1, <1>2, <1>3, <1>4, <1>5, <1>6, <1>7 DEF Run

LEMMA StepBooks ==
    ASSUME Reliable
    PROVE  Inv /\ Books /\ [Next]_vars => Books'
  <1> SUFFICES ASSUME Inv, Books, [Next]_vars PROVE Books'
    OBVIOUS
  <1>1. CASE Exit \/ Kill
    <2>1. Gone /\ phase # "cleanup"
      BY <1>1 DEF Exit, Kill, Reliable
    <2> QED
      BY <2>1 DEF Gone, Books, Saved, Whole, BookedIsWhole, disk
  <1>2. CASE UNCHANGED vars
    BY <1>2 DEF vars, disk, args, log, workers, Books, Saved, Whole, BookedIsWhole
  <1> QED
    BY <1>1, <1>2, WorkBooks, RunBooks DEF Next, Finished

LEMMA BooksKept ==
    ASSUME Reliable
    PROVE  Spec => []Books
  <1>1. Inv /\ Books /\ [Next]_vars => Books'
    BY StepBooks
  <1> QED
    BY <1>1, InitBooks, ResumeInvariant, PTL DEF Spec

\* What done.txt lists is whole and made by the command in cmd.txt, so that a
\* later run may skip it.
THEOREM BookedChunksWhole ==
    ASSUME Reliable
    PROVE  Spec => []BookedIsWhole
  <1>1. Books => BookedIsWhole
    BY DEF Books, Whole
  <1> QED
    BY <1>1, BooksKept, PTL

----------------------------------------------------------------------------
\* When every command cuts the video alike, no stale file can be muxed.
SameCut == \A c, d \in Cmds : Size[c] = Size[d]

\* At the mux every chunk is book-kept; after it the output is exact.
Complete ==
    /\ phase = "mux" => Chunks(cur) \subseteq book
    /\ OutputExact

LEMMA StepComplete ==
    ASSUME Reliable, SameCut
    PROVE  Inv /\ Books /\ Complete /\ [Next]_vars => Complete'
  <1> SUFFICES ASSUME Inv, Books, Complete, [Next]_vars PROVE Complete'
    OBVIOUS
  <1> USE DEF Complete, OutputExact, Chunks, Phase, disk, args, log, workers
  <1>1. CASE JoinWorkers
    <2>1. InWork = {} /\ todo = {} /\ phase = "encode"
      BY <1>1 DEF JoinWorkers, InWork, Busy
    <2>2. Chunks(cur) \subseteq book
      BY <2>1 DEF Inv, OnePlace
    <2> QED
      BY <1>1, <2>2 DEF JoinWorkers
  <1>2. CASE Mux
    <2>1. cur \in Cmds /\ phase = "mux"
      BY <1>2 DEF Inv, Structure, Mux
    <2>2. Idx = Chunks(cur)
      BY <2>1 DEF Idx, SameCut
    <2>3. \A i \in Idx : file[i] = Content(cur, TRUE)
      BY <2>1, <2>2 DEF Books, Whole
    <2>4. Found = Idx
      BY <2>1, <2>3 DEF Found, NoFile, Content
    <2>5. CASE Found = Paths /\ out' = [i \in Paths |-> file[i]]
      <3>1. out' = [i \in Chunks(cur) |-> Content(cur, TRUE)]
        BY <2>2, <2>3, <2>4, <2>5
      <3> QED
        BY <1>2, <2>1, <3>1 DEF Mux
    <2>6. CASE phase' = "exit"
      BY <2>6
    <2> QED
      BY <1>2, <2>5, <2>6 DEF Mux
  <1>3. CASE Remove \/ Removed
    BY <1>3 DEF Remove, Removed
  <1>4. CASE UNCHANGED vars
    BY <1>4 DEF vars
  <1>5. ASSUME phase' \notin {"mux", "cleanup", "finished"} PROVE Complete'
    BY <1>5
  <1>6. ASSUME NEW c \in Cmds, GetArgs(c) PROVE Complete'
    BY <1>5, <1>6 DEF GetArgs
  <1>7. ASSUME NEW w \in Workers, Work(w) PROVE Complete'
    BY <1>5, <1>7, WorkEncodes
  <1>8. CASE SaveArgs \/ LoadResume \/ Exit \/ Kill
    BY <1>5, <1>8 DEF SaveArgs, LoadResume, Exit, Kill, Gone
  <1> QED
    BY <1>1, <1>2, <1>3, <1>4, <1>6, <1>7, <1>8 DEF Next, Run, Finished

\* A run that reports success has muxed exactly the chunks of its command,
\* however often the encode was killed before (merge_out).
THEOREM OutputIsExact ==
    ASSUME Reliable, SameCut
    PROVE  Spec => []OutputExact
  <1>1. Init => Complete
    BY DEF Init, Complete, OutputExact
  <1>2. Inv /\ Books /\ Complete /\ [Next]_vars => Complete'
    BY StepComplete
  <1>3. Complete => OutputExact
    BY DEF Complete
  <1> QED
    BY <1>1, <1>2, <1>3, ResumeInvariant, BooksKept, PTL DEF Spec
=============================================================================
