------------------------------- MODULE Resume -------------------------------
(***************************************************************************)
(* One encode from the command line to the finished file, with kills and   *)
(* restarts: src/src/main.rs (saved arguments, phases of the run, removal  *)
(* of the temporary directory), src/src/chunk.rs (the log of finished      *)
(* chunks done.txt, the files that are muxed) and the workers' part of     *)
(* src/src/enc.rs (chunk file, then book-keeping under the mutex).         *)
(*                                                                         *)
(* cmdTxt, doneTxt, file and out are on disk and survive a kill; all the   *)
(* rest is the memory of one process.  A kill is that of the process (a    *)
(* signal, an error exit): what was written stays written.  A chunk file   *)
(* is reduced to the command that wrote it and whether it is whole.  The   *)
(* chunks reach the workers as Channel promises; the mutex is that of      *)
(* FutexMutex.                                                             *)
(***************************************************************************)
EXTENDS Naturals, FiniteSets

CONSTANTS Cmds, NoCmd,    \* command lines the user may give, and none
          Size,           \* how many chunks a command cuts the video into
          ReadBack,       \* what parse_quoted_args makes of a saved command: the
                          \* command itself unless an argument is empty or has a
                          \* quote in it; NoCmd: get_args rejects the result
          Workers,
          MaxKills,       \* bound of a run
          WritesFail,     \* TRUE: a write of a chunk's data may fail (disk full)
          KillInCleanup   \* TRUE: kills also happen while the directory is removed

ASSUME ResumeAssumption == /\ Cmds # {} /\ NoCmd \notin Cmds
                           /\ Size \in [Cmds -> Nat \ {0}]
                           /\ ReadBack \in [Cmds -> Cmds \cup {NoCmd}]
                           /\ MaxKills \in Nat
                           /\ WritesFail \in BOOLEAN
                           /\ KillInCleanup \in BOOLEAN

VARIABLES cmdTxt,     \* the command in cmd.txt; NoCmd: missing or empty
          doneTxt,    \* the chunks in done.txt; {}: missing or empty
          file,       \* per chunk number, the file in encode/
          out,        \* the muxed output
          phase,      \* how far the process is; "down": there is none
          asked, cur, \* the command given, the command executed
          todo,       \* chunks not yet handed to a worker
          book,       \* the chunks in the buffer of ResumeInf
          opened,     \* ResumeInf.file is open
          lock,       \* holder of the mutex around ResumeInf
          wpc, chnk,  \* per worker: label and chunk
          kills,
          ever        \* history: every chunk done.txt ever listed

disk == <<cmdTxt, doneTxt, file, out>>
args == <<asked, cur>>
log == <<book, opened, lock>>
workers == <<wpc, chnk>>
vars == <<disk, phase, args, todo, log, workers, kills, ever>>

Chunks(c) == 0 .. Size[c] - 1
Idx == UNION {Chunks(c) : c \in Cmds}
Content(c, w) == [cmd |-> c, whole |-> w]
NoFile == Content(NoCmd, FALSE)
Files == [cmd : Cmds, whole : BOOLEAN]

Init == /\ cmdTxt = NoCmd
        /\ doneTxt = {}
        /\ file = [i \in Idx |-> NoFile]
        /\ out = <<>>
        /\ phase = "down"
        /\ asked = NoCmd /\ cur = NoCmd
        /\ todo = {}
        /\ book = {} /\ opened = FALSE /\ lock = {}
        /\ wpc = [w \in Workers |-> "recv"]
        /\ chnk = [w \in Workers |-> 0]
        /\ kills = 0
        /\ ever = {}

Phase(from, to) == phase = from /\ phase' = to

----------------------------------------------------------------------------
\* The run up to the workers.

\* The saved command counts only when some chunk is book-kept.
SavedArgs == IF doneTxt = {} \/ cmdTxt = NoCmd THEN NoCmd ELSE ReadBack[cmdTxt]
GetArgs(c) == /\ Phase("down", "save")
              /\ asked' = c
              /\ cur' = IF SavedArgs = NoCmd THEN c ELSE SavedArgs
              /\ UNCHANGED <<disk, todo, log, workers, kills, ever>>

\* cmd.txt is written (truncated, then filled) unless some chunk is book-kept.
SaveArgs == /\ \/ doneTxt # {} /\ Phase("save", "load") /\ UNCHANGED cmdTxt
               \/ doneTxt = {} /\ Phase("save", "write") /\ cmdTxt' = NoCmd
               \/ Phase("write", "load") /\ cmdTxt' = asked
            /\ UNCHANGED <<doneTxt, file, out, args, todo, log, workers, kills, ever>>

\* Mutation of LoadResume: the log is kept, but nothing is skipped.
LoadResumeAll == /\ Phase("load", "encode")
                 /\ book' = doneTxt
                 /\ todo' = Chunks(cur)
                 /\ UNCHANGED <<disk, args, opened, lock, workers, kills, ever>>

\* ResumeInf::new of what read_done found; the decoder skips those chunks.
LoadResume == /\ Phase("load", "encode")
              /\ book' = doneTxt
              /\ todo' = Chunks(cur) \ doneTxt
              /\ UNCHANGED <<disk, args, opened, lock, workers, kills, ever>>

----------------------------------------------------------------------------
\* A worker.

WStep(w, from, to) == /\ wpc[w] = from
                      /\ wpc' = [wpc EXCEPT ![w] = to]

\* The chunks come in order, one to one worker.
Recv(w) == /\ phase = "encode"
           /\ \E i \in todo : /\ \A j \in todo : i <= j
                              /\ todo' = todo \ {i}
                              /\ chnk' = [chnk EXCEPT ![w] = i]
           /\ WStep(w, "recv", "create")
           /\ UNCHANGED <<disk, phase, args, log, kills, ever>>

CreateFile(w) == /\ WStep(w, "create", "encode")
                 /\ file' = [file EXCEPT ![chnk[w]] = Content(cur, FALSE)]
                 /\ UNCHANGED <<cmdTxt, doneTxt, out, phase, args, todo, log, chnk, kills, ever>>

\* Mutation of Encode: the chunk is book-kept before its last bytes are written.
EncodeUnflushed(w) == /\ WStep(w, "encode", "lock")
                      /\ UNCHANGED <<disk, phase, args, todo, log, chnk, kills, ever>>

\* The encoder's output is in the file when the sink is dropped; the results of
\* its writes are not looked at.
Encode(w) == /\ WStep(w, "encode", "lock")
             /\ \/ file' = [file EXCEPT ![chnk[w]] = Content(cur, TRUE)]
                \/ WritesFail /\ UNCHANGED file
             /\ UNCHANGED <<cmdTxt, doneTxt, out, phase, args, todo, log, chnk, kills, ever>>

Lock(w) == /\ lock = {}
           /\ lock' = {w}
           /\ WStep(w, "lock", "finish")
           /\ UNCHANGED <<disk, phase, args, todo, book, opened, chnk, kills, ever>>

\* The first finish of a run: File::create empties the log of the runs before.
CreateLog(w) == /\ ~opened
                /\ opened' = TRUE
                /\ doneTxt' = {}
                /\ WStep(w, "finish", "rewrite")
                /\ UNCHANGED <<cmdTxt, file, out, phase, args, todo, book, lock, chnk, kills, ever>>

\* Mutation of Finish: into the emptied log goes the new line alone.
FinishOneLine(w) ==
    /\ book' = book \cup {chnk[w]}
    /\ opened /\ wpc[w] \in {"rewrite", "finish"}
    /\ WStep(w, wpc[w], "recv")
    /\ doneTxt' = doneTxt \cup {chnk[w]}
    /\ lock' = {}
    /\ ever' = ever \cup doneTxt'
    /\ UNCHANGED <<cmdTxt, file, out, phase, args, todo, opened, chnk, kills>>

\* write_at: the whole buffer at 0 after CreateLog, else one line at its tail;
\* the guard is dropped.
Finish(w) ==
    /\ book' = book \cup {chnk[w]}
    /\ \/ WStep(w, "rewrite", "recv") /\ doneTxt' = book'
       \/ opened /\ WStep(w, "finish", "recv") /\ doneTxt' = doneTxt \cup {chnk[w]}
    /\ lock' = {}
    /\ ever' = ever \cup doneTxt'
    /\ UNCHANGED <<cmdTxt, file, out, phase, args, todo, opened, chnk, kills>>

Work(w) == Recv(w) \/ CreateFile(w) \/ Encode(w) \/ Lock(w) \/ CreateLog(w) \/ Finish(w)

----------------------------------------------------------------------------
\* After the workers.

\* Mutation of JoinWorkers: the workers are not waited for.
JoinDecoder == /\ Phase("encode", "mux")
               /\ todo = {}
               /\ UNCHANGED <<disk, args, todo, log, workers, kills, ever>>

JoinWorkers == /\ Phase("encode", "mux")
               /\ todo = {}
               /\ \A w \in Workers : wpc[w] = "recv"
               /\ UNCHANGED <<disk, args, todo, log, workers, kills, ever>>

\* merge_out takes whatever chunk files are in the directory, by their numbers.
Found == {i \in Idx : file[i] # NoFile}
\* Mutation of Paths: the list is grown one place too far.
PathsOneMore == {i \in 0 .. Cardinality(Idx) : \E j \in Found : i <= j + 1}
Paths == {i \in Idx : \E j \in Found : i <= j}
Sound == Found # {} /\ Found = Paths /\ \A i \in Found : file[i].whole

\* A number that is missing, or a file that does not parse, fails the mux and
\* the run; a file cut short may also parse, an empty list may also mux.
Mux == /\ \/ /\ Found = Paths
             /\ out' = [i \in Paths |-> file[i]]
             /\ Phase("mux", "cleanup")
          \/ /\ ~Sound
             /\ Phase("mux", "exit")
             /\ UNCHANGED out
       /\ UNCHANGED <<cmdTxt, doneTxt, file, args, todo, log, workers, kills, ever>>

\* The directory's entries go one by one, in the order the file system lists them.
Remove == /\ phase = "cleanup"
          /\ \/ cmdTxt' = NoCmd /\ UNCHANGED <<doneTxt, file>>
             \/ doneTxt' = {} /\ UNCHANGED <<cmdTxt, file>>
             \/ \E i \in Found : /\ file' = [file EXCEPT ![i] = NoFile]
                                 /\ UNCHANGED <<cmdTxt, doneTxt>>
          /\ UNCHANGED <<out, phase, args, todo, log, workers, kills, ever>>

Removed == /\ Phase("cleanup", "finished")
           /\ cmdTxt = NoCmd /\ doneTxt = {} /\ Found = {}
           /\ ever' = {}
           /\ UNCHANGED <<disk, args, todo, log, workers, kills>>

Run == SaveArgs \/ LoadResume \/ JoinWorkers \/ Mux \/ Remove \/ Removed

----------------------------------------------------------------------------
\* The process ends and its memory is gone.
Gone == /\ phase' = "down"
        /\ asked' = NoCmd /\ cur' = NoCmd
        /\ todo' = {}
        /\ book' = {} /\ opened' = FALSE /\ lock' = {}
        /\ wpc' = [w \in Workers |-> "recv"]
        /\ chnk' = [w \in Workers |-> 0]
        /\ UNCHANGED <<disk, ever>>

Exit == phase = "exit" /\ Gone /\ UNCHANGED kills

Kill == /\ phase \notin {"down", "finished", "exit"}
        /\ phase = "cleanup" => KillInCleanup
        /\ kills < MaxKills
        /\ kills' = kills + 1
        /\ Gone

Finished == phase = "finished" /\ UNCHANGED vars

Next == \/ \E c \in Cmds : GetArgs(c)
        \/ Run
        \/ \E w \in Workers : Work(w)
        \/ Exit \/ Kill \/ Finished

\* The process and its workers go on, and a killed encode is started again.
Spec == /\ Init /\ [][Next]_vars
        /\ WF_vars(\E c \in Cmds : GetArgs(c))
        /\ WF_vars(Run \/ Exit)
        /\ \A w \in Workers : WF_vars(Work(w))

----------------------------------------------------------------------------
Phases == {"down", "save", "write", "load", "encode", "mux", "exit", "cleanup", "finished"}
WLabels == {"recv", "create", "encode", "lock", "finish", "rewrite"}

TypeOK == /\ cmdTxt \in Cmds \cup {NoCmd}
          /\ doneTxt \subseteq Idx
          /\ file \in [Idx -> Files \cup {NoFile}]
          /\ \E S \in SUBSET Idx : out \in [S -> Files]
          /\ phase \in Phases
          /\ asked \in Cmds \cup {NoCmd} /\ cur \in Cmds \cup {NoCmd}
          /\ todo \subseteq Idx
          /\ book \subseteq Idx /\ opened \in BOOLEAN /\ lock \subseteq Workers
          /\ wpc \in [Workers -> WLabels] /\ chnk \in [Workers -> Idx]
          /\ kills \in 0 .. MaxKills
          /\ ever \subseteq Idx

\* A chunk that is book-kept has its file, whole, and made by the command that
\* is saved: only then may a later run skip it and still produce that
\* command's output ("only book-kept chunks count as done", guide.txt:184).
BookedIsWhole ==
    phase # "cleanup" => \A i \in doneTxt : file[i] = Content(cmdTxt, TRUE)

\* While the workers run, each chunk of the video is in exactly one place: not
\* yet handed out, with one worker, or book-kept.  So no chunk is dropped, and
\* none encoded twice or again, whatever was killed and whatever failed before.
Busy == {w \in Workers : wpc[w] # "recv"}
InWork == {chnk[w] : w \in Busy}
OnePlace ==
    phase = "encode" =>
      /\ Chunks(cur) \ book = todo \cup InWork
      /\ todo \cap InWork = {}
      /\ \A v, w \in Busy : chnk[v] = chnk[w] => v = w

\* Outside the window between emptying done.txt and writing it again, the log
\* on disk is the one in memory: the line of each finish lands behind the
\* lines before it, those of the earlier runs included (chunk.rs:87-111).
LogOnDisk ==
    phase = "encode" /\ (\A w \in Workers : wpc[w] # "rewrite") => doneTxt = book

\* A run that reports success has muxed the chunks of its command, all of
\* them, whole, and nothing else.
OutputExact ==
    phase \in {"cleanup", "finished"} => out = [i \in Chunks(cur) |-> Content(cur, TRUE)]

\* What is book-kept is not encoded again and its file is not touched while
\* the encode goes on ("treats finished chunks as immutable", guide.txt:181).
Immutable == [][phase # "cleanup" => \A i \in doneTxt : file'[i] = file[i]]_vars

\* Every chunk that was ever book-kept is skipped by the run that resumes.
KeepsFinished == phase = "encode" => ever \subseteq book

\* However often it is killed (finitely often), the encode is finished in the end.
Finishes == <>[](phase = "finished")
=============================================================================
