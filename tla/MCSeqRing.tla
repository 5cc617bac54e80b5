----------------------------- MODULE MCSeqRing -----------------------------
(***************************************************************************)
(* Model checking of SeqRing.  View leaves out of a state what no later    *)
(* step reads: a register between its last use and its next load, and the  *)
(* absolute value of the two futex words, of which a thread only asks      *)
(* whether they still have the value it loaded.                            *)
(***************************************************************************)
EXTENDS SeqRing

UsesPos(t) == pc[t] \in {"check", "empty", "claim", "recheck", "punblock", "write", "publish",
                         "advance", "ready", "read", "free"}
UsesEv(t) == pc[t] \in {"retail", "rehead", "recheck", "reclosed", "pwait", "cwait"}
Word(t) == IF t \in Producers THEN space ELSE avail

View == <<ring, cw, pw, pc, closer, hist,
          [t \in Threads |-> IF UsesPos(t) THEN pos[t] ELSE 0],
          [t \in Threads |-> UsesEv(t) /\ ev[t] = Word(t)]>>
=============================================================================
