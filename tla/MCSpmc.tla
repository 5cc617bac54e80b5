------------------------------- MODULE MCSpmc -------------------------------
(***************************************************************************)
(* Model checking of the single-producer ring as both of its users close   *)
(* it: enc_all right after the last send (early), enc_tq when every item   *)
(* was received.  DrainFirst is FALSE in SeqRing and the guard is here, so *)
(* that one run has both.                                                  *)
(***************************************************************************)
EXTENDS MCSeqRing

VARIABLE early

all == <<early, vars>>

Closing == /\ closer = "open" /\ ~early => Cardinality(Received) = Total
           /\ Close

RingInit == Init /\ early \in BOOLEAN
RingNext == /\ \/ \E p \in Producers : SoleSend(p)
               \/ \E c \in Consumers : SpmcRecv(c)
               \/ Closing
               \/ Ended
            /\ UNCHANGED early
RingSpec == /\ RingInit /\ [][RingNext]_all
            /\ \A p \in Producers : WF_all(SoleSend(p) /\ UNCHANGED early)
            /\ \A c \in Consumers : WF_all(SpmcRecv(c) /\ UNCHANGED early)
            /\ WF_all(Closing /\ UNCHANGED early)

RingView == <<View, early>>

\* Closed when drained, the ring is a channel: what SeqRing's ImplementsChannel says, of the
\* behaviours that are not early; an early one stays at the channel's start (enc_tq; see
\* AllDelivered for what goes wrong otherwise).
Drained == INSTANCE Channel WITH
    queue <- IF early THEN <<>> ELSE SubSeq(log, head + 1, Len(log)),
    sent <- IF early THEN [p \in Producers |-> 0] ELSE sent,
    taken <- IF early THEN [c \in Consumers |-> <<>>]
             ELSE [c \in Consumers |->
                     IF At(c, "read") THEN Append(got[c], log[pos[c] + 1]) ELSE got[c]],
    open <- early \/ ~closed,
    ended <- IF early THEN {} ELSE {c \in Consumers : At(c, "eof")}
DrainedIsChannel == Drained!Spec

\* Every consumer is told the stream is over, and where the close waits for it every item was
\* received then (xav_spmc_close).
StreamEnds == <>(/\ \A c \in Consumers : At(c, "eof")
                 /\ early \/ Cardinality(Received) = Total)
=============================================================================
