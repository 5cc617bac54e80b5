------------------------------ MODULE Channel ------------------------------
(***************************************************************************)
(* What a ring of src/asm/sync promises its users: a bounded first-in      *)
(* first-out queue of work items, shared by Producers and Consumers, with  *)
(* an end of stream that a consumer is told of only when the stream is     *)
(* over.  The items are numbered per producer; the item a producer sends   *)
(* next is <<p, sent[p] + 1>>.                                             *)
(***************************************************************************)
EXTENDS Naturals, Sequences

CONSTANTS Producers,   \* threads that call send
          Consumers,   \* threads that call recv
          Items,       \* how many items each producer sends
          Cap          \* how many items the channel holds

VARIABLES queue,       \* items sent and not yet taken, oldest first
          sent,        \* per producer, how many items it has put
          taken,       \* per consumer, the items it took, in order
          open,        \* close has not been called
          ended        \* the consumers that were told "end of stream"

vars == <<queue, sent, taken, open, ended>>

Init == /\ queue = <<>>
        /\ sent = [p \in Producers |-> 0]
        /\ taken = [c \in Consumers |-> <<>>]
        /\ open = TRUE
        /\ ended = {}

Put(p) == /\ open
          /\ sent[p] < Items
          /\ Len(queue) < Cap
          /\ sent' = [sent EXCEPT ![p] = @ + 1]
          /\ queue' = Append(queue, <<p, sent'[p]>>)
          /\ UNCHANGED <<taken, open, ended>>

Take(c) == /\ c \notin ended
           /\ queue # <<>>
           /\ taken' = [taken EXCEPT ![c] = Append(@, Head(queue))]
           /\ queue' = Tail(queue)
           /\ UNCHANGED <<sent, open, ended>>

Close == /\ open
         /\ \A p \in Producers : sent[p] = Items
         /\ open' = FALSE
         /\ UNCHANGED <<queue, sent, taken, ended>>

End(c) == /\ ~open
          /\ queue = <<>>
          /\ ended' = ended \cup {c}
          /\ UNCHANGED <<queue, sent, taken, open>>

Next == \/ \E p \in Producers : Put(p)
        \/ \E c \in Consumers : Take(c) \/ End(c)
        \/ Close

Spec == Init /\ [][Next]_vars
=============================================================================
