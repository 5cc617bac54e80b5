------------------------------ MODULE SeqRing ------------------------------
(***************************************************************************)
(* The sequence-numbered rings of src/asm/sync: ring_mpmc.asm (any number  *)
(* of producers and consumers), ring_spmc.asm (one producer) and           *)
(* ring_mpsc.asm (one consumer), with their parking on futexes.            *)
(*                                                                         *)
(* One action is one access to shared memory (two accesses are merged only *)
(* when one of them is to a word nobody else writes), so every interleaving*)
(* of the instructions of send, recv and close is a behaviour.  The labels *)
(* of pc are the labels of the assembly where it has one.                  *)
(*                                                                         *)
(* The futex system call is external: FUTEX_WAIT compares and sleeps in    *)
(* one step, FUTEX_WAKE releases one sleeper (send, recv) or all (close).  *)
(***************************************************************************)
EXTENDS Integers, Sequences, FiniteSets

CONSTANTS Producers,    \* threads that call send
          Consumers,    \* threads that call recv
          Items,        \* how many items each producer sends: the bound of a run
          Cap,          \* slots of the ring (128 in the code)
          DrainFirst    \* TRUE: close is called only after every item was
                        \* received (enc_tq); FALSE: right after the last send
                        \* returned (enc_all)

ASSUME RingAssumption ==
    /\ Producers \cap Consumers = {}
    /\ IsFiniteSet(Producers) /\ IsFiniteSet(Consumers)
    /\ Items \in Nat
    /\ Cap \in Nat /\ Cap >= 2     \* one slot would make "full" and "empty" alike
    /\ DrainFirst \in BOOLEAN

VARIABLES seq, vals,             \* per slot: sequence number and value
          tail, head,            \* next position to send to, to receive from
          cw, pw,                \* announced waiters: consumers, producers
          avail, space,          \* futex words: bumped by each wake
          closed,
          pc, pos, ev,           \* per thread: label, position read, futex word read
          closer,                \* label of the thread that calls close
          log, sent, got         \* history: items in position order, items put
                                 \* per producer, items read per consumer

ring == <<seq, vals, tail, head, closed>>
waits == <<cw, pw, avail, space>>
regs == <<pos, ev>>
hist == <<log, sent, got>>
vars == <<ring, waits, pc, regs, closer, hist>>

Threads == Producers \cup Consumers
Slots == 0 .. Cap - 1
Slot(i) == i % Cap
NoValue == <<>>

Init == /\ seq = [s \in Slots |-> s]
        /\ vals = [s \in Slots |-> NoValue]
        /\ tail = 0 /\ head = 0
        /\ cw = 0 /\ pw = 0 /\ avail = 0 /\ space = 0
        /\ closed = FALSE
        /\ pc = [t \in Threads |-> "idle"]
        /\ pos = [t \in Threads |-> 0]
        /\ ev = [t \in Threads |-> 0]
        /\ closer = "open"
        /\ log = <<>>
        /\ sent = [p \in Producers |-> 0]
        /\ got = [c \in Consumers |-> <<>>]

At(t, l) == pc[t] = l
Goto(t, l) == pc' = [pc EXCEPT ![t] = l]
Reg(t, i) == pos' = [pos EXCEPT ![t] = i]

Sleeping(label) == {t \in Threads : pc[t] = label}

\* FUTEX_WAKE of at most one sleeper, by t, which goes on at label l.
WakeOne(t, asleep, awake, l) ==
    \/ /\ Sleeping(asleep) = {}
       /\ Goto(t, l)
    \/ \E u \in Sleeping(asleep) : pc' = [pc EXCEPT ![t] = l, ![u] = awake]

----------------------------------------------------------------------------
\* send, called by several producers (mpmc_send, mpsc_send).

CallSend(p) == /\ At(p, "idle")
               /\ sent[p] < Items
               /\ Goto(p, "retry")
               /\ UNCHANGED <<ring, waits, regs, closer, hist>>

ReadTail(p) == /\ At(p, "retry")
               /\ Reg(p, tail)
               /\ Goto(p, "check")
               /\ UNCHANGED <<ring, waits, ev, closer, hist>>

\* Mutation of CheckSpace: an older lap counts as space too.
CheckSpaceAnyLap(p) ==
    /\ At(p, "check")
    /\ Goto(p, IF seq[Slot(pos[p])] > pos[p] THEN "retry" ELSE "claim")
    /\ UNCHANGED <<ring, waits, regs, closer, hist>>

CheckSpace(p) ==
    /\ At(p, "check")
    /\ LET s == seq[Slot(pos[p])]
       IN \/ s = pos[p] /\ Goto(p, "claim")
          \/ s > pos[p] /\ Goto(p, "retry")
          \/ s < pos[p] /\ Goto(p, "pblock")
    /\ UNCHANGED <<ring, waits, regs, closer, hist>>

AnnounceSend(p) == /\ At(p, "pblock")
                   /\ pw' = pw + 1
                   /\ Goto(p, "loadspace")
                   /\ UNCHANGED <<ring, cw, avail, space, regs, closer, hist>>

LoadSpace(p) == /\ At(p, "loadspace")
                /\ ev' = [ev EXCEPT ![p] = space]
                /\ Goto(p, "retail")
                /\ UNCHANGED <<ring, waits, pos, closer, hist>>

RereadTail(p) == /\ At(p, "retail")
                 /\ Reg(p, tail)
                 /\ Goto(p, "recheck")
                 /\ UNCHANGED <<ring, waits, ev, closer, hist>>

RecheckSpace(p) ==
    /\ At(p, "recheck")
    /\ Goto(p, IF seq[Slot(pos[p])] >= pos[p] THEN "punblock" ELSE "pwait")
    /\ UNCHANGED <<ring, waits, regs, closer, hist>>

WaitSpace(p) == /\ At(p, "pwait")
                /\ Goto(p, IF space = ev[p] THEN "psleep" ELSE "punblock")
                /\ UNCHANGED <<ring, waits, regs, closer, hist>>

RetractSend(p) == /\ At(p, "punblock")
                  /\ pw' = pw - 1
                  /\ Goto(p, "retry")
                  /\ UNCHANGED <<ring, cw, avail, space, regs, closer, hist>>

\* The item enters the history when its position is fixed.
Enter(p) == /\ sent' = [sent EXCEPT ![p] = @ + 1]
            /\ log' = Append(log, <<p, sent'[p]>>)
            /\ UNCHANGED got

Claim(p) ==
    /\ At(p, "claim")
    /\ \/ /\ tail = pos[p]
          /\ tail' = tail + 1
          /\ Enter(p)
          /\ Goto(p, "write")
       \/ /\ tail # pos[p]
          /\ Goto(p, "retry")
          /\ UNCHANGED <<tail, hist>>
    /\ UNCHANGED <<seq, vals, head, closed, waits, regs, closer>>

\* Mutation of Write: the slot index is computed after the increment.
WriteNextSlot(p) ==
    /\ At(p, "write")
    /\ vals' = [vals EXCEPT ![Slot(pos[p] + 1)] = <<p, sent[p]>>]
    /\ Goto(p, "publish")
    /\ UNCHANGED <<seq, tail, head, closed, waits, regs, closer, hist>>

Write(p) == /\ At(p, "write")
            /\ vals' = [vals EXCEPT ![Slot(pos[p])] = <<p, sent[p]>>]
            /\ Goto(p, "publish")
            /\ UNCHANGED <<seq, tail, head, closed, waits, regs, closer, hist>>

Publish(p, next) ==
    /\ At(p, "publish")
    /\ seq' = [seq EXCEPT ![Slot(pos[p])] = pos[p] + 1]
    /\ Goto(p, next)
    /\ UNCHANGED <<vals, tail, head, closed, waits, regs, closer, hist>>

AnyConsumerWaiting(p) ==
    /\ At(p, "readcw")
    /\ Goto(p, IF cw = 0 THEN "idle" ELSE "bumpavail")
    /\ UNCHANGED <<ring, waits, regs, closer, hist>>

BumpAvail(p) == /\ At(p, "bumpavail")
                /\ avail' = avail + 1
                /\ Goto(p, "wakeavail")
                /\ UNCHANGED <<ring, cw, pw, space, regs, closer, hist>>

\* Mutation of WakeConsumer: the word is bumped, nobody is woken.
WakeNoConsumer(p) == /\ At(p, "wakeavail")
                     /\ Goto(p, "idle")
                     /\ UNCHANGED <<ring, waits, regs, closer, hist>>

WakeConsumer(p) == /\ At(p, "wakeavail")
                   /\ WakeOne(p, "csleep", "unpark", "idle")
                   /\ UNCHANGED <<ring, waits, regs, closer, hist>>

\* The steps every send ends with.
Announce(p) == AnyConsumerWaiting(p) \/ BumpAvail(p) \/ WakeConsumer(p)

MultiSend(p) ==
    \/ CallSend(p) \/ ReadTail(p) \/ CheckSpace(p)
    \/ AnnounceSend(p) \/ LoadSpace(p) \/ RereadTail(p) \/ RecheckSpace(p)
    \/ WaitSpace(p) \/ RetractSend(p)
    \/ Claim(p) \/ Write(p) \/ Publish(p, "readcw") \/ Announce(p)

----------------------------------------------------------------------------
\* send, called by the only producer (spmc_send): nobody else writes tail.

\* The only producer owns the position it found free.
Own(p, l) == /\ Reg(p, tail)
             /\ Enter(p)
             /\ Goto(p, l)

\* Mutation of SoleCheck: the slot is taken to be free.
SoleCheckNothing(p) == /\ At(p, "retry")
                       /\ Own(p, "write")
                       /\ UNCHANGED <<ring, waits, ev, closer>>

SoleCheck(p) ==
    /\ At(p, "retry")
    /\ \/ seq[Slot(tail)] = tail /\ Own(p, "write")
       \/ /\ seq[Slot(tail)] # tail
          /\ Goto(p, "pblock")
          /\ UNCHANGED <<pos, hist>>
    /\ UNCHANGED <<ring, waits, ev, closer>>

SoleAnnounce(p) == /\ At(p, "pblock")
                   /\ pw' = 1
                   /\ Goto(p, "loadspace")
                   /\ UNCHANGED <<ring, cw, avail, space, regs, closer, hist>>

SoleRecheck(p) ==
    /\ At(p, "retail")
    /\ \/ seq[Slot(tail)] = tail /\ Own(p, "punblock")
       \/ /\ seq[Slot(tail)] # tail
          /\ Goto(p, "pwait")
          /\ UNCHANGED <<pos, hist>>
    /\ UNCHANGED <<ring, waits, ev, closer>>

SoleWait(p) == /\ At(p, "pwait")
               /\ Goto(p, IF space = ev[p] THEN "psleep" ELSE "pwoken")
               /\ UNCHANGED <<ring, waits, regs, closer, hist>>

\* Woken: withdraw the announcement and look again; found space: withdraw and write.
SoleRetract(p) ==
    /\ \/ At(p, "pwoken") /\ Goto(p, "pblock")
       \/ At(p, "punblock") /\ Goto(p, "write")
    /\ pw' = 0
    /\ UNCHANGED <<ring, cw, avail, space, regs, closer, hist>>

SoleAdvance(p) == /\ At(p, "advance")
                  /\ tail' = pos[p] + 1
                  /\ Goto(p, "readcw")
                  /\ UNCHANGED <<seq, vals, head, closed, waits, regs, closer, hist>>

SoleSend(p) ==
    \/ CallSend(p) \/ SoleCheck(p)
    \/ SoleAnnounce(p) \/ LoadSpace(p) \/ SoleRecheck(p) \/ SoleWait(p) \/ SoleRetract(p)
    \/ Write(p) \/ Publish(p, "advance") \/ SoleAdvance(p) \/ Announce(p)

----------------------------------------------------------------------------
\* recv, called by several consumers (mpmc_recv, spmc_recv).

CallRecv(c) == /\ At(c, "idle")
               /\ Goto(c, "retry")
               /\ UNCHANGED <<ring, waits, regs, closer, hist>>

ReadHead(c) == /\ At(c, "retry")
               /\ Reg(c, head)
               /\ Goto(c, "check")
               /\ UNCHANGED <<ring, waits, ev, closer, hist>>

\* spmc_recv looks at the slot's number once, mpmc_recv twice: first for an
\* item, then for an empty slot.
CheckItem(c) ==
    /\ At(c, "check")
    /\ LET s == seq[Slot(pos[c])]
       IN \/ s = pos[c] + 1 /\ Goto(c, "ready")
          \/ s = pos[c] /\ Goto(c, "closed")
          \/ s \notin {pos[c], pos[c] + 1} /\ Goto(c, "retry")
    /\ UNCHANGED <<ring, waits, regs, closer, hist>>

CheckReady(c) == /\ At(c, "check")
                 /\ Goto(c, IF seq[Slot(pos[c])] = pos[c] + 1 THEN "ready" ELSE "empty")
                 /\ UNCHANGED <<ring, waits, regs, closer, hist>>

CheckEmpty(c) == /\ At(c, "empty")
                 /\ Goto(c, IF seq[Slot(pos[c])] = pos[c] THEN "closed" ELSE "retry")
                 /\ UNCHANGED <<ring, waits, regs, closer, hist>>

CheckClosed(c) == /\ At(c, "closed")
                  /\ Goto(c, IF closed THEN "eof" ELSE "park")
                  /\ UNCHANGED <<ring, waits, regs, closer, hist>>

AnnounceRecv(c) == /\ At(c, "park")
                   /\ cw' = cw + 1
                   /\ Goto(c, "loadavail")
                   /\ UNCHANGED <<ring, pw, avail, space, regs, closer, hist>>

LoadAvail(c) == /\ At(c, "loadavail")
                /\ ev' = [ev EXCEPT ![c] = avail]
                /\ Goto(c, "rehead")
                /\ UNCHANGED <<ring, waits, pos, closer, hist>>

RereadHead(c) == /\ At(c, "rehead")
                 /\ Reg(c, head)
                 /\ Goto(c, "recheck")
                 /\ UNCHANGED <<ring, waits, ev, closer, hist>>

\* Mutations of RecheckItem: the announcement is left behind; there is no recheck.
RecheckItemLost(c) ==
    /\ At(c, "recheck")
    /\ Goto(c, IF seq[Slot(pos[c])] = pos[c] THEN "reclosed" ELSE "retry")
    /\ UNCHANGED <<ring, waits, regs, closer, hist>>
RecheckItemNot(c) == /\ At(c, "recheck")
                     /\ Goto(c, "reclosed")
                     /\ UNCHANGED <<ring, waits, regs, closer, hist>>

RecheckItem(c) ==
    /\ At(c, "recheck")
    /\ Goto(c, IF seq[Slot(pos[c])] = pos[c] THEN "reclosed" ELSE "unpark")
    /\ UNCHANGED <<ring, waits, regs, closer, hist>>

RecheckClosed(c) == /\ At(c, "reclosed")
                    /\ Goto(c, IF closed THEN "eof_unpark" ELSE "cwait")
                    /\ UNCHANGED <<ring, waits, regs, closer, hist>>

WaitAvail(c) == /\ At(c, "cwait")
                /\ Goto(c, IF avail = ev[c] THEN "csleep" ELSE "unpark")
                /\ UNCHANGED <<ring, waits, regs, closer, hist>>

RetractRecv(c) ==
    /\ \/ At(c, "unpark") /\ Goto(c, "retry")
       \/ At(c, "eof_unpark") /\ Goto(c, "eof")
    /\ cw' = cw - 1
    /\ UNCHANGED <<ring, pw, avail, space, regs, closer, hist>>

\* Mutation of ClaimItem: a plain store instead of the compare-exchange.
ClaimItemPlain(c) ==
    /\ At(c, "ready")
    /\ head' = pos[c] + 1
    /\ Goto(c, "read")
    /\ UNCHANGED <<seq, vals, tail, closed, waits, regs, closer, hist>>

ClaimItem(c) ==
    /\ At(c, "ready")
    /\ \/ /\ head = pos[c]
          /\ head' = head + 1
          /\ Goto(c, "read")
       \/ /\ head # pos[c]
          /\ Goto(c, "retry")
          /\ UNCHANGED head
    /\ UNCHANGED <<seq, vals, tail, closed, waits, regs, closer, hist>>

Read(c) == /\ At(c, "read")
           /\ got' = [got EXCEPT ![c] = Append(@, vals[Slot(pos[c])])]
           /\ Goto(c, "free")
           /\ UNCHANGED <<ring, waits, regs, closer, log, sent>>

Free(c) == /\ At(c, "free")
           /\ seq' = [seq EXCEPT ![Slot(pos[c])] = pos[c] + Cap]
           /\ Goto(c, "readpw")
           /\ UNCHANGED <<vals, tail, head, closed, waits, regs, closer, hist>>

AnyProducerWaiting(c) ==
    /\ At(c, "readpw")
    /\ Goto(c, IF pw = 0 THEN "idle" ELSE "bumpspace")
    /\ UNCHANGED <<ring, waits, regs, closer, hist>>

BumpSpace(c) == /\ At(c, "bumpspace")
                /\ space' = space + 1
                /\ Goto(c, "wakespace")
                /\ UNCHANGED <<ring, cw, pw, avail, regs, closer, hist>>

WakeProducer(c, awake) == /\ At(c, "wakespace")
                          /\ WakeOne(c, "psleep", awake, "idle")
                          /\ UNCHANGED <<ring, waits, regs, closer, hist>>

\* The steps every successful recv ends with.
Release(c, awake) == \/ Read(c) \/ Free(c)
                     \/ AnyProducerWaiting(c) \/ BumpSpace(c) \/ WakeProducer(c, awake)

MultiRecv(c, awake) ==
    \/ CallRecv(c) \/ ReadHead(c) \/ CheckClosed(c)
    \/ AnnounceRecv(c) \/ LoadAvail(c) \/ RereadHead(c) \/ RecheckItem(c)
    \/ RecheckClosed(c) \/ WaitAvail(c) \/ RetractRecv(c)
    \/ ClaimItem(c) \/ Release(c, awake)

MpmcRecv(c) == CheckReady(c) \/ CheckEmpty(c) \/ MultiRecv(c, "punblock")
SpmcRecv(c) == CheckItem(c) \/ MultiRecv(c, "pwoken")

----------------------------------------------------------------------------
\* recv, called by the only consumer (mpsc_recv): nobody else writes head.

SoleCheckItem(c) ==
    /\ At(c, "retry")
    /\ Reg(c, head)
    /\ Goto(c, IF seq[Slot(head)] = head + 1 THEN "ready" ELSE "closed")
    /\ UNCHANGED <<ring, waits, ev, closer, hist>>

SolePark(c) == /\ At(c, "park")
               /\ cw' = 1
               /\ Goto(c, "loadavail")
               /\ UNCHANGED <<ring, pw, avail, space, regs, closer, hist>>

SoleRecheckItem(c) ==
    /\ At(c, "rehead")
    /\ Reg(c, head)
    /\ Goto(c, IF seq[Slot(head)] = head + 1 THEN "unpark" ELSE "reclosed")
    /\ UNCHANGED <<ring, waits, ev, closer, hist>>

SoleUnpark(c) ==
    /\ \/ At(c, "unpark") /\ Goto(c, "retry")
       \/ At(c, "eof_unpark") /\ Goto(c, "eof")
    /\ cw' = 0
    /\ UNCHANGED <<ring, pw, avail, space, regs, closer, hist>>

SoleTake(c) == /\ At(c, "ready")
               /\ head' = pos[c] + 1
               /\ Goto(c, "read")
               /\ UNCHANGED <<seq, vals, tail, closed, waits, regs, closer, hist>>

\* All but the call, which the coordinator makes as often as it expects an item.
SoleRecv(c) ==
    \/ SoleCheckItem(c) \/ CheckClosed(c)
    \/ SolePark(c) \/ LoadAvail(c) \/ SoleRecheckItem(c) \/ RecheckClosed(c)
    \/ WaitAvail(c) \/ SoleUnpark(c)
    \/ SoleTake(c) \/ Release(c, "punblock")

----------------------------------------------------------------------------
\* close, called once by a thread that is not inside send (mpmc_close, spmc_close).

Total == Cardinality(Producers) * Items
SendersDone == \A p \in Producers : At(p, "idle") /\ sent[p] = Items
Received == UNION {{got[c][i] : i \in DOMAIN got[c]} : c \in Consumers}

SetClosed == /\ closer = "open"
             /\ SendersDone
             /\ DrainFirst => Cardinality(Received) = Total
             /\ closed' = TRUE
             /\ closer' = "bumpavail"
             /\ UNCHANGED <<seq, vals, tail, head, waits, pc, regs, hist>>

CloseBump == /\ closer = "bumpavail"
             /\ avail' = avail + 1
             /\ closer' = "wakeall"
             /\ UNCHANGED <<ring, cw, pw, space, pc, regs, hist>>

\* Mutation of CloseWakeAll: one sleeper is woken, as by send.
CloseWakeOne ==
    /\ closer = "wakeall"
    /\ \/ Sleeping("csleep") = {} /\ UNCHANGED pc
       \/ \E c \in Sleeping("csleep") : Goto(c, "unpark")
    /\ closer' = "done"
    /\ UNCHANGED <<ring, waits, regs, hist>>

CloseWakeAll == /\ closer = "wakeall"
                /\ pc' = [t \in Threads |-> IF pc[t] = "csleep" THEN "unpark" ELSE pc[t]]
                /\ closer' = "done"
                /\ UNCHANGED <<ring, waits, regs, hist>>

Close == SetClosed \/ CloseBump \/ CloseWakeAll

----------------------------------------------------------------------------
\* The three rings.

AllEnded == SendersDone /\ closer = "done" /\ \A c \in Consumers : At(c, "eof")
Ended == AllEnded /\ UNCHANGED vars

\* The coordinator never sees this ring closed: it stops calling recv when it
\* has received everything it was waiting for.
CountedCall(c) == Len(got[c]) < Total /\ CallRecv(c)
CountedRecv(c) == CountedCall(c) \/ SoleRecv(c)
Counted == /\ SendersDone
           /\ \A c \in Consumers : At(c, "idle") /\ Len(got[c]) = Total
           /\ UNCHANGED vars

MpmcNext == \/ \E p \in Producers : MultiSend(p)
            \/ \E c \in Consumers : MpmcRecv(c)
            \/ Close
            \/ Ended

SpmcNext == \/ \E p \in Producers : SoleSend(p)
            \/ \E c \in Consumers : SpmcRecv(c)
            \/ Close
            \/ Ended

MpscNext == \/ \E p \in Producers : MultiSend(p)
            \/ \E c \in Consumers : CountedRecv(c)
            \/ Counted

\* Every thread runs when it can: the operating system schedules all of them,
\* a worker always comes back for its next item, and close is always called.
MpmcSpec == /\ Init /\ [][MpmcNext]_vars
            /\ \A p \in Producers : WF_vars(MultiSend(p))
            /\ \A c \in Consumers : WF_vars(MpmcRecv(c))
            /\ WF_vars(Close)

SpmcSpec == /\ Init /\ [][SpmcNext]_vars
            /\ \A p \in Producers : WF_vars(SoleSend(p))
            /\ \A c \in Consumers : WF_vars(SpmcRecv(c))
            /\ WF_vars(Close)

MpscSpec == /\ Init /\ [][MpscNext]_vars
            /\ \A p \in Producers : WF_vars(MultiSend(p))
            /\ \A c \in Consumers : WF_vars(CountedRecv(c))

----------------------------------------------------------------------------
\* Properties.

Labels == {"idle", "retry", "check", "claim", "pblock", "loadspace", "retail", "recheck",
           "pwait", "psleep", "pwoken", "punblock", "write", "publish", "advance",
           "readcw", "bumpavail", "wakeavail",
           "empty", "closed", "park", "loadavail", "rehead", "reclosed", "cwait", "csleep", "unpark",
           "eof_unpark", "eof", "ready", "read", "free", "readpw", "bumpspace", "wakespace"}
Item == Producers \X Nat

\* Types of the ring's words, of the threads' registers and of the history
\* (SeqRing in chan/mod.rs, the registers of send and recv).
TypeOK == /\ seq \in [Slots -> Nat]
          /\ vals \in [Slots -> Item \cup {NoValue}]
          /\ tail \in Nat /\ head \in Nat
          /\ cw \in Int /\ pw \in Int /\ avail \in Nat /\ space \in Nat
          /\ closed \in BOOLEAN
          /\ pc \in [Threads -> Labels]
          /\ pos \in [Threads -> Nat]
          /\ ev \in [Threads -> Nat]
          /\ closer \in {"open", "bumpavail", "wakeall", "done"}
          /\ log \in Seq(Item)
          /\ sent \in [Producers -> Nat]
          /\ got \in [Consumers -> Seq(Item \cup {NoValue})]

Writing(t) == pc[t] \in {"write", "publish"}
Reading(t) == pc[t] \in {"read", "free"}
Accessing == {t \in Threads : Writing(t) \/ Reading(t)}

\* Between claiming a position and publishing or freeing its slot, no other
\* thread is in the slot: vals is read and written without atomics
\* (ring_mpmc.asm:53, :103), so a second thread there is a data race.
SlotExclusive == \A t, u \in Accessing : t # u => Slot(pos[t]) # Slot(pos[u])

\* What a consumer reads is the item its position was claimed for, not the one
\* of the lap before or after (the slot's number is checked before head moves).
ReadsItsItem == \A c \in Consumers : At(c, "read") => vals[Slot(pos[c])] = log[pos[c] + 1]

\* The announced waiters are exactly the threads between announcing and
\* retracting: a count left behind costs a system call per item for ever, a
\* count lost loses a wakeup (CW and PW).
Announced(S, between) == Cardinality({t \in S : pc[t] \in between})
WaitersExact ==
    /\ cw = Announced(Consumers, {"loadavail", "rehead", "recheck", "reclosed", "cwait",
                                  "csleep", "unpark", "eof_unpark"})
    /\ pw = Announced(Producers, {"loadspace", "retail", "recheck", "pwait", "psleep",
                                  "pwoken", "punblock"})

\* When close has returned and every consumer was told "end of stream", every
\* item was received.  recv returns 0 after finding the slot empty and then
\* CLOSED set, in two reads (ring_spmc.asm:75-82): this is what the finished
\* output file rests on.
AllDelivered == AllEnded => Cardinality(Received) = Total

\* No worker sleeps while an item it could take has nobody on its way to it:
\* as long as a consumer sleeps, the items ready to be taken are no more than
\* the consumers awake inside recv plus the wakeup the sender is about to give.
\* True of ring_spmc.asm; with several producers it is not, see the README.
Ready == {i \in head .. Len(log) - 1 : seq[Slot(i)] = i + 1}
Awake == {c \in Consumers : pc[c] \notin {"idle", "csleep", "eof", "read", "free", "readpw",
                                            "bumpspace", "wakespace"}}
Waking == {p \in Producers : pc[p] \in {"bumpavail", "wakeavail"} \/ (pc[p] \in {"advance", "readcw"} /\ cw > 0)}
WorkConserving == Sleeping("csleep") # {} =>
                    Cardinality(Ready) <= Cardinality(Awake) + Cardinality(Waking)

\* Every item sent is received, and then every consumer is told the stream is over.
AllReceived == <>(Cardinality(Received) = Total)
AllEof == <>(/\ \A c \in Consumers : At(c, "eof")
             /\ DrainFirst => Cardinality(Received) = Total)

\* The ring implements the channel: an item is put when its position is
\* claimed and taken when head moves past it.
Abstract == INSTANCE Channel WITH
    queue <- SubSeq(log, head + 1, Len(log)),
    taken <- [c \in Consumers |->
                IF At(c, "read") THEN Append(got[c], log[pos[c] + 1]) ELSE got[c]],
    open <- ~closed,
    ended <- {c \in Consumers : At(c, "eof")}
ImplementsChannel == Abstract!Spec
=============================================================================
