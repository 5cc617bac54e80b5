--------------------------- MODULE SeqRing_proofs ---------------------------
(***************************************************************************)
(* What holds of the three rings of SeqRing for every number of threads,   *)
(* items and slots.                                                        *)
(*                                                                         *)
(* The inductive invariant RingInv says what the sequence number of a slot *)
(* entitles a thread to.  Its point is that the number alone tells whose   *)
(* turn it is: a writer of position i is at a slot numbered i, a reader of *)
(* position i at a slot numbered i + 1, so two threads in one slot would   *)
(* need one number to be two.  The window head .. tail never has to be     *)
(* mentioned, and all that is used of the modulus is that neighbouring     *)
(* positions have different slots (at least two slots).                    *)
(*                                                                         *)
(* The rings differ in who claims a position: with many senders tail and   *)
(* the history grow in one step (Dense); with one, the history is ahead of *)
(* tail while it writes (Owner); the position a single receiver found an   *)
(* item at is head until it moves head (Lone).  The words in which waiters *)
(* announce themselves count exactly those that did.                       *)
(*                                                                         *)
(* Then the rings implement Channel: a bounded first-in first-out queue    *)
(* that tells a consumer of the end only when everything was taken.  That  *)
(* needs the window RingInv does without: the positions between head and   *)
(* the last one sent to are less than a lap, and their slots are numbered  *)
(* as sent to or as full, so a slot that is free again tells of room in    *)
(* the queue.  The end of stream needs a count: items are numbered, so     *)
(* when as many were received as were to be sent, none is left.            *)
(*                                                                         *)
(* The last part is about sleep: in the ring with one producer nobody      *)
(* sleeps on an item that is there, unless a wake is on its way (FlowInv). *)
(***************************************************************************)
EXTENDS SeqRing, FiniteSetTheorems, SequenceTheorems, TLAPS

USE RingAssumption

\* A thread that has just read tail or head, and one that found its slot in
\* the state it was looking for, may still lose the race for the position; if
\* it does not, the slot is still in that state.
Claimers == \A p \in Producers :
    /\ pc[p] \in {"check", "claim"} => pos[p] <= Len(log)
    /\ At(p, "claim") /\ pos[p] = Len(log) => seq[Slot(pos[p])] = pos[p]

Takers == \A c \in Consumers :
    /\ pc[c] \in {"check", "ready"} => pos[c] <= head
    /\ At(c, "ready") /\ pos[c] = head => seq[Slot(pos[c])] = pos[c] + 1

Writers == \A p \in Producers : Writing(p) =>
    /\ pos[p] < Len(log)
    /\ seq[Slot(pos[p])] = pos[p]
    /\ log[pos[p] + 1] = <<p, sent[p]>>
    /\ At(p, "publish") => vals[Slot(pos[p])] = <<p, sent[p]>>

Readers == \A c \in Consumers : Reading(c) =>
    /\ pos[c] < head
    /\ seq[Slot(pos[c])] = pos[c] + 1
    /\ \A d \in Consumers : Reading(d) /\ pos[d] = pos[c] => d = c

\* A slot numbered i + 1 holds the item of position i.
Full == \A i \in Nat : seq[Slot(i)] = i + 1 =>
    /\ i < Len(log)
    /\ vals[Slot(i)] = log[i + 1]

RingInv == TypeOK /\ Claimers /\ Takers /\ Writers /\ Readers /\ Full

\* Claiming a position and entering the history are one step where several
\* producers send.
Dense == tail = Len(log)

----------------------------------------------------------------------------
LEMMA DivMod ==
    ASSUME NEW i \in Nat
    PROVE /\ i = Cap * (i \div Cap) + (i % Cap)
          /\ i \div Cap \in Int
          /\ i % Cap \in Slots
  BY DEF Slots

\* Positions less than a lap apart are in different slots.
LEMMA SlotsDiffer ==
    ASSUME NEW i \in Nat, NEW j \in Nat, i < j, j < i + Cap
    PROVE Slot(i) # Slot(j)
<1> SUFFICES ASSUME i % Cap = j % Cap PROVE FALSE
  BY DEF Slot
<1> DEFINE d == (j \div Cap) - (i \div Cap)
<1>1. d \in Int /\ j - i = Cap * d
  <2>1. i = Cap * (i \div Cap) + (i % Cap) /\ i \div Cap \in Int /\ i % Cap \in Int
    BY DivMod DEF Slots
  <2>2. j = Cap * (j \div Cap) + (j % Cap) /\ j \div Cap \in Int
    BY DivMod
  <2>3. Cap * ((j \div Cap) - (i \div Cap)) = Cap * (j \div Cap) - Cap * (i \div Cap)
    BY <2>1, <2>2
  <2> QED BY <2>1, <2>2, <2>3
<1> HIDE DEF d
<1>2. d <= 0 => Cap * d <= 0
  BY <1>1
<1>3. d >= 1 => Cap * d >= Cap
  BY <1>1
<1> QED BY <1>1, <1>2, <1>3

LEMMA SlotType == ASSUME NEW i \in Nat PROVE Slot(i) \in Slots /\ Slot(i) <= i
<1>1. i % Cap \in Slots
  BY DivMod
<1>2. i % Cap <= i
  <2>1. i = Cap * (i \div Cap) + (i % Cap) /\ i \div Cap \in Int /\ i % Cap \in Slots
    BY DivMod
  <2>2. i \div Cap <= -1 => Cap * (i \div Cap) <= -Cap
    BY <2>1
  <2>3. i \div Cap >= 0 => Cap * (i \div Cap) >= 0
    BY <2>1
  <2> QED BY <2>1, <2>2, <2>3 DEF Slots
<1> QED BY <1>1, <1>2 DEF Slot

LEMMA NextSlotDiffers == ASSUME NEW i \in Nat PROVE Slot(i) # Slot(i + 1)
  BY SlotsDiffer

\* Waking a sleeper moves two labels: the waker's and, perhaps, the sleeper's.
LEMMA WakeMoves ==
    ASSUME pc \in [Threads -> Labels], NEW t \in Threads, NEW asleep \in Labels,
           NEW awake \in Labels, NEW l \in Labels,
           WakeOne(t, asleep, awake, l), pc[t] # asleep
    PROVE /\ pc' \in [Threads -> Labels]
          /\ \A u \in Threads : \/ u = t /\ pc'[u] = l
                                \/ u # t /\ pc'[u] = pc[u]
                                \/ u # t /\ pc[u] = asleep /\ pc'[u] = awake
  BY DEF WakeOne, Sleeping, Goto
----------------------------------------------------------------------------
\* Types.

LEMMA InitType == Init => TypeOK
<1> SUFFICES ASSUME Init PROVE TypeOK
  OBVIOUS
<1>1. Slots \subseteq Nat
  BY DEF Slots
<1>2. /\ seq \in [Slots -> Nat]
      /\ vals \in [Slots -> Item \cup {NoValue}]
  BY <1>1 DEF Init
<1>3. pc \in [Threads -> Labels] /\ pos \in [Threads -> Nat] /\ ev \in [Threads -> Nat]
  BY DEF Init, Labels
<1>4. log \in Seq(Item)
  BY DEF Init
<1>5. sent \in [Producers -> Nat] /\ got \in [Consumers -> Seq(Item \cup {NoValue})]
  <2>1. <<>> \in Seq(Item \cup {NoValue})
    OBVIOUS
  <2> QED BY <2>1 DEF Init
<1>6. tail \in Nat /\ head \in Nat /\ cw \in Int /\ pw \in Int /\ avail \in Nat /\ space \in Nat
  BY DEF Init
<1>7. closed \in BOOLEAN /\ closer \in {"open", "bumpavail", "wakeall", "done"}
  BY DEF Init
<1> QED BY <1>2, <1>3, <1>4, <1>5, <1>6, <1>7 DEF TypeOK

LEMMA StoreType ==
    ASSUME NEW S, NEW T, NEW f \in [S -> T], NEW i, NEW v \in T
    PROVE [f EXCEPT ![i] = v] \in [S -> T]
  OBVIOUS

\* A thread that only moves on to another label keeps the types.
LEMMA GotoType ==
    ASSUME pc \in [Threads -> Labels], NEW t \in Threads, NEW l \in Labels, Goto(t, l)
    PROVE pc' \in [Threads -> Labels]
  BY DEF Goto

LEMMA RegType ==
    ASSUME pos \in [Threads -> Nat], NEW t \in Threads, NEW i \in Nat, Reg(t, i)
    PROVE pos' \in [Threads -> Nat]
  BY DEF Reg

LEMMA EnterType ==
    ASSUME TypeOK, NEW p \in Producers, Enter(p)
    PROVE sent' \in [Producers -> Nat] /\ log' \in Seq(Item)
<1>1. sent' \in [Producers -> Nat] /\ sent'[p] \in Nat
  BY DEF TypeOK, Enter
<1>2. <<p, sent'[p]>> \in Item
  BY <1>1 DEF Item
<1> QED BY <1>1, <1>2 DEF TypeOK, Enter

LEMMA PublishType ==
    ASSUME TypeOK, NEW p \in Producers, NEW next \in Labels, Publish(p, next)
    PROVE TypeOK'
<1> USE DEF TypeOK, ring, waits, regs, hist
<1>1. p \in Threads /\ pos[p] + 1 \in Nat
  BY DEF Threads
<1>2. pc' \in [Threads -> Labels]
  BY <1>1, GotoType DEF Publish
<1>3. seq' \in [Slots -> Nat]
  <2>1. seq' = [seq EXCEPT ![Slot(pos[p])] = pos[p] + 1] /\ seq \in [Slots -> Nat]
    BY DEF Publish
  <2> QED BY <1>1, <2>1, StoreType
<1> QED BY <1>2, <1>3 DEF Publish

LEMMA SendType ==
    ASSUME TypeOK, NEW p \in Producers, MultiSend(p)
    PROVE TypeOK'
<1> USE DEF TypeOK, ring, waits, regs, hist
<1>0. p \in Threads /\ pos[p] \in Nat
  BY DEF Threads
<1>1. CASE CallSend(p)
  BY <1>0, <1>1, GotoType DEF CallSend, Labels
<1>2. CASE ReadTail(p)
  BY <1>0, <1>2, GotoType, RegType DEF ReadTail, Labels
<1>3. CASE CheckSpace(p)
  BY <1>0, <1>3, GotoType DEF CheckSpace, Labels
<1>4. CASE AnnounceSend(p)
  BY <1>0, <1>4, GotoType DEF AnnounceSend, Labels
<1>5. CASE LoadSpace(p)
  BY <1>0, <1>5, GotoType DEF LoadSpace, Labels
<1>6. CASE RereadTail(p)
  BY <1>0, <1>6, GotoType, RegType DEF RereadTail, Labels
<1>7. CASE RecheckSpace(p) \/ WaitSpace(p)
  BY <1>0, <1>7, GotoType DEF RecheckSpace, WaitSpace, Labels
<1>8. CASE RetractSend(p)
  BY <1>0, <1>8, GotoType DEF RetractSend, Labels
<1>9. CASE Claim(p)
  <2>1. pc' \in [Threads -> Labels]
    BY <1>0, <1>9, GotoType DEF Claim, Labels
  <2>2. CASE tail = pos[p]
    <3>1. Enter(p)
      BY <1>9, <2>2 DEF Claim
    <3>2. sent' \in [Producers -> Nat] /\ log' \in Seq(Item)
      BY <3>1, EnterType
    <3> QED BY <1>9, <2>1, <2>2, <3>2 DEF Claim, Enter
  <2>3. CASE tail # pos[p]
    BY <1>9, <2>1, <2>3 DEF Claim
  <2> QED BY <2>2, <2>3
<1>10. CASE Write(p)
  <2>1. pc' \in [Threads -> Labels]
    BY <1>0, <1>10, GotoType DEF Write, Labels
  <2>2. vals' \in [Slots -> Item \cup {NoValue}]
    BY <1>0, <1>10 DEF Write, Item
  <2> QED BY <1>10, <2>1, <2>2 DEF Write
<1>11. CASE Publish(p, "readcw")
  BY <1>11, PublishType DEF Labels
<1>12. CASE AnyConsumerWaiting(p)
  BY <1>0, <1>12, GotoType DEF AnyConsumerWaiting, Labels
<1>13. CASE BumpAvail(p)
  BY <1>0, <1>13, GotoType DEF BumpAvail, Labels
<1>14. CASE WakeConsumer(p)
  <2>1. pc' \in [Threads -> Labels]
    BY <1>0, <1>14 DEF WakeConsumer, WakeOne, Sleeping, Goto, Labels
  <2> QED BY <1>14, <2>1 DEF WakeConsumer
<1> QED BY <1>1, <1>2, <1>3, <1>4, <1>5, <1>6, <1>7, <1>8, <1>9, <1>10, <1>11, <1>12,
           <1>13, <1>14 DEF MultiSend, Announce

LEMMA SoleSendType ==
    ASSUME TypeOK, NEW p \in Producers, SoleSend(p)
    PROVE TypeOK'
<1> USE DEF TypeOK, ring, waits, regs, hist
<1>0. p \in Threads /\ pos[p] \in Nat
  BY DEF Threads
<1>1. CASE SoleAnnounce(p)
  BY <1>0, <1>1, GotoType DEF SoleAnnounce, Labels
<1>2. CASE SoleWait(p)
  BY <1>0, <1>2, GotoType DEF SoleWait, Labels
<1>3. CASE SoleRetract(p)
  BY <1>0, <1>3, GotoType DEF SoleRetract, Labels
<1>4. CASE SoleAdvance(p)
  BY <1>0, <1>4, GotoType DEF SoleAdvance, Labels
<1>5. ASSUME NEW l \in Labels, Own(p, l), UNCHANGED <<ring, waits, ev, closer>> PROVE TypeOK'
  <2>1. pc' \in [Threads -> Labels] /\ pos' \in [Threads -> Nat]
    BY <1>0, <1>5, GotoType, RegType DEF Own
  <2>2. sent' \in [Producers -> Nat] /\ log' \in Seq(Item)
    BY <1>5, EnterType DEF Own
  <2> QED BY <1>5, <2>1, <2>2 DEF Own, Enter
<1>6. CASE SoleCheck(p)
  <2>1. CASE Own(p, "write")
    BY <1>5, <1>6, <2>1 DEF SoleCheck, Labels
  <2>2. CASE ~Own(p, "write")
    BY <1>0, <1>6, <2>2, GotoType DEF SoleCheck, Labels
  <2> QED BY <2>1, <2>2
<1>7. CASE SoleRecheck(p)
  <2>1. CASE Own(p, "punblock")
    BY <1>5, <1>7, <2>1 DEF SoleRecheck, Labels
  <2>2. CASE ~Own(p, "punblock")
    BY <1>0, <1>7, <2>2, GotoType DEF SoleRecheck, Labels
  <2> QED BY <2>1, <2>2
<1> QED BY <1>1, <1>2, <1>3, <1>4, <1>6, <1>7, SendType, PublishType
        DEF SoleSend, MultiSend, Labels

LEMMA RecvType ==
    ASSUME TypeOK, NEW c \in Consumers, NEW awake \in {"punblock", "pwoken"},
           CheckItem(c) \/ CheckReady(c) \/ CheckEmpty(c) \/ MultiRecv(c, awake)
    PROVE TypeOK'
<1> USE DEF TypeOK, ring, waits, regs, hist
<1>0. c \in Threads /\ pos[c] \in Nat
  BY DEF Threads
<1>1. CASE CallRecv(c)
  BY <1>0, <1>1, GotoType DEF CallRecv, Labels
<1>2. CASE ReadHead(c)
  BY <1>0, <1>2, GotoType, RegType DEF ReadHead, Labels
<1>3. CASE CheckItem(c) \/ CheckReady(c) \/ CheckEmpty(c)
  BY <1>0, <1>3, GotoType DEF CheckItem, CheckReady, CheckEmpty, Labels
<1>4. CASE AnnounceRecv(c)
  BY <1>0, <1>4, GotoType DEF AnnounceRecv, Labels
<1>5. CASE LoadAvail(c)
  BY <1>0, <1>5, GotoType DEF LoadAvail, Labels
<1>6. CASE RereadHead(c)
  BY <1>0, <1>6, GotoType, RegType DEF RereadHead, Labels
<1>7. CASE CheckClosed(c) \/ RecheckItem(c) \/ RecheckClosed(c) \/ WaitAvail(c)
  BY <1>0, <1>7, GotoType DEF CheckClosed, RecheckItem, RecheckClosed, WaitAvail, Labels
<1>8. CASE RetractRecv(c)
  BY <1>0, <1>8, GotoType DEF RetractRecv, Labels
<1>9. CASE ClaimItem(c)
  BY <1>0, <1>9, GotoType DEF ClaimItem, Labels
<1>10. CASE Read(c)
  <2>1. pc' \in [Threads -> Labels]
    BY <1>0, <1>10, GotoType DEF Read, Labels
  <2>2. vals[Slot(pos[c])] \in Item \cup {NoValue}
    BY <1>0, SlotType
  <2>3. got' \in [Consumers -> Seq(Item \cup {NoValue})]
    BY <1>10, <2>2 DEF Read
  <2> QED BY <1>10, <2>1, <2>3 DEF Read
<1>11. CASE Free(c)
  <2>1. pc' \in [Threads -> Labels]
    BY <1>0, <1>11, GotoType DEF Free, Labels
  <2>2. seq' \in [Slots -> Nat]
    <3>1. seq' = [seq EXCEPT ![Slot(pos[c])] = pos[c] + Cap] /\ seq \in [Slots -> Nat]
      BY <1>11 DEF Free
    <3>2. pos[c] + Cap \in Nat
      BY <1>0
    <3> QED BY <3>1, <3>2, StoreType
  <2> QED BY <1>11, <2>1, <2>2 DEF Free
<1>12. CASE AnyProducerWaiting(c)
  BY <1>0, <1>12, GotoType DEF AnyProducerWaiting, Labels
<1>13. CASE BumpSpace(c)
  BY <1>0, <1>13, GotoType DEF BumpSpace, Labels
<1>14. CASE WakeProducer(c, awake)
  <2>1. pc' \in [Threads -> Labels]
    BY <1>0, <1>14 DEF WakeProducer, WakeOne, Sleeping, Goto, Labels
  <2> QED BY <1>14, <2>1 DEF WakeProducer
<1> QED BY <1>1, <1>2, <1>3, <1>4, <1>5, <1>6, <1>7, <1>8, <1>9, <1>10, <1>11, <1>12,
           <1>13, <1>14 DEF MultiRecv, Release

LEMMA SoleRecvType ==
    ASSUME TypeOK, NEW c \in Consumers, SoleRecv(c)
    PROVE TypeOK'
<1> USE DEF TypeOK, ring, waits, regs, hist
<1>0. c \in Threads /\ pos[c] \in Nat
  BY DEF Threads
<1>1. CASE SoleCheckItem(c)
  BY <1>0, <1>1, GotoType, RegType DEF SoleCheckItem, Labels
<1>2. CASE SolePark(c)
  BY <1>0, <1>2, GotoType DEF SolePark, Labels
<1>3. CASE SoleRecheckItem(c)
  BY <1>0, <1>3, GotoType, RegType DEF SoleRecheckItem, Labels
<1>4. CASE SoleUnpark(c)
  BY <1>0, <1>4, GotoType DEF SoleUnpark, Labels
<1>5. CASE SoleTake(c)
  BY <1>0, <1>5, GotoType DEF SoleTake, Labels
<1> QED BY <1>1, <1>2, <1>3, <1>4, <1>5, RecvType DEF SoleRecv, MultiRecv

LEMMA CloseType == ASSUME TypeOK, Close PROVE TypeOK'
<1> USE DEF TypeOK, ring, waits, regs, hist
<1>1. CASE SetClosed
  BY <1>1 DEF SetClosed
<1>2. CASE CloseBump
  BY <1>2 DEF CloseBump
<1>3. CASE CloseWakeAll
  BY <1>3 DEF CloseWakeAll, Labels
<1> QED BY <1>1, <1>2, <1>3 DEF Close

LEMMA StutterType == ASSUME TypeOK, UNCHANGED vars PROVE TypeOK'
  BY DEF TypeOK, vars, ring, waits, regs, hist

\* Types, with any number of threads on both sides (ring_mpmc.asm).
THEOREM MpmcTypes == MpmcSpec => []TypeOK
<1>1. TypeOK /\ [MpmcNext]_vars => TypeOK'
  BY SendType, RecvType, CloseType, StutterType DEF MpmcNext, MpmcRecv, Ended
<1> QED BY InitType, <1>1, PTL DEF MpmcSpec

\* Types, with one producer (ring_spmc.asm).
THEOREM SpmcTypes == SpmcSpec => []TypeOK
<1>1. TypeOK /\ [SpmcNext]_vars => TypeOK'
  BY SoleSendType, RecvType, CloseType, StutterType DEF SpmcNext, SpmcRecv, Ended
<1> QED BY InitType, <1>1, PTL DEF SpmcSpec

\* Types, with one consumer (ring_mpsc.asm).
THEOREM MpscTypes == MpscSpec => []TypeOK
<1>1. ASSUME TypeOK, NEW c \in Consumers, CallRecv(c) PROVE TypeOK'
  BY <1>1, RecvType DEF MultiRecv
<1>2. TypeOK /\ [MpscNext]_vars => TypeOK'
  BY <1>1, SendType, SoleRecvType, StutterType DEF MpscNext, CountedRecv, CountedCall, Counted
<1> QED BY InitType, <1>2, PTL DEF MpscSpec
----------------------------------------------------------------------------
\* Control: where each step takes the thread that makes it, whom it wakes, and
\* which words it writes.  The label decides which step it is.

\* Only one label moves.
LEMMA GotoMoves ==
    ASSUME pc \in [Threads -> Labels], NEW t \in Threads, NEW l, Goto(t, l)
    PROVE /\ pc'[t] = l
          /\ \A u \in Threads : u # t => pc'[u] = pc[u]
  BY DEF Goto

LEMMA RegMoves ==
    ASSUME pos \in [Threads -> Nat], NEW t \in Threads, NEW i, Reg(t, i)
    PROVE /\ pos'[t] = i
          /\ \A u \in Threads : u # t => pos'[u] = pos[u]
  BY DEF Reg

\* t moves on, waking at most one other thread.
Moves(t, asleep, awake) ==
    \A u \in Threads : u # t => /\ pos'[u] = pos[u]
                                /\ \/ pc'[u] = pc[u]
                                   \/ pc[u] = asleep /\ pc'[u] = awake

MultiSendFlow(a, b) ==
    \/ a = "idle" /\ b = "retry"
    \/ a = "retry" /\ b = "check"
    \/ a = "check" /\ b \in {"claim", "retry", "pblock"}
    \/ a = "pblock" /\ b = "loadspace"
    \/ a = "loadspace" /\ b = "retail"
    \/ a = "retail" /\ b = "recheck"
    \/ a = "recheck" /\ b \in {"punblock", "pwait"}
    \/ a = "pwait" /\ b \in {"psleep", "punblock"}
    \/ a = "punblock" /\ b = "retry"
    \/ a = "claim" /\ b \in {"write", "retry"}
    \/ a = "write" /\ b = "publish"
    \/ a = "publish" /\ b = "readcw"
    \/ a = "readcw" /\ b \in {"idle", "bumpavail"}
    \/ a = "bumpavail" /\ b = "wakeavail"
    \/ a = "wakeavail" /\ b = "idle"

MultiSendEffect(p) ==
    /\ UNCHANGED <<head, got, closed, closer, cw>>
    /\ pc[p] = "idle" => sent[p] < Items
    /\ pw' = IF pc[p] = "pblock" THEN pw + 1 ELSE IF pc[p] = "punblock" THEN pw - 1 ELSE pw
    /\ IF pc'[p] = "write" THEN Enter(p) /\ tail = pos[p] /\ tail' = tail + 1
                           ELSE UNCHANGED <<tail, log, sent>>
    /\ IF pc[p] = "publish" THEN seq' = [seq EXCEPT ![Slot(pos[p])] = pos[p] + 1]
                            ELSE UNCHANGED seq

LEMMA MultiSendMoves ==
    ASSUME TypeOK, NEW p \in Producers, MultiSend(p)
    PROVE /\ Moves(p, "csleep", "unpark")
          /\ MultiSendFlow(pc[p], pc'[p])
          /\ MultiSendEffect(p)
<1> USE DEF ring, waits, regs, hist, Moves, MultiSendEffect, At
<1>0. p \in Threads /\ pc \in [Threads -> Labels] /\ pos \in [Threads -> Nat]
  BY DEF TypeOK, Threads
<1>1. CASE CallSend(p)
  BY <1>0, <1>1, GotoMoves DEF CallSend, MultiSendFlow
<1>2. CASE ReadTail(p)
  BY <1>0, <1>2, GotoMoves, RegMoves DEF ReadTail, MultiSendFlow
<1>3. CASE CheckSpace(p)
  BY <1>0, <1>3, GotoMoves DEF CheckSpace, MultiSendFlow
<1>4. CASE AnnounceSend(p)
  BY <1>0, <1>4, GotoMoves DEF AnnounceSend, MultiSendFlow
<1>5. CASE LoadSpace(p)
  BY <1>0, <1>5, GotoMoves DEF LoadSpace, MultiSendFlow
<1>6. CASE RereadTail(p)
  BY <1>0, <1>6, GotoMoves, RegMoves DEF RereadTail, MultiSendFlow
<1>7. CASE RecheckSpace(p)
  BY <1>0, <1>7, GotoMoves DEF RecheckSpace, MultiSendFlow
<1>8. CASE WaitSpace(p)
  BY <1>0, <1>8, GotoMoves DEF WaitSpace, MultiSendFlow
<1>9. CASE RetractSend(p)
  BY <1>0, <1>9, GotoMoves DEF RetractSend, MultiSendFlow
<1>10. CASE Claim(p)
  BY <1>0, <1>10, GotoMoves DEF Claim, Enter, MultiSendFlow
<1>11. CASE Write(p)
  BY <1>0, <1>11, GotoMoves DEF Write, MultiSendFlow
<1>12. CASE Publish(p, "readcw")
  BY <1>0, <1>12, GotoMoves DEF Publish, MultiSendFlow
<1>13. CASE AnyConsumerWaiting(p)
  BY <1>0, <1>13, GotoMoves DEF AnyConsumerWaiting, MultiSendFlow
<1>14. CASE BumpAvail(p)
  BY <1>0, <1>14, GotoMoves DEF BumpAvail, MultiSendFlow
<1>15. CASE WakeConsumer(p)
  <2>1. /\ pc' \in [Threads -> Labels]
        /\ \A u \in Threads : \/ u = p /\ pc'[u] = "idle"
                              \/ u # p /\ pc'[u] = pc[u]
                              \/ u # p /\ pc[u] = "csleep" /\ pc'[u] = "unpark"
    <3>1. WakeOne(p, "csleep", "unpark", "idle") /\ pc[p] # "csleep"
      BY <1>15 DEF WakeConsumer
    <3>2. "csleep" \in Labels /\ "unpark" \in Labels /\ "idle" \in Labels
      BY DEF Labels
    <3> QED BY <1>0, <3>1, <3>2, WakeMoves
  <2>2. UNCHANGED <<ring, waits, regs, closer, hist>> /\ pc[p] = "wakeavail"
    BY <1>15 DEF WakeConsumer
  <2>3. pc'[p] = "idle"
    BY <1>0, <2>1
  <2> QED BY <1>0, <2>1, <2>2, <2>3 DEF MultiSendFlow
<1> QED BY <1>1, <1>2, <1>3, <1>4, <1>5, <1>6, <1>7, <1>8, <1>9, <1>10, <1>11, <1>12,
           <1>13, <1>14, <1>15 DEF MultiSend, Announce

SoleSendFlow(a, b) ==
    \/ a = "idle" /\ b = "retry"
    \/ a = "retry" /\ b \in {"write", "pblock"}
    \/ a = "pblock" /\ b = "loadspace"
    \/ a = "loadspace" /\ b = "retail"
    \/ a = "retail" /\ b \in {"punblock", "pwait"}
    \/ a = "pwait" /\ b \in {"psleep", "pwoken"}
    \/ a = "pwoken" /\ b = "pblock"
    \/ a = "punblock" /\ b = "write"
    \/ a = "write" /\ b = "publish"
    \/ a = "publish" /\ b = "advance"
    \/ a = "advance" /\ b = "readcw"
    \/ a = "readcw" /\ b \in {"idle", "bumpavail"}
    \/ a = "bumpavail" /\ b = "wakeavail"
    \/ a = "wakeavail" /\ b = "idle"

SoleSendEffect(p) ==
    /\ UNCHANGED <<head, got, closed, closer, cw>>
    /\ pc[p] = "idle" => sent[p] < Items
    /\ pw' = IF pc[p] = "pblock" THEN 1 ELSE IF pc[p] \in {"punblock", "pwoken"} THEN 0 ELSE pw
    /\ IF pc[p] \in {"retry", "retail"} /\ pc'[p] \in {"write", "punblock"}
       THEN Enter(p) /\ seq[Slot(tail)] = tail
       ELSE UNCHANGED <<log, sent>>
    /\ IF pc[p] = "publish" THEN seq' = [seq EXCEPT ![Slot(pos[p])] = pos[p] + 1]
                            ELSE UNCHANGED seq

LEMMA SoleSendMoves ==
    ASSUME TypeOK, NEW p \in Producers, SoleSend(p)
    PROVE /\ Moves(p, "csleep", "unpark")
          /\ SoleSendFlow(pc[p], pc'[p])
          /\ SoleSendEffect(p)
<1> USE DEF ring, waits, regs, hist, Moves, SoleSendEffect, At
<1>0. p \in Threads /\ pc \in [Threads -> Labels] /\ pos \in [Threads -> Nat]
  BY DEF TypeOK, Threads
<1>1. CASE CallSend(p)
  BY <1>0, <1>1, GotoMoves DEF CallSend, SoleSendFlow
<1>2. CASE SoleCheck(p)
  BY <1>0, <1>2, GotoMoves, RegMoves DEF SoleCheck, Own, Enter, SoleSendFlow
<1>3. CASE SoleAnnounce(p)
  BY <1>0, <1>3, GotoMoves DEF SoleAnnounce, SoleSendFlow
<1>4. CASE LoadSpace(p)
  BY <1>0, <1>4, GotoMoves DEF LoadSpace, SoleSendFlow
<1>5. CASE SoleRecheck(p)
  BY <1>0, <1>5, GotoMoves, RegMoves DEF SoleRecheck, Own, Enter, SoleSendFlow
<1>6. CASE SoleWait(p)
  BY <1>0, <1>6, GotoMoves DEF SoleWait, SoleSendFlow
<1>7. CASE SoleRetract(p)
  BY <1>0, <1>7, GotoMoves DEF SoleRetract, SoleSendFlow
<1>8. CASE Write(p)
  BY <1>0, <1>8, GotoMoves DEF Write, SoleSendFlow
<1>9. CASE Publish(p, "advance")
  BY <1>0, <1>9, GotoMoves DEF Publish, SoleSendFlow
<1>10. CASE SoleAdvance(p)
  BY <1>0, <1>10, GotoMoves DEF SoleAdvance, SoleSendFlow
<1>11. CASE AnyConsumerWaiting(p)
  BY <1>0, <1>11, GotoMoves DEF AnyConsumerWaiting, SoleSendFlow
<1>12. CASE BumpAvail(p)
  BY <1>0, <1>12, GotoMoves DEF BumpAvail, SoleSendFlow
<1>13. CASE WakeConsumer(p)
  <2>1. /\ pc' \in [Threads -> Labels]
        /\ \A u \in Threads : \/ u = p /\ pc'[u] = "idle"
                              \/ u # p /\ pc'[u] = pc[u]
                              \/ u # p /\ pc[u] = "csleep" /\ pc'[u] = "unpark"
    <3>1. WakeOne(p, "csleep", "unpark", "idle") /\ pc[p] # "csleep"
      BY <1>13 DEF WakeConsumer
    <3>2. "csleep" \in Labels /\ "unpark" \in Labels /\ "idle" \in Labels
      BY DEF Labels
    <3> QED BY <1>0, <3>1, <3>2, WakeMoves
  <2>2. UNCHANGED <<ring, waits, regs, closer, hist>> /\ pc[p] = "wakeavail"
    BY <1>13 DEF WakeConsumer
  <2>3. pc'[p] = "idle"
    BY <1>0, <2>1
  <2> QED BY <1>0, <2>1, <2>2, <2>3 DEF SoleSendFlow
<1> QED BY <1>1, <1>2, <1>3, <1>4, <1>5, <1>6, <1>7, <1>8, <1>9, <1>10, <1>11, <1>12, <1>13
        DEF SoleSend, Announce

MultiRecvFlow(a, b) ==
    \/ a = "idle" /\ b = "retry"
    \/ a = "retry" /\ b = "check"
    \/ a = "check" /\ b \in {"ready", "empty", "closed", "retry"}
    \/ a = "empty" /\ b \in {"closed", "retry"}
    \/ a = "closed" /\ b \in {"eof", "park"}
    \/ a = "park" /\ b = "loadavail"
    \/ a = "loadavail" /\ b = "rehead"
    \/ a = "rehead" /\ b = "recheck"
    \/ a = "recheck" /\ b \in {"reclosed", "unpark"}
    \/ a = "reclosed" /\ b \in {"eof_unpark", "cwait"}
    \/ a = "cwait" /\ b \in {"csleep", "unpark"}
    \/ a = "unpark" /\ b = "retry"
    \/ a = "eof_unpark" /\ b = "eof"
    \/ a = "ready" /\ b \in {"read", "retry"}
    \/ a = "read" /\ b = "free"
    \/ a = "free" /\ b = "readpw"
    \/ a = "readpw" /\ b \in {"idle", "bumpspace"}
    \/ a = "bumpspace" /\ b = "wakespace"
    \/ a = "wakespace" /\ b = "idle"

RecvEffect(c) ==
    /\ UNCHANGED <<tail, log, sent, closed, closer, pw>>
    /\ pc[c] \in {"closed", "reclosed"} /\ pc'[c] \in {"eof", "eof_unpark"} => closed
    /\ pc[c] \in {"ready", "read"} => pos'[c] = pos[c]
    /\ IF pc[c] = "read" THEN got' = [got EXCEPT ![c] = Append(@, vals[Slot(pos[c])])]
                         ELSE UNCHANGED got
    /\ IF pc[c] = "free" THEN seq' = [seq EXCEPT ![Slot(pos[c])] = pos[c] + Cap]
                         ELSE UNCHANGED seq

MultiRecvEffect(c) ==
    /\ RecvEffect(c)
    /\ cw' = IF pc[c] = "park" THEN cw + 1
             ELSE IF pc[c] \in {"unpark", "eof_unpark"} THEN cw - 1 ELSE cw
    /\ IF pc'[c] = "read" THEN head = pos[c] /\ head' = head + 1 ELSE UNCHANGED head

LEMMA MultiRecvMoves ==
    ASSUME TypeOK, NEW c \in Consumers, NEW awake \in {"punblock", "pwoken"},
           CheckItem(c) \/ CheckReady(c) \/ CheckEmpty(c) \/ MultiRecv(c, awake)
    PROVE /\ Moves(c, "psleep", awake)
          /\ MultiRecvFlow(pc[c], pc'[c])
          /\ MultiRecvEffect(c)
<1> USE DEF ring, waits, regs, hist, Moves, RecvEffect, MultiRecvEffect, At
<1>0. c \in Threads /\ pc \in [Threads -> Labels] /\ pos \in [Threads -> Nat]
  BY DEF TypeOK, Threads
<1>1. CASE CallRecv(c)
  BY <1>0, <1>1, GotoMoves DEF CallRecv, MultiRecvFlow
<1>2. CASE ReadHead(c)
  BY <1>0, <1>2, GotoMoves, RegMoves DEF ReadHead, MultiRecvFlow
<1>3. CASE CheckItem(c)
  BY <1>0, <1>3, GotoMoves DEF CheckItem, MultiRecvFlow
<1>4. CASE CheckReady(c)
  BY <1>0, <1>4, GotoMoves DEF CheckReady, MultiRecvFlow
<1>5. CASE CheckEmpty(c)
  BY <1>0, <1>5, GotoMoves DEF CheckEmpty, MultiRecvFlow
<1>6. CASE CheckClosed(c)
  BY <1>0, <1>6, GotoMoves DEF CheckClosed, MultiRecvFlow
<1>7. CASE AnnounceRecv(c)
  BY <1>0, <1>7, GotoMoves DEF AnnounceRecv, MultiRecvFlow
<1>8. CASE LoadAvail(c)
  BY <1>0, <1>8, GotoMoves DEF LoadAvail, MultiRecvFlow
<1>9. CASE RereadHead(c)
  BY <1>0, <1>9, GotoMoves, RegMoves DEF RereadHead, MultiRecvFlow
<1>10. CASE RecheckItem(c)
  BY <1>0, <1>10, GotoMoves DEF RecheckItem, MultiRecvFlow
<1>11. CASE RecheckClosed(c)
  BY <1>0, <1>11, GotoMoves DEF RecheckClosed, MultiRecvFlow
<1>12. CASE WaitAvail(c)
  BY <1>0, <1>12, GotoMoves DEF WaitAvail, MultiRecvFlow
<1>13. CASE RetractRecv(c)
  BY <1>0, <1>13, GotoMoves DEF RetractRecv, MultiRecvFlow
<1>14. CASE ClaimItem(c)
  BY <1>0, <1>14, GotoMoves DEF ClaimItem, MultiRecvFlow
<1>15. CASE Read(c)
  BY <1>0, <1>15, GotoMoves DEF Read, MultiRecvFlow
<1>16. CASE Free(c)
  BY <1>0, <1>16, GotoMoves DEF Free, MultiRecvFlow
<1>17. CASE AnyProducerWaiting(c)
  BY <1>0, <1>17, GotoMoves DEF AnyProducerWaiting, MultiRecvFlow
<1>18. CASE BumpSpace(c)
  BY <1>0, <1>18, GotoMoves DEF BumpSpace, MultiRecvFlow
<1>19. CASE WakeProducer(c, awake)
  <2>1. /\ pc' \in [Threads -> Labels]
        /\ \A u \in Threads : \/ u = c /\ pc'[u] = "idle"
                              \/ u # c /\ pc'[u] = pc[u]
                              \/ u # c /\ pc[u] = "psleep" /\ pc'[u] = awake
    <3>1. WakeOne(c, "psleep", awake, "idle") /\ pc[c] # "psleep"
      BY <1>19 DEF WakeProducer
    <3>2. "psleep" \in Labels /\ awake \in Labels /\ "idle" \in Labels
      BY DEF Labels
    <3> QED BY <1>0, <3>1, <3>2, WakeMoves
  <2>2. UNCHANGED <<ring, waits, regs, closer, hist>> /\ pc[c] = "wakespace"
    BY <1>19 DEF WakeProducer
  <2>3. pc'[c] = "idle"
    BY <1>0, <2>1
  <2>4. Moves(c, "psleep", awake)
    BY <2>1, <2>2
  <2>5. MultiRecvEffect(c)
    BY <2>2, <2>3
  <2> QED BY <2>2, <2>3, <2>4, <2>5 DEF MultiRecvFlow
<1> QED BY <1>1, <1>2, <1>3, <1>4, <1>5, <1>6, <1>7, <1>8, <1>9, <1>10,
           <1>11, <1>12, <1>13, <1>14, <1>15, <1>16, <1>17, <1>18, <1>19
        DEF MultiRecv, Release

SoleRecvFlow(a, b) ==
    \/ a = "idle" /\ b = "retry"
    \/ a = "retry" /\ b \in {"ready", "closed"}
    \/ a = "closed" /\ b \in {"eof", "park"}
    \/ a = "park" /\ b = "loadavail"
    \/ a = "loadavail" /\ b = "rehead"
    \/ a = "rehead" /\ b \in {"reclosed", "unpark"}
    \/ a = "reclosed" /\ b \in {"eof_unpark", "cwait"}
    \/ a = "cwait" /\ b \in {"csleep", "unpark"}
    \/ a = "unpark" /\ b = "retry"
    \/ a = "eof_unpark" /\ b = "eof"
    \/ a = "ready" /\ b = "read"
    \/ a = "read" /\ b = "free"
    \/ a = "free" /\ b = "readpw"
    \/ a = "readpw" /\ b \in {"idle", "bumpspace"}
    \/ a = "bumpspace" /\ b = "wakespace"
    \/ a = "wakespace" /\ b = "idle"

SoleRecvEffect(c) ==
    /\ RecvEffect(c)
    /\ cw' = IF pc[c] = "park" THEN 1 ELSE IF pc[c] \in {"unpark", "eof_unpark"} THEN 0 ELSE cw
    /\ IF pc'[c] = "read" THEN head' = pos[c] + 1 ELSE UNCHANGED head

LEMMA SoleRecvMoves ==
    ASSUME TypeOK, NEW c \in Consumers, CountedRecv(c)
    PROVE /\ Moves(c, "psleep", "punblock")
          /\ SoleRecvFlow(pc[c], pc'[c])
          /\ SoleRecvEffect(c)
<1> USE DEF ring, waits, regs, hist, Moves, RecvEffect, SoleRecvEffect, At
<1>0. c \in Threads /\ pc \in [Threads -> Labels] /\ pos \in [Threads -> Nat]
  BY DEF TypeOK, Threads
<1>1. CASE CallRecv(c)
  BY <1>0, <1>1, GotoMoves DEF CallRecv, SoleRecvFlow
<1>2. CASE SoleCheckItem(c)
  BY <1>0, <1>2, GotoMoves, RegMoves DEF SoleCheckItem, SoleRecvFlow
<1>3. CASE CheckClosed(c)
  BY <1>0, <1>3, GotoMoves DEF CheckClosed, SoleRecvFlow
<1>4. CASE SolePark(c)
  BY <1>0, <1>4, GotoMoves DEF SolePark, SoleRecvFlow
<1>5. CASE LoadAvail(c)
  BY <1>0, <1>5, GotoMoves DEF LoadAvail, SoleRecvFlow
<1>6. CASE SoleRecheckItem(c)
  BY <1>0, <1>6, GotoMoves, RegMoves DEF SoleRecheckItem, SoleRecvFlow
<1>7. CASE RecheckClosed(c)
  BY <1>0, <1>7, GotoMoves DEF RecheckClosed, SoleRecvFlow
<1>8. CASE WaitAvail(c)
  BY <1>0, <1>8, GotoMoves DEF WaitAvail, SoleRecvFlow
<1>9. CASE SoleUnpark(c)
  BY <1>0, <1>9, GotoMoves DEF SoleUnpark, SoleRecvFlow
<1>10. CASE SoleTake(c)
  BY <1>0, <1>10, GotoMoves DEF SoleTake, SoleRecvFlow
<1>11. CASE Read(c)
  BY <1>0, <1>11, GotoMoves DEF Read, SoleRecvFlow
<1>12. CASE Free(c)
  BY <1>0, <1>12, GotoMoves DEF Free, SoleRecvFlow
<1>13. CASE AnyProducerWaiting(c)
  BY <1>0, <1>13, GotoMoves DEF AnyProducerWaiting, SoleRecvFlow
<1>14. CASE BumpSpace(c)
  BY <1>0, <1>14, GotoMoves DEF BumpSpace, SoleRecvFlow
<1>15. CASE WakeProducer(c, "punblock")
  <2>1. /\ pc' \in [Threads -> Labels]
        /\ \A u \in Threads : \/ u = c /\ pc'[u] = "idle"
                              \/ u # c /\ pc'[u] = pc[u]
                              \/ u # c /\ pc[u] = "psleep" /\ pc'[u] = "punblock"
    <3>1. WakeOne(c, "psleep", "punblock", "idle") /\ pc[c] # "psleep"
      BY <1>15 DEF WakeProducer
    <3>2. "psleep" \in Labels /\ "punblock" \in Labels /\ "idle" \in Labels
      BY DEF Labels
    <3> QED BY <1>0, <3>1, <3>2, WakeMoves
  <2>2. UNCHANGED <<ring, waits, regs, closer, hist>> /\ pc[c] = "wakespace"
    BY <1>15 DEF WakeProducer
  <2>3. pc'[c] = "idle"
    BY <1>0, <2>1
  <2>4. Moves(c, "psleep", "punblock")
    BY <2>1, <2>2
  <2>5. SoleRecvEffect(c)
    BY <2>2, <2>3
  <2> QED BY <2>2, <2>3, <2>4, <2>5 DEF SoleRecvFlow
<1> QED BY <1>1, <1>2, <1>3, <1>4, <1>5, <1>6, <1>7, <1>8, <1>9, <1>10,
           <1>11, <1>12, <1>13, <1>14, <1>15
        DEF CountedRecv, CountedCall, SoleRecv, Release

----------------------------------------------------------------------------
\* The invariant.

\* Nothing in RingInv looks at a thread outside these labels.
Held == {"check", "claim", "ready", "write", "publish", "read", "free"}

\* A step that touches no slot of the ring, and takes each thread it moves to
\* a label where it holds nothing.
LEMMA QuietStep ==
    ASSUME RingInv, TypeOK', UNCHANGED <<seq, vals, head, log, sent>>,
           \A t \in Threads : \/ pc'[t] = pc[t] /\ pos'[t] = pos[t]
                              \/ pc'[t] \notin Held
    PROVE RingInv'
<1> USE DEF RingInv, Held, At, Threads
<1>1. Claimers'
  BY DEF Claimers
<1>2. Takers'
  BY DEF Takers
<1>3. Writers'
  BY DEF Writers, Writing
<1>4. Readers'
  BY DEF Readers, Reading
<1>5. Full'
  BY DEF Full
<1> QED BY <1>1, <1>2, <1>3, <1>4, <1>5

LEMMA QuietSend ==
    ASSUME RingInv, TypeOK', NEW p \in Producers,
           \/ CallSend(p) \/ AnnounceSend(p) \/ LoadSpace(p) \/ RereadTail(p)
           \/ RecheckSpace(p) \/ WaitSpace(p) \/ RetractSend(p) \/ Announce(p)
    PROVE RingInv'
<1> USE DEF ring, waits, regs, hist
<1>0. p \in Threads /\ pc \in [Threads -> Labels] /\ pos \in [Threads -> Nat]
  BY DEF RingInv, TypeOK, Threads
<1>1. CASE CallSend(p)
  BY <1>0, <1>1, GotoMoves, QuietStep DEF CallSend, Held
<1>2. CASE AnnounceSend(p)
  BY <1>0, <1>2, GotoMoves, QuietStep DEF AnnounceSend, Held
<1>3. CASE LoadSpace(p)
  BY <1>0, <1>3, GotoMoves, QuietStep DEF LoadSpace, Held
<1>4. CASE RereadTail(p)
  BY <1>0, <1>4, GotoMoves, RegMoves, QuietStep DEF RereadTail, Held
<1>5. CASE RecheckSpace(p)
  BY <1>0, <1>5, GotoMoves, QuietStep DEF RecheckSpace, Held
<1>6. CASE WaitSpace(p)
  BY <1>0, <1>6, GotoMoves, QuietStep DEF WaitSpace, Held
<1>7. CASE RetractSend(p)
  BY <1>0, <1>7, GotoMoves, QuietStep DEF RetractSend, Held
<1>8. CASE AnyConsumerWaiting(p) \/ BumpAvail(p)
  BY <1>0, <1>8, GotoMoves, QuietStep DEF AnyConsumerWaiting, BumpAvail, Held
<1>9. CASE WakeConsumer(p)
  <2>1. \A u \in Threads : pc'[u] = pc[u] \/ pc'[u] \in {"idle", "unpark"}
    BY <1>0, <1>9 DEF WakeConsumer, WakeOne, Goto
  <2> QED BY <1>0, <1>9, <2>1, QuietStep DEF WakeConsumer, Held
<1> QED BY <1>1, <1>2, <1>3, <1>4, <1>5, <1>6, <1>7, <1>8, <1>9 DEF Announce

LEMMA QuietRecv ==
    ASSUME RingInv, TypeOK', NEW c \in Consumers, NEW awake \in {"punblock", "pwoken"},
           \/ CallRecv(c) \/ CheckEmpty(c) \/ CheckClosed(c) \/ AnnounceRecv(c) \/ LoadAvail(c)
           \/ RereadHead(c) \/ RecheckItem(c) \/ RecheckClosed(c) \/ WaitAvail(c)
           \/ RetractRecv(c) \/ AnyProducerWaiting(c) \/ BumpSpace(c)
           \/ WakeProducer(c, awake)
    PROVE RingInv'
<1> USE DEF ring, waits, regs, hist
<1>0. c \in Threads /\ pc \in [Threads -> Labels] /\ pos \in [Threads -> Nat]
  BY DEF RingInv, TypeOK, Threads
<1>1. CASE CallRecv(c) \/ CheckEmpty(c) \/ CheckClosed(c)
  BY <1>0, <1>1, GotoMoves, QuietStep DEF CallRecv, CheckEmpty, CheckClosed, Held
<1>2. CASE AnnounceRecv(c) \/ LoadAvail(c)
  BY <1>0, <1>2, GotoMoves, QuietStep DEF AnnounceRecv, LoadAvail, Held
<1>3. CASE RereadHead(c)
  BY <1>0, <1>3, GotoMoves, RegMoves, QuietStep DEF RereadHead, Held
<1>4. CASE RecheckItem(c)
  BY <1>0, <1>4, GotoMoves, QuietStep DEF RecheckItem, Held
<1>5. CASE RecheckClosed(c) \/ WaitAvail(c)
  BY <1>0, <1>5, GotoMoves, QuietStep DEF RecheckClosed, WaitAvail, Held
<1>6. CASE RetractRecv(c)
  BY <1>0, <1>6, GotoMoves, QuietStep DEF RetractRecv, Held
<1>7. CASE AnyProducerWaiting(c) \/ BumpSpace(c)
  BY <1>0, <1>7, GotoMoves, QuietStep DEF AnyProducerWaiting, BumpSpace, Held
<1>8. CASE WakeProducer(c, awake)
  <2>1. \A u \in Threads : pc'[u] = pc[u] \/ pc'[u] \in {"idle", "punblock", "pwoken"}
    BY <1>0, <1>8 DEF WakeProducer, WakeOne, Goto
  <2> QED BY <1>0, <1>8, <2>1, QuietStep DEF WakeProducer, Held
<1> QED BY <1>1, <1>2, <1>3, <1>4, <1>5, <1>6, <1>7, <1>8

\* A thread that has read the position, or found its slot ready, holds nothing yet.
LEMMA LookSend ==
    ASSUME RingInv, Dense, TypeOK', NEW p \in Producers, ReadTail(p) \/ CheckSpace(p)
    PROVE RingInv'
<1> USE DEF ring, waits, regs, hist
<1>0. /\ p \in Threads /\ pc \in [Threads -> Labels] /\ pos \in [Threads -> Nat]
      /\ tail \in Nat /\ tail = Len(log) /\ \A c \in Consumers : c # p /\ c \in Threads
      /\ Producers \subseteq Threads
  BY DEF RingInv, Dense, TypeOK, Threads
<1>1. /\ UNCHANGED <<seq, vals, tail, head, log, sent>>
      /\ \A u \in Threads : u # p => pc'[u] = pc[u] /\ pos'[u] = pos[u]
      /\ pc'[p] \notin {"write", "publish"}
  BY <1>0, GotoMoves, RegMoves DEF ReadTail, CheckSpace
<1>2. /\ pc'[p] \in {"check", "claim"} => pos'[p] <= Len(log)
      /\ pc'[p] = "claim" => seq[Slot(pos'[p])] = pos'[p]
  <2>1. CASE ReadTail(p)
    BY <2>1, <1>0, GotoMoves, RegMoves DEF ReadTail
  <2>2. CASE CheckSpace(p)
    BY <2>2, <1>0, GotoMoves DEF CheckSpace, RingInv, Claimers, At
  <2> QED BY <2>1, <2>2
<1>3. Claimers'
  BY <1>0, <1>1, <1>2 DEF RingInv, Claimers, At
<1>4. Takers'
  BY <1>0, <1>1 DEF RingInv, Takers, At
<1>5. Writers'
  BY <1>0, <1>1 DEF RingInv, Writers, Writing, At
<1>6. Readers'
  BY <1>0, <1>1 DEF RingInv, Readers, Reading
<1>7. Full'
  BY <1>1 DEF RingInv, Full
<1> QED BY <1>1, <1>3, <1>4, <1>5, <1>6, <1>7 DEF RingInv

LEMMA LookRecv ==
    ASSUME RingInv, TypeOK', NEW c \in Consumers,
           ReadHead(c) \/ CheckItem(c) \/ CheckReady(c)
    PROVE RingInv'
<1> USE DEF ring, waits, regs, hist
<1>0. /\ c \in Threads /\ pc \in [Threads -> Labels] /\ pos \in [Threads -> Nat]
      /\ head \in Nat /\ \A p \in Producers : p # c /\ p \in Threads
      /\ Consumers \subseteq Threads
  BY DEF RingInv, TypeOK, Threads
<1>1. /\ UNCHANGED <<seq, vals, tail, head, log, sent>>
      /\ \A u \in Threads : u # c => pc'[u] = pc[u] /\ pos'[u] = pos[u]
      /\ pc'[c] \notin {"read", "free"}
  BY <1>0, GotoMoves, RegMoves DEF ReadHead, CheckItem, CheckReady
<1>2. /\ pc'[c] \in {"check", "ready"} => pos'[c] <= head
      /\ pc'[c] = "ready" => seq[Slot(pos'[c])] = pos'[c] + 1
  <2>1. CASE ReadHead(c)
    BY <2>1, <1>0, GotoMoves, RegMoves DEF ReadHead
  <2>2. CASE CheckItem(c) \/ CheckReady(c)
    BY <2>2, <1>0, GotoMoves DEF CheckItem, CheckReady, RingInv, Takers, At
  <2> QED BY <2>1, <2>2
<1>3. Claimers'
  BY <1>0, <1>1 DEF RingInv, Claimers, At
<1>4. Takers'
  BY <1>0, <1>1, <1>2 DEF RingInv, Takers, At
<1>5. Writers'
  BY <1>0, <1>1 DEF RingInv, Writers, Writing, At
<1>6. Readers'
  BY <1>0, <1>1 DEF RingInv, Readers, Reading
<1>7. Full'
  BY <1>1 DEF RingInv, Full
<1> QED BY <1>1, <1>3, <1>4, <1>5, <1>6, <1>7 DEF RingInv

\* What the types say of one position.
LEMMA PosType ==
    ASSUME TypeOK, NEW t \in Threads
    PROVE pos[t] \in Nat /\ Slot(pos[t]) \in Slots
  BY SlotType DEF TypeOK

\* An item enters the history: p gets the position after the last one, whose
\* slot has that number, and goes on to write it or, in ring_spmc.asm, to
\* withdraw its announcement first.
LEMMA EnterStep ==
    ASSUME RingInv, TypeOK', NEW p \in Producers, Enter(p),
           seq[Slot(Len(log))] = Len(log), UNCHANGED <<seq, vals, head>>,
           pos'[p] = Len(log), pc'[p] \in {"write", "punblock"},
           \A t \in Threads : t # p => pc'[t] = pc[t] /\ pos'[t] = pos[t]
    PROVE RingInv'
<1>0. /\ p \in Threads /\ pos \in [Threads -> Nat]
      /\ \A c \in Consumers : c # p /\ c \in Threads
      /\ Producers \subseteq Threads
      /\ log \in Seq(Item) /\ sent \in [Producers -> Nat] /\ Len(log) \in Nat
  BY DEF RingInv, TypeOK, Threads
<1>1. /\ log' = Append(log, <<p, sent'[p]>>)
      /\ \A q \in Producers : q # p => sent'[q] = sent[q]
  BY <1>0 DEF Enter
<1>2. /\ Len(log') = Len(log) + 1
      /\ log'[Len(log) + 1] = <<p, sent'[p]>>
      /\ \A i \in 1 .. Len(log) : log'[i] = log[i]
  BY <1>0, <1>1
<1>3. Takers'
  BY <1>0 DEF RingInv, Takers, At
<1>7. Claimers'
  <2> SUFFICES ASSUME NEW q \in Producers, pc'[q] \in {"check", "claim"}
               PROVE pos'[q] < Len(log')
    BY <1>0, <1>2 DEF Claimers, At
  <2>1. q # p /\ pos'[q] = pos[q] /\ pc'[q] = pc[q] /\ pos[q] \in Nat
    BY <1>0
  <2>2. pos[q] <= Len(log)
    BY <2>1 DEF RingInv, Claimers
  <2> QED BY <1>0, <1>2, <2>1, <2>2
<1>4. Writers'
  <2> SUFFICES ASSUME NEW q \in Producers, Writing(q)'
               PROVE (/\ pos[q] < Len(log)
                      /\ seq[Slot(pos[q])] = pos[q]
                      /\ log[pos[q] + 1] = <<q, sent[q]>>
                      /\ At(q, "publish") => vals[Slot(pos[q])] = <<q, sent[q]>>)'
    BY DEF Writers
  <2>1. CASE q = p
    BY <1>0, <1>2, <2>1 DEF At
  <2>2. CASE q # p
    <3>1. /\ pos[q] < Len(log) /\ log[pos[q] + 1] = <<q, sent[q]>>
          /\ seq[Slot(pos[q])] = pos[q]
          /\ At(q, "publish") => vals[Slot(pos[q])] = <<q, sent[q]>>
      BY <1>0, <2>2 DEF RingInv, Writers, Writing
    <3>2. pos[q] \in Nat /\ q \in Threads
      BY <1>0
    <3>3. pos[q] + 1 \in 1 .. Len(log)
      BY <1>0, <3>1, <3>2
    <3>4. log'[pos[q] + 1] = log[pos[q] + 1]
      BY <1>2, <3>3
    <3>5. pos[q] < Len(log')
      BY <1>0, <3>1, <3>2, <1>2
    <3> QED BY <1>1, <2>2, <3>1, <3>2, <3>4, <3>5 DEF At
  <2> QED BY <2>1, <2>2
<1>5. Readers'
  BY <1>0 DEF RingInv, Readers, Reading
<1>6. Full'
  <2> SUFFICES ASSUME NEW i \in Nat, seq[Slot(i)] = i + 1
               PROVE i < Len(log') /\ vals[Slot(i)] = log'[i + 1]
    BY DEF Full
  <2>1. i < Len(log) /\ vals[Slot(i)] = log[i + 1]
    BY DEF RingInv, Full
  <2>2. i + 1 \in 1 .. Len(log)
    BY <1>0, <2>1
  <2>3. log'[i + 1] = log[i + 1]
    BY <1>2, <2>2
  <2> QED BY <1>0, <1>2, <2>1, <2>3
<1> QED BY <1>3, <1>4, <1>5, <1>6, <1>7 DEF RingInv

LEMMA ClaimStep ==
    ASSUME RingInv, Dense, TypeOK', NEW p \in Producers, Claim(p)
    PROVE RingInv' /\ Dense'
<1> USE DEF ring, waits, regs, hist
<1>0. /\ p \in Threads /\ pc \in [Threads -> Labels] /\ pos \in [Threads -> Nat]
      /\ Producers \subseteq Threads
      /\ tail = Len(log) /\ log \in Seq(Item)
  BY DEF RingInv, Dense, TypeOK, Threads
<1>1. CASE tail # pos[p]
  BY <1>0, <1>1, GotoMoves, QuietStep DEF Claim, Held, Dense
<1>2. CASE tail = pos[p]
  <2>1. /\ UNCHANGED <<seq, vals, head, pos>>
        /\ tail' = tail + 1 /\ Enter(p)
        /\ pc'[p] = "write"
        /\ \A u \in Threads : u # p => pc'[u] = pc[u]
    BY <1>0, <1>2, GotoMoves DEF Claim
  <2>2. seq[Slot(pos[p])] = pos[p]
    BY <1>0, <1>2 DEF RingInv, Claimers, Claim, At
  <2>3. Dense'
    BY <1>0, <2>1 DEF Dense, Enter
  <2> QED BY <1>0, <1>2, <2>1, <2>2, <2>3, EnterStep
<1> QED BY <1>1, <1>2

\* Two writers, or two readers, in one slot are one thread; a writer and a
\* reader are never in one slot.
LEMMA WritersApart ==
    ASSUME RingInv, NEW p \in Producers, NEW q \in Producers, Writing(p), Writing(q),
           Slot(pos[p]) = Slot(pos[q])
    PROVE p = q
<1>1. pos[p] = pos[q]
  BY DEF RingInv, Writers
<1> QED BY <1>1 DEF RingInv, Writers

LEMMA ReadersApart ==
    ASSUME RingInv, NEW c \in Consumers, NEW d \in Consumers, Reading(c), Reading(d),
           Slot(pos[c]) = Slot(pos[d])
    PROVE c = d
<1>1. pos[c] \in Nat /\ pos[d] \in Nat
  BY DEF RingInv, TypeOK, Threads
<1>2. pos[c] = pos[d]
  BY <1>1 DEF RingInv, Readers
<1> QED BY <1>2 DEF RingInv, Readers

LEMMA WriterNotReader ==
    ASSUME RingInv, NEW p \in Producers, NEW c \in Consumers, Writing(p), Reading(c)
    PROVE Slot(pos[p]) # Slot(pos[c])
<1> SUFFICES ASSUME Slot(pos[p]) = Slot(pos[c]) PROVE FALSE
  OBVIOUS
<1>1. pos[p] \in Nat /\ pos[c] \in Nat
  BY DEF RingInv, TypeOK, Threads
<1>2. pos[p] = pos[c] + 1
  BY DEF RingInv, Readers, Writers
<1> QED BY <1>1, <1>2, NextSlotDiffers

LEMMA WriteStep ==
    ASSUME RingInv, TypeOK', NEW p \in Producers, Write(p)
    PROVE RingInv'
<1> USE DEF ring, waits, regs, hist
<1>0. /\ p \in Threads /\ pc \in [Threads -> Labels] /\ pos \in [Threads -> Nat]
      /\ \A c \in Consumers : c # p /\ c \in Threads
      /\ Producers \subseteq Threads
      /\ vals \in [Slots -> Item \cup {NoValue}]
  BY DEF RingInv, TypeOK, Threads
<1>1. /\ UNCHANGED <<seq, tail, head, log, sent, pos>>
      /\ vals' = [vals EXCEPT ![Slot(pos[p])] = <<p, sent[p]>>]
      /\ pc[p] = "write" /\ pc'[p] = "publish"
      /\ \A u \in Threads : u # p => pc'[u] = pc[u]
  BY <1>0, GotoMoves DEF Write, At
<1>2. Slot(pos[p]) \in Slots /\ pos[p] \in Nat
  BY <1>0, SlotType
<1>3. Claimers'
  BY <1>0, <1>1 DEF RingInv, Claimers, At
<1>4. Takers'
  BY <1>0, <1>1 DEF RingInv, Takers, At
<1>5. Writers'
  <2> SUFFICES ASSUME NEW q \in Producers, Writing(q)'
               PROVE (/\ pos[q] < Len(log)
                      /\ seq[Slot(pos[q])] = pos[q]
                      /\ log[pos[q] + 1] = <<q, sent[q]>>
                      /\ At(q, "publish") => vals[Slot(pos[q])] = <<q, sent[q]>>)'
    BY DEF Writers
  <2>1. Writing(q) /\ Writing(p)
    BY <1>0, <1>1 DEF Writing
  <2>2. CASE q = p
    BY <1>0, <1>1, <1>2, <2>1, <2>2 DEF RingInv, Writers, At
  <2>3. CASE q # p
    <3>1. Slot(pos[q]) # Slot(pos[p])
      BY <2>1, <2>3, WritersApart
    <3>2. Slot(pos[q]) \in Slots
      BY <1>0, SlotType
    <3>3. vals'[Slot(pos[q])] = vals[Slot(pos[q])]
      BY <1>0, <1>1, <3>1, <3>2
    <3> QED BY <1>0, <1>1, <2>1, <2>3, <3>3 DEF RingInv, Writers, At
  <2> QED BY <2>2, <2>3
<1>6. Readers'
  BY <1>0, <1>1 DEF RingInv, Readers, Reading
<1>7. Full'
  <2> SUFFICES ASSUME NEW i \in Nat, seq[Slot(i)] = i + 1
               PROVE i < Len(log) /\ vals'[Slot(i)] = log[i + 1]
    BY <1>1 DEF Full
  <2>1. seq[Slot(pos[p])] = pos[p]
    BY <1>1 DEF RingInv, Writers, Writing
  <2>2. Slot(i) # Slot(pos[p])
    BY <1>2, <2>1, NextSlotDiffers
  <2>3. Slot(i) \in Slots
    BY SlotType
  <2> QED BY <1>0, <1>1, <2>2, <2>3 DEF RingInv, Full
<1> QED BY <1>1, <1>3, <1>4, <1>5, <1>6, <1>7 DEF RingInv

LEMMA PublishStep ==
    ASSUME RingInv, TypeOK', NEW p \in Producers, NEW next \in {"readcw", "advance"},
           Publish(p, next)
    PROVE RingInv'
<1> USE DEF ring, waits, regs, hist
<1>0. /\ p \in Threads /\ pc \in [Threads -> Labels] /\ pos \in [Threads -> Nat]
      /\ \A c \in Consumers : c # p /\ c \in Threads
      /\ Producers \subseteq Threads
      /\ seq \in [Slots -> Nat] /\ log \in Seq(Item) /\ head \in Nat /\ tail \in Nat
  BY DEF RingInv, TypeOK, Threads
<1>1. /\ UNCHANGED <<vals, tail, head, log, sent, pos>>
      /\ seq' = [seq EXCEPT ![Slot(pos[p])] = pos[p] + 1]
      /\ pc[p] = "publish" /\ pc'[p] \in {"readcw", "advance"}
      /\ \A u \in Threads : u # p => pc'[u] = pc[u]
  BY <1>0, GotoMoves DEF Publish, At
<1>2. Slot(pos[p]) \in Slots /\ pos[p] \in Nat
  BY <1>0, SlotType
<1>3. /\ seq[Slot(pos[p])] = pos[p] /\ pos[p] < Len(log) /\ Writing(p)
      /\ log[pos[p] + 1] = <<p, sent[p]>> /\ vals[Slot(pos[p])] = <<p, sent[p]>>
  BY <1>1 DEF RingInv, Writers, Writing, At
<1>4. ASSUME NEW i \in Nat, Slot(i) # Slot(pos[p]) PROVE seq'[Slot(i)] = seq[Slot(i)]
  BY <1>0, <1>1, <1>4, SlotType
<1>5. seq'[Slot(pos[p])] = pos[p] + 1
  BY <1>0, <1>1, <1>2
<1>6. Claimers'
  <2> SUFFICES ASSUME NEW q \in Producers
               PROVE (/\ pc[q] \in {"check", "claim"} => pos[q] <= Len(log)
                      /\ At(q, "claim") /\ pos[q] = Len(log) => seq[Slot(pos[q])] = pos[q])'
    BY DEF Claimers
  <2>1. pos'[q] = pos[q] /\ q \in Threads /\ pos[q] \in Nat
    BY <1>0, <1>1
  <2>2. pc'[q] \in {"check", "claim"} => q # p /\ pc[q] = pc'[q]
    BY <1>0, <1>1
  <2>3. ASSUME pc'[q] = "claim", pos[q] = Len(log) PROVE Slot(pos[q]) # Slot(pos[p])
    <3>1. seq[Slot(pos[q])] = pos[q]
      BY <2>2, <2>3 DEF RingInv, Claimers, At
    <3> QED BY <1>0, <1>2, <1>3, <2>1, <2>3, <3>1
  <2> QED BY <1>1, <1>4, <2>1, <2>2, <2>3 DEF RingInv, Claimers, At
<1>7. Takers'
  <2> SUFFICES ASSUME NEW c \in Consumers
               PROVE (/\ pc[c] \in {"check", "ready"} => pos[c] <= head
                      /\ At(c, "ready") /\ pos[c] = head => seq[Slot(pos[c])] = pos[c] + 1)'
    BY DEF Takers
  <2>1. /\ pos'[c] = pos[c] /\ pc'[c] = pc[c] /\ head' = head
        /\ pos[c] \in Nat
    BY <1>0, <1>1
  <2>2. ASSUME pc[c] = "ready", pos[c] = head PROVE Slot(pos[c]) # Slot(pos[p])
    <3>1. seq[Slot(pos[c])] = pos[c] + 1
      BY <2>2 DEF RingInv, Takers, At
    <3> QED BY <1>2, <1>3, <2>1, <3>1, NextSlotDiffers
  <2> QED BY <1>4, <2>1, <2>2 DEF RingInv, Takers, At
<1>8. Writers'
  <2> SUFFICES ASSUME NEW q \in Producers, Writing(q)'
               PROVE (/\ pos[q] < Len(log)
                      /\ seq[Slot(pos[q])] = pos[q]
                      /\ log[pos[q] + 1] = <<q, sent[q]>>
                      /\ At(q, "publish") => vals[Slot(pos[q])] = <<q, sent[q]>>)'
    BY DEF Writers
  <2>1. q # p /\ pc'[q] = pc[q] /\ Writing(q) /\ pos[q] \in Nat /\ pos'[q] = pos[q]
    BY <1>0, <1>1 DEF Writing
  <2>2. Slot(pos[q]) # Slot(pos[p])
    BY <1>3, <2>1, WritersApart
  <2> QED BY <1>1, <1>4, <2>1, <2>2 DEF RingInv, Writers, At
<1>9. Readers'
  <2> SUFFICES ASSUME NEW c \in Consumers, Reading(c)'
               PROVE (/\ pos[c] < head
                      /\ seq[Slot(pos[c])] = pos[c] + 1
                      /\ \A d \in Consumers : Reading(d) /\ pos[d] = pos[c] => d = c)'
    BY DEF Readers
  <2>1. \A d \in Consumers : pc'[d] = pc[d] /\ pos'[d] = pos[d] /\ pos[d] \in Nat
    BY <1>0, <1>1
  <2>2. Reading(c)
    BY <2>1 DEF Reading
  <2>3. Slot(pos[c]) # Slot(pos[p])
    BY <1>3, <2>2, WriterNotReader
  <2> QED BY <1>1, <1>4, <2>1, <2>2, <2>3 DEF RingInv, Readers, Reading
<1>10. Full'
  <2> SUFFICES ASSUME NEW i \in Nat, seq'[Slot(i)] = i + 1
               PROVE i < Len(log) /\ vals[Slot(i)] = log[i + 1]
    BY <1>1 DEF Full
  <2>1. CASE Slot(i) = Slot(pos[p])
    <3>1. i = pos[p]
      BY <1>2, <1>5, <2>1
    <3> QED BY <1>3, <3>1
  <2>2. CASE Slot(i) # Slot(pos[p])
    BY <1>4, <2>2 DEF RingInv, Full
  <2> QED BY <2>1, <2>2
<1> QED BY <1>0, <1>1, <1>6, <1>7, <1>8, <1>9, <1>10 DEF RingInv

LEMMA ClaimItemStep ==
    ASSUME RingInv, TypeOK', NEW c \in Consumers, ClaimItem(c)
    PROVE RingInv'
<1> USE DEF ring, waits, regs, hist
<1>0. /\ c \in Threads /\ pc \in [Threads -> Labels] /\ pos \in [Threads -> Nat]
      /\ \A p \in Producers : p # c /\ p \in Threads
      /\ Consumers \subseteq Threads
      /\ head \in Nat
  BY DEF RingInv, TypeOK, Threads
<1>1. CASE head # pos[c]
  BY <1>0, <1>1, GotoMoves, QuietStep DEF ClaimItem, Held
<1>2. CASE head = pos[c]
  <2>1. /\ UNCHANGED <<seq, vals, tail, log, sent, pos>>
        /\ head' = head + 1
        /\ pc[c] = "ready" /\ pc'[c] = "read"
        /\ \A u \in Threads : u # c => pc'[u] = pc[u]
    BY <1>0, <1>2, GotoMoves DEF ClaimItem, At
  <2>2. seq[Slot(pos[c])] = pos[c] + 1
    BY <1>2, <2>1 DEF RingInv, Takers, At
  <2>3. \A d \in Consumers : Reading(d) => pos[d] < head /\ d # c
    BY <2>1 DEF RingInv, Readers, Reading
  <2>4. Claimers'
    BY <1>0, <2>1 DEF RingInv, Claimers, At
  <2>5. Takers'
    <3> SUFFICES ASSUME NEW d \in Consumers
                 PROVE (/\ pc[d] \in {"check", "ready"} => pos[d] <= head
                        /\ At(d, "ready") /\ pos[d] = head => seq[Slot(pos[d])] = pos[d] + 1)'
      BY DEF Takers
    <3>1. pc'[d] \in {"check", "ready"} => pos[d] <= head
      BY <1>0, <2>1 DEF RingInv, Takers
    <3>2. pos[d] \in Nat
      BY <1>0
    <3> QED BY <1>0, <2>1, <3>1, <3>2 DEF At
  <2>6. Writers'
    BY <1>0, <2>1 DEF RingInv, Writers, Writing, At
  <2>7. Readers'
    <3> SUFFICES ASSUME NEW d \in Consumers, Reading(d)'
                 PROVE (/\ pos[d] < head
                        /\ seq[Slot(pos[d])] = pos[d] + 1
                        /\ \A e \in Consumers : Reading(e) /\ pos[e] = pos[d] => e = d)'
      BY DEF Readers
    <3>1. \A e \in Consumers : Reading(e)' => e = c \/ Reading(e)
      BY <1>0, <2>1 DEF Reading
    <3>2. \A e \in Consumers : pos'[e] = pos[e] /\ pos[e] \in Nat
      BY <1>0, <2>1
    <3>3. CASE d = c
      BY <1>0, <1>2, <2>1, <2>2, <2>3, <3>1, <3>2, <3>3
    <3>4. CASE d # c
      <4>1. Reading(d) /\ pos[d] < head
        BY <2>3, <3>1, <3>4
      <4>2. seq[Slot(pos[d])] = pos[d] + 1
        BY <4>1 DEF RingInv, Readers
      <4>3. \A e \in Consumers : Reading(e) /\ pos[e] = pos[d] => e = d
        BY <4>1 DEF RingInv, Readers
      <4>4. pos[d] # pos[c]
        BY <1>0, <1>2, <4>1
      <4> QED BY <1>0, <2>1, <3>1, <3>2, <4>1, <4>2, <4>3, <4>4
    <3> QED BY <3>3, <3>4
  <2>8. Full'
    BY <2>1 DEF RingInv, Full
  <2> QED BY <2>1, <2>4, <2>5, <2>6, <2>7, <2>8 DEF RingInv
<1> QED BY <1>1, <1>2

LEMMA ReadStep ==
    ASSUME RingInv, TypeOK', NEW c \in Consumers, Read(c)
    PROVE RingInv'
<1> USE DEF ring, waits, regs, hist
<1>0. /\ c \in Threads /\ pc \in [Threads -> Labels]
      /\ \A p \in Producers : p # c /\ p \in Threads
      /\ Consumers \subseteq Threads
  BY DEF RingInv, TypeOK, Threads
<1>1. /\ UNCHANGED <<seq, vals, tail, head, log, sent, pos>>
      /\ pc[c] = "read" /\ pc'[c] = "free"
      /\ \A u \in Threads : u # c => pc'[u] = pc[u]
  BY <1>0, GotoMoves DEF Read, At
<1>2. Claimers' /\ Writers'
  BY <1>0, <1>1 DEF RingInv, Claimers, Writers, Writing, At
<1>3. Takers'
  BY <1>0, <1>1 DEF RingInv, Takers, At
<1>4. \A d \in Consumers : Reading(d)' <=> Reading(d)
  BY <1>0, <1>1 DEF Reading
<1>5. Readers'
  BY <1>1, <1>4 DEF RingInv, Readers
<1>6. Full'
  BY <1>1 DEF RingInv, Full
<1> QED BY <1>1, <1>2, <1>3, <1>5, <1>6 DEF RingInv

\* Freeing position i renumbers its slot i + Cap: the number the producer of
\* the next lap waits for, and one that no consumer takes for an item.
LEMMA FreeStep ==
    ASSUME RingInv, TypeOK', NEW c \in Consumers, Free(c)
    PROVE RingInv'
<1> USE DEF ring, waits, regs, hist
<1>0. /\ c \in Threads /\ pc \in [Threads -> Labels] /\ pos \in [Threads -> Nat]
      /\ \A p \in Producers : p # c /\ p \in Threads
      /\ Consumers \subseteq Threads
      /\ seq \in [Slots -> Nat] /\ head \in Nat /\ tail \in Nat
  BY DEF RingInv, TypeOK, Threads
<1>1. /\ UNCHANGED <<vals, tail, head, log, sent, pos>>
      /\ seq' = [seq EXCEPT ![Slot(pos[c])] = pos[c] + Cap]
      /\ pc[c] = "free" /\ pc'[c] = "readpw"
      /\ \A u \in Threads : u # c => pc'[u] = pc[u]
  BY <1>0, GotoMoves DEF Free, At
<1>2. Slot(pos[c]) \in Slots /\ pos[c] \in Nat
  BY <1>0, SlotType
<1>3. seq[Slot(pos[c])] = pos[c] + 1 /\ pos[c] < head /\ Reading(c)
  BY <1>1 DEF RingInv, Readers, Reading
<1>4. ASSUME NEW i \in Nat, Slot(i) # Slot(pos[c]) PROVE seq'[Slot(i)] = seq[Slot(i)]
  BY <1>0, <1>1, <1>4, SlotType
<1>5. seq'[Slot(pos[c])] = pos[c] + Cap
  BY <1>0, <1>1, <1>2
<1>6. Claimers'
  <2> SUFFICES ASSUME NEW p \in Producers
               PROVE (/\ pc[p] \in {"check", "claim"} => pos[p] <= Len(log)
                      /\ At(p, "claim") /\ pos[p] = Len(log) => seq[Slot(pos[p])] = pos[p])'
    BY DEF Claimers
  <2>1. pos'[p] = pos[p] /\ pc'[p] = pc[p] /\ pos[p] \in Nat
    BY <1>0, <1>1
  <2>2. ASSUME pc[p] = "claim", pos[p] = Len(log) PROVE Slot(pos[p]) # Slot(pos[c])
    <3>1. seq[Slot(pos[p])] = pos[p]
      BY <2>2 DEF RingInv, Claimers, At
    <3> QED BY <1>2, <1>3, <2>1, <3>1, NextSlotDiffers
  <2> QED BY <1>1, <1>4, <2>1, <2>2 DEF RingInv, Claimers, At
<1>7. Takers'
  <2> SUFFICES ASSUME NEW d \in Consumers
               PROVE (/\ pc[d] \in {"check", "ready"} => pos[d] <= head
                      /\ At(d, "ready") /\ pos[d] = head => seq[Slot(pos[d])] = pos[d] + 1)'
    BY DEF Takers
  <2>1. pos'[d] = pos[d] /\ head' = head /\ pos[d] \in Nat
    BY <1>0, <1>1
  <2>2. pc'[d] \in {"check", "ready"} => d # c /\ pc'[d] = pc[d]
    BY <1>0, <1>1
  <2>3. ASSUME pc'[d] = "ready", pos[d] = head PROVE Slot(pos[d]) # Slot(pos[c])
    <3>1. seq[Slot(pos[d])] = pos[d] + 1
      BY <2>2, <2>3 DEF RingInv, Takers, At
    <3> QED BY <1>0, <1>2, <1>3, <2>1, <2>3, <3>1
  <2> QED BY <1>4, <2>1, <2>2, <2>3 DEF RingInv, Takers, At
<1>8. Writers'
  <2> SUFFICES ASSUME NEW p \in Producers, Writing(p)'
               PROVE (/\ pos[p] < Len(log)
                      /\ seq[Slot(pos[p])] = pos[p]
                      /\ log[pos[p] + 1] = <<p, sent[p]>>
                      /\ At(p, "publish") => vals[Slot(pos[p])] = <<p, sent[p]>>)'
    BY DEF Writers
  <2>1. pc'[p] = pc[p] /\ Writing(p) /\ pos[p] \in Nat /\ pos'[p] = pos[p]
    BY <1>0, <1>1 DEF Writing
  <2>2. Slot(pos[p]) # Slot(pos[c])
    BY <1>3, <2>1, WriterNotReader
  <2> QED BY <1>1, <1>4, <2>1, <2>2 DEF RingInv, Writers, At
<1>9. Readers'
  <2> SUFFICES ASSUME NEW d \in Consumers, Reading(d)'
               PROVE (/\ pos[d] < head
                      /\ seq[Slot(pos[d])] = pos[d] + 1
                      /\ \A e \in Consumers : Reading(e) /\ pos[e] = pos[d] => e = d)'
    BY DEF Readers
  <2>1. \A e \in Consumers : /\ pos'[e] = pos[e] /\ pos[e] \in Nat
                             /\ Reading(e)' => Reading(e) /\ e # c
    BY <1>0, <1>1 DEF Reading
  <2>2. Slot(pos[d]) # Slot(pos[c])
    BY <1>3, <2>1, ReadersApart
  <2>3. /\ pos[d] < head /\ seq[Slot(pos[d])] = pos[d] + 1
        /\ \A e \in Consumers : Reading(e) /\ pos[e] = pos[d] => e = d
    BY <2>1 DEF RingInv, Readers
  <2> QED BY <1>1, <1>4, <2>1, <2>2, <2>3
<1>10. Full'
  <2> SUFFICES ASSUME NEW i \in Nat, seq'[Slot(i)] = i + 1
               PROVE i < Len(log) /\ vals[Slot(i)] = log[i + 1]
    BY <1>1 DEF Full
  <2>1. Slot(i) # Slot(pos[c])
    <3> SUFFICES ASSUME Slot(i) = Slot(pos[c]) PROVE FALSE
      OBVIOUS
    <3>1. i = pos[c] + (Cap - 1)
      BY <1>2, <1>5
    <3>2. pos[c] < i /\ i < pos[c] + Cap
      BY <1>2, <3>1
    <3> QED BY <1>2, <3>2, SlotsDiffer
  <2> QED BY <1>4, <2>1 DEF RingInv, Full
<1> QED BY <1>1, <1>6, <1>7, <1>8, <1>9, <1>10 DEF RingInv

----------------------------------------------------------------------------
\* The theorems.

LEMMA InitInv == Init => RingInv
<1> SUFFICES ASSUME Init PROVE RingInv
  OBVIOUS
<1>1. TypeOK
  BY InitType
<1>2. \A t \in Threads : pc[t] = "idle"
  BY DEF Init
<1>3. Claimers /\ Writers
  BY <1>2 DEF Claimers, Writers, Writing, At, Threads
<1>4. Takers /\ Readers
  BY <1>2 DEF Takers, Readers, Reading, At, Threads
<1>5. Full
  <2> SUFFICES ASSUME NEW i \in Nat, seq[Slot(i)] = i + 1 PROVE FALSE
    BY DEF Full
  <2>1. Slot(i) \in Slots /\ Slot(i) <= i
    BY SlotType
  <2>2. seq[Slot(i)] = Slot(i) /\ Slot(i) \in Int
    BY <2>1 DEF Init, Slots
  <2> QED BY <2>1, <2>2
<1> QED BY <1>1, <1>3, <1>4, <1>5 DEF RingInv

\* Calling and returning, close included.
LEMMA CloseStep ==
    ASSUME RingInv, TypeOK', Close \/ UNCHANGED vars
    PROVE RingInv' /\ (Dense => Dense')
<1> USE DEF ring, waits, regs, hist
<1>1. CASE Close
  <2>1. UNCHANGED <<seq, vals, tail, head, log, sent, pos>>
    BY <1>1 DEF Close, SetClosed, CloseBump, CloseWakeAll
  <2>2. \A t \in Threads : pc'[t] = pc[t] \/ pc'[t] = "unpark"
    BY <1>1 DEF Close, SetClosed, CloseBump, CloseWakeAll
  <2> QED BY <1>1, <2>1, <2>2, QuietStep DEF Held, Dense
<1>2. CASE UNCHANGED vars
  BY <1>2, QuietStep DEF vars, Dense
<1> QED BY <1>1, <1>2

LEMMA MultiSendStep ==
    ASSUME RingInv, Dense, NEW p \in Producers, MultiSend(p)
    PROVE RingInv' /\ Dense'
<1>1. TypeOK'
  BY SendType DEF RingInv
<1>2. RingInv'
  BY <1>1, QuietSend, LookSend, ClaimStep, WriteStep, PublishStep DEF MultiSend
<1>3. CASE Claim(p)
  BY <1>1, <1>3, ClaimStep
<1>4. CASE ~Claim(p)
  <2>1. UNCHANGED <<tail, log>>
    BY <1>4 DEF MultiSend, CallSend, ReadTail, CheckSpace, AnnounceSend, LoadSpace, RereadTail,
                RecheckSpace, WaitSpace, RetractSend, Write, Publish, Announce,
                AnyConsumerWaiting, BumpAvail, WakeConsumer, ring, hist
  <2> QED BY <1>2, <2>1 DEF Dense
<1> QED BY <1>2, <1>3, <1>4

\* recv, of many consumers and of one: tail and the history of what was sent
\* are the producers'.
LEMMA MultiRecvStep ==
    ASSUME RingInv, NEW c \in Consumers, NEW awake \in {"punblock", "pwoken"},
           CheckItem(c) \/ CheckReady(c) \/ CheckEmpty(c) \/ MultiRecv(c, awake)
    PROVE RingInv' /\ UNCHANGED <<tail, log, sent>>
<1>1. TypeOK'
  BY RecvType DEF RingInv
<1>2. RingInv'
  BY <1>1, QuietRecv, LookRecv, ClaimItemStep, ReadStep, FreeStep DEF MultiRecv, Release
<1>3. UNCHANGED <<tail, log, sent>>
  BY DEF CheckItem, CheckReady, CheckEmpty, MultiRecv, CallRecv, ReadHead, CheckClosed,
         AnnounceRecv, LoadAvail, RereadHead, RecheckItem, RecheckClosed, WaitAvail,
         RetractRecv, ClaimItem, Release, Read, Free, AnyProducerWaiting, BumpSpace,
         WakeProducer, ring, hist
<1> QED BY <1>2, <1>3

LEMMA MpmcInvStep == RingInv /\ Dense /\ [MpmcNext]_vars => RingInv' /\ Dense'
<1> SUFFICES ASSUME RingInv, Dense, [MpmcNext]_vars PROVE RingInv' /\ Dense'
  OBVIOUS
<1>1. CASE \E p \in Producers : MultiSend(p)
  BY <1>1, MultiSendStep
<1>2. CASE \E c \in Consumers : MpmcRecv(c)
  BY <1>2, MultiRecvStep DEF MpmcRecv, Dense
<1>3. CASE Close \/ UNCHANGED vars
  BY <1>3, CloseType, StutterType, CloseStep DEF RingInv
<1> QED BY <1>1, <1>2, <1>3 DEF MpmcNext, Ended

\* The invariant of ring_mpmc.asm: what a slot's number entitles a thread to.
THEOREM MpmcInvariant == MpmcSpec => [](RingInv /\ Dense)
<1>1. Init => Dense
  BY DEF Init, Dense
<1> QED BY <1>1, InitInv, MpmcInvStep, PTL DEF MpmcSpec

----------------------------------------------------------------------------
\* One producer (ring_spmc.asm): it owns the position tail from the moment it
\* finds the slot free until it advances tail.
OneProducer == \A p, q \in Producers : p = q

Owning == {"punblock", "write", "publish", "advance"}
Owner == \A p \in Producers :
    /\ pc[p] \notin Owning => tail = Len(log)
    /\ pc[p] \in Owning => pos[p] = tail /\ Len(log) = tail + 1
    /\ At(p, "punblock") => seq[Slot(tail)] = tail /\ log[tail + 1] = <<p, sent[p]>>

\* The steps of a producer that neither take a position nor use it.
LEMMA SoleQuiet ==
    ASSUME RingInv, TypeOK', Owner, OneProducer, NEW p \in Producers,
           \/ CallSend(p) \/ SoleAnnounce(p) \/ LoadSpace(p) \/ SoleWait(p) \/ Announce(p)
           \/ At(p, "pwoken") /\ SoleRetract(p)
           \/ SoleCheck(p) /\ seq[Slot(tail)] # tail
           \/ SoleRecheck(p) /\ seq[Slot(tail)] # tail
    PROVE RingInv' /\ Owner'
<1> USE DEF ring, waits, regs, hist
<1>0. p \in Threads /\ pc \in [Threads -> Labels] /\ pos \in [Threads -> Nat]
  BY DEF RingInv, TypeOK, Threads
<1>1. UNCHANGED <<seq, vals, tail, head, log, sent, pos>>
  BY DEF CallSend, SoleAnnounce, LoadSpace, SoleWait, SoleRetract, SoleCheck, SoleRecheck,
         Announce, AnyConsumerWaiting, BumpAvail, WakeConsumer
<1>2. /\ pc[p] \notin Owning /\ pc'[p] \notin Owning /\ pc'[p] \notin Held
      /\ \A u \in Threads : u # p => pc'[u] = pc[u] \/ pc'[u] = "unpark"
  <2>1. CASE WakeConsumer(p)
    BY <1>0, <2>1 DEF WakeConsumer, WakeOne, Goto, Sleeping, At, Owning, Held
  <2>2. CASE CallSend(p) \/ SoleAnnounce(p) \/ LoadSpace(p) \/ SoleWait(p)
    BY <1>0, <2>2, GotoMoves DEF CallSend, SoleAnnounce, LoadSpace, SoleWait, At, Owning, Held
  <2>3. CASE AnyConsumerWaiting(p) \/ BumpAvail(p)
    BY <1>0, <2>3, GotoMoves DEF AnyConsumerWaiting, BumpAvail, At, Owning, Held
  <2>4. CASE At(p, "pwoken") /\ SoleRetract(p)
    BY <1>0, <2>4, GotoMoves DEF SoleRetract, At, Owning, Held
  <2>5. CASE (SoleCheck(p) \/ SoleRecheck(p)) /\ seq[Slot(tail)] # tail
    BY <1>0, <2>5, GotoMoves DEF SoleCheck, SoleRecheck, At, Owning, Held
  <2> QED BY <2>1, <2>2, <2>3, <2>4, <2>5 DEF Announce
<1>3. RingInv'
  BY <1>1, <1>2, QuietStep DEF Held
<1>4. Owner'
  BY <1>0, <1>1, <1>2 DEF Owner, OneProducer, At, Owning
<1> QED BY <1>3, <1>4

\* The slot of tail is free: the producer takes the position.
LEMMA SoleTakes ==
    ASSUME RingInv, TypeOK', Owner, OneProducer, NEW p \in Producers,
           SoleCheck(p) \/ SoleRecheck(p), seq[Slot(tail)] = tail
    PROVE RingInv' /\ Owner'
<1> USE DEF ring, waits, regs, hist
<1>0. /\ p \in Threads /\ pc \in [Threads -> Labels] /\ pos \in [Threads -> Nat]
      /\ log \in Seq(Item)
  BY DEF RingInv, TypeOK, Threads
<1>1. /\ Enter(p) /\ UNCHANGED <<seq, vals, head, tail>>
      /\ pos'[p] = tail /\ pc'[p] \in {"write", "punblock"} /\ pc[p] \notin Owning
      /\ \A t \in Threads : t # p => pc'[t] = pc[t] /\ pos'[t] = pos[t]
  BY <1>0, GotoMoves, RegMoves DEF SoleCheck, SoleRecheck, Own, At, Owning
<1>2. tail = Len(log)
  BY <1>1 DEF Owner
<1>3. RingInv'
  BY <1>1, <1>2, EnterStep
<1>4. Len(log') = Len(log) + 1 /\ log'[Len(log) + 1] = <<p, sent'[p]>>
  BY <1>0, <1>1 DEF Enter
<1>5. Owner'
  BY <1>1, <1>2, <1>4 DEF Owner, OneProducer, Owning, At
<1> QED BY <1>3, <1>5

\* With the announcement withdrawn the producer goes on to write its position.
LEMMA SoleWithdraw ==
    ASSUME RingInv, TypeOK', Owner, OneProducer, NEW p \in Producers,
           At(p, "punblock"), SoleRetract(p)
    PROVE RingInv' /\ Owner'
<1> USE DEF ring, waits, regs, hist
<1>0. /\ p \in Threads /\ pc \in [Threads -> Labels] /\ pos \in [Threads -> Nat]
      /\ \A c \in Consumers : c # p /\ c \in Threads
      /\ Producers \subseteq Threads
  BY DEF RingInv, TypeOK, Threads
<1>1. /\ UNCHANGED <<seq, vals, tail, head, log, sent, pos>>
      /\ pc[p] = "punblock" /\ pc'[p] = "write"
      /\ \A u \in Threads : u # p => pc'[u] = pc[u]
  BY <1>0, GotoMoves DEF SoleRetract, At
<1>2. /\ pos[p] = tail /\ Len(log) = tail + 1 /\ seq[Slot(tail)] = tail
      /\ log[tail + 1] = <<p, sent[p]>> /\ tail \in Nat
  BY <1>1 DEF RingInv, TypeOK, Owner, Owning, At
<1>3. Claimers'
  BY <1>0, <1>1 DEF RingInv, Claimers, At
<1>4. Takers'
  BY <1>0, <1>1 DEF RingInv, Takers, At
<1>5. Writers'
  <2> SUFFICES ASSUME NEW q \in Producers, Writing(q)'
               PROVE (/\ pos[q] < Len(log)
                      /\ seq[Slot(pos[q])] = pos[q]
                      /\ log[pos[q] + 1] = <<q, sent[q]>>
                      /\ At(q, "publish") => vals[Slot(pos[q])] = <<q, sent[q]>>)'
    BY DEF Writers
  <2>1. q = p
    BY DEF OneProducer
  <2> QED BY <1>1, <1>2, <2>1 DEF At
<1>6. Readers'
  BY <1>0, <1>1 DEF RingInv, Readers, Reading
<1>7. Full'
  BY <1>1 DEF RingInv, Full
<1>8. Owner'
  BY <1>0, <1>1, <1>2 DEF Owner, OneProducer, Owning, At
<1> QED BY <1>3, <1>4, <1>5, <1>6, <1>7, <1>8 DEF RingInv

LEMMA SoleSendStep ==
    ASSUME RingInv, Owner, OneProducer, NEW p \in Producers, SoleSend(p)
    PROVE RingInv' /\ Owner'
<1> USE DEF ring, waits, regs, hist
<1>0. /\ p \in Threads /\ pc \in [Threads -> Labels] /\ pos \in [Threads -> Nat]
      /\ tail \in Nat
  BY DEF RingInv, TypeOK, Threads
<1>1. TypeOK'
  BY SoleSendType DEF RingInv
<1>2. CASE SoleRetract(p)
  BY <1>1, <1>2, SoleQuiet, SoleWithdraw DEF SoleRetract
<1>3. CASE SoleCheck(p) \/ SoleRecheck(p)
  BY <1>1, <1>3, SoleQuiet, SoleTakes
<1>4. CASE Write(p) \/ Publish(p, "advance")
  <2>1. RingInv'
    BY <1>1, <1>4, WriteStep, PublishStep
  <2>2. /\ UNCHANGED <<tail, log, pos>> /\ pc[p] \in Owning
        /\ pc'[p] \in {"publish", "advance"}
    BY <1>0, <1>4, GotoMoves DEF Write, Publish, At, Owning
  <2>3. Owner'
    BY <2>2 DEF Owner, OneProducer, Owning, At
  <2> QED BY <2>1, <2>3
<1>5. CASE SoleAdvance(p)
  <2>1. /\ UNCHANGED <<seq, vals, head, log, sent, pos>> /\ pc[p] = "advance"
        /\ tail' = pos[p] + 1 /\ pc'[p] = "readcw"
        /\ \A u \in Threads : u # p => pc'[u] = pc[u]
    BY <1>0, <1>5, GotoMoves DEF SoleAdvance, At
  <2>2. RingInv'
    BY <1>1, <2>1, QuietStep DEF Held
  <2>3. Owner'
    BY <1>0, <2>1 DEF Owner, OneProducer, Owning, At
  <2> QED BY <2>2, <2>3
<1>6. CASE ~(SoleRetract(p) \/ SoleCheck(p) \/ SoleRecheck(p) \/ Write(p)
             \/ Publish(p, "advance") \/ SoleAdvance(p))
  BY <1>1, <1>6, SoleQuiet DEF SoleSend
<1> QED BY <1>2, <1>3, <1>4, <1>5, <1>6

\* Consumers leave the producer what it owns: the slot it found free is not
\* one that a consumer is reading.
LEMMA RecvKeepsOwner ==
    ASSUME RingInv, Owner, NEW c \in Consumers, SpmcRecv(c)
    PROVE Owner'
<1> USE DEF ring, waits, regs, hist
<1>0. /\ c \in Threads /\ pc \in [Threads -> Labels] /\ pos \in [Threads -> Nat]
      /\ \A p \in Producers : p # c /\ p \in Threads
      /\ seq \in [Slots -> Nat] /\ tail \in Nat
  BY DEF RingInv, TypeOK, Threads
<1>1. UNCHANGED <<tail, log, sent>>
  BY MultiRecvStep DEF SpmcRecv
<1>2. \A p \in Producers :
         /\ pos'[p] = pos[p]
         /\ \/ pc'[p] = pc[p]
            \/ pc[p] \notin Owning /\ pc'[p] \notin Owning
  <2>1. Moves(c, "psleep", "pwoken")
    BY MultiRecvMoves DEF RingInv, SpmcRecv
  <2> QED BY <1>0, <2>1 DEF Moves, Owning
<1>3. seq[Slot(tail)] = tail => seq'[Slot(tail)] = tail
  <2>1. CASE Free(c)
    <3>1. seq' = [seq EXCEPT ![Slot(pos[c])] = pos[c] + Cap] /\ pc[c] = "free"
      BY <2>1 DEF Free, At
    <3>2. seq[Slot(pos[c])] = pos[c] + 1 /\ pos[c] \in Nat
      BY <1>0, <3>1 DEF RingInv, Readers, Reading
    <3>3. seq[Slot(tail)] = tail => Slot(tail) # Slot(pos[c])
      BY <1>0, <3>2, NextSlotDiffers
    <3> QED BY <1>0, <3>1, <3>3, SlotType
  <2>2. CASE ~Free(c)
    BY <2>2 DEF SpmcRecv, MultiRecv, Release, CallRecv, ReadHead, CheckItem, CheckClosed,
                AnnounceRecv, LoadAvail, RereadHead, RecheckItem, RecheckClosed, WaitAvail,
                RetractRecv, ClaimItem, Read, AnyProducerWaiting, BumpSpace, WakeProducer
  <2> QED BY <2>1, <2>2
<1> QED BY <1>0, <1>1, <1>2, <1>3 DEF Owner, At, Owning

LEMMA SpmcInvStep ==
    ASSUME OneProducer PROVE RingInv /\ Owner /\ [SpmcNext]_vars => RingInv' /\ Owner'
<1> SUFFICES ASSUME RingInv, Owner, [SpmcNext]_vars PROVE RingInv' /\ Owner'
  OBVIOUS
<1>1. CASE \E p \in Producers : SoleSend(p)
  BY <1>1, SoleSendStep
<1>2. CASE \E c \in Consumers : SpmcRecv(c)
  BY <1>2, MultiRecvStep, RecvKeepsOwner DEF SpmcRecv
<1>3. CASE Close \/ UNCHANGED vars
  <2>1. RingInv'
    BY <1>3, CloseType, StutterType, CloseStep DEF RingInv
  <2>2. UNCHANGED <<seq, tail, log, sent, pos>>
    BY <1>3 DEF Close, SetClosed, CloseBump, CloseWakeAll, ring, waits, regs, hist, vars
  <2>4. \A t \in Threads : pc'[t] = pc[t] \/ (pc[t] = "csleep" /\ pc'[t] = "unpark")
    BY <1>3 DEF Close, SetClosed, CloseBump, CloseWakeAll, vars
  <2>3. Owner'
    BY <2>2, <2>4 DEF Owner, At, Owning, Threads
  <2> QED BY <2>1, <2>3
<1> QED BY <1>1, <1>2, <1>3 DEF SpmcNext, Ended

\* The invariant of ring_spmc.asm.
THEOREM SpmcInvariant == ASSUME OneProducer PROVE SpmcSpec => [](RingInv /\ Owner)
<1>1. Init => Owner
  BY DEF Init, Owner, Owning, At, Threads
<1> QED BY <1>1, InitInv, SpmcInvStep, PTL DEF SpmcSpec

----------------------------------------------------------------------------
\* One consumer (ring_mpsc.asm): the position it reads is head until it moves
\* head itself.
OneConsumer == \A c, d \in Consumers : c = d

Lone == \A c \in Consumers : At(c, "ready") => pos[c] = head

LEMMA SoleRecvStep ==
    ASSUME RingInv, Lone, OneConsumer, NEW c \in Consumers, CountedRecv(c)
    PROVE RingInv' /\ Lone' /\ UNCHANGED <<tail, log, sent>>
<1> USE DEF ring, waits, regs, hist
<1>0. /\ c \in Threads /\ pc \in [Threads -> Labels] /\ pos \in [Threads -> Nat]
      /\ head \in Nat /\ \A p \in Producers : p # c /\ p \in Threads
      /\ seq \in [Slots -> Nat]
  BY DEF RingInv, TypeOK, Threads
<1>1. TypeOK'
  BY SoleRecvType, RecvType DEF RingInv, CountedRecv, CountedCall, MultiRecv
<1>2. CASE SoleCheckItem(c)
  <2>1. /\ UNCHANGED <<seq, vals, tail, head, log, sent>>
        /\ \A u \in Threads : u # c => pc'[u] = pc[u] /\ pos'[u] = pos[u]
        /\ pos'[c] = head /\ pc'[c] \in {"ready", "closed"}
        /\ pc'[c] = "ready" => seq[Slot(head)] = head + 1
    BY <1>0, <1>2, GotoMoves, RegMoves DEF SoleCheckItem
  <2>2. Claimers'
    BY <1>0, <2>1 DEF RingInv, Claimers, At
  <2>3. Takers'
    BY <1>0, <2>1 DEF RingInv, OneConsumer, Takers, At
  <2>4. Writers'
    BY <1>0, <2>1 DEF RingInv, Writers, Writing, At
  <2>5. Readers'
    BY <1>0, <2>1 DEF RingInv, OneConsumer, Readers, Reading
  <2>6. Full'
    BY <2>1 DEF RingInv, Full
  <2>7. Lone'
    BY <1>0, <2>1 DEF Lone, OneConsumer, At
  <2> QED BY <1>1, <2>1, <2>2, <2>3, <2>4, <2>5, <2>6, <2>7 DEF RingInv
<1>3. CASE SoleTake(c)
  <2>1. pos[c] = head
    BY <1>3 DEF SoleTake, Lone
  <2>2. ClaimItem(c)
    BY <1>3, <2>1 DEF SoleTake, ClaimItem
  <2>3. pc'[c] = "read"
    BY <1>0, <1>3, GotoMoves DEF SoleTake
  <2> QED BY <1>1, <1>3, <2>2, <2>3, ClaimItemStep DEF Lone, OneConsumer, At, SoleTake
<1>4. CASE SolePark(c) \/ SoleRecheckItem(c) \/ SoleUnpark(c)
  <2>1. /\ UNCHANGED <<seq, vals, tail, head, log, sent>>
        /\ \A u \in Threads : u # c => pc'[u] = pc[u] /\ pos'[u] = pos[u]
        /\ pc'[c] \in {"loadavail", "unpark", "reclosed", "retry", "eof"}
    BY <1>0, <1>4, GotoMoves, RegMoves DEF SolePark, SoleRecheckItem, SoleUnpark
  <2> QED BY <1>1, <2>1, QuietStep DEF Held, Lone, OneConsumer, At
<1>5. CASE \/ CallRecv(c) \/ CheckClosed(c) \/ LoadAvail(c) \/ RecheckClosed(c) \/ WaitAvail(c)
           \/ Release(c, "punblock")
  <2>1. RingInv' /\ UNCHANGED <<tail, log, sent>>
    BY <1>5, MultiRecvStep DEF MultiRecv
  <2>2. pc'[c] # "ready"
    <3>1. CASE WakeProducer(c, "punblock")
      BY <1>0, <3>1 DEF WakeProducer, WakeOne, Goto, Sleeping, At
    <3>2. CASE CallRecv(c) \/ CheckClosed(c) \/ LoadAvail(c) \/ RecheckClosed(c) \/ WaitAvail(c)
      BY <1>0, <3>2, GotoMoves DEF CallRecv, CheckClosed, LoadAvail, RecheckClosed, WaitAvail
    <3>3. CASE Read(c) \/ Free(c) \/ AnyProducerWaiting(c) \/ BumpSpace(c)
      BY <1>0, <3>3, GotoMoves DEF Read, Free, AnyProducerWaiting, BumpSpace
    <3> QED BY <1>5, <3>1, <3>2, <3>3 DEF Release
  <2> QED BY <2>1, <2>2 DEF Lone, OneConsumer, At
<1> QED BY <1>2, <1>3, <1>4, <1>5 DEF CountedRecv, CountedCall, SoleRecv

LEMMA SendKeepsLone ==
    ASSUME RingInv, Lone, NEW p \in Producers, MultiSend(p)
    PROVE Lone'
<1>1. Moves(p, "csleep", "unpark") /\ head' = head
  BY MultiSendMoves DEF RingInv, MultiSendEffect
<1> QED BY <1>1 DEF Moves, Lone, At, Threads

LEMMA MpscInvStep ==
    ASSUME OneConsumer
    PROVE RingInv /\ Dense /\ Lone /\ [MpscNext]_vars => RingInv' /\ Dense' /\ Lone'
<1> SUFFICES ASSUME RingInv, Dense, Lone, [MpscNext]_vars PROVE RingInv' /\ Dense' /\ Lone'
  OBVIOUS
<1>1. CASE \E p \in Producers : MultiSend(p)
  BY <1>1, MultiSendStep, SendKeepsLone
<1>2. CASE \E c \in Consumers : CountedRecv(c)
  BY <1>2, SoleRecvStep DEF Dense
<1>3. CASE UNCHANGED vars
  <2>1. Lone'
    BY <1>3 DEF Lone, At, vars, ring, regs
  <2> QED BY <1>3, <2>1, StutterType, CloseStep DEF RingInv
<1> QED BY <1>1, <1>2, <1>3 DEF MpscNext, Counted

\* The invariant of ring_mpsc.asm.
THEOREM MpscInvariant == ASSUME OneConsumer PROVE MpscSpec => [](RingInv /\ Dense /\ Lone)
<1>1. Init => Dense /\ Lone
  BY DEF Init, Dense, Lone, At, Threads
<1> QED BY <1>1, InitInv, MpscInvStep, PTL DEF MpscSpec

----------------------------------------------------------------------------
\* A producer never reads a slot's value and a consumer never writes one.
Roles == /\ \A p \in Producers : ~Reading(p)
         /\ \A c \in Consumers : ~Writing(c)

LEMMA RolesSend ==
    ASSUME TypeOK, Roles, NEW p \in Producers, MultiSend(p) \/ SoleSend(p) PROVE Roles'
<1>1. \A c \in Consumers : c # p
  OBVIOUS
<1>2. Moves(p, "csleep", "unpark") /\ pc'[p] \notin {"read", "free"}
  BY MultiSendMoves, SoleSendMoves DEF MultiSendFlow, SoleSendFlow
<1> QED BY <1>1, <1>2 DEF Roles, Reading, Writing, Moves, Threads

LEMMA RolesRecv ==
    ASSUME TypeOK, Roles, NEW c \in Consumers, MpmcRecv(c) \/ SpmcRecv(c) \/ CountedRecv(c)
    PROVE Roles'
<1>1. \A p \in Producers : c # p
  OBVIOUS
<1>2. /\ pc'[c] \notin {"write", "publish"}
      /\ Moves(c, "psleep", "punblock") \/ Moves(c, "psleep", "pwoken")
  <2>1. CASE CountedRecv(c)
    BY <2>1, SoleRecvMoves DEF SoleRecvFlow
  <2>2. CASE MpmcRecv(c) \/ SpmcRecv(c)
    BY <2>2, MultiRecvMoves DEF MpmcRecv, SpmcRecv, MultiRecvFlow
  <2> QED BY <2>1, <2>2
<1> QED BY <1>1, <1>2 DEF Roles, Reading, Writing, Moves, Threads

LEMMA RolesOther ==
    ASSUME TypeOK, Roles, Close \/ UNCHANGED vars PROVE Roles'
<1>1. CASE Close
  BY <1>1 DEF Close, SetClosed, CloseBump, CloseWakeAll, Roles, Reading, Writing, Threads
<1>2. CASE UNCHANGED vars
  BY <1>2 DEF vars, Roles, Reading, Writing
<1> QED BY <1>1, <1>2

LEMMA InitRoles == Init => Roles
  BY DEF Init, Roles, Reading, Writing, Threads

\* Who reads and who writes the slots of ring_mpmc.asm.
THEOREM MpmcRoles == MpmcSpec => []Roles
<1>1. TypeOK /\ Roles /\ [MpmcNext]_vars => Roles'
  BY RolesSend, RolesRecv, RolesOther DEF MpmcNext, Ended
<1> QED BY <1>1, InitRoles, MpmcTypes, PTL DEF MpmcSpec

\* The same of ring_spmc.asm,
THEOREM SpmcRoles == SpmcSpec => []Roles
<1>1. TypeOK /\ Roles /\ [SpmcNext]_vars => Roles'
  BY RolesSend, RolesRecv, RolesOther DEF SpmcNext, Ended
<1> QED BY <1>1, InitRoles, SpmcTypes, PTL DEF SpmcSpec

\* and of ring_mpsc.asm.
THEOREM MpscRoles == MpscSpec => []Roles
<1>1. TypeOK /\ Roles /\ [MpscNext]_vars => Roles'
  BY RolesSend, RolesRecv, RolesOther DEF MpscNext, Counted
<1> QED BY <1>1, InitRoles, MpscTypes, PTL DEF MpscSpec

LEMMA RingInvExclusive == RingInv /\ Roles => SlotExclusive
<1> SUFFICES ASSUME RingInv, Roles, NEW t \in Accessing, NEW u \in Accessing, t # u
             PROVE Slot(pos[t]) # Slot(pos[u])
  BY DEF SlotExclusive
<1>1. \A v \in Accessing : \/ v \in Producers /\ Writing(v)
                           \/ v \in Consumers /\ Reading(v)
  BY DEF Accessing, Threads, Roles
<1> QED BY <1>1, WritersApart, ReadersApart, WriterNotReader

LEMMA RingInvReads == RingInv => ReadsItsItem
<1> SUFFICES ASSUME RingInv, NEW c \in Consumers, At(c, "read")
             PROVE vals[Slot(pos[c])] = log[pos[c] + 1]
  BY DEF ReadsItsItem
<1>1. seq[Slot(pos[c])] = pos[c] + 1
  BY DEF RingInv, Readers, Reading, At
<1>2. pos[c] \in Nat
  BY DEF RingInv, TypeOK, Threads
<1> QED BY <1>1, <1>2 DEF RingInv, Full

\* No two threads are ever in one slot of ring_mpmc.asm.
THEOREM MpmcExclusive == MpmcSpec => []SlotExclusive
  BY MpmcInvariant, MpmcRoles, RingInvExclusive, PTL

\* What mpmc_recv returns is the item of the position it claimed.
THEOREM MpmcReads == MpmcSpec => []ReadsItsItem
  BY MpmcInvariant, RingInvReads, PTL

\* No two threads are ever in one slot of ring_spmc.asm.
THEOREM SpmcExclusive == ASSUME OneProducer PROVE SpmcSpec => []SlotExclusive
  BY SpmcInvariant, SpmcRoles, RingInvExclusive, PTL

\* What spmc_recv returns is the item of the position it claimed.
THEOREM SpmcReads == ASSUME OneProducer PROVE SpmcSpec => []ReadsItsItem
  BY SpmcInvariant, RingInvReads, PTL

\* No two threads are ever in one slot of ring_mpsc.asm.
THEOREM MpscExclusive == ASSUME OneConsumer PROVE MpscSpec => []SlotExclusive
  BY MpscInvariant, MpscRoles, RingInvExclusive, PTL

\* What mpsc_recv returns is the item of the position it read.
THEOREM MpscReads == ASSUME OneConsumer PROVE MpscSpec => []ReadsItsItem
  BY MpscInvariant, RingInvReads, PTL

----------------------------------------------------------------------------
\* The announced waiters.  Where there are several threads the count goes up
\* and down by one, and where there is one it is stored; either way it is the
\* number of threads between announcing and retracting.
Parked == {"loadavail", "rehead", "recheck", "reclosed", "cwait", "csleep", "unpark", "eof_unpark"}
Blocked == {"loadspace", "retail", "recheck", "pwait", "psleep", "pwoken", "punblock"}

LEMMA CountSame ==
    ASSUME NEW S, NEW B, \A t \in S : pc'[t] \in B <=> pc[t] \in B
    PROVE Announced(S, B)' = Announced(S, B)
  BY DEF Announced

LEMMA CountMore ==
    ASSUME NEW S, NEW B, NEW x \in S, IsFiniteSet(S), pc[x] \notin B, pc'[x] \in B,
           \A t \in S : t # x => (pc'[t] \in B <=> pc[t] \in B)
    PROVE Announced(S, B)' = Announced(S, B) + 1
<1> DEFINE W == {t \in S : pc[t] \in B}
<1>1. IsFiniteSet(W) /\ x \notin W
  BY FS_Subset
<1>2. {t \in S : pc'[t] \in B} = W \cup {x}
  OBVIOUS
<1> QED BY <1>1, <1>2, FS_AddElement DEF Announced

LEMMA CountLess ==
    ASSUME NEW S, NEW B, NEW x \in S, IsFiniteSet(S), pc[x] \in B, pc'[x] \notin B,
           \A t \in S : t # x => (pc'[t] \in B <=> pc[t] \in B)
    PROVE Announced(S, B)' = Announced(S, B) - 1
<1> DEFINE W == {t \in S : pc[t] \in B}
<1>1. IsFiniteSet(W) /\ x \in W
  BY FS_Subset
<1>2. {t \in S : pc'[t] \in B} = W \ {x}
  OBVIOUS
<1> QED BY <1>1, <1>2, FS_RemoveElement DEF Announced

LEMMA CountOne ==
    ASSUME NEW S, NEW B, NEW x \in S, \A t \in S : t = x
    PROVE /\ Announced(S, B) = IF pc[x] \in B THEN 1 ELSE 0
          /\ Announced(S, B)' = IF pc'[x] \in B THEN 1 ELSE 0
<1>1. Announced(S, B) = IF pc[x] \in B THEN 1 ELSE 0
  <2>1. {t \in S : pc[t] \in B} = IF pc[x] \in B THEN {x} ELSE {}
    OBVIOUS
  <2> QED BY <2>1, FS_Singleton, FS_EmptySet DEF Announced
<1>2. Announced(S, B)' = IF pc'[x] \in B THEN 1 ELSE 0
  <2>1. {t \in S : pc'[t] \in B} = IF pc'[x] \in B THEN {x} ELSE {}
    OBVIOUS
  <2> QED BY <2>1, FS_Singleton, FS_EmptySet DEF Announced
<1> QED BY <1>1, <1>2

\* A step of a producer leaves the consumers' count alone, and the reverse.
LEMMA SendCounts ==
    ASSUME NEW p \in Producers, Moves(p, "csleep", "unpark")
    PROVE /\ Announced(Consumers, Parked)' = Announced(Consumers, Parked)
          /\ \A t \in Producers : t # p => (pc'[t] \in Blocked <=> pc[t] \in Blocked)
<1>1. \A c \in Consumers : pc'[c] \in Parked <=> pc[c] \in Parked
  BY DEF Moves, Parked, Threads
<1>2. \A t \in Producers : t # p => (pc'[t] \in Blocked <=> pc[t] \in Blocked)
  BY DEF Moves, Blocked, Threads
<1> QED BY <1>1, <1>2, CountSame

LEMMA RecvCounts ==
    ASSUME NEW c \in Consumers, NEW awake \in {"punblock", "pwoken"}, Moves(c, "psleep", awake)
    PROVE /\ Announced(Producers, Blocked)' = Announced(Producers, Blocked)
          /\ \A t \in Consumers : t # c => (pc'[t] \in Parked <=> pc[t] \in Parked)
<1>1. \A p \in Producers : pc'[p] \in Blocked <=> pc[p] \in Blocked
  BY DEF Moves, Blocked, Threads
<1>2. \A t \in Consumers : t # c => (pc'[t] \in Parked <=> pc[t] \in Parked)
  BY DEF Moves, Parked, Threads
<1> QED BY <1>1, <1>2, CountSame

Waiters == cw = Announced(Consumers, Parked) /\ pw = Announced(Producers, Blocked)

LEMMA WaitersMultiSend ==
    ASSUME TypeOK, Waiters, NEW p \in Producers, MultiSend(p)
    PROVE Waiters'
<1>1. /\ MultiSendFlow(pc[p], pc'[p]) /\ MultiSendEffect(p)
      /\ Announced(Consumers, Parked)' = Announced(Consumers, Parked)
      /\ \A t \in Producers : t # p => (pc'[t] \in Blocked <=> pc[t] \in Blocked)
  BY MultiSendMoves, SendCounts
<1>2. CASE pc[p] = "pblock"
  <2>1. pc[p] \notin Blocked /\ pc'[p] \in Blocked
    BY <1>1, <1>2 DEF MultiSendFlow, Blocked
  <2> QED BY <1>1, <1>2, <2>1, CountMore DEF MultiSendEffect, Waiters
<1>3. CASE pc[p] = "punblock"
  <2>1. pc[p] \in Blocked /\ pc'[p] \notin Blocked
    BY <1>1, <1>3 DEF MultiSendFlow, Blocked
  <2> QED BY <1>1, <1>3, <2>1, CountLess DEF MultiSendEffect, Waiters
<1>4. CASE pc[p] \notin {"pblock", "punblock"}
  <2>1. pc'[p] \in Blocked <=> pc[p] \in Blocked
    BY <1>1, <1>4 DEF MultiSendFlow, Blocked
  <2>2. Announced(Producers, Blocked)' = Announced(Producers, Blocked)
    BY <1>1, <2>1, CountSame
  <2> QED BY <1>1, <1>4, <2>2 DEF MultiSendEffect, Waiters
<1> QED BY <1>2, <1>3, <1>4

LEMMA WaitersMultiRecv ==
    ASSUME TypeOK, Waiters, NEW c \in Consumers, MpmcRecv(c) \/ SpmcRecv(c)
    PROVE Waiters'
<1>1. /\ MultiRecvFlow(pc[c], pc'[c]) /\ MultiRecvEffect(c) /\ pw' = pw
      /\ Announced(Producers, Blocked)' = Announced(Producers, Blocked)
      /\ \A t \in Consumers : t # c => (pc'[t] \in Parked <=> pc[t] \in Parked)
  BY MultiRecvMoves, RecvCounts DEF MpmcRecv, SpmcRecv, MultiRecvEffect, RecvEffect
<1>2. CASE pc[c] = "park"
  <2>1. pc[c] \notin Parked /\ pc'[c] \in Parked
    BY <1>1, <1>2 DEF MultiRecvFlow, Parked
  <2> QED BY <1>1, <1>2, <2>1, CountMore DEF MultiRecvEffect, Waiters
<1>3. CASE pc[c] \in {"unpark", "eof_unpark"}
  <2>1. pc[c] \in Parked /\ pc'[c] \notin Parked
    BY <1>1, <1>3 DEF MultiRecvFlow, Parked
  <2> QED BY <1>1, <1>3, <2>1, CountLess DEF MultiRecvEffect, Waiters
<1>4. CASE pc[c] \notin {"park", "unpark", "eof_unpark"}
  <2>1. pc'[c] \in Parked <=> pc[c] \in Parked
    BY <1>1, <1>4 DEF MultiRecvFlow, Parked
  <2>2. Announced(Consumers, Parked)' = Announced(Consumers, Parked)
    BY <1>1, <2>1, CountSame
  <2> QED BY <1>1, <1>4, <2>2 DEF MultiRecvEffect, Waiters
<1> QED BY <1>2, <1>3, <1>4

LEMMA WaitersSoleSend ==
    ASSUME TypeOK, OneProducer, Waiters, NEW p \in Producers, SoleSend(p)
    PROVE Waiters'
<1>1. /\ SoleSendFlow(pc[p], pc'[p]) /\ SoleSendEffect(p)
      /\ Announced(Consumers, Parked)' = Announced(Consumers, Parked)
  BY SoleSendMoves, SendCounts
<1>2. Announced(Producers, Blocked)' = IF pc'[p] \in Blocked THEN 1 ELSE 0
  BY CountOne DEF OneProducer
<1>3. pw = IF pc[p] \in Blocked THEN 1 ELSE 0
  BY CountOne DEF OneProducer, Waiters
<1>4. pw' = IF pc'[p] \in Blocked THEN 1 ELSE 0
  BY <1>1, <1>3 DEF SoleSendFlow, SoleSendEffect, Blocked
<1> QED BY <1>1, <1>2, <1>4 DEF SoleSendEffect, Waiters

LEMMA WaitersSoleRecv ==
    ASSUME TypeOK, OneConsumer, Waiters, NEW c \in Consumers, CountedRecv(c)
    PROVE Waiters'
<1>1. /\ SoleRecvFlow(pc[c], pc'[c]) /\ SoleRecvEffect(c) /\ pw' = pw
      /\ Announced(Producers, Blocked)' = Announced(Producers, Blocked)
  BY SoleRecvMoves, RecvCounts DEF SoleRecvEffect, RecvEffect
<1>2. Announced(Consumers, Parked)' = IF pc'[c] \in Parked THEN 1 ELSE 0
  BY CountOne DEF OneConsumer
<1>3. cw = IF pc[c] \in Parked THEN 1 ELSE 0
  BY CountOne DEF OneConsumer, Waiters
<1>4. cw' = IF pc'[c] \in Parked THEN 1 ELSE 0
  BY <1>1, <1>3 DEF SoleRecvFlow, SoleRecvEffect, Parked
<1> QED BY <1>1, <1>2, <1>4 DEF Waiters

LEMMA WaitersOther ==
    ASSUME Waiters, Close \/ UNCHANGED vars
    PROVE Waiters'
<1>1. /\ UNCHANGED <<cw, pw>>
      /\ \A t \in Threads : pc'[t] = pc[t] \/ (pc[t] = "csleep" /\ pc'[t] = "unpark")
  <2>1. UNCHANGED <<cw, pw>>
    BY DEF Close, SetClosed, CloseBump, CloseWakeAll, vars, waits
  <2> QED BY <2>1 DEF Close, SetClosed, CloseBump, CloseWakeAll, vars
<1>2. \A t \in Threads : /\ pc'[t] \in Parked <=> pc[t] \in Parked
                         /\ pc'[t] \in Blocked <=> pc[t] \in Blocked
  BY <1>1 DEF Parked, Blocked
<1>3. /\ Announced(Consumers, Parked)' = Announced(Consumers, Parked)
      /\ Announced(Producers, Blocked)' = Announced(Producers, Blocked)
  BY <1>2, CountSame DEF Threads
<1> QED BY <1>1, <1>3 DEF Waiters

LEMMA InitWaiters == Init => Waiters
<1> SUFFICES ASSUME Init PROVE Waiters
  OBVIOUS
<1>1. {t \in Consumers : pc[t] \in Parked} = {} /\ {t \in Producers : pc[t] \in Blocked} = {}
  BY DEF Init, Threads, Parked, Blocked
<1> QED BY <1>1, FS_EmptySet DEF Init, Waiters, Announced

LEMMA WaitersAreExact == Waiters => WaitersExact
  BY DEF Waiters, WaitersExact, Parked, Blocked

\* In ring_mpmc.asm CW and PW count the threads between announcing and
\* retracting: none is left behind, none is lost.
THEOREM MpmcWaiters == MpmcSpec => []WaitersExact
<1>1. TypeOK /\ Waiters /\ [MpmcNext]_vars => Waiters'
  BY WaitersMultiSend, WaitersMultiRecv, WaitersOther DEF MpmcNext, Ended
<1> QED BY <1>1, InitWaiters, WaitersAreExact, MpmcTypes, PTL DEF MpmcSpec

\* The same in ring_spmc.asm, where the producer stores its count,
THEOREM SpmcWaiters == ASSUME OneProducer PROVE SpmcSpec => []WaitersExact
<1>1. TypeOK /\ Waiters /\ [SpmcNext]_vars => Waiters'
  BY WaitersSoleSend, WaitersMultiRecv, WaitersOther DEF SpmcNext, Ended
<1> QED BY <1>1, InitWaiters, WaitersAreExact, SpmcTypes, PTL DEF SpmcSpec

\* and in ring_mpsc.asm, where the consumer stores its own.
THEOREM MpscWaiters == ASSUME OneConsumer PROVE MpscSpec => []WaitersExact
<1>1. TypeOK /\ Waiters /\ [MpscNext]_vars => Waiters'
  BY WaitersMultiSend, WaitersSoleRecv, WaitersOther DEF MpscNext, Counted
<1> QED BY <1>1, InitWaiters, WaitersAreExact, MpscTypes, PTL DEF MpscSpec

----------------------------------------------------------------------------
\* The queue's window of positions: head up to, not including, Len(log).
Window == /\ head <= Len(log) /\ Len(log) <= head + Cap
          /\ \A i \in head .. Len(log) - 1 : seq[Slot(i)] \in {i, i + 1}

\* No producer sends more than it has, and one inside send, its item not yet in
\* the history (the labels L), has one to send.
Quotas(L) == \A p \in Producers : /\ sent[p] <= Items
                                  /\ pc[p] \in L => sent[p] < Items

MultiSending == {"retry", "check", "claim", "pblock", "loadspace", "retail", "recheck", "pwait",
                 "psleep", "punblock"}
SoleSending == {"retry", "pblock", "loadspace", "retail", "pwait", "psleep", "pwoken"}

\* The items of the history are the producers' first ones, each once.
Numbered == \A i \in 1 .. Len(log) :
    /\ log[i][2] \in 1 .. sent[log[i][1]]
    /\ \A j \in 1 .. Len(log) : log[i] = log[j] => i = j

\* What was received was at a position head has passed.
Collected == \A c \in Consumers : \A k \in 1 .. Len(got[c]) :
    \E i \in 1 .. head : got[c][k] = log[i]

\* Closed, everything was sent and taken; only then is a consumer told.
Over == /\ closer = "open" <=> ~closed
        /\ closed => SendersDone /\ head = Len(log)
        /\ \A c \in Consumers : pc[c] \in {"eof_unpark", "eof"} => closed

ChannelInv(L) == Window /\ Quotas(L) /\ Numbered /\ Collected /\ Over

----------------------------------------------------------------------------
\* A lap later it is the same slot.
LEMMA SlotPeriod == ASSUME NEW i \in Nat PROVE Slot(i + Cap) = Slot(i)
<1> DEFINE q == i \div Cap  r == i % Cap
           u == (i + Cap) \div Cap  v == (i + Cap) % Cap
<1>1. i = Cap * q + r /\ q \in Int /\ r \in 0 .. Cap - 1
  BY DivMod DEF Slots
<1>2. i + Cap = Cap * u + v /\ u \in Int /\ v \in 0 .. Cap - 1
  BY DivMod DEF Slots
<1> HIDE DEF q, r, u, v
<1> DEFINE d == u - (q + 1)
<1>3. d \in Int /\ r - v = Cap * d
  <2>1. Cap * (u - (q + 1)) = Cap * u - Cap * (q + 1) /\ Cap * (q + 1) = Cap * q + Cap
    BY <1>1, <1>2
  <2> QED BY <1>1, <1>2, <2>1
<1>4. r \in Int /\ v \in Int /\ r - v < Cap /\ v - r < Cap
  BY <1>1, <1>2
<1> HIDE DEF d
<1>5. d >= 1 => Cap * d >= Cap
  BY <1>3
<1>6. d <= -1 => Cap * d <= -Cap
  BY <1>3
<1>7. d = 0
  BY <1>3, <1>4, <1>5, <1>6
<1>8. r = v
  BY <1>3, <1>4, <1>7
<1> QED BY <1>8 DEF r, v, Slot

\* Sending to the queue, and taking from it.
LEMMA AppendPointwise ==
    ASSUME NEW S, NEW q \in Seq(S), NEW a \in Seq(S), NEW x \in S, Len(a) = Len(q) + 1,
           a[Len(q) + 1] = x, \A i \in 1 .. Len(q) : a[i] = q[i]
    PROVE a = Append(q, x)
<1>1. /\ Append(q, x) \in Seq(S) /\ Len(Append(q, x)) = Len(q) + 1
      /\ Append(q, x)[Len(q) + 1] = x
      /\ \A i \in 1 .. Len(q) : Append(q, x)[i] = q[i]
  BY AppendProperties
<1>2. \A i \in 1 .. Len(a) : i \in 1 .. Len(q) \/ i = Len(q) + 1
  OBVIOUS
<1>3. \A i \in 1 .. Len(a) : a[i] = Append(q, x)[i]
  BY <1>1, <1>2
<1> QED BY <1>1, <1>3, SeqEqual

LEMMA QueueAppend ==
    ASSUME NEW S, NEW s \in Seq(S), NEW x \in S, NEW h \in 0 .. Len(s)
    PROVE SubSeq(Append(s, x), h + 1, Len(Append(s, x))) = Append(SubSeq(s, h + 1, Len(s)), x)
<1>1. /\ Append(s, x) \in Seq(S) /\ Len(Append(s, x)) = Len(s) + 1
      /\ Append(s, x)[Len(s) + 1] = x
      /\ \A i \in 1 .. Len(s) : Append(s, x)[i] = s[i]
      /\ Len(s) \in Nat /\ h \in Int
  BY AppendProperties
<1>2. /\ SubSeq(s, h + 1, Len(s)) \in Seq(S)
      /\ Len(SubSeq(s, h + 1, Len(s))) = Len(s) - h
      /\ \A i \in 1 .. Len(s) - h : SubSeq(s, h + 1, Len(s))[i] = s[h + i]
  <2>1. \A i \in h + 1 .. Len(s) : s[i] \in S
    BY <1>1
  <2> QED BY <1>1, <2>1, SubSeqProperties
<1>3. PICK a : a = SubSeq(Append(s, x), h + 1, Len(s) + 1)
  OBVIOUS
<1>4. /\ a \in Seq(S)
      /\ Len(a) = Len(s) - h + 1
      /\ \A i \in 1 .. Len(s) - h + 1 : a[i] = Append(s, x)[h + i]
  <2>1. \A i \in h + 1 .. Len(s) + 1 : Append(s, x)[i] \in S
    BY <1>1
  <2>2. h + 1 <= Len(s) + 1 /\ ((Len(s) + 1) - (h + 1)) + 1 = Len(s) - h + 1
    BY <1>1
  <2>3. \A i \in 1 .. Len(s) - h + 1 : ((h + 1) + i) - 1 = h + i
    BY <1>1
  <2>4. /\ a \in Seq(S)
        /\ Len(a) = ((Len(s) + 1) - (h + 1)) + 1
        /\ \A i \in 1 .. ((Len(s) + 1) - (h + 1)) + 1 : a[i] = Append(s, x)[((h + 1) + i) - 1]
    <3>1. h + 1 \in Int /\ Len(s) + 1 \in Int
      BY <1>1
    <3> QED BY <1>1, <1>3, <2>1, <2>2, <3>1, SubSeqProperties
  <2> QED BY <2>2, <2>3, <2>4
<1>5. a[Len(s) - h + 1] = x
  <2>1. Len(s) - h + 1 \in 1 .. Len(s) - h + 1 /\ h + (Len(s) - h + 1) = Len(s) + 1
    BY <1>1
  <2> QED BY <1>1, <1>4, <2>1
<1>6. \A i \in 1 .. Len(s) - h : a[i] = SubSeq(s, h + 1, Len(s))[i]
  <2> SUFFICES ASSUME NEW i \in 1 .. Len(s) - h PROVE a[i] = SubSeq(s, h + 1, Len(s))[i]
    OBVIOUS
  <2>1. i \in 1 .. Len(s) - h + 1 /\ h + i \in 1 .. Len(s)
    BY <1>1
  <2> QED BY <1>1, <1>2, <1>4, <2>1
<1>7. PICK q : q = SubSeq(s, h + 1, Len(s))
  OBVIOUS
<1>8. a = Append(q, x)
  <2>1. q \in Seq(S) /\ Len(q) = Len(s) - h
    BY <1>2, <1>7
  <2>2. a \in Seq(S) /\ Len(a) = Len(q) + 1 /\ a[Len(q) + 1] = x
    BY <1>4, <1>5, <2>1
  <2>3. \A i \in 1 .. Len(q) : a[i] = q[i]
    BY <1>6, <1>7, <2>1
  <2> QED BY <2>1, <2>2, <2>3, AppendPointwise
<1> QED BY <1>1, <1>3, <1>7, <1>8

LEMMA QueueTake ==
    ASSUME NEW S, NEW s \in Seq(S), NEW h \in Nat, h < Len(s)
    PROVE /\ SubSeq(s, h + 1, Len(s)) # <<>>
          /\ Head(SubSeq(s, h + 1, Len(s))) = s[h + 1]
          /\ Tail(SubSeq(s, h + 1, Len(s))) = SubSeq(s, h + 2, Len(s))
<1>1. h + 1 \in 1 .. Len(s) /\ Len(s) \in h + 1 .. Len(s)
  OBVIOUS
<1>2. Len(SubSeq(s, h + 1, Len(s))) = Len(s) - h
  BY <1>1
<1>3. /\ Head(SubSeq(s, h + 1, Len(s))) = s[h + 1]
      /\ Tail(SubSeq(s, h + 1, Len(s))) = SubSeq(s, (h + 1) + 1, Len(s))
  BY <1>1, HeadTailOfSubSeq
<1>4. (h + 1) + 1 = h + 2 /\ Len(s) - h # 0
  OBVIOUS
<1>5. SubSeq(s, h + 1, Len(s)) # <<>>
  BY <1>2, <1>4
<1> QED BY <1>3, <1>4, <1>5

----------------------------------------------------------------------------
\* What the queue sees of a step: an item put, a slot renumbered, or neither;
\* an item taken, one read, a slot given back, or none of it.

Puts(p) == Enter(p) /\ sent[p] < Items /\ seq[Slot(Len(log))] = Len(log)

SendShape(p, L) ==
    /\ UNCHANGED <<head, got, closed, closer>>
    /\ Moves(p, "csleep", "unpark")
    /\ pc[p] = "idle" => sent[p] < Items
    /\ \/ Puts(p) /\ pc'[p] \notin L /\ UNCHANGED seq
       \/ /\ UNCHANGED <<log, sent>>
          /\ pc'[p] \in L => sent[p] < Items
          /\ \/ UNCHANGED seq
             \/ Writing(p) /\ seq' = [seq EXCEPT ![Slot(pos[p])] = pos[p] + 1]

Takes(c) == /\ At(c, "ready") /\ pc'[c] = "read"
            /\ pos[c] = head /\ pos'[c] = head
            /\ head < Len(log) /\ head' = head + 1
            /\ UNCHANGED <<got, seq>>

Reads(c) == /\ At(c, "read") /\ pc'[c] # "read"
            /\ pos[c] < head
            /\ got' = [got EXCEPT ![c] = Append(@, log[pos[c] + 1])]
            /\ UNCHANGED <<head, seq>>

RecvShape(c, awake) ==
    /\ UNCHANGED <<log, sent, closed, closer>>
    /\ Moves(c, "psleep", awake)
    /\ pc[c] # "eof"
    /\ pc'[c] \in {"eof_unpark", "eof"} => closed \/ pc[c] = "eof_unpark"
    /\ \/ Takes(c)
       \/ Reads(c)
       \/ /\ pc[c] # "read" /\ pc'[c] # "read"
          /\ UNCHANGED <<head, got>>
          /\ \/ UNCHANGED seq
             \/ Reading(c) /\ seq' = [seq EXCEPT ![Slot(pos[c])] = pos[c] + Cap]

LEMMA ShapeTypes ==
    ASSUME TypeOK
    PROVE /\ head \in Nat /\ Len(log) \in Nat /\ seq \in [Slots -> Nat]
          /\ pc \in [Threads -> Labels] /\ pos \in [Threads -> Nat]
          /\ log \in Seq(Item) /\ sent \in [Producers -> Nat]
          /\ got \in [Consumers -> Seq(Item \cup {NoValue})]
          /\ Producers \subseteq Threads /\ Consumers \subseteq Threads
          /\ \A p \in Producers : p \notin Consumers
  BY DEF TypeOK, Threads

LEMMA MultiSendShape ==
    ASSUME RingInv, Dense, Quotas(MultiSending), NEW p \in Producers, MultiSend(p)
    PROVE SendShape(p, MultiSending)
<1>1. /\ Moves(p, "csleep", "unpark")
      /\ MultiSendFlow(pc[p], pc'[p]) /\ MultiSendEffect(p)
  BY MultiSendMoves DEF RingInv
<1>2. pc[p] \in MultiSending => sent[p] < Items
  BY DEF Quotas
<1>3. CASE pc'[p] = "write"
  <2>1. pc[p] = "claim"
    BY <1>1, <1>3 DEF MultiSendFlow
  <2>2. Enter(p) /\ pos[p] = Len(log) /\ UNCHANGED seq
    BY <1>1, <1>3, <2>1 DEF MultiSendEffect, Dense
  <2>3. seq[Slot(Len(log))] = Len(log)
    BY <2>1, <2>2 DEF RingInv, Claimers, At
  <2>4. sent[p] < Items /\ pc'[p] \notin MultiSending
    BY <1>2, <1>3, <2>1 DEF MultiSending
  <2> QED BY <1>1, <2>1, <2>2, <2>3, <2>4 DEF SendShape, Puts, MultiSendEffect
<1>4. CASE pc'[p] # "write"
  <2>1. UNCHANGED <<log, sent>>
    BY <1>1, <1>4 DEF MultiSendEffect
  <2>2. pc'[p] \in MultiSending => pc[p] \in MultiSending \/ pc[p] = "idle"
    BY <1>1, <1>4 DEF MultiSendFlow, MultiSending
  <2>3. \/ UNCHANGED seq
        \/ Writing(p) /\ seq' = [seq EXCEPT ![Slot(pos[p])] = pos[p] + 1]
    BY <1>1 DEF MultiSendEffect, Writing
  <2> QED BY <1>1, <1>2, <2>1, <2>2, <2>3 DEF SendShape, MultiSendEffect
<1> QED BY <1>3, <1>4

LEMMA SoleSendShape ==
    ASSUME RingInv, Owner, Quotas(SoleSending), NEW p \in Producers, SoleSend(p)
    PROVE SendShape(p, SoleSending)
<1>1. /\ Moves(p, "csleep", "unpark")
      /\ SoleSendFlow(pc[p], pc'[p]) /\ SoleSendEffect(p)
  BY SoleSendMoves DEF RingInv
<1>2. pc[p] \in SoleSending => sent[p] < Items
  BY DEF Quotas
<1>3. CASE pc[p] \in {"retry", "retail"} /\ pc'[p] \in {"write", "punblock"}
  <2>1. Enter(p) /\ seq[Slot(tail)] = tail /\ UNCHANGED seq
    BY <1>1, <1>3 DEF SoleSendEffect
  <2>2. tail = Len(log)
    BY <1>3 DEF Owner, Owning
  <2>3. sent[p] < Items /\ pc'[p] \notin SoleSending
    BY <1>2, <1>3 DEF SoleSending
  <2> QED BY <1>1, <1>3, <2>1, <2>2, <2>3 DEF SendShape, Puts, SoleSendEffect
<1>4. CASE ~(pc[p] \in {"retry", "retail"} /\ pc'[p] \in {"write", "punblock"})
  <2>1. UNCHANGED <<log, sent>>
    BY <1>1, <1>4 DEF SoleSendEffect
  <2>2. pc'[p] \in SoleSending => pc[p] \in SoleSending \/ pc[p] = "idle"
    BY <1>1, <1>4 DEF SoleSendFlow, SoleSending
  <2>3. \/ UNCHANGED seq
        \/ Writing(p) /\ seq' = [seq EXCEPT ![Slot(pos[p])] = pos[p] + 1]
    BY <1>1 DEF SoleSendEffect, Writing
  <2> QED BY <1>1, <1>2, <2>1, <2>2, <2>3 DEF SendShape, SoleSendEffect
<1> QED BY <1>3, <1>4

\* A consumer that takes found the item of head's position.
LEMMA TakesFull ==
    ASSUME RingInv, NEW c \in Consumers, At(c, "ready"), pos[c] = head
    PROVE head < Len(log)
<1>1. seq[Slot(head)] = head + 1 /\ head \in Nat
  BY ShapeTypes DEF RingInv, Takers
<1> QED BY <1>1 DEF RingInv, Full

LEMMA MultiRecvShape ==
    ASSUME RingInv, NEW c \in Consumers, NEW awake \in {"punblock", "pwoken"},
           CheckItem(c) \/ CheckReady(c) \/ CheckEmpty(c) \/ MultiRecv(c, awake)
    PROVE RecvShape(c, awake)
<1>1. /\ Moves(c, "psleep", awake)
      /\ MultiRecvFlow(pc[c], pc'[c]) /\ MultiRecvEffect(c) /\ RecvEffect(c)
  BY MultiRecvMoves DEF RingInv, MultiRecvEffect
<1>2. pc[c] # "eof"
  BY <1>1 DEF MultiRecvFlow
<1>3. pc'[c] \in {"eof_unpark", "eof"} => closed \/ pc[c] = "eof_unpark"
  BY <1>1 DEF MultiRecvFlow, RecvEffect
<1>4. CASE pc'[c] = "read"
  <2>1. pc[c] = "ready"
    BY <1>1, <1>4 DEF MultiRecvFlow
  <2>2. head = pos[c] /\ head' = head + 1 /\ pos'[c] = pos[c] /\ UNCHANGED <<got, seq>>
    BY <1>1, <1>4, <2>1 DEF MultiRecvEffect, RecvEffect
  <2>3. head < Len(log)
    BY <2>1, <2>2, TakesFull DEF At
  <2>4. Takes(c)
    BY <1>4, <2>1, <2>2, <2>3 DEF Takes, At
  <2> QED BY <1>1, <1>2, <1>3, <2>4 DEF RecvShape, RecvEffect
<1>5. CASE pc[c] = "read"
  <2>1. vals[Slot(pos[c])] = log[pos[c] + 1]
    BY <1>5, RingInvReads DEF ReadsItsItem, At
  <2>2. pos[c] < head
    BY <1>5 DEF RingInv, Readers, Reading
  <2>3. pc'[c] # "read" /\ UNCHANGED head
    BY <1>1, <1>5 DEF MultiRecvFlow, MultiRecvEffect
  <2>4. Reads(c)
    BY <1>1, <1>5, <2>1, <2>2, <2>3 DEF Reads, At, RecvEffect
  <2> QED BY <1>1, <1>2, <1>3, <2>4 DEF RecvShape, RecvEffect
<1>6. CASE pc[c] # "read" /\ pc'[c] # "read"
  <2>1. UNCHANGED <<head, got>>
    BY <1>1, <1>6 DEF MultiRecvEffect, RecvEffect
  <2>2. \/ UNCHANGED seq
        \/ Reading(c) /\ seq' = [seq EXCEPT ![Slot(pos[c])] = pos[c] + Cap]
    BY <1>1 DEF RecvEffect, Reading
  <2> QED BY <1>1, <1>2, <1>3, <1>6, <2>1, <2>2 DEF RecvShape, RecvEffect
<1> QED BY <1>4, <1>5, <1>6

LEMMA SoleRecvShape ==
    ASSUME RingInv, Lone, NEW c \in Consumers, CountedRecv(c)
    PROVE RecvShape(c, "punblock")
<1>1. /\ Moves(c, "psleep", "punblock")
      /\ SoleRecvFlow(pc[c], pc'[c]) /\ SoleRecvEffect(c) /\ RecvEffect(c)
  BY SoleRecvMoves DEF RingInv, SoleRecvEffect
<1>2. pc[c] # "eof"
  BY <1>1 DEF SoleRecvFlow
<1>3. pc'[c] \in {"eof_unpark", "eof"} => closed \/ pc[c] = "eof_unpark"
  BY <1>1 DEF SoleRecvFlow, RecvEffect
<1>4. CASE pc'[c] = "read"
  <2>1. pc[c] = "ready" /\ pos[c] = head
    BY <1>1, <1>4 DEF SoleRecvFlow, Lone, At
  <2>2. head' = head + 1 /\ pos'[c] = pos[c] /\ UNCHANGED <<got, seq>>
    BY <1>1, <1>4, <2>1 DEF SoleRecvEffect, RecvEffect
  <2>3. head < Len(log)
    BY <2>1, <2>2, TakesFull DEF At
  <2>4. Takes(c)
    BY <1>4, <2>1, <2>2, <2>3 DEF Takes, At
  <2> QED BY <1>1, <1>2, <1>3, <2>4 DEF RecvShape, RecvEffect
<1>5. CASE pc[c] = "read"
  <2>1. vals[Slot(pos[c])] = log[pos[c] + 1]
    BY <1>5, RingInvReads DEF ReadsItsItem, At
  <2>2. pos[c] < head
    BY <1>5 DEF RingInv, Readers, Reading
  <2>3. pc'[c] # "read" /\ UNCHANGED head
    BY <1>1, <1>5 DEF SoleRecvFlow, SoleRecvEffect
  <2>4. Reads(c)
    BY <1>1, <1>5, <2>1, <2>2, <2>3 DEF Reads, At, RecvEffect
  <2> QED BY <1>1, <1>2, <1>3, <2>4 DEF RecvShape, RecvEffect
<1>6. CASE pc[c] # "read" /\ pc'[c] # "read"
  <2>1. UNCHANGED <<head, got>>
    BY <1>1, <1>6 DEF SoleRecvEffect, RecvEffect
  <2>2. \/ UNCHANGED seq
        \/ Reading(c) /\ seq' = [seq EXCEPT ![Slot(pos[c])] = pos[c] + Cap]
    BY <1>1 DEF RecvEffect, Reading
  <2> QED BY <1>1, <1>2, <1>3, <1>6, <2>1, <2>2 DEF RecvShape, RecvEffect
<1> QED BY <1>4, <1>5, <1>6

----------------------------------------------------------------------------
\* The window keeps its shape.

LEMMA SlotWriteApart ==
    ASSUME Window, TypeOK, NEW i \in head .. Len(log) - 1, NEW j \in Nat,
           seq[Slot(j)] \in {j, j + 1}, Slot(i) = Slot(j)
    PROVE i = j
<1>1. i \in Nat /\ seq[Slot(i)] \in {i, i + 1} /\ seq[Slot(i)] = seq[Slot(j)]
  BY ShapeTypes DEF Window
<1>2. i = j + 1 => Slot(i) # Slot(j)
  BY <1>1, NextSlotDiffers
<1>3. j = i + 1 => Slot(i) # Slot(j)
  BY <1>1, NextSlotDiffers
<1> QED BY <1>1, <1>2, <1>3

LEMMA WindowSend ==
    ASSUME RingInv, Window, NEW p \in Producers, NEW L, SendShape(p, L)
    PROVE Window'
<1>1. TypeOK /\ head' = head /\ head \in Nat /\ Len(log) \in Nat /\ log \in Seq(Item)
  BY ShapeTypes DEF RingInv, SendShape
<1>2. CASE Puts(p) /\ UNCHANGED seq
  <2>1. Len(log') = Len(log) + 1 /\ seq[Slot(Len(log))] = Len(log)
    BY <1>1, <1>2 DEF Puts, Enter
  <2>2. Len(log) # head + Cap
    <3> SUFFICES ASSUME Len(log) = head + Cap PROVE FALSE
      OBVIOUS
    <3>1. head \in head .. Len(log) - 1
      BY <1>1
    <3>2. seq[Slot(head)] \in {head, head + 1}
      BY <3>1 DEF Window
    <3>3. Slot(head + Cap) = Slot(head)
      BY <1>1, SlotPeriod
    <3>4. seq[Slot(head)] = head + Cap
      BY <2>1, <3>3
    <3> QED BY <1>1, <3>2, <3>4
  <2>3. head <= Len(log') /\ Len(log') <= head + Cap
    BY <1>1, <2>1, <2>2 DEF Window
  <2>4. \A i \in head .. Len(log') - 1 : i \in head .. Len(log) - 1 \/ i = Len(log)
    BY <1>1, <2>1
  <2>5. \A i \in head .. Len(log') - 1 : seq'[Slot(i)] \in {i, i + 1}
    BY <1>2, <2>1, <2>4 DEF Window
  <2> QED BY <1>1, <2>3, <2>5 DEF Window
<1>3. CASE UNCHANGED <<log, seq>>
  BY <1>1, <1>3 DEF Window
<1>4. CASE UNCHANGED log /\ Writing(p) /\ seq' = [seq EXCEPT ![Slot(pos[p])] = pos[p] + 1]
  <2>1. pos[p] \in Nat /\ Slot(pos[p]) \in Slots /\ seq[Slot(pos[p])] = pos[p]
    BY <1>1, <1>4, ShapeTypes, PosType DEF RingInv, Writers
  <2>2. \A i \in head .. Len(log) - 1 : seq'[Slot(i)] \in {i, i + 1}
    <3> SUFFICES ASSUME NEW i \in head .. Len(log) - 1 PROVE seq'[Slot(i)] \in {i, i + 1}
      OBVIOUS
    <3>1. CASE Slot(i) = Slot(pos[p])
      <4>1. i = pos[p]
        BY <1>1, <2>1, <3>1, SlotWriteApart
      <4> QED BY <1>1, <1>4, <2>1, <4>1, ShapeTypes
    <3>2. CASE Slot(i) # Slot(pos[p])
      <4>1. seq'[Slot(i)] = seq[Slot(i)]
        BY <1>1, <1>4, <2>1, <3>2, ShapeTypes
      <4> QED BY <4>1 DEF Window
    <3> QED BY <3>1, <3>2
  <2> QED BY <1>1, <1>4, <2>2 DEF Window
<1> QED BY <1>2, <1>3, <1>4 DEF SendShape

LEMMA WindowRecv ==
    ASSUME RingInv, Window, NEW c \in Consumers, NEW awake, RecvShape(c, awake)
    PROVE Window'
<1>1. TypeOK /\ log' = log /\ head \in Nat /\ Len(log) \in Nat
  BY ShapeTypes DEF RingInv, RecvShape
<1>2. CASE Takes(c)
  BY <1>1, <1>2 DEF Window, Takes
<1>3. CASE UNCHANGED <<head, seq>>
  BY <1>1, <1>3 DEF Window
<1>4. CASE UNCHANGED head /\ Reading(c) /\ seq' = [seq EXCEPT ![Slot(pos[c])] = pos[c] + Cap]
  <2>1. /\ pos[c] \in Nat /\ Slot(pos[c]) \in Slots /\ seq[Slot(pos[c])] = pos[c] + 1
        /\ pos[c] < head
    BY <1>1, <1>4, ShapeTypes, PosType DEF RingInv, Readers
  <2>2. \A i \in head .. Len(log) - 1 : seq'[Slot(i)] \in {i, i + 1}
    <3> SUFFICES ASSUME NEW i \in head .. Len(log) - 1 PROVE seq'[Slot(i)] \in {i, i + 1}
      OBVIOUS
    <3>1. Slot(i) # Slot(pos[c])
      <4>1. i # pos[c]
        BY <1>1, <2>1
      <4> QED BY <1>1, <2>1, <4>1, SlotWriteApart
    <3>2. seq'[Slot(i)] = seq[Slot(i)]
      BY <1>1, <1>4, <2>1, <3>1, ShapeTypes
    <3> QED BY <3>2 DEF Window
  <2> QED BY <1>1, <1>4, <2>2 DEF Window
<1> QED BY <1>2, <1>3, <1>4 DEF RecvShape, Reads

\* The quotas: only the producer itself changes its count.
LEMMA QuotasSend ==
    ASSUME TypeOK, NEW L, "unpark" \notin L, Quotas(L), NEW p \in Producers, SendShape(p, L)
    PROVE Quotas(L)'
<1>1. /\ p \in Threads /\ Producers \subseteq Threads /\ sent \in [Producers -> Nat]
  BY ShapeTypes
<1> SUFFICES ASSUME NEW q \in Producers
             PROVE sent'[q] <= Items /\ (pc'[q] \in L => sent'[q] < Items)
  BY DEF Quotas
<1>2. sent[q] <= Items /\ sent[q] \in Nat /\ (pc[q] \in L => sent[q] < Items)
  BY <1>1 DEF Quotas
<1>3. CASE q = p
  <2>1. CASE Puts(p) /\ pc'[p] \notin L
    BY <1>1, <1>2, <1>3, <2>1 DEF Puts, Enter
  <2>2. CASE UNCHANGED sent /\ (pc'[p] \in L => sent[p] < Items)
    BY <1>2, <1>3, <2>2
  <2> QED BY <2>1, <2>2 DEF SendShape
<1>4. CASE q # p
  <2>1. sent'[q] = sent[q]
    BY <1>1, <1>4 DEF SendShape, Puts, Enter
  <2>2. pc'[q] \in L => pc[q] \in L
    BY <1>1, <1>4 DEF SendShape, Moves
  <2> QED BY <1>2, <2>1, <2>2
<1> QED BY <1>3, <1>4

LEMMA QuotasRecv ==
    ASSUME TypeOK, NEW L, NEW awake, "psleep" \in L, awake \in L, Quotas(L),
           NEW c \in Consumers, RecvShape(c, awake)
    PROVE Quotas(L)'
<1>1. /\ Producers \subseteq Threads /\ sent' = sent
      /\ \A q \in Producers : q # c
  BY ShapeTypes DEF RecvShape
<1>2. \A q \in Producers : pc'[q] \in L => pc[q] \in L
  BY <1>1 DEF RecvShape, Moves
<1> QED BY <1>1, <1>2 DEF Quotas

\* The history's numbering.
LEMMA NumberedSend ==
    ASSUME TypeOK, Numbered, NEW p \in Producers, NEW L, SendShape(p, L)
    PROVE Numbered'
<1>1. log \in Seq(Item) /\ Len(log) \in Nat /\ sent \in [Producers -> Nat]
  BY ShapeTypes
<1>2. CASE UNCHANGED <<log, sent>>
  BY <1>2 DEF Numbered
<1>3. CASE Puts(p)
  <2>1. /\ log' = Append(log, <<p, sent[p] + 1>>)
        /\ sent' = [sent EXCEPT ![p] = sent[p] + 1]
    BY <1>1, <1>3 DEF Puts, Enter
  <2>2. /\ Len(log') = Len(log) + 1 /\ log'[Len(log) + 1] = <<p, sent[p] + 1>>
        /\ \A i \in 1 .. Len(log) : log'[i] = log[i]
    BY <1>1, <2>1
  <2>3. \A i \in 1 .. Len(log') : i \in 1 .. Len(log) \/ i = Len(log) + 1
    BY <1>1, <2>2
  <2>4. /\ sent'[p] = sent[p] + 1 /\ sent[p] \in Nat
        /\ \A q \in Producers : q # p => sent'[q] = sent[q]
    BY <1>1, <2>1
  <2>5. \A i \in 1 .. Len(log) : log[i][1] \in Producers /\ log[i][2] \in 1 .. sent[log[i][1]]
    BY <1>1 DEF Numbered, Item
  <2>6. \A i \in 1 .. Len(log') : log'[i][2] \in 1 .. sent'[log'[i][1]]
    <3> SUFFICES ASSUME NEW i \in 1 .. Len(log') PROVE log'[i][2] \in 1 .. sent'[log'[i][1]]
      OBVIOUS
    <3>1. CASE i = Len(log) + 1
      <4>1. log'[i][1] = p /\ log'[i][2] = sent[p] + 1
        BY <2>2, <3>1
      <4> QED BY <2>4, <4>1
    <3>2. CASE i \in 1 .. Len(log)
      <4>1. log'[i] = log[i] /\ log[i][1] \in Producers /\ log[i][2] \in 1 .. sent[log[i][1]]
        BY <2>2, <2>5, <3>2
      <4>2. sent[log[i][1]] \in Nat /\ sent[log[i][1]] <= sent'[log[i][1]]
            /\ sent'[log[i][1]] \in Nat
        BY <1>1, <2>4, <4>1
      <4> QED BY <4>1, <4>2
    <3> QED BY <2>3, <3>1, <3>2
  <2>7. \A i \in 1 .. Len(log) : log[i] # <<p, sent[p] + 1>>
    BY <2>4, <2>5
  <2>8. \A i, j \in 1 .. Len(log') : log'[i] = log'[j] => i = j
    <3> SUFFICES ASSUME NEW i \in 1 .. Len(log'), NEW j \in 1 .. Len(log'), log'[i] = log'[j]
                 PROVE i = j
      OBVIOUS
    <3>1. CASE i \in 1 .. Len(log) /\ j \in 1 .. Len(log)
      BY <2>2, <3>1 DEF Numbered
    <3>2. CASE i = Len(log) + 1 \/ j = Len(log) + 1
      BY <2>2, <2>3, <2>7, <3>2
    <3> QED BY <2>3, <3>1, <3>2
  <2> QED BY <2>6, <2>8 DEF Numbered
<1> QED BY <1>2, <1>3 DEF SendShape

\* What was received.
LEMMA CollectedSend ==
    ASSUME TypeOK, Window, Collected, NEW p \in Producers, NEW L, SendShape(p, L)
    PROVE Collected'
<1>1. /\ head' = head /\ got' = got /\ head \in Nat /\ Len(log) \in Nat /\ head <= Len(log)
      /\ log \in Seq(Item)
  BY ShapeTypes DEF SendShape, Window
<1>2. \A i \in 1 .. Len(log) : log'[i] = log[i]
  BY <1>1 DEF SendShape, Puts, Enter
<1>3. \A i \in 1 .. head : log'[i] = log[i]
  BY <1>1, <1>2
<1> QED BY <1>1, <1>3 DEF Collected

LEMMA CollectedRecv ==
    ASSUME TypeOK, Window, Collected, NEW c \in Consumers, NEW awake, RecvShape(c, awake)
    PROVE Collected'
<1>1. /\ log' = log /\ head \in Nat /\ got \in [Consumers -> Seq(Item \cup {NoValue})]
      /\ pos[c] \in Nat
  BY ShapeTypes, PosType DEF RecvShape, Threads
<1>2. CASE Takes(c)
  <2>1. head' = head + 1 /\ got' = got /\ \A i \in 1 .. head : i \in 1 .. head'
    BY <1>1, <1>2 DEF Takes
  <2> QED BY <1>1, <2>1 DEF Collected
<1>3. CASE UNCHANGED <<head, got>>
  BY <1>1, <1>3 DEF Collected
<1>4. CASE Reads(c)
  <2>1. /\ head' = head /\ pos[c] + 1 \in 1 .. head
        /\ got' = [got EXCEPT ![c] = Append(@, log[pos[c] + 1])]
    BY <1>1, <1>4 DEF Reads
  <2> SUFFICES ASSUME NEW d \in Consumers, NEW k \in 1 .. Len(got'[d])
               PROVE \E i \in 1 .. head : got'[d][k] = log[i]
    BY <1>1, <2>1 DEF Collected
  <2>2. CASE d # c
    BY <1>1, <2>1, <2>2 DEF Collected
  <2>3. CASE d = c
    <3>1. got[c] \in Seq(Item \cup {NoValue}) /\ got'[c] = Append(got[c], log[pos[c] + 1])
      BY <1>1, <2>1
    <3>2. /\ Len(got'[c]) = Len(got[c]) + 1 /\ got'[c][Len(got[c]) + 1] = log[pos[c] + 1]
          /\ \A i \in 1 .. Len(got[c]) : got'[c][i] = got[c][i]
      BY <3>1
    <3>3. k \in 1 .. Len(got[c]) \/ k = Len(got[c]) + 1
      BY <2>3, <3>1, <3>2
    <3>4. CASE k \in 1 .. Len(got[c])
      BY <2>3, <3>2, <3>4 DEF Collected
    <3>5. CASE k = Len(got[c]) + 1
      BY <2>1, <2>3, <3>2, <3>5
    <3> QED BY <3>3, <3>4, <3>5
  <2> QED BY <2>2, <2>3
<1> QED BY <1>2, <1>3, <1>4 DEF RecvShape

\* No more items enter the history than there are, and no more are received
\* than head has passed.
LEMMA HistoryBound ==
    ASSUME TypeOK, NEW L, Quotas(L), Numbered
    PROVE Len(log) <= Total
<1> DEFINE all == Producers \X (1 .. Items)
           f == [i \in 1 .. Len(log) |-> log[i]]
<1>0. log \in Seq(Item) /\ Len(log) \in Nat /\ sent \in [Producers -> Nat]
  BY ShapeTypes
<1>1. \A i \in 1 .. Len(log) : log[i] \in all
  <2> SUFFICES ASSUME NEW i \in 1 .. Len(log) PROVE log[i] \in all
    OBVIOUS
  <2>1. log[i] \in Producers \X Nat
    BY <1>0 DEF Item
  <2>2. log[i][2] \in 1 .. sent[log[i][1]] /\ log[i][1] \in Producers
    BY <2>1 DEF Numbered
  <2>3. sent[log[i][1]] \in Nat /\ sent[log[i][1]] <= Items
    BY <1>0, <2>2 DEF Quotas
  <2>4. log[i][2] \in 1 .. Items
    BY <2>2, <2>3
  <2> QED BY <2>1, <2>2, <2>4
<1>2. f \in Injection(1 .. Len(log), all)
  BY <1>1 DEF Injection, IsInjective, Numbered
<1>3. IsFiniteSet(1 .. Items) /\ Cardinality(1 .. Items) = Items
  BY FS_Interval
<1>4. IsFiniteSet(all) /\ Cardinality(all) = Total
  BY <1>3, FS_Product DEF Total
<1>5. Cardinality(1 .. Len(log)) = Len(log)
  <2>1. Cardinality(1 .. Len(log)) = IF 1 > Len(log) THEN 0 ELSE Len(log) - 1 + 1
    BY <1>0, FS_Interval
  <2> QED BY <1>0, <2>1
<1> HIDE DEF f, all
<1> QED BY <1>2, <1>4, <1>5, FS_Injection

LEMMA ReceivedBound ==
    ASSUME TypeOK, Collected
    PROVE Cardinality(Received) <= head
<1> DEFINE f == [i \in 1 .. head |-> log[i]]
           T == {log[i] : i \in 1 .. head}
<1>0. head \in Nat /\ got \in [Consumers -> Seq(Item \cup {NoValue})]
  BY ShapeTypes
<1>1. Received \subseteq T
  <2> SUFFICES ASSUME NEW c \in Consumers, NEW k \in DOMAIN got[c] PROVE got[c][k] \in T
    BY DEF Received
  <2>1. k \in 1 .. Len(got[c])
    BY <1>0
  <2> QED BY <2>1 DEF Collected
<1>2. f \in Surjection(1 .. head, T)
  BY DEF Surjection
<1>3. IsFiniteSet(1 .. head) /\ Cardinality(1 .. head) = head
  BY <1>0, FS_Interval
<1> HIDE DEF f, T
<1>4. IsFiniteSet(T) /\ Cardinality(T) <= head
  BY <1>2, <1>3, FS_Surjection
<1>5. Cardinality(Received) <= Cardinality(T) /\ IsFiniteSet(Received)
  BY <1>1, <1>4, FS_Subset
<1>6. Cardinality(Received) \in Nat /\ Cardinality(T) \in Nat
  BY <1>4, <1>5, FS_CardinalityType
<1> QED BY <1>0, <1>4, <1>5, <1>6

\* The end of the stream.
LEMMA OverSend ==
    ASSUME TypeOK, Over, NEW p \in Producers, NEW L, SendShape(p, L)
    PROVE Over'
<1>1. ~closed
  BY ShapeTypes DEF Over, SendersDone, SendShape, At
<1>2. \A c \in Consumers : pc'[c] \in {"eof_unpark", "eof"} => pc[c] = pc'[c]
  BY ShapeTypes DEF SendShape, Moves
<1> QED BY <1>1, <1>2 DEF Over, SendShape

LEMMA OverRecv ==
    ASSUME TypeOK, Over, NEW c \in Consumers, NEW awake \in {"punblock", "pwoken"},
           RecvShape(c, awake)
    PROVE Over'
<1>1. \A d \in Consumers : pc'[d] \in {"eof_unpark", "eof"} => closed
  <2> SUFFICES ASSUME NEW d \in Consumers, pc'[d] \in {"eof_unpark", "eof"} PROVE closed
    OBVIOUS
  <2>1. CASE d = c
    BY <2>1 DEF RecvShape, Over
  <2>2. CASE d # c
    BY <2>2, ShapeTypes DEF RecvShape, Moves, Over
  <2> QED BY <2>1, <2>2
<1>2. closed => SendersDone'
  BY ShapeTypes DEF Over, RecvShape, Moves, SendersDone, At
<1>3. closed => head' = Len(log)
  BY ShapeTypes DEF Over, RecvShape, Takes, Reads
<1> QED BY <1>1, <1>2, <1>3 DEF Over, RecvShape

LEMMA OverClose ==
    ASSUME TypeOK, DrainFirst, NEW L, ChannelInv(L), Close
    PROVE Over'
<1>1. CASE SetClosed
  <2>1. head = Len(log)
    <3>1. /\ head \in Nat /\ Len(log) \in Nat /\ head <= Len(log)
          /\ Len(log) <= Total /\ Cardinality(Received) = Total /\ Cardinality(Received) <= head
      BY <1>1, ShapeTypes, HistoryBound, ReceivedBound DEF SetClosed, ChannelInv, Window
    <3>2. Total \in Nat
      BY FS_CardinalityType DEF Total
    <3> QED BY <3>1, <3>2
  <2> QED BY <1>1, <2>1 DEF SetClosed, ChannelInv, Over, SendersDone, At, hist
<1>2. CASE CloseBump
  <2>1. UNCHANGED <<closed, pc, sent, head, log>> /\ closer # "open" /\ closer' # "open"
    BY <1>2 DEF CloseBump, ring, hist
  <2> QED BY <2>1 DEF ChannelInv, Over, SendersDone, At
<1>3. CASE CloseWakeAll
  <2>1. UNCHANGED <<closed, sent, head, log>> /\ closer # "open" /\ closer' # "open"
    BY <1>3 DEF CloseWakeAll, ring, hist
  <2>2. \A t \in Threads : pc'[t] = pc[t] \/ (pc[t] = "csleep" /\ pc'[t] = "unpark")
    BY <1>3 DEF CloseWakeAll
  <2>3. \A p \in Producers : pc[p] = "idle" => pc'[p] = "idle"
    BY <2>2, ShapeTypes
  <2>4. \A c \in Consumers : pc'[c] \in {"eof_unpark", "eof"} => pc[c] = pc'[c]
    BY <2>2, ShapeTypes
  <2> QED BY <2>1, <2>3, <2>4 DEF ChannelInv, Over, SendersDone, At
<1> QED BY <1>1, <1>2, <1>3 DEF Close

----------------------------------------------------------------------------
\* The invariant as a whole.

LEMMA InitChannel == ASSUME NEW L, "idle" \notin L PROVE Init => ChannelInv(L)
<1> SUFFICES ASSUME Init PROVE ChannelInv(L)
  OBVIOUS
<1>1. Len(log) = 0 /\ head = 0
  BY DEF Init
<1>2. Window
  BY <1>1 DEF Window
<1>3. Quotas(L) /\ Over
  BY DEF Init, Quotas, Over, Threads
<1>4. Numbered
  BY <1>1 DEF Numbered
<1>5. Collected
  BY DEF Init, Collected
<1> QED BY <1>2, <1>3, <1>4, <1>5 DEF ChannelInv

LEMMA ChannelSend ==
    ASSUME RingInv, NEW L, "unpark" \notin L, ChannelInv(L), NEW p \in Producers, SendShape(p, L)
    PROVE ChannelInv(L)'
  BY WindowSend, QuotasSend, NumberedSend, CollectedSend, OverSend DEF ChannelInv, RingInv

LEMMA ChannelRecv ==
    ASSUME RingInv, NEW L, NEW awake \in {"punblock", "pwoken"}, "psleep" \in L, awake \in L,
           ChannelInv(L), NEW c \in Consumers, RecvShape(c, awake)
    PROVE ChannelInv(L)'
<1>1. Numbered'
  BY DEF Numbered, ChannelInv, RecvShape
<1> QED BY <1>1, WindowRecv, QuotasRecv, CollectedRecv, OverRecv DEF ChannelInv, RingInv

LEMMA ChannelClose ==
    ASSUME RingInv, NEW L, "unpark" \notin L, DrainFirst, ChannelInv(L), Close
    PROVE ChannelInv(L)'
<1>1. UNCHANGED <<seq, head, hist>>
  BY DEF Close, SetClosed, CloseBump, CloseWakeAll, ring
<1>2. \A t \in Threads : pc'[t] = pc[t] \/ pc'[t] = "unpark"
  BY DEF Close, SetClosed, CloseBump, CloseWakeAll
<1>3. Quotas(L)'
  BY <1>1, <1>2, ShapeTypes DEF RingInv, ChannelInv, Quotas, hist
<1>4. Window' /\ Numbered' /\ Collected'
  BY <1>1 DEF ChannelInv, Window, Numbered, Collected, hist
<1>5. Over'
  BY OverClose DEF RingInv
<1> QED BY <1>3, <1>4, <1>5 DEF ChannelInv

LEMMA ChannelStutter ==
    ASSUME NEW L, ChannelInv(L), UNCHANGED vars
    PROVE ChannelInv(L)'
<1>1. UNCHANGED <<seq, head, closed, pc, closer, log, sent, got>>
  BY DEF vars, ring, hist
<1> QED BY <1>1 DEF ChannelInv, Window, Quotas, Numbered, Collected, Over, SendersDone, At

----------------------------------------------------------------------------
\* The channel's steps, in terms of what the mapping makes of the ring.

Queue == SubSeq(log, head + 1, Len(log))
TakenBy(c) == IF At(c, "read") THEN Append(got[c], log[pos[c] + 1]) ELSE got[c]
Told == {c \in Consumers : At(c, "eof")}
OthersKeep(c) == \A d \in Consumers : d # c => TakenBy(d)' = TakenBy(d)

LEMMA AbstractPut ==
    ASSUME NEW p \in Producers, ~closed, sent[p] < Items, Len(Queue) < Cap,
           sent' = [sent EXCEPT ![p] = @ + 1], Queue' = Append(Queue, <<p, sent'[p]>>),
           \A c \in Consumers : TakenBy(c)' = TakenBy(c), UNCHANGED <<closed, Told>>
    PROVE Abstract!Next
  BY DEF Abstract!Next, Abstract!Put, Queue, TakenBy, Told

LEMMA AbstractTake ==
    ASSUME NEW c \in Consumers, c \notin Told, Queue # <<>>, UNCHANGED <<sent, closed, Told>>,
           Queue' = Tail(Queue), TakenBy(c)' = Append(TakenBy(c), Head(Queue)), OthersKeep(c)
    PROVE Abstract!Next
  BY DEF Abstract!Next, Abstract!Take, Queue, TakenBy, Told, OthersKeep

LEMMA AbstractClose ==
    ASSUME ~closed, closed', \A p \in Producers : sent[p] = Items, UNCHANGED <<sent, Queue, Told>>,
           \A c \in Consumers : TakenBy(c)' = TakenBy(c)
    PROVE Abstract!Next
  BY DEF Abstract!Next, Abstract!Close, Queue, TakenBy, Told

LEMMA AbstractEnd ==
    ASSUME NEW c \in Consumers, closed, Queue = <<>>, Told' = Told \cup {c},
           UNCHANGED <<sent, closed, Queue>>, \A d \in Consumers : TakenBy(d)' = TakenBy(d)
    PROVE Abstract!Next
  BY DEF Abstract!Next, Abstract!End, Queue, TakenBy, Told

LEMMA AbstractStutter ==
    ASSUME UNCHANGED <<sent, closed, Queue, Told>>,
           \A d \in Consumers : TakenBy(d)' = TakenBy(d)
    PROVE UNCHANGED Abstract!vars
  BY DEF Abstract!vars, Queue, TakenBy, Told

\* What a consumer took does not depend on the steps of others.
LEMMA TakenKept ==
    ASSUME RingInv, Window, NEW c \in Consumers, got'[c] = got[c], pos'[c] = pos[c],
           At(c, "read")' <=> At(c, "read"),
           \A i \in 1 .. Len(log) : log'[i] = log[i]
    PROVE TakenBy(c)' = TakenBy(c)
<1>1. CASE ~At(c, "read")
  BY <1>1 DEF TakenBy
<1>2. CASE At(c, "read")
  <2>1. pos[c] \in Nat /\ pos[c] < head /\ head \in Nat /\ head <= Len(log) /\ Len(log) \in Nat
    BY <1>2, ShapeTypes, PosType DEF RingInv, Readers, Reading, At, Window, Threads
  <2>2. pos[c] + 1 \in 1 .. Len(log)
    BY <2>1
  <2> QED BY <1>2, <2>2 DEF TakenBy
<1> QED BY <1>1, <1>2

LEMMA SendMaps ==
    ASSUME RingInv, NEW L, ChannelInv(L), ChannelInv(L)', NEW p \in Producers, SendShape(p, L)
    PROVE Abstract!Next \/ UNCHANGED Abstract!vars
<1>0. /\ log \in Seq(Item) /\ Len(log) \in Nat /\ head \in Nat /\ head <= Len(log)
      /\ head' = head /\ closed' = closed
  BY ShapeTypes DEF RingInv, ChannelInv, Window, SendShape
<1>1. /\ \A i \in 1 .. Len(log) : log'[i] = log[i]
      /\ \A c \in Consumers : (At(c, "read")' <=> At(c, "read")) /\ (At(c, "eof")' <=> At(c, "eof"))
  <2>1. \A i \in 1 .. Len(log) : log'[i] = log[i]
    BY <1>0 DEF SendShape, Puts, Enter
  <2>2. \A c \in Consumers : pc'[c] = pc[c] \/ (pc[c] = "csleep" /\ pc'[c] = "unpark")
    BY ShapeTypes DEF RingInv, SendShape, Moves
  <2> QED BY <2>1, <2>2 DEF At
<1>2. \A c \in Consumers : got'[c] = got[c] /\ pos'[c] = pos[c]
  BY ShapeTypes DEF RingInv, SendShape, Moves
<1>3. /\ \A c \in Consumers : TakenBy(c)' = TakenBy(c)
      /\ Told' = Told
  BY <1>1, <1>2, TakenKept DEF Told, ChannelInv
<1>4. CASE Puts(p)
  <2>1. /\ sent' = [sent EXCEPT ![p] = @ + 1] /\ sent[p] < Items
        /\ log' = Append(log, <<p, sent'[p]>>) /\ <<p, sent'[p]>> \in Item
    BY <1>4, ShapeTypes DEF Puts, Enter, RingInv, Item
  <2>2. Len(log') = Len(log) + 1 /\ Len(log') <= head + Cap
    <3>1. PICK x \in Item : log' = Append(log, x)
      BY <2>1
    <3>2. Len(log') = Len(log) + 1
      BY <1>0, <3>1
    <3>3. Len(log') <= head' + Cap
      BY DEF ChannelInv, Window
    <3> QED BY <1>0, <3>2, <3>3
  <2>3. Queue' = Append(Queue, <<p, sent'[p]>>)
    <3>1. PICK x \in Item : x = <<p, sent'[p]>>
      BY <2>1
    <3>2. head \in 0 .. Len(log) /\ log' = Append(log, x)
      BY <1>0, <2>1, <3>1
    <3>3. SubSeq(Append(log, x), head + 1, Len(Append(log, x)))
            = Append(SubSeq(log, head + 1, Len(log)), x)
      BY <1>0, <3>2, QueueAppend
    <3>4. SubSeq(log', head' + 1, Len(log')) = Append(SubSeq(log, head + 1, Len(log)), x)
      BY <1>0, <3>2, <3>3
    <3> QED BY <3>1, <3>4 DEF Queue
  <2>4. Len(Queue) < Cap
    <3>1. Len(Queue) = Len(log) - head
      <4>1. head + 1 \in Int /\ \A i \in head + 1 .. Len(log) : log[i] \in Item
        BY <1>0
      <4>2. Len(Queue) = IF head + 1 <= Len(log) THEN Len(log) - (head + 1) + 1 ELSE 0
        BY <1>0, <4>1, SubSeqProperties DEF Queue
      <4> QED BY <1>0, <4>2
    <3> QED BY <1>0, <2>2, <3>1
  <2>5. ~closed
    BY ShapeTypes DEF RingInv, ChannelInv, Over, SendersDone, SendShape, At
  <2> QED BY <1>0, <1>3, <2>1, <2>3, <2>4, <2>5, AbstractPut
<1>5. CASE UNCHANGED <<log, sent>>
  BY <1>0, <1>3, <1>5, AbstractStutter DEF Queue
<1> QED BY <1>4, <1>5 DEF SendShape

LEMMA RecvMaps ==
    ASSUME RingInv, NEW L, ChannelInv(L), ChannelInv(L)', NEW c \in Consumers,
           NEW awake \in {"punblock", "pwoken"}, RecvShape(c, awake)
    PROVE Abstract!Next \/ UNCHANGED Abstract!vars
<1>0. /\ log \in Seq(Item) /\ Len(log) \in Nat /\ head \in Nat /\ head <= Len(log)
      /\ log' = log /\ closed' = closed /\ sent' = sent
      /\ got \in [Consumers -> Seq(Item \cup {NoValue})]
  BY ShapeTypes DEF RingInv, ChannelInv, Window, RecvShape
<1>1. \A d \in Consumers : d # c => /\ At(d, "read")' <=> At(d, "read")
                                    /\ At(d, "eof")' <=> At(d, "eof")
                                    /\ pos'[d] = pos[d] /\ got'[d] = got[d]
  BY <1>0, ShapeTypes DEF RingInv, RecvShape, Moves, Reads, Takes, At
<1>2. OthersKeep(c)
  BY <1>0, <1>1, TakenKept DEF OthersKeep, ChannelInv
<1>3. CASE Takes(c)
  <2>1. /\ Queue # <<>> /\ Head(Queue) = log[head + 1]
        /\ Tail(Queue) = SubSeq(log, head + 2, Len(log))
    BY <1>0, <1>3, QueueTake DEF Queue, Takes
  <2>2. Queue' = Tail(Queue)
    <3>1. head' + 1 = head + 2
      BY <1>0, <1>3 DEF Takes
    <3> QED BY <1>0, <2>1, <3>1 DEF Queue
  <2>3. TakenBy(c)' = Append(TakenBy(c), Head(Queue))
    BY <1>0, <1>3, <2>1 DEF Takes, TakenBy, At
  <2>4. c \notin Told /\ Told' = Told
    BY <1>1, <1>3 DEF Takes, Told, At
  <2> QED BY <1>0, <1>2, <2>1, <2>2, <2>3, <2>4, AbstractTake
<1>4. CASE ~Takes(c) /\ pc'[c] # "eof"
  <2>1. head' = head /\ TakenBy(c)' = TakenBy(c)
    BY <1>0, <1>4 DEF RecvShape, Reads, TakenBy, At
  <2>2. Told' = Told
    BY <1>1, <1>4 DEF RecvShape, Told, At
  <2>3. \A d \in Consumers : TakenBy(d)' = TakenBy(d)
    BY <1>2, <2>1 DEF OthersKeep
  <2> QED BY <1>0, <2>1, <2>2, <2>3, AbstractStutter DEF Queue
<1>5. CASE pc'[c] = "eof"
  <2>1. ~Takes(c)
    BY <1>5 DEF Takes
  <2>2. head' = head /\ TakenBy(c)' = TakenBy(c)
    BY <1>0, <1>5, <2>1 DEF RecvShape, Reads, TakenBy, At
  <2>3. Told' = Told \cup {c}
    BY <1>1, <1>5 DEF Told, At
  <2>4. closed /\ head = Len(log)
    BY <1>5 DEF ChannelInv, Over, RecvShape
  <2>5. Queue = <<>>
    BY <1>0, <2>4, SubSeqEmpty DEF Queue
  <2>6. \A d \in Consumers : TakenBy(d)' = TakenBy(d)
    BY <1>2, <2>2 DEF OthersKeep
  <2>7. Queue' = Queue
    BY <1>0, <2>2 DEF Queue
  <2> QED BY <1>0, <2>3, <2>4, <2>5, <2>6, <2>7, AbstractEnd
<1> QED BY <1>3, <1>4, <1>5

LEMMA CloseMaps ==
    ASSUME RingInv, NEW L, ChannelInv(L), Close
    PROVE Abstract!Next \/ UNCHANGED Abstract!vars
<1>1. UNCHANGED <<head, pos, log, sent, got>>
  BY DEF Close, SetClosed, CloseBump, CloseWakeAll, ring, regs, hist
<1>2. \A c \in Consumers : (At(c, "read")' <=> At(c, "read")) /\ (At(c, "eof")' <=> At(c, "eof"))
  BY ShapeTypes DEF RingInv, Close, SetClosed, CloseBump, CloseWakeAll, At
<1>3. (\A c \in Consumers : TakenBy(c)' = TakenBy(c)) /\ UNCHANGED <<Told, Queue>>
  BY <1>1, <1>2 DEF TakenBy, Told, Queue
<1>4. CASE SetClosed
  <2>1. ~closed /\ closed' /\ \A p \in Producers : sent[p] = Items
    BY <1>4 DEF SetClosed, SendersDone, ChannelInv, Over
  <2> QED BY <1>1, <1>3, <2>1, AbstractClose
<1>5. CASE CloseBump \/ CloseWakeAll
  <2>1. closed' = closed
    BY <1>5 DEF CloseBump, CloseWakeAll, ring
  <2> QED BY <1>1, <1>3, <2>1, AbstractStutter
<1> QED BY <1>4, <1>5 DEF Close

LEMMA StutterMaps == ASSUME UNCHANGED vars PROVE UNCHANGED Abstract!vars
<1>1. UNCHANGED <<head, pos, log, sent, got, pc, closed>>
  BY DEF vars, ring, regs, hist
<1> QED BY <1>1, AbstractStutter DEF TakenBy, Told, Queue, At

LEMMA InitMaps == Init => Abstract!Init
<1> SUFFICES ASSUME Init PROVE Abstract!Init
  OBVIOUS
<1>1. log = <<>> /\ head = 0 /\ Len(log) = 0
  BY DEF Init
<1>2. SubSeq(log, head + 1, Len(log)) = <<>>
  BY <1>1, SubSeqEmpty
<1>3. /\ [c \in Consumers |-> IF At(c, "read") THEN Append(got[c], log[pos[c] + 1]) ELSE got[c]]
         = [c \in Consumers |-> <<>>]
      /\ {c \in Consumers : At(c, "eof")} = {}
  BY DEF Init, At, Threads
<1> QED BY <1>2, <1>3 DEF Abstract!Init, Init

----------------------------------------------------------------------------
\* ring_mpmc.asm, closed when drained.

LEMMA MpmcChannelStep ==
    ASSUME RingInv, Dense, DrainFirst, ChannelInv(MultiSending), [MpmcNext]_vars
    PROVE ChannelInv(MultiSending)' /\ (Abstract!Next \/ UNCHANGED Abstract!vars)
<1>0. /\ "psleep" \in MultiSending /\ "punblock" \in MultiSending /\ "unpark" \notin MultiSending
      /\ "punblock" \in {"punblock", "pwoken"}
  BY DEF MultiSending
<1>1. ASSUME NEW p \in Producers, MultiSend(p)
      PROVE ChannelInv(MultiSending)' /\ (Abstract!Next \/ UNCHANGED Abstract!vars)
  <2>1. SendShape(p, MultiSending)
    BY <1>1, MultiSendShape DEF ChannelInv
  <2>2. ChannelInv(MultiSending)'
    BY <1>0, <2>1, ChannelSend
  <2> QED BY <2>1, <2>2, SendMaps
<1>2. ASSUME NEW c \in Consumers, MpmcRecv(c)
      PROVE ChannelInv(MultiSending)' /\ (Abstract!Next \/ UNCHANGED Abstract!vars)
  <2>1. RecvShape(c, "punblock")
    BY <1>0, <1>2, MultiRecvShape DEF MpmcRecv
  <2>2. ChannelInv(MultiSending)'
    BY <1>0, <2>1, ChannelRecv
  <2> QED BY <1>0, <2>1, <2>2, RecvMaps
<1>3. CASE Close
  <2>1. ChannelInv(MultiSending)'
    BY <1>0, <1>3, ChannelClose
  <2> QED BY <1>3, <2>1, CloseMaps
<1>4. CASE UNCHANGED vars
  <2>1. ChannelInv(MultiSending)'
    BY <1>4, ChannelStutter
  <2> QED BY <1>4, <2>1, StutterMaps
<1> QED BY <1>1, <1>2, <1>3, <1>4 DEF MpmcNext, Ended

\* The window, the quotas, the numbering and the end of the stream, of every
\* state of ring_mpmc.asm whose user closes it when everything was received
\* (enc_tq).
THEOREM MpmcWindow == ASSUME DrainFirst PROVE MpmcSpec => []ChannelInv(MultiSending)
<1>1. Init => ChannelInv(MultiSending)
  BY InitChannel DEF MultiSending
<1>2. RingInv /\ Dense /\ ChannelInv(MultiSending) /\ [MpmcNext]_vars => ChannelInv(MultiSending)'
  BY MpmcChannelStep
<1> QED BY <1>1, <1>2, MpmcInvariant, PTL DEF MpmcSpec

\* The ring that many threads send to and receive from is a bounded
\* first-in-first-out queue with an end (ring_mpmc.asm, closed when drained):
\* its sends, receives and its close take effect at one step each, in order.
THEOREM MpmcIsChannel == ASSUME DrainFirst PROVE MpmcSpec => ImplementsChannel
<1>1. Init => Abstract!Init
  BY InitMaps
<1>2. RingInv /\ Dense /\ ChannelInv(MultiSending) /\ [MpmcNext]_vars
        => [Abstract!Next]_(Abstract!vars)
  BY MpmcChannelStep
<1> QED BY <1>1, <1>2, MpmcInvariant, MpmcWindow, PTL DEF MpmcSpec, ImplementsChannel, Abstract!Spec

----------------------------------------------------------------------------
\* ring_spmc.asm, closed when drained.

LEMMA SpmcChannelStep ==
    ASSUME RingInv, Owner, DrainFirst, ChannelInv(SoleSending), [SpmcNext]_vars
    PROVE ChannelInv(SoleSending)' /\ (Abstract!Next \/ UNCHANGED Abstract!vars)
<1>0. /\ "psleep" \in SoleSending /\ "pwoken" \in SoleSending /\ "unpark" \notin SoleSending
      /\ "pwoken" \in {"punblock", "pwoken"}
  BY DEF SoleSending
<1>1. ASSUME NEW p \in Producers, SoleSend(p)
      PROVE ChannelInv(SoleSending)' /\ (Abstract!Next \/ UNCHANGED Abstract!vars)
  <2>1. SendShape(p, SoleSending)
    BY <1>1, SoleSendShape DEF ChannelInv
  <2>2. ChannelInv(SoleSending)'
    BY <1>0, <2>1, ChannelSend
  <2> QED BY <2>1, <2>2, SendMaps
<1>2. ASSUME NEW c \in Consumers, SpmcRecv(c)
      PROVE ChannelInv(SoleSending)' /\ (Abstract!Next \/ UNCHANGED Abstract!vars)
  <2>1. RecvShape(c, "pwoken")
    BY <1>0, <1>2, MultiRecvShape DEF SpmcRecv
  <2>2. ChannelInv(SoleSending)'
    BY <1>0, <2>1, ChannelRecv
  <2> QED BY <1>0, <2>1, <2>2, RecvMaps
<1>3. CASE Close
  <2>1. ChannelInv(SoleSending)'
    BY <1>0, <1>3, ChannelClose
  <2> QED BY <1>3, <2>1, CloseMaps
<1>4. CASE UNCHANGED vars
  <2>1. ChannelInv(SoleSending)'
    BY <1>4, ChannelStutter
  <2> QED BY <1>4, <2>1, StutterMaps
<1> QED BY <1>1, <1>2, <1>3, <1>4 DEF SpmcNext, Ended

\* The same of the ring with one producer (ring_spmc.asm), which fixes its
\* position when it finds the slot free and moves tail only after publishing.
THEOREM SpmcWindow ==
    ASSUME OneProducer, DrainFirst PROVE SpmcSpec => []ChannelInv(SoleSending)
<1>1. Init => ChannelInv(SoleSending)
  BY InitChannel DEF SoleSending
<1>2. RingInv /\ Owner /\ ChannelInv(SoleSending) /\ [SpmcNext]_vars => ChannelInv(SoleSending)'
  BY SpmcChannelStep
<1>3. SpmcSpec => [](RingInv /\ Owner)
  BY SpmcInvariant
<1> QED BY <1>1, <1>2, <1>3, PTL DEF SpmcSpec

\* A send of the only producer takes effect when it finds the slot of tail
\* free, before tail moves: the ring is a channel all the same (spmc_send).
THEOREM SpmcIsChannel == ASSUME OneProducer, DrainFirst PROVE SpmcSpec => ImplementsChannel
<1>1. Init => Abstract!Init
  BY InitMaps
<1>2. RingInv /\ Owner /\ ChannelInv(SoleSending) /\ [SpmcNext]_vars
        => [Abstract!Next]_(Abstract!vars)
  BY SpmcChannelStep
<1>3. SpmcSpec => [](RingInv /\ Owner)
  BY SpmcInvariant
<1>4. SpmcSpec => []ChannelInv(SoleSending)
  BY SpmcWindow
<1> QED BY <1>1, <1>2, <1>3, <1>4, PTL DEF SpmcSpec, ImplementsChannel, Abstract!Spec

----------------------------------------------------------------------------
\* ring_mpsc.asm: the coordinator counts what it receives, nobody closes.

LEMMA MpscChannelStep ==
    ASSUME RingInv, Dense, Lone, ChannelInv(MultiSending), [MpscNext]_vars
    PROVE ChannelInv(MultiSending)' /\ (Abstract!Next \/ UNCHANGED Abstract!vars)
<1>0. /\ "psleep" \in MultiSending /\ "punblock" \in MultiSending /\ "unpark" \notin MultiSending
      /\ "punblock" \in {"punblock", "pwoken"}
  BY DEF MultiSending
<1>1. ASSUME NEW p \in Producers, MultiSend(p)
      PROVE ChannelInv(MultiSending)' /\ (Abstract!Next \/ UNCHANGED Abstract!vars)
  <2>1. SendShape(p, MultiSending)
    BY <1>1, MultiSendShape DEF ChannelInv
  <2>2. ChannelInv(MultiSending)'
    BY <1>0, <2>1, ChannelSend
  <2> QED BY <2>1, <2>2, SendMaps
<1>2. ASSUME NEW c \in Consumers, CountedRecv(c)
      PROVE ChannelInv(MultiSending)' /\ (Abstract!Next \/ UNCHANGED Abstract!vars)
  <2>1. RecvShape(c, "punblock")
    BY <1>2, SoleRecvShape
  <2>2. ChannelInv(MultiSending)'
    BY <1>0, <2>1, ChannelRecv
  <2> QED BY <1>0, <2>1, <2>2, RecvMaps
<1>3. CASE UNCHANGED vars
  <2>1. ChannelInv(MultiSending)'
    BY <1>3, ChannelStutter
  <2> QED BY <1>3, <2>1, StutterMaps
<1> QED BY <1>1, <1>2, <1>3 DEF MpscNext, Counted

\* The same of the ring with one consumer (ring_mpsc.asm), which claims what it
\* takes by a plain store to head.
THEOREM MpscWindow ==
    ASSUME OneConsumer PROVE MpscSpec => []ChannelInv(MultiSending)
<1>1. Init => ChannelInv(MultiSending)
  BY InitChannel DEF MultiSending
<1>2. RingInv /\ Dense /\ Lone /\ ChannelInv(MultiSending) /\ [MpscNext]_vars
        => ChannelInv(MultiSending)'
  BY MpscChannelStep
<1>3. MpscSpec => [](RingInv /\ Dense /\ Lone)
  BY MpscInvariant
<1> QED BY <1>1, <1>2, <1>3, PTL DEF MpscSpec

\* The ring the coordinator receives from is a bounded first-in-first-out queue
\* (ring_mpsc.asm).
THEOREM MpscIsChannel == ASSUME OneConsumer PROVE MpscSpec => ImplementsChannel
<1>1. Init => Abstract!Init
  BY InitMaps
<1>2. RingInv /\ Dense /\ Lone /\ ChannelInv(MultiSending) /\ [MpscNext]_vars
        => [Abstract!Next]_(Abstract!vars)
  BY MpscChannelStep
<1>3. MpscSpec => [](RingInv /\ Dense /\ Lone)
  BY MpscInvariant
<1>4. MpscSpec => []ChannelInv(MultiSending)
  BY MpscWindow
<1> QED BY <1>1, <1>2, <1>3, <1>4, PTL DEF MpscSpec, ImplementsChannel, Abstract!Spec

----------------------------------------------------------------------------
\* Nobody sleeps on an item (ring_spmc.asm).  A consumer goes to sleep when the
\* word it loaded before its recheck is unchanged.  At the recheck no item was
\* ready, because a single producer publishes in order; since then at most one
\* was, of the send that has not come to bump the word yet.

InOrder ==
    /\ \A i \in head .. Len(log) - 1 : seq[Slot(i)] = i =>
           i = Len(log) - 1 /\ \E p \in Producers : pc[p] \in {"punblock", "write", "publish"}
    /\ \A i \in 0 .. head - 1 : seq[Slot(i)] > i
    /\ \A c \in Consumers : At(c, "recheck") => pos[c] <= head

\* A consumer that will look at the ring before it sleeps, and a producer that
\* has published and has not bumped the word consumers sleep on.
Alert == {"unpark", "retry", "check", "ready"}
Pushing == {"advance", "readcw", "bumpavail"}

Attended ==
    /\ Sleeping("csleep") # {} =>
         Cardinality(Ready) <= Announced(Consumers, Alert) + Cardinality(Waking)
    /\ \A c \in Consumers :
         /\ ev[c] <= avail
         /\ pc[c] \in {"reclosed", "cwait"} /\ ev[c] = avail =>
              Cardinality(Ready) <= Announced(Producers, Pushing)
    /\ \A p \in Producers : pc[p] # "csleep"

FlowInv == Window /\ Quotas(SoleSending) /\ InOrder /\ Waiters /\ Attended

LEMMA SoleSendSignals ==
    ASSUME TypeOK, NEW p \in Producers, SoleSend(p)
    PROVE /\ \A c \in Consumers : ev'[c] = ev[c]
          /\ avail' = IF pc[p] = "bumpavail" THEN avail + 1 ELSE avail
          /\ pc[p] = "readcw" /\ pc'[p] = "idle" => cw = 0
          /\ pc[p] = "wakeavail" => WakeOne(p, "csleep", "unpark", "idle")
          /\ pc[p] # "wakeavail" => \A u \in Threads : u # p => pc'[u] = pc[u]
<1> USE DEF ring, waits, regs, hist, At
<1>0. /\ p \in Threads /\ pc \in [Threads -> Labels] /\ ev \in [Threads -> Nat]
      /\ \A c \in Consumers : c \in Threads /\ c # p
  BY DEF TypeOK, Threads
<1>1. CASE CallSend(p)
  BY <1>0, <1>1, GotoMoves DEF CallSend
<1>2. CASE SoleCheck(p)
  BY <1>0, <1>2, GotoMoves DEF SoleCheck, Own
<1>3. CASE SoleAnnounce(p)
  BY <1>0, <1>3, GotoMoves DEF SoleAnnounce
<1>4. CASE LoadSpace(p)
  BY <1>0, <1>4, GotoMoves DEF LoadSpace
<1>5. CASE SoleRecheck(p)
  BY <1>0, <1>5, GotoMoves DEF SoleRecheck, Own
<1>6. CASE SoleWait(p)
  BY <1>0, <1>6, GotoMoves DEF SoleWait
<1>7. CASE SoleRetract(p)
  BY <1>0, <1>7, GotoMoves DEF SoleRetract
<1>8. CASE Write(p)
  BY <1>0, <1>8, GotoMoves DEF Write
<1>9. CASE Publish(p, "advance")
  BY <1>0, <1>9, GotoMoves DEF Publish
<1>10. CASE SoleAdvance(p)
  BY <1>0, <1>10, GotoMoves DEF SoleAdvance
<1>11. CASE AnyConsumerWaiting(p)
  BY <1>0, <1>11, GotoMoves DEF AnyConsumerWaiting
<1>12. CASE BumpAvail(p)
  BY <1>0, <1>12, GotoMoves DEF BumpAvail
<1>13. CASE WakeConsumer(p)
  BY <1>13 DEF WakeConsumer
<1> QED BY <1>1, <1>2, <1>3, <1>4, <1>5, <1>6, <1>7, <1>8, <1>9, <1>10, <1>11, <1>12, <1>13
        DEF SoleSend, Announce

LEMMA SpmcRecvLooks ==
    ASSUME TypeOK, NEW c \in Consumers, SpmcRecv(c)
    PROVE /\ avail' = avail
          /\ \A d \in Consumers : ev'[d] = ev[d] \/ (d = c /\ ev'[d] = avail /\ pc'[d] = "rehead")
          /\ pc'[c] = "csleep" => ev[c] = avail
          /\ pc'[c] = "recheck" => pos'[c] = head
          /\ pc[c] \in {"check", "recheck"} /\ pc'[c] \in {"closed", "reclosed"} =>
               seq[Slot(pos[c])] = pos[c]
          /\ pc[c] = "check" => pc'[c] # "empty"
<1> USE DEF ring, waits, regs, hist, At
<1>0. /\ c \in Threads /\ pc \in [Threads -> Labels] /\ pos \in [Threads -> Nat]
      /\ ev \in [Threads -> Nat] /\ Consumers \subseteq Threads
  BY DEF TypeOK, Threads
<1>1. CASE CallRecv(c)
  BY <1>0, <1>1, GotoMoves DEF CallRecv
<1>2. CASE ReadHead(c)
  BY <1>0, <1>2, GotoMoves DEF ReadHead
<1>3. CASE CheckItem(c)
  BY <1>0, <1>3, GotoMoves DEF CheckItem
<1>4. CASE CheckClosed(c)
  BY <1>0, <1>4, GotoMoves DEF CheckClosed
<1>5. CASE AnnounceRecv(c)
  BY <1>0, <1>5, GotoMoves DEF AnnounceRecv
<1>6. CASE LoadAvail(c)
  BY <1>0, <1>6, GotoMoves DEF LoadAvail
<1>7. CASE RereadHead(c)
  BY <1>0, <1>7, GotoMoves, RegMoves DEF RereadHead
<1>8. CASE RecheckItem(c)
  BY <1>0, <1>8, GotoMoves DEF RecheckItem
<1>9. CASE RecheckClosed(c)
  BY <1>0, <1>9, GotoMoves DEF RecheckClosed
<1>10. CASE WaitAvail(c)
  BY <1>0, <1>10, GotoMoves DEF WaitAvail
<1>11. CASE RetractRecv(c)
  BY <1>0, <1>11, GotoMoves DEF RetractRecv
<1>12. CASE ClaimItem(c)
  BY <1>0, <1>12, GotoMoves DEF ClaimItem
<1>13. CASE Read(c)
  BY <1>0, <1>13, GotoMoves DEF Read
<1>14. CASE Free(c)
  BY <1>0, <1>14, GotoMoves DEF Free
<1>15. CASE AnyProducerWaiting(c)
  BY <1>0, <1>15, GotoMoves DEF AnyProducerWaiting
<1>16. CASE BumpSpace(c)
  BY <1>0, <1>16, GotoMoves DEF BumpSpace
<1>17. CASE WakeProducer(c, "pwoken")
  <2>1. pc'[c] = "idle" /\ pc[c] = "wakespace" /\ UNCHANGED <<avail, ev>>
    BY <1>0, <1>17 DEF WakeProducer, WakeOne, Goto, Sleeping
  <2> QED BY <2>1
<1> QED BY <1>1, <1>2, <1>3, <1>4, <1>5, <1>6, <1>7, <1>8, <1>9, <1>10, <1>11, <1>12,
           <1>13, <1>14, <1>15, <1>16, <1>17 DEF SpmcRecv, MultiRecv, Release

\* The items ready to be taken.
LEMMA ReadyCount ==
    ASSUME TypeOK
    PROVE IsFiniteSet(Ready) /\ Cardinality(Ready) \in Nat
<1>1. IsFiniteSet(head .. Len(log) - 1)
  BY ShapeTypes, FS_Interval
<1>2. Ready \subseteq head .. Len(log) - 1
  BY DEF Ready
<1> QED BY <1>1, <1>2, FS_Subset, FS_CardinalityType

\* A slot at or before head that is still numbered as sent to is head's, and
\* then nothing is ready.
LEMMA ReadyNone ==
    ASSUME TypeOK, Window, InOrder, NEW j \in Nat, j <= head, seq[Slot(j)] = j
    PROVE Cardinality(Ready) = 0
<1>0. head \in Nat /\ Len(log) \in Nat
  BY ShapeTypes
<1>1. j = head
  <2>1. j < head => j \in 0 .. head - 1
    BY <1>0
  <2> QED BY <1>0, <2>1 DEF InOrder
<1>2. Ready = {}
  <2> SUFFICES ASSUME NEW i \in head .. Len(log) - 1, seq[Slot(i)] = i + 1 PROVE FALSE
    BY DEF Ready
  <2>1. head \in head .. Len(log) - 1
    BY <1>0
  <2>2. head = Len(log) - 1
    BY <1>1, <2>1 DEF InOrder
  <2>3. i = head
    BY <1>0, <2>2
  <2> QED BY <1>0, <1>1, <2>3
<1> QED BY <1>2, FS_EmptySet

LEMMA ReadyTake ==
    ASSUME RingInv, NEW c \in Consumers, Takes(c), UNCHANGED log
    PROVE Cardinality(Ready)' = Cardinality(Ready) - 1
<1>0. head \in Nat /\ Len(log) \in Nat /\ TypeOK
  BY ShapeTypes DEF RingInv
<1>1. seq[Slot(head)] = head + 1 /\ head < Len(log) /\ head' = head + 1 /\ seq' = seq
  BY DEF RingInv, Takers, Takes, At
<1>2. head \in Ready
  BY <1>0, <1>1 DEF Ready
<1>3. Ready' = Ready \ {head}
  BY <1>0, <1>1 DEF Ready
<1> QED BY <1>0, <1>2, <1>3, ReadyCount, FS_RemoveElement

LEMMA ReadySend ==
    ASSUME RingInv, Window, NEW p \in Producers, NEW L, SendShape(p, L),
           pc[p] # "publish" => UNCHANGED seq
    PROVE /\ pc[p] # "publish" => Ready' = Ready
          /\ Cardinality(Ready)' <= Cardinality(Ready) + 1 /\ Cardinality(Ready)' \in Nat
<1>0. /\ head \in Nat /\ Len(log) \in Nat /\ TypeOK /\ log \in Seq(Item)
      /\ head' = head /\ seq \in [Slots -> Nat]
  BY ShapeTypes DEF RingInv, SendShape
<1>1. ASSUME UNCHANGED seq PROVE Ready' = Ready
  <2>1. CASE Puts(p)
    <3>1. Len(log') = Len(log) + 1 /\ seq[Slot(Len(log))] = Len(log)
      BY <1>0, <2>1 DEF Puts, Enter
    <3>2. \A i : i \in head .. Len(log') - 1 /\ seq[Slot(i)] = i + 1
                   <=> i \in head .. Len(log) - 1 /\ seq[Slot(i)] = i + 1
      BY <1>0, <3>1
    <3> QED BY <1>0, <1>1, <3>2 DEF Ready
  <2>2. CASE UNCHANGED log
    BY <1>0, <1>1, <2>2 DEF Ready
  <2> QED BY <2>1, <2>2 DEF SendShape
<1>2. ASSUME seq' # seq 
      PROVE Cardinality(Ready)' <= Cardinality(Ready) + 1 /\ Cardinality(Ready)' \in Nat
  <2>1. UNCHANGED log /\ Writing(p) /\ seq' = [seq EXCEPT ![Slot(pos[p])] = pos[p] + 1]
    BY <1>2 DEF SendShape
  <2>2. pos[p] \in Nat /\ Slot(pos[p]) \in Slots /\ seq[Slot(pos[p])] = pos[p] /\ pos[p] < Len(log)
    BY <1>0, <2>1, ShapeTypes, PosType DEF RingInv, Writers
  <2>3. Ready' \subseteq Ready \cup {pos[p]}
    <3> SUFFICES ASSUME NEW i \in head .. Len(log) - 1, seq'[Slot(i)] = i + 1, i # pos[p]
                 PROVE seq[Slot(i)] = i + 1
      BY <1>0, <2>1 DEF Ready
    <3>1. Slot(i) # Slot(pos[p])
      BY <1>0, <2>2, SlotWriteApart
    <3> QED BY <1>0, <2>1, <2>2, <3>1
  <2>4. IsFiniteSet(Ready) /\ Cardinality(Ready) \in Nat
    BY <1>0, ReadyCount
  <2>5. /\ IsFiniteSet(Ready \cup {pos[p]})
        /\ Cardinality(Ready \cup {pos[p]}) <= Cardinality(Ready) + 1
        /\ Cardinality(Ready \cup {pos[p]}) \in Nat
    <3>1. /\ IsFiniteSet(Ready \cup {pos[p]})
          /\ Cardinality(Ready \cup {pos[p]})
               = IF pos[p] \in Ready THEN Cardinality(Ready) ELSE Cardinality(Ready) + 1
      BY <2>4, FS_AddElement
    <3> QED BY <2>4, <3>1
  <2>6. IsFiniteSet(Ready') /\ Cardinality(Ready') <= Cardinality(Ready \cup {pos[p]})
    BY <2>3, <2>5, FS_Subset
  <2>7. Cardinality(Ready') \in Nat
    BY <2>6, FS_CardinalityType
  <2> QED BY <2>4, <2>5, <2>6, <2>7
<1>3. Cardinality(Ready) \in Nat
  BY <1>0, ReadyCount
<1> QED BY <1>1, <1>2, <1>3

LEMMA ReadyRecv ==
    ASSUME RingInv, Window, NEW c \in Consumers, NEW awake, RecvShape(c, awake), ~Takes(c)
    PROVE Ready' = Ready
<1>0. /\ head \in Nat /\ Len(log) \in Nat /\ TypeOK /\ log' = log /\ head' = head
      /\ seq \in [Slots -> Nat]
  BY ShapeTypes DEF RingInv, RecvShape, Reads
<1>1. CASE UNCHANGED seq
  BY <1>0, <1>1 DEF Ready
<1>2. CASE Reading(c) /\ seq' = [seq EXCEPT ![Slot(pos[c])] = pos[c] + Cap]
  <2>1. /\ pos[c] \in Nat /\ Slot(pos[c]) \in Slots /\ seq[Slot(pos[c])] = pos[c] + 1
        /\ pos[c] < head
    BY <1>0, <1>2, ShapeTypes, PosType DEF RingInv, Readers
  <2>2. \A i \in head .. Len(log) - 1 : seq'[Slot(i)] = seq[Slot(i)]
    <3> SUFFICES ASSUME NEW i \in head .. Len(log) - 1 PROVE seq'[Slot(i)] = seq[Slot(i)]
      OBVIOUS
    <3>1. i # pos[c]
      BY <1>0, <2>1
    <3>2. Slot(i) # Slot(pos[c])
      BY <1>0, <2>1, <3>1, SlotWriteApart
    <3> QED BY <1>0, <1>2, <2>1, <3>2
  <2> QED BY <1>0, <2>2 DEF Ready
<1> QED BY <1>1, <1>2 DEF RecvShape, Reads

\* The slots' numbers only grow, so what head has passed stays passed.
LEMMA InOrderSend ==
    ASSUME RingInv, Owner, OneProducer, Window, Quotas(SoleSending), InOrder,
           NEW p \in Producers, SoleSend(p)
    PROVE InOrder'
<1>0. /\ head \in Nat /\ Len(log) \in Nat /\ TypeOK /\ log \in Seq(Item)
      /\ seq \in [Slots -> Nat] /\ head' = head /\ pos \in [Threads -> Nat]
      /\ p \in Threads
      /\ SendShape(p, SoleSending) /\ SoleSendFlow(pc[p], pc'[p]) /\ SoleSendEffect(p)
  BY ShapeTypes, SoleSendShape, SoleSendMoves DEF RingInv, SoleSendEffect
<1>1. \A c \in Consumers : At(c, "recheck")' => pos'[c] <= head'
  <2>1. \A c \in Consumers : pos'[c] = pos[c] /\ (pc'[c] = pc[c] \/ pc'[c] = "unpark")
    BY <1>0, ShapeTypes DEF SendShape, Moves
  <2> QED BY <1>0, <2>1 DEF InOrder, At
<1>2. \A i \in Nat : seq'[Slot(i)] \in {seq[Slot(i)], seq[Slot(i)] + 1}
  <2>1. CASE UNCHANGED seq
    BY <2>1
  <2>2. CASE Writing(p) /\ seq' = [seq EXCEPT ![Slot(pos[p])] = pos[p] + 1]
    <3>1. pos[p] \in Nat /\ Slot(pos[p]) \in Slots /\ seq[Slot(pos[p])] = pos[p]
      BY <1>0, <2>2, PosType DEF RingInv, Writers
    <3> QED BY <1>0, <2>2, <3>1, SlotType
  <2> QED BY <1>0, <2>1, <2>2 DEF SendShape
<1>3. \A i \in 0 .. head' - 1 : seq'[Slot(i)] > i
  <2> SUFFICES ASSUME NEW i \in 0 .. head - 1 PROVE seq'[Slot(i)] > i
    BY <1>0
  <2>1. i \in Nat /\ seq[Slot(i)] > i /\ seq[Slot(i)] \in Nat
    BY <1>0, SlotType DEF InOrder
  <2> QED BY <1>2, <2>1
<1>4. \A i \in head .. Len(log') - 1 : seq'[Slot(i)] = i =>
         i = Len(log') - 1 /\ pc'[p] \in {"punblock", "write", "publish"}
  <2> SUFFICES ASSUME NEW i \in head .. Len(log') - 1, seq'[Slot(i)] = i
               PROVE i = Len(log') - 1 /\ pc'[p] \in {"punblock", "write", "publish"}
    OBVIOUS
  <2>1. CASE pc[p] \in {"retry", "retail"} /\ pc'[p] \in {"write", "punblock"}
    <3>1. Len(log') = Len(log) + 1 /\ seq' = seq
      BY <1>0, <2>1 DEF SoleSendEffect, Enter
    <3>2. i # Len(log) => i \in head .. Len(log) - 1
      BY <1>0, <3>1
    <3>3. \A q \in Producers : pc[q] \notin {"punblock", "write", "publish"}
      BY <2>1 DEF OneProducer
    <3>4. i = Len(log)
      BY <3>1, <3>2, <3>3 DEF InOrder
    <3> QED BY <1>0, <2>1, <3>1, <3>4
  <2>2. CASE ~(pc[p] \in {"retry", "retail"} /\ pc'[p] \in {"write", "punblock"})
    <3>1. log' = log
      BY <1>0, <2>2 DEF SoleSendEffect
    <3>2. i \in Nat /\ Slot(i) \in Slots /\ seq[Slot(i)] \in {i, i + 1}
      BY <1>0, <3>1, SlotType DEF Window
    <3>3. seq[Slot(i)] = i
      BY <1>0, <1>2, <3>2
    <3>4. i = Len(log) - 1 /\ pc[p] \in {"punblock", "write", "publish"}
      <4>1. i = Len(log) - 1 /\ \E q \in Producers : pc[q] \in {"punblock", "write", "publish"}
        BY <3>1, <3>3 DEF InOrder
      <4> QED BY <4>1 DEF OneProducer
    <3>5. pc[p] # "publish"
      <4> SUFFICES ASSUME pc[p] = "publish" PROVE FALSE
        OBVIOUS
      <4>1. pos[p] = i
        BY <1>0, <3>4 DEF Owner, Owning, RingInv, TypeOK
      <4>2. seq'[Slot(i)] = i + 1
        BY <1>0, <3>2, <4>1 DEF SoleSendEffect
      <4> QED BY <3>2, <4>2
    <3> QED BY <1>0, <3>1, <3>4, <3>5 DEF SoleSendFlow
  <2> QED BY <2>1, <2>2
<1> QED BY <1>0, <1>1, <1>3, <1>4 DEF InOrder

LEMMA InOrderRecv ==
    ASSUME RingInv, Window, InOrder, NEW c \in Consumers, SpmcRecv(c)
    PROVE InOrder'
<1>0. /\ head \in Nat /\ Len(log) \in Nat /\ TypeOK /\ log' = log
      /\ seq \in [Slots -> Nat] /\ pos \in [Threads -> Nat] /\ c \in Threads
      /\ RecvShape(c, "pwoken") /\ MultiRecvFlow(pc[c], pc'[c])
      /\ Consumers \subseteq Threads
  BY ShapeTypes, MultiRecvShape, MultiRecvMoves DEF RingInv, SpmcRecv, RecvShape
<1>1. head' \in {head, head + 1}
  BY <1>0 DEF RecvShape, Takes, Reads
<1>2. \A d \in Consumers : At(d, "recheck")' => pos'[d] <= head'
  <2> SUFFICES ASSUME NEW d \in Consumers, pc'[d] = "recheck" PROVE pos'[d] <= head'
    BY DEF At
  <2>1. CASE d = c
    BY <1>0, <1>1, <2>1, SpmcRecvLooks
  <2>2. CASE d # c
    <3>1. pos'[d] = pos[d] /\ pc[d] = "recheck" /\ pos[d] \in Nat
      BY <1>0, <2>2 DEF RecvShape, Moves
    <3>2. pos[d] <= head
      BY <3>1 DEF InOrder, At
    <3> QED BY <1>0, <1>1, <3>1, <3>2
  <2> QED BY <2>1, <2>2
<1>3. \A i \in Nat : seq'[Slot(i)] >= seq[Slot(i)] /\ seq'[Slot(i)] \in Nat
  <2>1. CASE UNCHANGED seq
    BY <1>0, <2>1, SlotType
  <2>2. CASE Reading(c) /\ seq' = [seq EXCEPT ![Slot(pos[c])] = pos[c] + Cap]
    <3>1. pos[c] \in Nat /\ Slot(pos[c]) \in Slots /\ seq[Slot(pos[c])] = pos[c] + 1
      BY <1>0, <2>2, PosType DEF RingInv, Readers
    <3>2. SUFFICES ASSUME NEW i \in Nat PROVE seq'[Slot(i)] >= seq[Slot(i)] /\ seq'[Slot(i)] \in Nat
      OBVIOUS
    <3>3. Slot(i) \in Slots /\ seq[Slot(i)] \in Nat
      BY <1>0, SlotType
    <3>4. CASE Slot(i) = Slot(pos[c])
      <4>1. seq'[Slot(i)] = pos[c] + Cap /\ seq[Slot(i)] = pos[c] + 1
        BY <1>0, <2>2, <3>1, <3>4
      <4> QED BY <3>1, <4>1
    <3>5. CASE Slot(i) # Slot(pos[c])
      <4>1. seq'[Slot(i)] = seq[Slot(i)]
        BY <1>0, <2>2, <3>3, <3>5
      <4> QED BY <3>3, <4>1
    <3> QED BY <3>4, <3>5
  <2> QED BY <1>0, <2>1, <2>2 DEF RecvShape, Takes, Reads
<1>4. \A i \in Nat : i < head' => seq'[Slot(i)] > i
  <2> SUFFICES ASSUME NEW i \in Nat, i < head' PROVE seq'[Slot(i)] > i
    OBVIOUS
  <2>1. i \in Nat /\ seq[Slot(i)] \in Nat /\ (i \in 0 .. head - 1 \/ (head' = head + 1 /\ i = head))
    <3>1. seq[Slot(i)] \in Nat
      BY <1>0, SlotType
    <3> QED BY <1>0, <1>1, <3>1
  <2>2. seq[Slot(i)] > i
    <3>1. CASE i \in 0 .. head - 1
      BY <3>1 DEF InOrder
    <3>2. CASE head' = head + 1 /\ i = head
      <4>1. Takes(c)
        BY <1>0, <3>2 DEF RecvShape, Reads
      <4>2. seq[Slot(head)] = head + 1
        BY <1>0, <4>1 DEF RingInv, Takers, Takes, At
      <4> QED BY <1>0, <3>2, <4>2
    <3> QED BY <2>1, <3>1, <3>2
  <2> QED BY <1>3, <2>1, <2>2
<1>5. \A p \in Producers : pc[p] \in {"punblock", "write", "publish"} => pc'[p] = pc[p]
  BY <1>0, ShapeTypes DEF RecvShape, Moves
<1>6. \A i \in head' .. Len(log) - 1 : i \in head .. Len(log) - 1 /\ i \in Nat
  BY <1>0, <1>1
<1>7. \A i \in head' .. Len(log) - 1 : seq'[Slot(i)] = i => seq[Slot(i)] = i
  <2> SUFFICES ASSUME NEW i \in head' .. Len(log) - 1, seq'[Slot(i)] = i PROVE seq[Slot(i)] = i
    OBVIOUS
  <2>1. seq[Slot(i)] \in {i, i + 1} /\ seq'[Slot(i)] >= seq[Slot(i)] /\ i \in Nat
    BY <1>3, <1>6 DEF Window
  <2> QED BY <2>1
<1>8. \A i \in head' .. Len(log) - 1 : seq'[Slot(i)] = i =>
         i = Len(log) - 1 /\ \E p \in Producers : pc'[p] \in {"punblock", "write", "publish"}
  BY <1>5, <1>6, <1>7 DEF InOrder
<1>9. \A i \in 0 .. head' - 1 : i \in Nat /\ i < head'
  <2>1. PICK h \in Nat : h = head'
    BY <1>0, <1>1
  <2>2. \A i \in 0 .. h - 1 : i \in Nat /\ i < h
    OBVIOUS
  <2> QED BY <2>1, <2>2
<1> QED BY <1>0, <1>2, <1>4, <1>8, <1>9 DEF InOrder

LEMMA InOrderOther ==
    ASSUME TypeOK, InOrder, Close \/ UNCHANGED vars
    PROVE InOrder'
<1>1. UNCHANGED <<seq, head, log, pos>>
  BY DEF Close, SetClosed, CloseBump, CloseWakeAll, vars, ring, regs, hist
<1>2. \A t \in Threads : pc'[t] = pc[t] \/ (pc[t] = "csleep" /\ pc'[t] = "unpark")
  BY DEF Close, SetClosed, CloseBump, CloseWakeAll, vars
<1>3. \A p \in Producers : pc[p] \in {"punblock", "write", "publish"} => pc'[p] = pc[p]
  BY <1>2 DEF Threads
<1>4. \A c \in Consumers : pc'[c] = "recheck" => pc[c] = "recheck"
  BY <1>2 DEF Threads
<1> QED BY <1>1, <1>3, <1>4 DEF InOrder, At

\* Counts of one producer, and of the announced.
WakingNow(p) == pc[p] \in {"bumpavail", "wakeavail"} \/ (pc[p] \in {"advance", "readcw"} /\ cw > 0)

LEMMA WakingCount ==
    ASSUME OneProducer, NEW p \in Producers
    PROVE /\ Cardinality(Waking) = IF WakingNow(p) THEN 1 ELSE 0
          /\ Cardinality(Waking)' = IF WakingNow(p)' THEN 1 ELSE 0
<1>1. Cardinality(Waking) = IF WakingNow(p) THEN 1 ELSE 0
  <2>1. Waking = IF WakingNow(p) THEN {p} ELSE {}
    BY DEF Waking, WakingNow, OneProducer
  <2> QED BY <2>1, FS_Singleton, FS_EmptySet
<1>2. Cardinality(Waking)' = IF WakingNow(p)' THEN 1 ELSE 0
  <2>1. Waking' = IF WakingNow(p)' THEN {p} ELSE {}
    BY DEF Waking, WakingNow, OneProducer
  <2> QED BY <2>1, FS_Singleton, FS_EmptySet
<1> QED BY <1>1, <1>2

LEMMA AnnouncedNat ==
    ASSUME NEW S, IsFiniteSet(S), NEW B
    PROVE /\ Announced(S, B) \in Nat /\ Announced(S, B)' \in Nat
          /\ (\E t \in S : pc[t] \in B) => Announced(S, B) > 0
          /\ (\E t \in S : pc'[t] \in B) => Announced(S, B)' > 0
<1>1. IsFiniteSet({t \in S : pc[t] \in B}) /\ IsFiniteSet({t \in S : pc'[t] \in B})
  BY FS_Subset
<1>2. Announced(S, B) \in Nat /\ Announced(S, B)' \in Nat
  BY <1>1, FS_CardinalityType DEF Announced
<1>3. ASSUME NEW t \in S, pc[t] \in B PROVE Announced(S, B) # 0
  BY <1>1, <1>3, FS_EmptySet DEF Announced
<1>4. ASSUME NEW t \in S, pc'[t] \in B PROVE Announced(S, B)' # 0
  BY <1>1, <1>4, FS_EmptySet DEF Announced
<1> QED BY <1>2, <1>3, <1>4

LEMMA WakingNat ==
    /\ IsFiniteSet(Waking) /\ Cardinality(Waking) \in Nat
    /\ IsFiniteSet(Waking') /\ Cardinality(Waking)' \in Nat
<1>1. Waking \subseteq Producers /\ Waking' \subseteq Producers
  BY DEF Waking
<1>2. IsFiniteSet(Waking) /\ IsFiniteSet(Waking')
  BY <1>1, FS_Subset
<1> QED BY <1>2, FS_CardinalityType

\* The producer's steps: it bumps the word before it wakes, and wakes when the
\* count of the announced is not zero.
LEMMA AttendedSend ==
    ASSUME RingInv, Owner, OneProducer, FlowInv, NEW p \in Producers, SoleSend(p)
    PROVE Attended'
<1>0. /\ TypeOK /\ p \in Threads /\ Consumers \subseteq Threads /\ Producers \subseteq Threads
      /\ pc \in [Threads -> Labels] /\ ev \in [Threads -> Nat] /\ avail \in Nat
      /\ \A c \in Consumers : c # p
      /\ SendShape(p, SoleSending) /\ SoleSendFlow(pc[p], pc'[p]) /\ SoleSendEffect(p)
      /\ cw' = cw
  BY ShapeTypes, SoleSendShape, SoleSendMoves
     DEF RingInv, SoleSendEffect, TypeOK, FlowInv
<1>1. /\ pc[p] # "publish" => Cardinality(Ready)' = Cardinality(Ready)
      /\ Cardinality(Ready)' <= Cardinality(Ready) + 1 /\ Cardinality(Ready)' \in Nat
  <2>1. pc[p] # "publish" => UNCHANGED seq
    BY <1>0 DEF SoleSendEffect
  <2> QED BY <1>0, <2>1, ReadySend DEF FlowInv
<1>2. Cardinality(Ready) \in Nat
  BY <1>0, ReadyCount
<1>3. /\ Cardinality(Waking) = IF WakingNow(p) THEN 1 ELSE 0
      /\ Cardinality(Waking)' = IF WakingNow(p)' THEN 1 ELSE 0
      /\ Announced(Producers, Pushing) = IF pc[p] \in Pushing THEN 1 ELSE 0
      /\ Announced(Producers, Pushing)' = IF pc'[p] \in Pushing THEN 1 ELSE 0
  <2>1. \A q \in Producers : q = p
    BY DEF OneProducer
  <2> QED BY <2>1, WakingCount, CountOne
<1>4. \A c \in Consumers : pc[c] \in Parked => cw > 0
  BY AnnouncedNat DEF FlowInv, Waiters
<1>5. \A q \in Producers : pc'[q] # "csleep"
  BY <1>0 DEF OneProducer, SoleSendFlow
<1>6. Announced(Consumers, Alert) \in Nat
  BY AnnouncedNat
<1>7. CASE pc[p] = "wakeavail"
  <2>1. /\ \A c \in Consumers : ev'[c] = ev[c]
        /\ avail' = avail /\ pc'[p] = "idle" /\ WakeOne(p, "csleep", "unpark", "idle")
        /\ \A c \in Consumers : pc'[c] = pc[c] \/ (pc[c] = "csleep" /\ pc'[c] = "unpark")
    BY <1>0, <1>7, SoleSendSignals DEF SoleSendFlow, SendShape, Moves
  <2>2. \A c \in Consumers :
          /\ ev'[c] <= avail'
          /\ pc'[c] \in {"reclosed", "cwait"} /\ ev'[c] = avail' =>
               Cardinality(Ready)' <= Announced(Producers, Pushing)'
    BY <1>1, <1>3, <1>7, <2>1 DEF FlowInv, Attended, Pushing
  <2>3. CASE Sleeping("csleep") = {}
    <3>1. \A c \in Consumers : pc'[c] # "csleep"
      BY <1>0, <2>1, <2>3 DEF Sleeping
    <3>2. Sleeping("csleep")' = {}
      BY <1>5, <3>1 DEF Sleeping, Threads
    <3> QED BY <1>5, <2>2, <3>2 DEF Attended
  <2>4. CASE Sleeping("csleep") # {}
    <3>1. PICK u \in Sleeping("csleep") : pc' = [pc EXCEPT ![p] = "idle", ![u] = "unpark"]
      BY <2>1, <2>4 DEF WakeOne, Goto
    <3>2. u \in Consumers /\ pc[u] = "csleep" /\ u # p
      BY <1>7, <3>1 DEF Sleeping, Threads, FlowInv, Attended
    <3>3. /\ pc[u] \notin Alert /\ pc'[u] \in Alert
          /\ \A c \in Consumers : c # u => pc'[c] = pc[c]
      BY <1>0, <3>1, <3>2 DEF Alert
    <3>4. Announced(Consumers, Alert)' = Announced(Consumers, Alert) + 1
      BY <3>2, <3>3, CountMore
    <3>5. Cardinality(Ready) <= Announced(Consumers, Alert) + Cardinality(Waking)
      BY <2>4 DEF FlowInv, Attended
    <3>6. Cardinality(Waking) = 1 /\ Cardinality(Waking)' = 0
      BY <1>3, <1>7, <2>1 DEF WakingNow
    <3>7. Cardinality(Ready)' <= Announced(Consumers, Alert)' + Cardinality(Waking)'
      BY <1>1, <1>2, <1>6, <1>7, <3>4, <3>5, <3>6
    <3> QED BY <1>5, <2>2, <3>7 DEF Attended
  <2> QED BY <2>3, <2>4
<1>8. CASE pc[p] # "wakeavail"
  <2>1. /\ \A c \in Consumers : ev'[c] = ev[c] /\ pc'[c] = pc[c] /\ ev[c] \in Nat
        /\ avail' = IF pc[p] = "bumpavail" THEN avail + 1 ELSE avail
        /\ pc[p] = "readcw" /\ pc'[p] = "idle" => cw = 0
    BY <1>0, <1>8, SoleSendSignals
  <2>2. Announced(Consumers, Alert)' = Announced(Consumers, Alert)
    BY <2>1, CountSame
  <2>3. ASSUME cw > 0
        PROVE /\ WakingNow(p) => WakingNow(p)'
              /\ pc[p] = "publish" => WakingNow(p)' /\ ~WakingNow(p)
    BY <1>0, <1>8, <2>1, <2>3 DEF WakingNow, SoleSendFlow
  <2>4. Sleeping("csleep")' # {} =>
          Cardinality(Ready)' <= Announced(Consumers, Alert)' + Cardinality(Waking)'
    <3> SUFFICES ASSUME NEW s \in Threads, pc'[s] = "csleep"
                 PROVE Cardinality(Ready)' <= Announced(Consumers, Alert)' + Cardinality(Waking)'
      BY DEF Sleeping
    <3>1. s \in Consumers /\ pc[s] = "csleep"
      BY <1>5, <2>1 DEF Threads
    <3>2. cw > 0 /\ Cardinality(Ready) <= Announced(Consumers, Alert) + Cardinality(Waking)
      BY <1>4, <3>1 DEF FlowInv, Attended, Sleeping, Threads, Parked
    <3>3. CASE pc[p] = "publish"
      <4>1. Cardinality(Waking) = 0 /\ Cardinality(Waking)' = 1
        BY <1>3, <2>3, <3>2, <3>3
      <4> QED BY <1>1, <1>2, <1>6, <2>2, <3>2, <4>1
    <3>4. CASE pc[p] # "publish"
      <4>1. Cardinality(Waking) <= Cardinality(Waking)' /\ Cardinality(Waking) \in {0, 1}
            /\ Cardinality(Waking)' \in {0, 1}
        BY <1>3, <2>3, <3>2
      <4> QED BY <1>1, <1>2, <1>6, <2>2, <3>2, <3>4, <4>1
    <3> QED BY <3>3, <3>4
  <2>5. \A c \in Consumers :
          /\ ev'[c] <= avail'
          /\ pc'[c] \in {"reclosed", "cwait"} /\ ev'[c] = avail' =>
               Cardinality(Ready)' <= Announced(Producers, Pushing)'
    <3> SUFFICES ASSUME NEW c \in Consumers
                 PROVE /\ ev'[c] <= avail'
                       /\ pc'[c] \in {"reclosed", "cwait"} /\ ev'[c] = avail' =>
                            Cardinality(Ready)' <= Announced(Producers, Pushing)'
      OBVIOUS
    <3>1. ev[c] <= avail /\ ev'[c] = ev[c] /\ pc'[c] = pc[c] /\ ev[c] \in Nat
      BY <2>1 DEF FlowInv, Attended
    <3>2. ev'[c] <= avail'
      BY <1>0, <2>1, <3>1
    <3>3. ASSUME pc[c] \in {"reclosed", "cwait"}, ev[c] = avail'
          PROVE Cardinality(Ready)' <= Announced(Producers, Pushing)'
      <4>1. pc[p] # "bumpavail" /\ ev[c] = avail
        BY <1>0, <2>1, <3>1, <3>3
      <4>2. Cardinality(Ready) <= Announced(Producers, Pushing) /\ cw > 0
        BY <1>4, <3>3, <4>1 DEF FlowInv, Attended, Parked
      <4>3. CASE pc[p] = "publish"
        <5>1. Announced(Producers, Pushing) = 0 /\ Announced(Producers, Pushing)' = 1
          BY <1>0, <1>3, <4>3 DEF Pushing, SoleSendFlow
        <5> QED BY <1>1, <1>2, <4>2, <5>1
      <4>4. CASE pc[p] # "publish"
        <5>1. pc[p] \in Pushing => pc'[p] \in Pushing
          BY <1>0, <1>8, <2>1, <4>1, <4>2 DEF Pushing, SoleSendFlow
        <5>2. Cardinality(Ready)' = Cardinality(Ready)
          BY <1>1, <4>4
        <5> QED BY <1>2, <1>3, <4>2, <5>1, <5>2
      <4> QED BY <4>3, <4>4
    <3> QED BY <3>1, <3>2, <3>3
  <2> QED BY <1>5, <2>4, <2>5 DEF Attended
<1> QED BY <1>7, <1>8

\* The consumers' steps: one goes to sleep, or stops looking, only when nothing
\* is ready but what the producer has yet to announce.
LEMMA AttendedRecv ==
    ASSUME RingInv, FlowInv, Waiters', NEW c \in Consumers, SpmcRecv(c)
    PROVE Attended'
<1>0. /\ TypeOK /\ c \in Threads /\ Consumers \subseteq Threads /\ Producers \subseteq Threads
      /\ pc \in [Threads -> Labels] /\ pos \in [Threads -> Nat] /\ ev \in [Threads -> Nat]
      /\ avail \in Nat /\ \A p \in Producers : p # c
      /\ RecvShape(c, "pwoken") /\ MultiRecvFlow(pc[c], pc'[c])
  BY ShapeTypes, MultiRecvShape, MultiRecvMoves DEF RingInv, TypeOK, SpmcRecv
<1>1. /\ avail' = avail
      /\ \A d \in Consumers : ev'[d] = ev[d] \/ (d = c /\ ev'[d] = avail /\ pc'[d] = "rehead")
      /\ pc'[c] = "csleep" => ev[c] = avail
      /\ pc[c] \in {"check", "recheck"} /\ pc'[c] \in {"closed", "reclosed"} =>
           seq[Slot(pos[c])] = pos[c]
      /\ pc[c] = "check" => pc'[c] # "empty"
  BY <1>0, SpmcRecvLooks
<1>2. /\ \A p \in Producers : pc'[p] = pc[p] \/ (pc[p] = "psleep" /\ pc'[p] = "pwoken")
      /\ \A d \in Consumers : d # c => pc'[d] = pc[d] \/ (pc[d] = "psleep" /\ pc'[d] = "pwoken")
  BY <1>0 DEF RecvShape, Moves
<1>3. Announced(Producers, Pushing)' = Announced(Producers, Pushing)
  BY <1>2, CountSame DEF Pushing
<1>4. /\ Cardinality(Ready) \in Nat /\ Announced(Consumers, Alert) \in Nat
      /\ Announced(Consumers, Alert)' \in Nat /\ Announced(Producers, Pushing) \in Nat
      /\ Cardinality(Waking) \in Nat /\ Cardinality(Waking)' \in Nat
  BY <1>0, ReadyCount, AnnouncedNat, WakingNat
<1>5. /\ Takes(c) => Cardinality(Ready)' = Cardinality(Ready) - 1
      /\ ~Takes(c) => Cardinality(Ready)' = Cardinality(Ready)
  BY <1>0, ReadyTake, ReadyRecv DEF RecvShape, FlowInv
<1>6. pc[c] \in {"check", "recheck"} /\ pc'[c] \in {"closed", "reclosed"} =>
        Cardinality(Ready) = 0
  <2>1. pos[c] \in Nat /\ (pc[c] \in {"check", "recheck"} => pos[c] <= head)
    BY <1>0 DEF RingInv, Takers, FlowInv, InOrder, At
  <2> QED BY <1>0, <1>1, <2>1, ReadyNone DEF FlowInv
<1>7. /\ \A d \in Consumers : pc[d] \in Parked => cw > 0
      /\ \A d \in Consumers : pc'[d] \in Parked => cw' > 0
  BY AnnouncedNat DEF FlowInv, Waiters
<1>8. \A p \in Producers : pc'[p] # "csleep"
  BY <1>2 DEF FlowInv, Attended
<1>9. \A d \in Consumers :
        /\ ev'[d] <= avail'
        /\ pc'[d] \in {"reclosed", "cwait"} /\ ev'[d] = avail' =>
             Cardinality(Ready)' <= Announced(Producers, Pushing)'
  <2> SUFFICES ASSUME NEW d \in Consumers
               PROVE /\ ev'[d] <= avail'
                     /\ pc'[d] \in {"reclosed", "cwait"} /\ ev'[d] = avail' =>
                          Cardinality(Ready)' <= Announced(Producers, Pushing)'
    OBVIOUS
  <2>1. ev'[d] <= avail'
    BY <1>0, <1>1 DEF FlowInv, Attended
  <2>2. Cardinality(Ready)' <= Cardinality(Ready)
    BY <1>4, <1>5
  <2>3. ASSUME pc'[d] \in {"reclosed", "cwait"}, ev'[d] = avail'
        PROVE Cardinality(Ready)' <= Announced(Producers, Pushing)'
    <3>1. ev[d] = avail
      BY <1>1, <2>3
    <3>2. CASE pc[d] \in {"reclosed", "cwait"}
      <4>1. Cardinality(Ready) <= Announced(Producers, Pushing)
        BY <3>1, <3>2 DEF FlowInv, Attended
      <4> QED BY <1>3, <1>4, <1>5, <2>2, <4>1
    <3>3. CASE pc[d] \notin {"reclosed", "cwait"}
      <4>1. d = c /\ pc[c] = "recheck" /\ pc'[c] = "reclosed"
        BY <1>0, <1>2, <2>3, <3>3 DEF MultiRecvFlow
      <4>2. Cardinality(Ready) = 0 /\ ~Takes(c)
        BY <1>6, <4>1 DEF Takes
      <4> QED BY <1>3, <1>4, <1>5, <4>2
    <3> QED BY <3>2, <3>3
  <2> QED BY <2>1, <2>3
<1>10. Sleeping("csleep")' # {} =>
         Cardinality(Ready)' <= Announced(Consumers, Alert)' + Cardinality(Waking)'
  <2> SUFFICES ASSUME NEW s \in Threads, pc'[s] = "csleep"
               PROVE Cardinality(Ready)' <= Announced(Consumers, Alert)' + Cardinality(Waking)'
    BY DEF Sleeping
  <2>1. s \in Consumers /\ cw' > 0
    BY <1>7, <1>8 DEF Threads, Parked
  <2>2. CASE s = c
    <3>1. pc[c] = "cwait" /\ ev[c] = avail
      BY <1>0, <1>1, <2>2 DEF MultiRecvFlow
    <3>2. Cardinality(Ready) <= Announced(Producers, Pushing) /\ ~Takes(c)
      BY <2>2, <3>1 DEF FlowInv, Attended, Takes
    <3>3. Announced(Producers, Pushing)' <= Cardinality(Waking)'
      <4>1. {p \in Producers : pc'[p] \in Pushing} \subseteq Waking'
        BY <2>1 DEF Pushing, Waking
      <4> QED BY <4>1, WakingNat, FS_Subset DEF Announced
    <3> QED BY <1>3, <1>4, <1>5, <3>2, <3>3
  <2>3. CASE s # c
    <3>1. pc[s] = "csleep" /\ cw > 0
      BY <1>2, <1>7, <2>1, <2>3 DEF Parked
    <3>2. Cardinality(Ready) <= Announced(Consumers, Alert) + Cardinality(Waking)
      BY <2>1, <3>1 DEF FlowInv, Attended, Sleeping
    <3>3. Cardinality(Waking)' = Cardinality(Waking)
      <4>1. Waking' = Waking
        BY <1>2, <2>1, <3>1 DEF Waking
      <4> QED BY <4>1
    <3>4. \A d \in Consumers : d # c => (pc'[d] \in Alert <=> pc[d] \in Alert)
      BY <1>2 DEF Alert
    <3>5. CASE Takes(c)
      <4>1. pc[c] \in Alert /\ pc'[c] \notin Alert
        BY <3>5 DEF Takes, Alert, At
      <4>2. Announced(Consumers, Alert)' = Announced(Consumers, Alert) - 1
        BY <3>4, <4>1, CountLess
      <4> QED BY <1>4, <1>5, <3>2, <3>3, <3>5, <4>2
    <3>6. CASE ~Takes(c) /\ (pc[c] \in Alert => pc'[c] \in Alert)
      <4>1. CASE pc[c] \in Alert <=> pc'[c] \in Alert
        <5>1. Announced(Consumers, Alert)' = Announced(Consumers, Alert)
          BY <3>4, <4>1, CountSame
        <5> QED BY <1>4, <1>5, <3>2, <3>3, <3>6, <5>1
      <4>2. CASE pc[c] \notin Alert /\ pc'[c] \in Alert
        <5>1. Announced(Consumers, Alert)' = Announced(Consumers, Alert) + 1
          BY <3>4, <4>2, CountMore
        <5> QED BY <1>4, <1>5, <3>2, <3>3, <3>6, <5>1
      <4> QED BY <3>6, <4>1, <4>2
    <3>7. CASE ~Takes(c) /\ pc[c] \in Alert /\ pc'[c] \notin Alert
      <4>1. pc[c] = "check" /\ pc'[c] = "closed"
        BY <1>0, <1>1, <3>7 DEF MultiRecvFlow, Alert, RecvShape, Reads, At
      <4>2. Cardinality(Ready) = 0
        BY <1>6, <4>1
      <4> QED BY <1>4, <1>5, <3>7, <4>2
    <3> QED BY <3>5, <3>6, <3>7
  <2> QED BY <2>2, <2>3
<1> QED BY <1>8, <1>9, <1>10 DEF Attended

LEMMA AttendedOther ==
    ASSUME TypeOK, FlowInv, Close \/ UNCHANGED vars
    PROVE Attended'
<1>1. UNCHANGED <<seq, head, log, cw, ev>> /\ avail' \in {avail, avail + 1}
  BY DEF Close, SetClosed, CloseBump, CloseWakeAll, vars, ring, regs, hist, waits
<1>2. \A t \in Threads : pc'[t] = pc[t] \/ (pc[t] = "csleep" /\ pc'[t] = "unpark")
  BY DEF Close, SetClosed, CloseBump, CloseWakeAll, vars
<1>3. Sleeping("csleep")' = {} \/ UNCHANGED pc
  BY DEF Close, SetClosed, CloseBump, CloseWakeAll, vars, Sleeping
<1>4. Ready' = Ready
  BY <1>1 DEF Ready
<1>5. \A p \in Producers : pc'[p] = pc[p]
  BY <1>2 DEF FlowInv, Attended, Threads
<1>6. Waking' = Waking /\ Announced(Producers, Pushing)' = Announced(Producers, Pushing)
  BY <1>1, <1>5, CountSame DEF Waking
<1>7. Sleeping("csleep")' # {} =>
        Cardinality(Ready)' <= Announced(Consumers, Alert)' + Cardinality(Waking)'
  <2> SUFFICES ASSUME UNCHANGED pc, Sleeping("csleep") # {}
               PROVE Cardinality(Ready)' <= Announced(Consumers, Alert)' + Cardinality(Waking)'
    BY <1>3 DEF Sleeping
  <2>1. Announced(Consumers, Alert)' = Announced(Consumers, Alert)
    BY DEF Announced
  <2> QED BY <1>4, <1>6, <2>1 DEF FlowInv, Attended
<1>8. ASSUME NEW c \in Consumers
      PROVE /\ ev'[c] <= avail'
            /\ pc'[c] \in {"reclosed", "cwait"} /\ ev'[c] = avail' =>
                 Cardinality(Ready)' <= Announced(Producers, Pushing)'
  <2>1. ev[c] <= avail /\ ev[c] \in Nat /\ avail \in Nat /\ c \in Threads
    BY DEF FlowInv, Attended, TypeOK, Threads
  <2>2. ev'[c] <= avail' /\ (ev'[c] = avail' => ev[c] = avail)
    BY <1>1, <2>1
  <2>3. pc'[c] \in {"reclosed", "cwait"} => pc[c] \in {"reclosed", "cwait"}
    BY <1>2, <2>1
  <2>4. pc[c] \in {"reclosed", "cwait"} /\ ev[c] = avail =>
          Cardinality(Ready) <= Announced(Producers, Pushing)
    BY DEF FlowInv, Attended
  <2> QED BY <1>4, <1>6, <2>2, <2>3, <2>4
<1>9. \A p \in Producers : pc'[p] # "csleep"
  BY <1>5 DEF FlowInv, Attended
<1> QED BY <1>7, <1>8, <1>9 DEF Attended

----------------------------------------------------------------------------

LEMMA InitFlow == Init => FlowInv
<1> SUFFICES ASSUME Init PROVE FlowInv
  OBVIOUS
<1>1. ChannelInv(SoleSending) /\ Waiters
  BY InitChannel, InitWaiters DEF SoleSending
<1>2. /\ Len(log) = 0 /\ head = 0 /\ \A t \in Threads : pc[t] = "idle" /\ ev[t] = 0 /\ avail = 0
      /\ Producers \subseteq Threads /\ Consumers \subseteq Threads
  BY DEF Init, Threads
<1>3. InOrder
  BY <1>2 DEF InOrder, At
<1>4. Attended
  BY <1>2 DEF Attended, Sleeping
<1> QED BY <1>1, <1>3, <1>4 DEF FlowInv, ChannelInv

LEMMA FlowStep ==
    ASSUME RingInv, Owner, OneProducer, FlowInv, [SpmcNext]_vars
    PROVE FlowInv'
<1>0. /\ "psleep" \in SoleSending /\ "pwoken" \in SoleSending /\ "unpark" \notin SoleSending
      /\ "pwoken" \in {"punblock", "pwoken"} /\ TypeOK
  BY DEF SoleSending, RingInv
<1>1. ASSUME NEW p \in Producers, SoleSend(p) PROVE FlowInv'
  <2>1. SendShape(p, SoleSending)
    BY <1>1, SoleSendShape DEF FlowInv
  <2>2. Window' /\ Quotas(SoleSending)'
    BY <1>0, <2>1, WindowSend, QuotasSend DEF FlowInv
  <2>3. Waiters'
    BY <1>0, <1>1, WaitersSoleSend DEF FlowInv
  <2>4. InOrder'
    BY <1>1, InOrderSend DEF FlowInv
  <2>5. Attended'
    BY <1>1, AttendedSend
  <2> QED BY <2>2, <2>3, <2>4, <2>5 DEF FlowInv
<1>2. ASSUME NEW c \in Consumers, SpmcRecv(c) PROVE FlowInv'
  <2>1. RecvShape(c, "pwoken")
    BY <1>0, <1>2, MultiRecvShape DEF SpmcRecv
  <2>2. Window' /\ Quotas(SoleSending)'
    BY <1>0, <2>1, WindowRecv, QuotasRecv DEF FlowInv
  <2>3. Waiters'
    BY <1>0, <1>2, WaitersMultiRecv DEF FlowInv
  <2>4. InOrder'
    BY <1>2, InOrderRecv DEF FlowInv
  <2>5. Attended'
    BY <1>2, <2>3, AttendedRecv
  <2> QED BY <2>2, <2>3, <2>4, <2>5 DEF FlowInv
<1>3. CASE Close \/ UNCHANGED vars
  <2>1. UNCHANGED <<seq, head, log, sent>>
    BY <1>3 DEF Close, SetClosed, CloseBump, CloseWakeAll, vars, ring, hist
  <2>2. \A t \in Threads : pc'[t] = pc[t] \/ pc'[t] = "unpark"
    BY <1>3 DEF Close, SetClosed, CloseBump, CloseWakeAll, vars
  <2>3. Window' /\ Quotas(SoleSending)'
    BY <1>0, <2>1, <2>2 DEF FlowInv, Window, Quotas, Threads
  <2>4. Waiters' /\ InOrder' /\ Attended'
    BY <1>0, <1>3, WaitersOther, InOrderOther, AttendedOther DEF FlowInv
  <2> QED BY <2>3, <2>4 DEF FlowInv
<1> QED BY <1>1, <1>2, <1>3 DEF SpmcNext, Ended

LEMMA FlowConserves ==
    ASSUME TypeOK, FlowInv
    PROVE WorkConserving
<1> SUFFICES ASSUME Sleeping("csleep") # {}
             PROVE Cardinality(Ready) <= Cardinality(Awake) + Cardinality(Waking)
  BY DEF WorkConserving
<1>1. Cardinality(Ready) <= Announced(Consumers, Alert) + Cardinality(Waking)
  BY DEF FlowInv, Attended
<1>2. Awake \subseteq Consumers /\ {t \in Consumers : pc[t] \in Alert} \subseteq Awake
  BY DEF Awake, Alert
<1>3. IsFiniteSet(Awake) /\ Cardinality(Awake) \in Nat
  BY <1>2, FS_Subset, FS_CardinalityType
<1>4. Announced(Consumers, Alert) <= Cardinality(Awake)
  BY <1>2, <1>3, FS_Subset DEF Announced
<1>5. Cardinality(Ready) \in Nat /\ Cardinality(Waking) \in Nat
  BY ReadyCount, WakingNat
<1>6. Announced(Consumers, Alert) \in Nat
  BY AnnouncedNat
<1> QED BY <1>1, <1>3, <1>4, <1>5, <1>6

\* No worker of ring_spmc.asm sleeps while an item it could take has nobody on
\* its way to it, for any number of workers, items and slots, closed early or
\* late (spmc_send wakes one sleeper, spmc_recv rechecks before it sleeps).
THEOREM SpmcWorkConserving == ASSUME OneProducer PROVE SpmcSpec => []WorkConserving
<1>1. RingInv /\ Owner /\ FlowInv /\ [SpmcNext]_vars => FlowInv'
  BY FlowStep
<1>2. RingInv /\ FlowInv => WorkConserving
  BY FlowConserves DEF RingInv
<1>3. SpmcSpec => [](RingInv /\ Owner)
  BY SpmcInvariant
<1> QED BY <1>1, <1>2, <1>3, InitFlow, PTL DEF SpmcSpec
=============================================================================
