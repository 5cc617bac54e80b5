----------------------------- MODULE FutexMutex -----------------------------
(***************************************************************************)
(* The mutex of src/src/sync.rs (Linux): one futex word, 0 free, 1 held,   *)
(* 2 held and perhaps somebody asleep.  It guards the completion log, the  *)
(* target-quality log and the progress tables that all workers share.      *)
(*                                                                         *)
(* One action is one atomic access to the word, or one futex call.  The    *)
(* futex is external: FUTEX_WAIT compares and sleeps in one step and may   *)
(* return for no reason, FUTEX_WAKE releases one sleeper if there is one.  *)
(***************************************************************************)
EXTENDS Naturals, FiniteSets

CONSTANT Threads

VARIABLES state,   \* the futex word
          pc       \* where each thread is in lock or in the drop of its guard

vars == <<state, pc>>

Labels == {"out", "spin", "retry", "swap", "wait", "asleep", "cs", "wake"}

Init == /\ state = 0
        /\ pc = [t \in Threads |-> "out"]

Step(t, from, to) == pc[t] = from /\ pc' = [pc EXCEPT ![t] = to]

\* compare_exchange(0, 1): into the critical section, or on to what comes next.
CompareExchange(t, from, next) ==
    \/ /\ state = 0
       /\ state' = 1
       /\ Step(t, from, "cs")
    \/ /\ state # 0
       /\ Step(t, from, next)
       /\ UNCHANGED state

Lock(t) == CompareExchange(t, "out", "spin")

\* At most SPIN loads, fewer once the word is no longer 1; how many is left open.
SpinEnds(t) == Step(t, "spin", "retry") /\ UNCHANGED state

LockSlow(t) == CompareExchange(t, "retry", "swap")

\* Mutation of SwapTwo: the lock taken with 1, as the fast path does.
SwapWritesOne(t) == /\ Step(t, "swap", IF state = 0 THEN "cs" ELSE "wait")
                    /\ state' = IF state = 0 THEN 1 ELSE 2

\* state.swap(2): whoever finds 0 holds the lock, and leaves the word at 2.
SwapTwo(t) == /\ Step(t, "swap", IF state = 0 THEN "cs" ELSE "wait")
              /\ state' = 2

FutexWait(t) == /\ Step(t, "wait", IF state = 2 THEN "asleep" ELSE "swap")
                /\ UNCHANGED state

\* FUTEX_WAIT returns without a wake (a signal): the loop swaps again.
SpuriousWake(t) == Step(t, "asleep", "swap") /\ UNCHANGED state

\* Mutation of Drop: nobody is ever woken.
DropNeverWakes(t) == /\ Step(t, "cs", "out")
                     /\ state' = 0

Drop(t) == /\ Step(t, "cs", IF state = 2 THEN "wake" ELSE "out")
           /\ state' = 0

Asleep == {t \in Threads : pc[t] = "asleep"}

FutexWake(t) ==
    /\ \/ Asleep = {} /\ Step(t, "wake", "out")
       \/ \E u \in Asleep : /\ pc[t] = "wake"
                            /\ pc' = [pc EXCEPT ![t] = "out", ![u] = "swap"]
    /\ UNCHANGED state

Acquire(t) == SpinEnds(t) \/ LockSlow(t) \/ SwapTwo(t) \/ FutexWait(t)
Release(t) == Drop(t) \/ FutexWake(t)

Next == \E t \in Threads : Lock(t) \/ Acquire(t) \/ Release(t) \/ SpuriousWake(t)

\* A thread inside lock or drop goes on, and every guard is dropped; nobody has
\* to call lock and nothing has to wake for no reason.
Spec == /\ Init /\ [][Next]_vars
        /\ \A t \in Threads : WF_vars(Acquire(t) \/ Release(t))

----------------------------------------------------------------------------
TypeOK == state \in 0 .. 2 /\ pc \in [Threads -> Labels]

Holders == {t \in Threads : pc[t] = "cs"}

\* The guard hands out &mut T (sync.rs:109-113): two holders would alias it.
MutualExclusion == \A t, u \in Holders : t = u

\* The word is 0 exactly when nobody holds the lock: a word left non-zero
\* would never be released, a 0 under a holder would let a second one in.
WordTellsHeld == (state # 0) <=> (Holders # {})

\* While anyone sleeps, somebody is bound to wake one: the holder will see 2
\* when it drops, a dropper is about to call FUTEX_WAKE, or a thread on its way
\* in is about to write 2.  lock_slow takes the lock with 2 (not 1) for this.
SleepersCovered == Asleep # {} => \/ state = 2
                                  \/ \E t \in Threads : pc[t] \in {"swap", "wake"}

\* Whenever a thread is inside lock, some thread gets the lock again: not
\* necessarily that one, the lock is unfair.
Contending == \E t \in Threads : pc[t] \in {"spin", "retry", "swap", "wait", "asleep"}
SomebodyGetsIn == Contending ~> Holders # {}
=============================================================================
