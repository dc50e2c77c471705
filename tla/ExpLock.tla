------------------------------ MODULE ExpLock ------------------------------
(***************************************************************************)
(* The per-experiment execution reservation of ExperimentObject            *)
(* (src/libopenss-cli/SS_Exp.hxx): Q_Lock, Q_UnLock, TS_Lock/CanExecute,   *)
(* with the wait list waiting_cmds and the per-command condition variable  *)
(* of CommandObject (Wait_On_Dependency / All_Clear).                      *)
(*                                                                         *)
(* Each thread runs one command after another against the experiment: it *)
(* takes the reservation (Q_Lock, or TS_Lock for a CanExecute probe),     *)
(* holds it while the command runs, gives it back and is idle again.       *)
(* Experiment_Lock is a pthread mutex: mutexHeld is its state, and pc      *)
(* records which critical section a thread believes it is in.  A step      *)
(* inside a critical section does not re-test mutexHeld, because the code  *)
(* does not either: Q_Lock's waited path unlocks the mutex a second time   *)
(* (Wait_On_Dependency already unlocked it), and with a default glibc      *)
(* mutex that unlock releases it whoever holds it.                         *)
(***************************************************************************)
EXTENDS Naturals, Sequences, SequencesExt, FiniteSets

CONSTANTS
    Cmds,       \* threads executing commands against this experiment
    Spurious    \* TRUE: pthread_cond_wait may return without a signal

ASSUME Cmds # {} /\ Spurious \in BOOLEAN

VARIABLES
    mutexHeld,  \* Experiment_Lock is locked
    reserved,   \* exp_reserved
    waiting,    \* waiting_cmds, a FIFO list
    pc          \* where each command thread is

vars == <<mutexHeld, reserved, waiting, pc>>

PCs == {"idle", "ql_locked", "queued", "signalled", "set_reserved",
        "stray_unlock", "holding", "qu_locked", "qu_popped"}

Init ==
    /\ mutexHeld = FALSE
    /\ reserved = FALSE
    /\ waiting = <<>>
    /\ pc = [c \in Cmds |-> "idle"]

-----------------------------------------------------------------------------
(* Q_Lock: Assert(pthread_mutex_lock(&Experiment_Lock) == 0).              *)
QLockAcquire(c) ==
    /\ pc[c] = "idle"
    /\ ~mutexHeld
    /\ mutexHeld' = TRUE
    /\ pc' = [pc EXCEPT ![c] = "ql_locked"]
    /\ UNCHANGED <<reserved, waiting>>

(* Q_Lock: if exp_reserved, push_back and pthread_cond_wait (which        *)
(* releases the mutex); otherwise exp_reserved = true and unlock.          *)
QLockCheck(c) ==
    /\ pc[c] = "ql_locked"
    /\ IF reserved
         THEN /\ waiting' = Append(waiting, c)
              /\ pc' = [pc EXCEPT ![c] = "queued"]
              /\ UNCHANGED reserved
         ELSE /\ reserved' = TRUE
              /\ pc' = [pc EXCEPT ![c] = "holding"]
              /\ UNCHANGED waiting
    /\ mutexHeld' = FALSE

(* pthread_cond_wait returns without All_Clear: POSIX allows it.           *)
SpuriousWakeup(c) ==
    /\ Spurious
    /\ pc[c] = "queued"
    /\ pc' = [pc EXCEPT ![c] = "signalled"]
    /\ UNCHANGED <<mutexHeld, reserved, waiting>>

(* Wait_On_Dependency: pthread_cond_wait re-locks the mutex on return and *)
(* the next line unlocks it; nothing is read or written in between.        *)
WaitReturn(c) ==
    /\ pc[c] = "signalled"
    /\ ~mutexHeld
    /\ pc' = [pc EXCEPT ![c] = "set_reserved"]
    /\ UNCHANGED <<mutexHeld, reserved, waiting>>

(* Q_Lock after Wait_On_Dependency: exp_reserved = true, not holding the  *)
(* mutex.                                                                  *)
SetReserved(c) ==
    /\ pc[c] = "set_reserved"
    /\ reserved' = TRUE
    /\ pc' = [pc EXCEPT ![c] = "stray_unlock"]
    /\ UNCHANGED <<mutexHeld, waiting>>

(* Q_Lock's final pthread_mutex_unlock, a second unlock on this path: it   *)
(* releases the mutex even when another thread holds it.                   *)
StrayUnlock(c) ==
    /\ pc[c] = "stray_unlock"
    /\ mutexHeld' = FALSE
    /\ pc' = [pc EXCEPT ![c] = "holding"]
    /\ UNCHANGED <<reserved, waiting>>

(* TS_Lock as called by CanExecute: lock, take the reservation whatever   *)
(* its state, unlock; on success CanExecute later calls Q_UnLock.          *)
TSLock(c) ==
    /\ pc[c] = "idle"
    /\ ~mutexHeld
    /\ reserved' = TRUE
    /\ pc' = [pc EXCEPT ![c] = IF reserved THEN "idle" ELSE "holding"]
    /\ UNCHANGED <<mutexHeld, waiting>>

(* Q_UnLock: lock the mutex.                                               *)
QUnLockAcquire(c) ==
    /\ pc[c] = "holding"
    /\ ~mutexHeld
    /\ mutexHeld' = TRUE
    /\ pc' = [pc EXCEPT ![c] = "qu_locked"]
    /\ UNCHANGED <<reserved, waiting>>

(* Q_UnLock: pop the head of waiting_cmds and All_Clear it.  The signal   *)
(* reaches the command only if it is still inside pthread_cond_wait.       *)
QUnLockPop(c) ==
    /\ pc[c] = "qu_locked"
    /\ IF waiting # <<>>
         THEN LET h == Head(waiting) IN
              /\ waiting' = Tail(waiting)
              /\ pc' = [pc EXCEPT ![c] = "qu_popped",
                                  ![h] = IF pc[h] = "queued" THEN "signalled"
                                                             ELSE pc[h]]
         ELSE /\ pc' = [pc EXCEPT ![c] = "qu_popped"]
              /\ UNCHANGED waiting
    /\ UNCHANGED <<mutexHeld, reserved>>

(* Q_UnLock: exp_reserved = false and unlock.                              *)
QUnLockRelease(c) ==
    /\ pc[c] = "qu_popped"
    /\ reserved' = FALSE
    /\ mutexHeld' = FALSE
    /\ pc' = [pc EXCEPT ![c] = "idle"]
    /\ UNCHANGED waiting

Step(c) ==
    \/ QLockAcquire(c) \/ QLockCheck(c) \/ SpuriousWakeup(c)
    \/ WaitReturn(c) \/ SetReserved(c) \/ StrayUnlock(c) \/ TSLock(c)
    \/ QUnLockAcquire(c) \/ QUnLockPop(c) \/ QUnLockRelease(c)

Next == \E c \in Cmds : Step(c)

(* Threads are scheduled by the OS: a thread that can take its next step   *)
(* keeps being able to until it does, except for the mutex, which other    *)
(* threads can take in between; the thread's own progress is weakly fair. *)
(* Starting a new command (QLockAcquire, TSLock) is up to the user and is *)
(* not required.                                                           *)
Progress(c) ==
    \/ QLockCheck(c) \/ WaitReturn(c) \/ SetReserved(c) \/ StrayUnlock(c)
    \/ QUnLockAcquire(c) \/ QUnLockPop(c) \/ QUnLockRelease(c)

Spec == Init /\ [][Next]_vars /\ \A c \in Cmds : WF_vars(Progress(c))

-----------------------------------------------------------------------------
TypeOK ==
    /\ mutexHeld \in BOOLEAN
    /\ reserved \in BOOLEAN
    /\ waiting \in Seq(Cmds)
    /\ pc \in [Cmds -> PCs]

Holders == {c \in Cmds : pc[c] \in {"holding", "qu_locked", "qu_popped"}}

(* Commands that still owe a Q_UnLock: they hold the reservation or have  *)
(* been released from the wait list and are on their way to holding it.   *)
Owing == Holders \cup {c \in Cmds : pc[c] \in {"signalled", "set_reserved", "stray_unlock"}}

(* Mutual exclusion, spec section 8: at most one command holds an         *)
(* experiment's reservation at a time (Q_Lock / Q_UnLock, SS_Exp.hxx).     *)
MutualExclusion == Cardinality(Holders) <= 1

(* Q_Lock's comment "wait until the previous commands have completed      *)
(* execution": a command still on waiting_cmds is asleep in               *)
(* Wait_On_Dependency, so it does not run before Q_UnLock pops it, and    *)
(* the All_Clear sent then is not lost.  Wait_On_Dependency calls         *)
(* pthread_cond_wait once, with no predicate to re-test.                  *)
WaitersAreBlocked == \A i \in 1..Len(waiting) : pc[waiting[i]] = "queued"

(* Nobody waits in vain: while waiting_cmds is not empty some command     *)
(* still owes the Q_UnLock that will pop its head.                         *)
NoStrandedWaiter == waiting # <<>> => Owing # {}

=============================================================================
