----------------------------- MODULE Dispatcher -----------------------------
(***************************************************************************)
(* The command worker pool of src/pcli/SS_Cmd_Execution.cxx: SS_Execute_Cmd *)
(* (submit), the worker loop Cmd_EXT_Create, Cmd_Execute, SafeToDoNextCmd, *)
(* Wait_For_Previous_Cmds, Purge_Dispatch_Queue and the exit path          *)
(* Wait_For_Others_To_Terminate.                                           *)
(*                                                                         *)
(* Every update of the pool's statics happens with Cmd_EXT_Lock held; a    *)
(* step of this module is one such critical section (or one step a thread *)
(* takes without the lock).  Two condition variables are modelled by the  *)
(* worker states that wait on them: "idle" (Cmd_EXT_Dispatch) and          *)
(* "wfpc_wait"/"wfot_wait" (Waiting_For_Cmds).  A signal moves one waiter  *)
(* to its woken state; a signal with no waiter is lost.                    *)
(*                                                                         *)
(* The command handlers (SS_expGo, SS_Exit, ...) are not under src/: a     *)
(* handler may call Wait_For_Previous_Cmds, then may call SafeToDoNextCmd  *)
(* (through Q_Lock(cmd, true)), and an exit command calls                  *)
(* Purge_Dispatch_Queue, the only function outside this file that can set  *)
(* the static Terminate_All_Execution.                                     *)
(***************************************************************************)
EXTENDS Naturals, Sequences, FiniteSets

CONSTANTS
    Workers,    \* thread identities
    EXT_MAX,    \* size of EXT_handle, the bound on EXT_Allocated
    Cmds,       \* commands the input thread submits, each once
    ExitCmds,   \* the commands among Cmds that are "exit"
    NoCmd       \* model value: no command

ASSUME /\ Workers # {} /\ Cmds # {} /\ ExitCmds \subseteq Cmds
       /\ NoCmd \notin Cmds
       /\ EXT_MAX \in 1..Cardinality(Workers)

VARIABLES
    queue,      \* EXT_Dispatch
    free,       \* EXT_Free
    allocated,  \* EXT_Allocated
    ready,      \* Ready_for_Next_Cmd
    executed,   \* Cmds_Executed
    terminate,  \* Terminate_All_Execution
    cmdWaiting, \* Cmd_Waiting
    shutDown,   \* Shut_Down
    status,     \* Command_Status of each command ("unsubmitted" before SS_Execute_Cmd)
    completed,  \* Cmd_Obj_Complete has been called for the command
    wstate,     \* where each worker thread is
    wcmd,       \* the command a worker picked up (cmd)
    wthis,      \* this_cmd_is
    wreleased,  \* the worker's command has called SafeToDoNextCmd
    wtmp        \* the value of EXT_Allocated the exit worker read

vars == <<queue, free, allocated, ready, executed, terminate, cmdWaiting,
          shutDown, status, completed, wstate, wcmd, wthis, wreleased, wtmp>>

Statuses == {"unsubmitted", "parsed", "executing", "complete", "error", "aborted"}
WStates == {"none", "idle", "woken", "run", "h_start", "wfpc_wait", "wfpc_woken",
            "h_safe", "h_body", "h_end", "after", "wfot", "wfot_wait",
            "wfot_woken", "exit_shut", "exit_read", "exit_write", "gone",
            "assert_failed"}

(* Worker states in which a command picked up by the worker is running.   *)
Running == {"run", "h_start", "wfpc_wait", "wfpc_woken", "h_safe", "h_body",
            "h_end", "after"}

Crashed == \E w \in Workers : wstate[w] = "assert_failed"

Init ==
    /\ queue = <<>>
    /\ free = 0
    /\ allocated = 0
    /\ ready = TRUE
    /\ executed = 0
    /\ terminate = FALSE
    /\ cmdWaiting = FALSE
    /\ shutDown = FALSE
    /\ status = [c \in Cmds |-> "unsubmitted"]
    /\ completed = [c \in Cmds |-> FALSE]
    /\ wstate = [w \in Workers |-> "none"]
    /\ wcmd = [w \in Workers |-> NoCmd]
    /\ wthis = [w \in Workers |-> 0]
    /\ wreleased = [w \in Workers |-> FALSE]
    /\ wtmp = [w \in Workers |-> 0]

-----------------------------------------------------------------------------
(* pthread_cond_signal: the state after waking one of the waiters of a    *)
(* condition variable in ws (the worker-state map so far), wakeTo mapping *)
(* each waiting state to its woken state; with no waiter the signal is   *)
(* lost.                                                                   *)
Signal(ws, wakeTo) ==
    LET waiters == {v \in Workers : ws[v] \in DOMAIN wakeTo} IN
    IF waiters = {} THEN {ws}
    ELSE {[ws EXCEPT ![v] = wakeTo[ws[v]]] : v \in waiters}

SignalDispatch(ws) == Signal(ws, [s \in {"idle"} |-> "woken"])
SignalWaitFor(ws) ==
    Signal(ws, [s \in {"wfpc_wait", "wfot_wait"} |->
                   IF s = "wfpc_wait" THEN "wfpc_woken" ELSE "wfot_woken"])

(* The top of the worker loop of Cmd_EXT_Create, entered with the lock    *)
(* held, with EXT_Free = fr, Ready_for_Next_Cmd = rdy and the worker map  *)
(* ws so far: either the worker has nothing to do, counts itself free,    *)
(* perhaps wakes the Wait_For_Previous_Cmds waiter and waits on           *)
(* Cmd_EXT_Dispatch, or it picks up the head of EXT_Dispatch and closes   *)
(* the gate.  Either way the lock is released.                            *)
(* A worker that just counted itself free wakes the Wait_For_Previous_Cmds *)
(* waiter when it makes every other worker free (fr: EXT_Free before).   *)
(* variant for mutation: *)
WakeWaiterOffByOne(fr) == cmdWaiting /\ ~terminate /\ allocated = fr + 1
WakeWaiter(fr) == cmdWaiting /\ ~terminate /\ allocated = fr + 2

LoopTop(w, fr, rdy, ws) ==
    IF ~rdy \/ queue = <<>>
    THEN /\ free' = fr + 1
         /\ wstate' \in IF WakeWaiter(fr)
                        THEN SignalWaitFor([ws EXCEPT ![w] = "idle"])
                        ELSE {[ws EXCEPT ![w] = "idle"]}
         /\ ready' = rdy
         /\ UNCHANGED <<queue, executed, wcmd, wthis, wreleased>>
    ELSE /\ wcmd' = [wcmd EXCEPT ![w] = Head(queue)]
         /\ executed' = executed + 1
         /\ wthis' = [wthis EXCEPT ![w] = executed + 1]
         /\ queue' = Tail(queue)
         /\ ready' = FALSE
         /\ free' = fr
         /\ wstate' = [ws EXCEPT ![w] = "run"]
         /\ wreleased' = [wreleased EXCEPT ![w] = FALSE]

(* SS_Execute_Cmd: the input thread hands command c to the pool.  After   *)
(* Terminate_All_Execution the command is dropped.  Otherwise it is      *)
(* queued and, if the gate is open, a free worker is signalled or, with   *)
(* none free, a new pthread is created; the new thread starts            *)
(* Cmd_EXT_Create with the lock still held, so its first critical section *)
(* is part of this step.  A failed pthread_create shuts the CLI down.     *)
(* pthread_create is tried while fewer than EXT_MAX workers exist; the    *)
(* new handle is stored in EXT_handle[EXT_Allocated].                     *)
CanCreate == allocated < EXT_MAX

SS_Execute_Cmd(c) ==
    /\ ~Crashed
    /\ status[c] = "unsubmitted"
    /\ status' = [status EXCEPT ![c] = "parsed"]
    /\ UNCHANGED <<completed, cmdWaiting, wtmp>>
    /\ IF terminate
       THEN UNCHANGED <<queue, free, allocated, ready, executed, terminate,
                        shutDown, wstate, wcmd, wthis, wreleased>>
       ELSE LET q == Append(queue, c) IN
            \/ /\ ready /\ free # 0
               /\ queue' = q
               /\ wstate' \in SignalDispatch(wstate)
               /\ UNCHANGED <<free, allocated, ready, executed, terminate,
                              shutDown, wcmd, wthis, wreleased>>
            \/ /\ ready /\ free = 0 /\ CanCreate
               /\ LET w == CHOOSE v \in Workers : wstate[v] = "none" IN
                     /\ allocated' = allocated + 1
                     \* the gate is open and q is not empty: w picks Head(q)
                     /\ wcmd' = [wcmd EXCEPT ![w] = Head(q)]
                     /\ executed' = executed + 1
                     /\ wthis' = [wthis EXCEPT ![w] = executed + 1]
                     /\ queue' = Tail(q)
                     /\ ready' = FALSE
                     /\ wstate' = [wstate EXCEPT ![w] = "run"]
                     /\ wreleased' = [wreleased EXCEPT ![w] = FALSE]
               /\ UNCHANGED <<free, terminate, shutDown>>
            \/ /\ ready /\ free = 0 /\ CanCreate
               \* pthread_create failed
               /\ queue' = q
               /\ terminate' = TRUE
               /\ shutDown' = TRUE
               /\ UNCHANGED <<free, allocated, ready, executed, wstate, wcmd,
                              wthis, wreleased>>
            \/ /\ ~ready \/ (free = 0 /\ ~CanCreate)
               /\ queue' = q
               /\ UNCHANGED <<free, allocated, ready, executed, terminate,
                              shutDown, wstate, wcmd, wthis, wreleased>>

-----------------------------------------------------------------------------
(* Cmd_EXT_Create after pthread_cond_wait on Cmd_EXT_Dispatch returns     *)
(* with the lock: the worker is no longer free; if the pool is shutting   *)
(* down it leaves (the last one to leave but one asserts that the exit    *)
(* worker waits and signals it), else it re-tests the loop condition.     *)
(* A variant of LeaveWhenWoken that forgets "EXT_Free--" (mutation). *)
LeaveWhenWokenKeepFree(w) ==
    /\ allocated' = allocated - 1
    /\ wstate' \in IF allocated - 1 = 1
                   THEN IF cmdWaiting
                        THEN SignalWaitFor([wstate EXCEPT ![w] = "gone"])
                        ELSE {[wstate EXCEPT ![w] = "assert_failed"]}
                   ELSE {[wstate EXCEPT ![w] = "gone"]}
    /\ UNCHANGED <<free, queue, ready, executed, wcmd, wthis, wreleased>>

(* Woken while Terminate_All_Execution is set: leave the pool; the worker *)
(* whose decrement leaves one worker asserts Cmd_Waiting (a failed Assert *)
(* aborts the process) and signals Waiting_For_Cmds.                      *)
LeaveWhenWoken(w) ==
    /\ free' = free - 1
    /\ allocated' = allocated - 1
    /\ wstate' \in IF allocated - 1 = 1
                   THEN IF cmdWaiting
                        THEN SignalWaitFor([wstate EXCEPT ![w] = "gone"])
                        ELSE {[wstate EXCEPT ![w] = "assert_failed"]}
                   ELSE {[wstate EXCEPT ![w] = "gone"]}
    /\ UNCHANGED <<queue, ready, executed, wcmd, wthis, wreleased>>

WorkerWake(w) ==
    /\ ~Crashed
    /\ wstate[w] = "woken"
    /\ UNCHANGED <<completed, status, terminate, shutDown, cmdWaiting, wtmp>>
    /\ IF terminate
       THEN LeaveWhenWoken(w)
       ELSE /\ LoopTop(w, free - 1, ready, wstate)
            /\ UNCHANGED allocated

(* Cmd_Execute up to the handler: a command whose input line is already  *)
(* complete or in error is aborted and completed; otherwise it becomes    *)
(* CMD_EXECUTING.  No code under src/ changes the status of a queued      *)
(* command, so the worker's status test before Cmd_Execute always passes. *)
CmdExecuteStart(w) ==
    /\ ~Crashed
    /\ wstate[w] = "run"
    /\ LET c == wcmd[w] IN
       \/ /\ status' = [status EXCEPT ![c] = "aborted"]
          /\ completed' = [completed EXCEPT ![c] = TRUE]
          /\ wstate' = [wstate EXCEPT ![w] = "after"]
       \/ /\ status' = [status EXCEPT ![c] = "executing"]
          /\ wstate' = [wstate EXCEPT ![w] = "h_start"]
          /\ UNCHANGED completed
    /\ UNCHANGED <<queue, free, allocated, ready, executed, terminate,
                   cmdWaiting, shutDown, wcmd, wthis, wreleased, wtmp>>

(* The while loops of Wait_For_Previous_Cmds and                         *)
(* Wait_For_Others_To_Terminate, with the lock held: while busy, set      *)
(* Cmd_Waiting and wait on Waiting_For_Cmds (in waitSt); else release the *)
(* lock and go on to nextSt.  cw is Cmd_Waiting on leaving: unchanged on  *)
(* entry, reset to false after a wait returned.                          *)
WaitWhile(w, busy, waitSt, nextSt, cw) ==
    IF busy
    THEN /\ cmdWaiting' = TRUE
         /\ wstate' = [wstate EXCEPT ![w] = waitSt]
    ELSE /\ cmdWaiting' = cw
         /\ wstate' = [wstate EXCEPT ![w] = nextSt]

(* Wait_For_Previous_Cmds waits while some other worker is busy.          *)
PrevBusy == allocated > free + 1

(* The handler either calls Wait_For_Previous_Cmds or goes on.            *)
HandlerStart(w) ==
    /\ ~Crashed
    /\ wstate[w] = "h_start"
    /\ \/ WaitWhile(w, PrevBusy, "wfpc_wait", "h_safe", cmdWaiting)
       \/ wstate' = [wstate EXCEPT ![w] = "h_safe"] /\ UNCHANGED cmdWaiting
    /\ UNCHANGED <<queue, free, allocated, ready, executed, terminate,
                   shutDown, status, completed, wcmd, wthis, wreleased, wtmp>>

(* Wait_For_Previous_Cmds after its pthread_cond_wait returned.           *)
WaitPrevWake(w) ==
    /\ ~Crashed
    /\ wstate[w] = "wfpc_woken"
    /\ WaitWhile(w, PrevBusy, "wfpc_wait", "h_safe", FALSE)
    /\ UNCHANGED <<queue, free, allocated, ready, executed, terminate,
                   shutDown, status, completed, wcmd, wthis, wreleased, wtmp>>

(* The handler either calls SafeToDoNextCmd (through Q_Lock(cmd, true))   *)
(* or goes on.  SafeToDoNextCmd opens the gate and wakes a free worker    *)
(* when a command is queued.  The exit handler keeps the gate closed:     *)
(* Cmd_EXT_Create recognises the exit worker as the one whose command is  *)
(* the newest (this_cmd_is == Cmds_Executed).                             *)
HandlerSafe(w) ==
    /\ ~Crashed
    /\ wstate[w] = "h_safe"
    /\ LET nextSt == IF wcmd[w] \in ExitCmds THEN "h_body" ELSE "h_end" IN
       \/ /\ wcmd[w] \notin ExitCmds
          /\ ready' = TRUE
          /\ wreleased' = [wreleased EXCEPT ![w] = TRUE]
          /\ wstate' \in IF queue # <<>> /\ free # 0
                         THEN SignalDispatch([wstate EXCEPT ![w] = nextSt])
                         ELSE {[wstate EXCEPT ![w] = nextSt]}
       \/ /\ wstate' = [wstate EXCEPT ![w] = nextSt]
          /\ UNCHANGED <<ready, wreleased>>
    /\ UNCHANGED <<queue, free, allocated, executed, terminate, cmdWaiting,
                   shutDown, status, completed, wcmd, wthis, wtmp>>

(* SS_Exit calls Purge_Dispatch_Queue: set Terminate_All_Execution and    *)
(* abort and complete every queued command.                               *)
Purge_Dispatch_Queue(w) ==
    /\ ~Crashed
    /\ wstate[w] = "h_body"
    /\ LET purged == {queue[i] : i \in 1..Len(queue)} IN
       /\ status' = [c \in Cmds |-> IF c \in purged THEN "aborted" ELSE status[c]]
       /\ completed' = [c \in Cmds |-> completed[c] \/ c \in purged]
    /\ terminate' = TRUE
    /\ queue' = <<>>
    /\ wstate' = [wstate EXCEPT ![w] = "h_end"]
    /\ UNCHANGED <<free, allocated, ready, executed, cmdWaiting, shutDown,
                   wcmd, wthis, wreleased, wtmp>>

(* The handler returns (successfully or with an error, also through the   *)
(* catch of Cmd_Execute) and Cmd_Execute calls Cmd_Obj_Complete.          *)
HandlerEnd(w) ==
    /\ ~Crashed
    /\ wstate[w] = "h_end"
    /\ \E s \in {"complete", "error"} :
          status' = [status EXCEPT ![wcmd[w]] = s]
    /\ completed' = [completed EXCEPT ![wcmd[w]] = TRUE]
    /\ wstate' = [wstate EXCEPT ![w] = "after"]
    /\ UNCHANGED <<queue, free, allocated, ready, executed, terminate,
                   cmdWaiting, shutDown, wcmd, wthis, wreleased, wtmp>>
(* The worker relocks after the command.  If an exit command has set      *)
(* Terminate_All_Execution it wakes every free worker; the worker that    *)
(* ran the most recently started command becomes the exit worker, every  *)
(* other one leaves, waking the exit worker if only the two are left.     *)
(* Otherwise it reopens the gate if its command is still the newest, and  *)
(* goes back to the top of the loop.                                      *)
(* After a command: with Terminate_All_Execution set and workers free,    *)
(* pthread_cond_broadcast wakes every one of them.                        *)
BroadcastNone(ws) == ws
Broadcast(ws) == [v \in Workers |-> IF ws[v] = "idle" THEN "woken" ELSE ws[v]]

(* After a command: the gate reopens if it is open or the worker's command *)
(* is still the newest one picked up.                                    *)
ReopenGateAlways(w) == TRUE
ReopenGateNever(w) == ready
ReopenGate(w) == ready \/ wthis[w] = executed

AfterCmd(w) ==
    /\ ~Crashed
    /\ wstate[w] = "after"
    /\ UNCHANGED <<status, completed, terminate, shutDown, wtmp>>
    /\ IF terminate
       THEN LET ws1 == IF free # 0 THEN Broadcast(wstate) ELSE wstate
            IN IF wthis[w] = executed
               THEN /\ wstate' = [ws1 EXCEPT ![w] = "wfot"]
                    /\ UNCHANGED <<queue, free, allocated, ready, executed,
                                   cmdWaiting, wcmd, wthis, wreleased>>
               ELSE /\ wstate' \in IF cmdWaiting /\ allocated = 2
                                   THEN SignalWaitFor([ws1 EXCEPT ![w] = "gone"])
                                   ELSE {[ws1 EXCEPT ![w] = "gone"]}
                    /\ allocated' = allocated - 1
                    /\ UNCHANGED <<queue, free, ready, executed, cmdWaiting,
                                   wcmd, wthis, wreleased>>
       ELSE /\ LoopTop(w, free, ReopenGate(w), wstate)
            /\ UNCHANGED <<allocated, cmdWaiting>>

(* Wait_For_Others_To_Terminate: the exit worker waits until at most it   *)
(* and one other worker are left.                                         *)
OthersBusy == allocated > 2

WaitOthers(w) ==
    /\ ~Crashed
    /\ wstate[w] = "wfot"
    /\ WaitWhile(w, OthersBusy, "wfot_wait", "exit_shut", cmdWaiting)
    /\ UNCHANGED <<queue, free, allocated, ready, executed, terminate,
                   shutDown, status, completed, wcmd, wthis, wreleased, wtmp>>

WaitOthersWake(w) ==
    /\ ~Crashed
    /\ wstate[w] = "wfot_woken"
    /\ WaitWhile(w, OthersBusy, "wfot_wait", "exit_shut", FALSE)
    /\ UNCHANGED <<queue, free, allocated, ready, executed, terminate,
                   shutDown, status, completed, wcmd, wthis, wreleased, wtmp>>

(* The exit worker sets Shut_Down under Async_Input_Lock, so the input    *)
(* routines send EOF to Python.                                           *)
SetShutDown(w) ==
    /\ ~Crashed
    /\ wstate[w] = "exit_shut"
    /\ shutDown' = TRUE
    /\ wstate' = [wstate EXCEPT ![w] = "exit_read"]
    /\ UNCHANGED <<queue, free, allocated, ready, executed, terminate,
                   cmdWaiting, status, completed, wcmd, wthis, wreleased, wtmp>>

(* "EXT_Allocated--" of the exit worker runs without Cmd_EXT_Lock (it was *)
(* released before Wait_For_Others_To_Terminate), so it is a load and a   *)
(* store another worker's locked decrement can fall between.  The unlock *)
(* that follows releases a mutex the worker does not hold.               *)
ExitLoad(w) ==
    /\ ~Crashed
    /\ wstate[w] = "exit_read"
    /\ wtmp' = [wtmp EXCEPT ![w] = allocated]
    /\ wstate' = [wstate EXCEPT ![w] = "exit_write"]
    /\ UNCHANGED <<queue, free, allocated, ready, executed, terminate,
                   cmdWaiting, shutDown, status, completed, wcmd, wthis, wreleased>>

ExitStore(w) ==
    /\ ~Crashed
    /\ wstate[w] = "exit_write"
    /\ allocated' = wtmp[w] - 1
    /\ wstate' = [wstate EXCEPT ![w] = "gone"]
    /\ UNCHANGED <<queue, free, ready, executed, terminate, cmdWaiting,
                   shutDown, status, completed, wcmd, wthis, wreleased, wtmp>>

-----------------------------------------------------------------------------
WorkerStep(w) ==
    \/ WorkerWake(w) \/ CmdExecuteStart(w) \/ HandlerStart(w)
    \/ WaitPrevWake(w) \/ HandlerSafe(w) \/ Purge_Dispatch_Queue(w)
    \/ HandlerEnd(w) \/ AfterCmd(w) \/ WaitOthers(w) \/ WaitOthersWake(w)
    \/ SetShutDown(w) \/ ExitLoad(w) \/ ExitStore(w)

(* The CLI has stopped: the process aborted, or all input is read and no  *)
(* thread has anything left to do.  Any other state without a successor   *)
(* is a hang.                                                             *)
Halted ==
    \/ Crashed
    \/ /\ \A c \in Cmds : status[c] # "unsubmitted"
       /\ \A w \in Workers : wstate[w] \in {"none", "idle", "gone"}
       /\ queue = <<>> \/ terminate

Next ==
    \/ \E c \in Cmds : SS_Execute_Cmd(c)
    \/ \E w \in Workers : WorkerStep(w)
    \/ Halted /\ UNCHANGED vars

(* Every created thread is scheduled; the user is not obliged to type.    *)
Spec == Init /\ [][Next]_vars /\ \A w \in Workers : WF_vars(WorkerStep(w))

-----------------------------------------------------------------------------
TypeOK ==
    /\ queue \in Seq(Cmds)
    /\ free \in 0..EXT_MAX /\ allocated \in 0..EXT_MAX
    /\ executed \in 0..Cardinality(Cmds)
    /\ {ready, terminate, cmdWaiting, shutDown} \subseteq BOOLEAN
    /\ status \in [Cmds -> Statuses] /\ completed \in [Cmds -> BOOLEAN]
    /\ wstate \in [Workers -> WStates] /\ wcmd \in [Workers -> Cmds \cup {NoCmd}]
    /\ wthis \in [Workers -> 0..Cardinality(Cmds)]
    /\ wreleased \in [Workers -> BOOLEAN] /\ wtmp \in [Workers -> 0..EXT_MAX]

-----------------------------------------------------------------------------
InQueue(c) == \E i \in 1..Len(queue) : queue[i] = c

(* Workers whose command was picked up and has neither called            *)
(* SafeToDoNextCmd nor finished: each of them still owns the gate.        *)
Unreleased == {w \in Workers : wstate[w] \in Running /\ ~wreleased[w]}

(* Commands start one at a time (spec 4.2, worker loop): a command is     *)
(* only picked up once every earlier one has finished or called           *)
(* SafeToDoNextCmd, and while one has not, the gate is closed.  This is   *)
(* what the this_cmd_is == Cmds_Executed test in Cmd_EXT_Create protects: *)
(* an older worker finishing late must not reopen the gate of a newer     *)
(* command.                                                               *)
SerializedStart ==
    /\ Cardinality(Unreleased) <= 1
    /\ Unreleased # {} => ~ready

(* EXT_Free and EXT_Allocated count the threads: EXT_Free the workers     *)
(* waiting on Cmd_EXT_Dispatch (or woken and not yet relocked),           *)
(* EXT_Allocated the created workers that have not left.  The pool's      *)
(* decisions to signal, create and wake the waiters all read them.       *)
CountersMatch ==
    /\ free = Cardinality({w \in Workers : wstate[w] \in {"idle", "woken"}})
    /\ allocated = Cardinality({w \in Workers :
                      wstate[w] \notin {"none", "gone", "assert_failed"}})

(* The counters match the threads as long as the CLI runs; the exit      *)
(* worker's unlocked decrement comes after Shut_Down.                     *)
CountersMatchWhileRunning == ~shutDown => CountersMatch

(* Wait_For_Previous_Cmds returns: a handler waiting for the other        *)
(* workers to go idle is eventually woken with the condition true.        *)
WaitPrevReturns ==
    \A w \in Workers : wstate[w] = "wfpc_wait" ~> wstate[w] = "h_safe"

(* Every command that reached EXT_Dispatch is eventually completed        *)
(* (executed, or aborted by Purge_Dispatch_Queue), unless the pool        *)
(* itself died: a failed pthread_create or an aborted process.  A lost    *)
(* Cmd_EXT_Dispatch signal or a gate nobody reopens would violate it.     *)
QueuedCommandsComplete ==
    \A c \in Cmds : InQueue(c) ~> (completed[c] \/ shutDown \/ Crashed)

(* Once an exit command has set Terminate_All_Execution the CLI shuts     *)
(* down: the exit worker gets past Wait_For_Others_To_Terminate and sets  *)
(* Shut_Down, or the process aborts.                                      *)
ExitShutsDown == terminate ~> (shutDown \/ Crashed)

(* Assert(Cmd_Waiting) in Cmd_EXT_Create holds: when a free worker's      *)
(* decrement leaves one worker, that worker is waiting in                 *)
(* Wait_For_Others_To_Terminate.                                          *)
NoAssertFailure == ~Crashed

(* Spec 7: every command the input thread submits eventually reaches     *)
(* Complete, Error or Aborted and is completed.                          *)
SubmittedCommandsComplete ==
    \A c \in Cmds : status[c] = "parsed" ~> completed[c]
=============================================================================
