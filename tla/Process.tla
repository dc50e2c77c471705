------------------------------ MODULE Process ------------------------------
(***************************************************************************)
(* One Process object of src/libopenss-framework/dpcl/Process.cxx and the *)
(* real process it controls through DPCL.                                  *)
(*                                                                         *)
(* Command threads call changeState, loadLibrary and unloadLibrary; each  *)
(* runs under Guard(this) with the DPCL main loop suspended, so it is one *)
(* step.  Requests to DPCL (resume, suspend, destroy, disconnect) are      *)
(* applied to the real process in order and, when they carry             *)
(* stateChangedCB, later acknowledged by the DPCL main loop.  The real    *)
(* process may also exit by itself, which the main loop reports through   *)
(* processTerminationCB.  The destructor ~Process issues its requests     *)
(* without callbacks; callbacks arriving later find no process in the     *)
(* ProcessTable and return.                                               *)
(*                                                                         *)
(* updateAddressSpace writes the address space of the process's thread   *)
(* into its database: the module list DPCL reports (the executable and   *)
(* the probe modules loaded so far), a linked object with its symbols     *)
(* for each path not yet in the database, and address spaces whose       *)
(* intervals follow the updates.  Its times are those of the updates,     *)
(* 1, 2, ..., with 0 for Time::TheBeginning and TheEnd beyond them all.  *)
(***************************************************************************)
EXTENDS Naturals, Sequences, SequencesExt, FiniteSets

CONSTANTS
    Libs,        \* runtime libraries collectors load into the process
    Collectors,  \* clients of loadLibrary/unloadLibrary
    Exe,         \* the executable's linked object
    MaxUpdates,  \* calls of updateAddressSpace
    Args         \* blob arguments execute may be given (byte sequences)

States == {"Running", "Suspended", "Terminated"}
Requests == {"resume", "suspend", "destroy", "disconnect"}

VARIABLES
    current,     \* dm_current_state
    changing,    \* dm_is_state_changing
    future,      \* dm_future_state
    alive,       \* the Process object is in the ProcessTable
    real,        \* state of the real process
    requests,    \* DPCL requests not yet applied, <<request, has callback>>
    acks,        \* stateChangedCB calls the main loop has yet to make
    termMsg,     \* an AIS_PROC_TERMINATE_MSG is pending
    refs,        \* references of dm_library_name_to_entry (0: no entry)
    loaded,      \* the library's probe module is loaded in the process
    holds,       \* the libraries each collector has loaded
    aborted,     \* the Assert that aborted the tool, or "none"
    los,         \* LinkedObjects rows (through Files): the path
    functions,   \* Functions rows, as the linked_object id of each batch
    spaces,      \* AddressSpaces rows of the thread: [lo, begin, end]
    updates,     \* time of the latest update (0: none yet)
    history,     \* the module list of each update (for the properties)
    args         \* <<blob, string>> pairs execute has passed to DPCL

vars == <<current, changing, future, alive, real, requests, acks, termMsg,
          refs, loaded, holds, aborted, los, functions, spaces, updates, history,
          args>>

(* Process(host, command) creates the process suspended;                 *)
(* Process(host, pid) attaches to a running one.                          *)
Init ==
    /\ current \in {"Suspended", "Running"}
    /\ changing = FALSE
    /\ future = current
    /\ alive = TRUE
    /\ real = current
    /\ requests = <<>>
    /\ acks = 0
    /\ termMsg = FALSE
    /\ refs = [l \in Libs |-> 0]
    /\ loaded = [l \in Libs |-> FALSE]
    /\ holds = [c \in Collectors |-> {}]
    /\ aborted = "none"
    /\ los = <<>>
    /\ functions = <<>>
    /\ spaces = <<>>
    /\ updates = 0
    /\ history = <<>>
    /\ args = {}

ProcVars == <<current, changing, future, alive, real, requests, acks, termMsg>>
LibVars == <<refs, loaded, holds>>
DBVars == <<los, functions, spaces, updates, history>>
TheEnd == MaxUpdates + 1
NotAborted == aborted = "none"

-----------------------------------------------------------------------------
(* The request changeState sends to DPCL for a transition to s (all three *)
(* carry stateChangedCB).                                                 *)
RequestFor(s) ==
    CASE s = "Running" -> "resume"
      [] s = "Suspended" -> "suspend"
      [] s = "Terminated" -> "destroy"

(* A DPCL call whose Assert(retval.status() == ASC_success) fails when the *)
(* real process has already terminated.                                  *)
DPCLCall(name) ==
    IF real = "Terminated" THEN aborted' = name ELSE UNCHANGED aborted

(* Process::changeState(s).  Returns when the process is in s or already *)
(* changing to it; throws std::logic_error (no state change) when another *)
(* change is in progress or the process has terminated; otherwise asks    *)
(* DPCL for the transition and records it as in progress.                 *)
ChangeState(s) ==
    /\ NotAborted
    /\ alive
    /\ current # s
    /\ ~changing
    /\ current # "Terminated"
    /\ requests' = Append(requests, <<RequestFor(s), TRUE>>)
    /\ changing' = TRUE
    /\ future' = s
    /\ DPCLCall(RequestFor(s))
    /\ UNCHANGED <<current, alive, real, acks, termMsg>>
    /\ UNCHANGED <<refs, loaded, holds>>

(* The DPCL daemon applies the oldest request to the real process; a      *)
(* request with a callback is acknowledged through the main loop.  A dead *)
(* process stays dead.                                                    *)
ApplyRequest ==
    /\ NotAborted
    /\ requests # <<>>
    /\ LET r == Head(requests)[1]
           cb == Head(requests)[2] IN
       /\ real' = IF real = "Terminated" \/ r = "disconnect" THEN real
                  ELSE CASE r = "resume" -> "Running"
                         [] r = "suspend" -> "Suspended"
                         [] r = "destroy" -> "Terminated"
       /\ termMsg' = (termMsg \/ (r = "destroy" /\ real # "Terminated"))
       /\ acks' = IF cb THEN acks + 1 ELSE acks
    /\ requests' = Tail(requests)
    /\ UNCHANGED <<current, changing, future, alive>>
    /\ UNCHANGED <<refs, loaded, holds, aborted>>

(* The real process exits on its own.                                     *)
ProcessExits ==
    /\ NotAborted
    /\ real = "Running"
    /\ real' = "Terminated"
    /\ termMsg' = TRUE
    /\ UNCHANGED <<current, changing, future, alive, requests, acks>>
    /\ UNCHANGED <<refs, loaded, holds, aborted>>

(* Variants of TerminateNow (mutation): one that also ends the change in *)
(* progress, one that leaves the future state alone.                      *)
TerminateNowEndsChange ==
    /\ current' = "Terminated"
    /\ future' = "Terminated"
    /\ changing' = FALSE

TerminateNowKeepFuture ==
    /\ current' = "Terminated"
    /\ UNCHANGED <<future, changing>>

(* processTerminationCB: if the process is still in the ProcessTable,     *)
(* terminateNow sets the current and the future state to Terminated.      *)
TerminateNow ==
    /\ current' = "Terminated"
    /\ future' = "Terminated"
    /\ UNCHANGED changing

ProcessTerminationCB ==
    /\ NotAborted
    /\ termMsg
    /\ termMsg' = FALSE
    /\ IF alive THEN TerminateNow ELSE UNCHANGED <<current, future, changing>>
    /\ UNCHANGED <<alive, real, requests, acks>>
    /\ UNCHANGED <<refs, loaded, holds, aborted>>

(* completeStateChange: makes the future state current and ends the      *)
(* change.                                                                *)
CompleteStateChange ==
    /\ current' = future
    /\ changing' = FALSE
    /\ UNCHANGED future

(* stateChangedCB: the process is looked up by the name its tag points    *)
(* to; if it is found, completeStateChange asserts a change is in          *)
(* progress, makes the future state current and ends the change.  The tag *)
(* changeState passed is name.c_str() of a local std::string, freed when  *)
(* changeState returned, so what the callback reads is undefined: the     *)
(* bytes may still spell the name (found) or not (the lookup fails and    *)
(* the acknowledgement is dropped).  Assert(retval->status() ==           *)
(* ASC_success) is left out: every request of the model succeeds.        *)
StateChangedCB ==
    /\ NotAborted
    /\ acks > 0
    /\ acks' = acks - 1
    /\ \E found \in BOOLEAN :
         IF alive /\ found /\ ~changing
         THEN aborted' = "completeStateChange" /\ UNCHANGED <<current, future, changing>>
         ELSE /\ IF alive /\ found THEN CompleteStateChange
                                   ELSE UNCHANGED <<current, future, changing>>
              /\ UNCHANGED aborted
    /\ UNCHANGED <<alive, real, requests, termMsg>>
    /\ UNCHANGED <<refs, loaded, holds>>

(* ~Process: a running process is disconnected, a suspended one resumed   *)
(* and disconnected, both without callbacks; the object leaves the table. *)
Destroy ==
    /\ NotAborted
    /\ alive
    /\ alive' = FALSE
    /\ requests' = requests \o
          CASE current = "Running" -> <<<<"disconnect", FALSE>>>>
            [] current = "Suspended" -> <<<<"resume", FALSE>>, <<"disconnect", FALSE>>>>
            [] current = "Terminated" -> <<>>
    /\ IF current = "Terminated" THEN UNCHANGED aborted ELSE DPCLCall("disconnect")
    /\ UNCHANGED <<current, changing, future, real, acks, termMsg>>
    /\ UNCHANGED <<refs, loaded, holds>>
-----------------------------------------------------------------------------
(* Process::loadLibrary by collector c: a loaded library gets one more    *)
(* reference; otherwise it is located, loaded with bload_module and       *)
(* entered with one reference.                                            *)
LoadLibrary(c, l) ==
    /\ NotAborted /\ alive
    /\ l \notin holds[c]
    /\ holds' = [holds EXCEPT ![c] = @ \cup {l}]
    /\ refs' = [refs EXCEPT ![l] = @ + 1]
    /\ IF refs[l] > 0
       THEN UNCHANGED <<loaded, aborted>>
       ELSE /\ loaded' = [loaded EXCEPT ![l] = TRUE]
            /\ DPCLCall("bload_module")
    /\ UNCHANGED ProcVars

(* A variant of UnloadLibrary that tests the count before decrementing   *)
(* it (mutation).                                                         *)
UnloadLibraryEarlyTest(c, l) ==
    /\ NotAborted /\ alive
    /\ l \in holds[c]
    /\ holds' = [holds EXCEPT ![c] = @ \ {l}]
    /\ refs' = [refs EXCEPT ![l] = @ - 1]
    /\ IF refs[l] = 0
       THEN loaded' = [loaded EXCEPT ![l] = FALSE]
       ELSE UNCHANGED loaded
    /\ UNCHANGED <<aborted>>
    /\ UNCHANGED ProcVars

(* Process::unloadLibrary by collector c: one reference fewer; the last   *)
(* one unloads the module (ASC_terminated_pid is tolerated) and erases    *)
(* the entry.                                                             *)
UnloadLibrary(c, l) ==
    /\ NotAborted /\ alive
    /\ l \in holds[c]
    /\ holds' = [holds EXCEPT ![c] = @ \ {l}]
    /\ refs' = [refs EXCEPT ![l] = @ - 1]
    /\ IF refs[l] - 1 = 0
       THEN loaded' = [loaded EXCEPT ![l] = FALSE]
       ELSE UNCHANGED loaded
    /\ UNCHANGED <<aborted>>
    /\ UNCHANGED ProcVars

(* Process::execute of a function of library l: throws if l has no entry; *)
(* otherwise bexecute runs it in the process.                             *)
(* Process::encodeBlobAsString: 0x00 becomes the safe value 0xBA, 0xBA   *)
(* is doubled, every other byte passes through.                           *)
ZeroValue == 0
SafeValue == 186
EncodeByte(b) ==
    CASE b = ZeroValue -> <<SafeValue>>
      [] b = SafeValue -> <<SafeValue, SafeValue>>
      [] OTHER -> <<b>>
EncodeBlobAsString(blob) == FlattenSeq([i \in DOMAIN blob |-> EncodeByte(blob[i])])

(* Process::execute(library, function, argument) of a collector that     *)
(* loaded the library: the argument is passed to the probe call as the   *)
(* string encodeBlobAsString makes of it.                                 *)
Execute(c, l, a) ==
    /\ NotAborted /\ alive
    /\ l \in holds[c]
    /\ refs[l] > 0
    /\ args' = args \cup {<<a, EncodeBlobAsString(a)>>}
    /\ DPCLCall("bexecute")
    /\ UNCHANGED <<refs, loaded, holds>>
    /\ UNCHANGED ProcVars

-----------------------------------------------------------------------------
(* The module list of dm_process->get_program_object(): the executable   *)
(* (several DPCL modules of one address range, named after the program)  *)
(* and each loaded probe module.                                          *)
Modules == {Exe} \cup {l \in Libs : loaded[l]}

(* A time_begin of Time::TheBeginning for every update (mutation).      *)
TimeBeginAlways(when) == 0

(* Time::TheBeginning when the thread has no address space yet, "when"   *)
(* otherwise.                                                             *)
TimeBegin(when) == IF spaces = <<>> THEN 0 ELSE when

(* "SELECT LinkedObjects.id ... WHERE Files.path = ?" finds a row.        *)
KnownPath(m) == m \in Range(los)

(* Process::processSymbols for the n linked objects just inserted: DPCL   *)
(* expands each module and a Functions row is inserted for each function *)
(* child, one batch per linked object.                                    *)
ProcessSymbols(n) == [k \in 1..n |-> Len(los) + k]

(* Process::updateAddressSpace(thread, when), one transaction: end the   *)
(* thread's open address spaces at "when"; for each module, create the   *)
(* Files and LinkedObjects rows and run processSymbols (one batch of      *)
(* Functions; its bexpand is asserted to succeed) when the path is new;  *)
(* then insert an address space open from TimeBegin(when) to TheEnd.     *)
UpdateAddressSpace ==
    LET when == updates + 1
        new == SetToSeq({m \in Modules : ~KnownPath(m)})
        los2 == los \o new
        Row(m) == SelectLastInSeq(los2, LAMBDA p : p = m)
        ended == [i \in DOMAIN spaces |->
                    IF spaces[i].end = TheEnd THEN [spaces[i] EXCEPT !.end = when]
                    ELSE spaces[i]]
    IN
    /\ NotAborted /\ alive
    /\ updates < MaxUpdates
    /\ los' = los2
    /\ functions' = functions \o ProcessSymbols(Len(new))
    /\ spaces' = ended \o SetToSeq({[lo |-> Row(m), begin |-> TimeBegin(when),
                                      end |-> TheEnd] : m \in Modules})
    /\ updates' = when
    /\ history' = Append(history, Modules)
    /\ IF new # <<>> THEN DPCLCall("bexpand") ELSE UNCHANGED aborted
    /\ UNCHANGED ProcVars /\ UNCHANGED LibVars

-----------------------------------------------------------------------------
(* Nothing is left to happen: the tool aborted, or the Process object is  *)
(* gone and DPCL has delivered everything.                                *)
Finished == ~NotAborted \/ (~alive /\ requests = <<>> /\ acks = 0 /\ ~termMsg)

Next ==
    \/ /\ \/ \E s \in States : ChangeState(s)
          \/ ApplyRequest
          \/ ProcessExits
          \/ ProcessTerminationCB
          \/ StateChangedCB
          \/ Destroy
          \/ \E c \in Collectors, l \in Libs :
                LoadLibrary(c, l) \/ UnloadLibrary(c, l)
       /\ UNCHANGED <<DBVars, args>>
    \/ \E c \in Collectors, l \in Libs, a \in Args :
          Execute(c, l, a) /\ UNCHANGED DBVars
    \/ UpdateAddressSpace /\ UNCHANGED args
    \/ Finished /\ UNCHANGED vars

(* The DPCL daemon and main loop keep delivering; command threads need    *)
(* not call anything.                                                     *)
Spec == Init /\ [][Next]_vars
        /\ WF_vars(ApplyRequest) /\ WF_vars(ProcessTerminationCB)
        /\ WF_vars(StateChangedCB)

-----------------------------------------------------------------------------
TypeOK ==
    /\ current \in States /\ future \in States
    /\ {changing, alive, termMsg} \subseteq BOOLEAN
    /\ real \in States
    /\ requests \in Seq(Requests \X BOOLEAN)
    /\ acks \in Nat
    /\ refs \in [Libs -> Nat] /\ loaded \in [Libs -> BOOLEAN]
    /\ holds \in [Collectors -> SUBSET Libs]
    /\ los \in Seq({Exe} \cup Libs) /\ functions \in Seq(DOMAIN los)
    /\ spaces \in Seq([lo : DOMAIN los, begin : 0..MaxUpdates, end : 1..TheEnd])
    /\ updates \in 0..MaxUpdates
    /\ history \in Seq(SUBSET ({Exe} \cup Libs))
    /\ args \subseteq Args \X Seq(Nat)

(* Nothing DPCL or the main loop is still to do for the process.          *)
Quiet == requests = <<>> /\ acks = 0 /\ ~termMsg

(* The Assert(dm_is_state_changing) of completeStateChange holds: every   *)
(* stateChangedCB that reaches a live Process finds its change still in   *)
(* progress, whatever terminateNow did in between.                        *)
CompleteAssertHolds == aborted # "completeStateChange"

(* Terminated is final: once getState() has reported Terminated (through  *)
(* terminateNow or a completed destroy), no late acknowledgement of an    *)
(* earlier resume or suspend brings the Process back to life.             *)
TerminatedIsFinal ==
    [][current = "Terminated" => current' = "Terminated"]_current

(* getState() lags the real process but catches up: once DPCL and the     *)
(* main loop have delivered everything, a live Process reports the real   *)
(* process's state.                                                       *)
StateCatchesUp == (alive /\ Quiet) => current = real

(* dm_library_name_to_entry counts the collectors holding each library,   *)
(* and a library's probe module is loaded in the process exactly while    *)
(* it has an entry (the last unloadLibrary unloads it, the next           *)
(* loadLibrary loads it again).                                           *)
LibraryRefsMatch ==
    \A l \in Libs :
        /\ refs[l] = Cardinality({c \in Collectors : l \in holds[c]})
        /\ loaded[l] <=> refs[l] > 0

(* The destructor's comment: "Start the process running if it is          *)
(* currently suspended".  Once the object is gone and DPCL has applied    *)
(* everything, the real process is not left suspended.                    *)
DestroyLeavesRunning == (~alive /\ requests = <<>>) => real # "Suspended"

(* changeState, ~Process, loadLibrary and execute assert ASC_success of  *)
(* their DPCL calls, while unloadLibrary tolerates ASC_terminated_pid     *)
(* because collectors unload after the process died.  None of these      *)
(* asserts fires.                                                         *)
DPCLAssertsHold == aborted \in {"none", "completeStateChange"}

(* A space of the thread's database holds at time n when its interval    *)
(* [begin, end) contains n.                                              *)
SpacesAt(n) == {los[spaces[i].lo] : i \in {j \in DOMAIN spaces :
                                          spaces[j].begin <= n /\ n < spaces[j].end}}

(* updateAddressSpace's contract ("update the database ... with the       *)
(* current in-memory address space"): at the time of every update so     *)
(* far, the address spaces recorded for that time are exactly the        *)
(* modules the process had then, through loads and unloads of probe      *)
(* libraries by several collectors in between.                            *)
AddressSpaceHistory ==
    \A n \in 1..updates : SpacesAt(n) = history[n]

(* The comment of encodeBlobAsString: "This encoding is easily reversed". *)
(* The runtime decodes the string execute passes back into the blob, so   *)
(* two different arguments must never be passed as the same string.       *)
ArgumentsDecodable ==
    \A p, q \in args : p[2] = q[2] => p[1] = q[1]
=============================================================================
