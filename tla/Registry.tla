------------------------------ MODULE Registry ------------------------------
(***************************************************************************)
(* The ExperimentObject constructor and destructor of                     *)
(* src/libopenss-cli/SS_Exp.hxx: experiment identifiers, the experiment    *)
(* list and the database file of each experiment.                         *)
(*                                                                         *)
(* Each CLI process has its own Experiment_Sequence_Number,               *)
(* Experiment_List_Lock and ExperimentObject_list; the processes of Procs *)
(* share one working directory, and so the files.  A command thread of a  *)
(* process constructs an experiment holding Experiment_List_Lock          *)
(* throughout, in three steps that touch the file system: choosing the    *)
(* name (the probe loop reads the directory; it is one step),             *)
(* Experiment::create, and opening the experiment.  Experiment::create   *)
(* fails when the file exists; opening fails when it does not.  The       *)
(* destructor takes the experiment off the list under the lock, then      *)
(* deletes the framework experiment and removes a generated file without  *)
(* it.                                                                     *)
(***************************************************************************)
EXTENDS Integers, Sequences, SequencesExt, FiniteSets

CONSTANTS
    Procs,      \* CLI processes sharing the working directory
    Threads,    \* command threads of each process
    NoThread,
    NoProc,
    MaxExp,     \* experiments each process constructs
    MaxCnt,     \* names "./X<id>.<cnt>.openss" probed (1000 in the code)
    Leftovers   \* databases earlier sessions may have left in the directory

VARIABLES
    save,       \* OPENSS_SAVE_EXPERIMENT_DATABASE of each process
    seq,        \* Experiment_Sequence_Number of each process
    lock,       \* holder of each process's Experiment_List_Lock
    list,       \* ExperimentObject_list of each process (push_front)
    objs,       \* the ExperimentObjects constructed so far
    files,      \* database files present
    pc,         \* where each command thread is
    cur         \* the object a thread is constructing or destroying

vars == <<save, seq, lock, list, objs, files, pc, cur>>

Workers == Procs \X Threads
NoObj == <<NoProc, 0>>
NoName == [dir |-> "none", id |-> 0, cnt |-> -1, proc |-> NoProc]

(* "./X<id>.<cnt>.openss" in the working directory.                       *)
ProbeName(id, cnt) == [dir |-> "cwd", id |-> id, cnt |-> cnt, proc |-> NoProc]

(* createName: tempnam("X<id>.") in /tmp when the name is generated, in   *)
(* "./" otherwise; tempnam's random suffix makes it unique.                *)
TempName(p, id, generated) ==
    [dir |-> IF generated THEN "tmp" ELSE "cwd", id |-> id, cnt |-> -1, proc |-> p]

(* The probe loop with a name taken whatever is there (mutation).        *)
FirstFreeNoCheck(p, id) == ProbeName(id, 0)

(* The probe loop: the first "./X<id>.<cnt>.openss" that open(O_RDONLY)   *)
(* does not find, or createName once MaxCnt names are taken.             *)
FirstFree(p, id) ==
    LET free == {c \in 0..MaxCnt-1 : ProbeName(id, c) \notin files} IN
    IF free = {} THEN TempName(p, id, FALSE)
    ELSE ProbeName(id, CHOOSE c \in free : \A d \in free : c <= d)

Init ==
    /\ save \in [Procs -> BOOLEAN]
    /\ seq = [p \in Procs |-> 0]
    /\ lock = [p \in Procs |-> NoThread]
    /\ list = [p \in Procs |-> <<>>]
    /\ objs = [o \in {} |-> 0]
    /\ files \in SUBSET Leftovers
    /\ pc = [w \in Workers |-> "idle"]
    /\ cur = [w \in Workers |-> NoObj]
-----------------------------------------------------------------------------
Made(p) == Cardinality({o \in DOMAIN objs : o[1] = p})
Listed(p) == Range(list[p])

(* A constructor that does not wait for Experiment_List_Lock (mutation).  *)
ListFreeAlways(p) == TRUE

(* pthread_mutex_lock(&Experiment_List_Lock) can return.                  *)
ListFree(p) == lock[p] = NoThread

(* Exp_ID = ++Experiment_Sequence_Number.                                 *)
NewId(p) == seq[p] + 1

(* The constructor up to Experiment::create: take Experiment_List_Lock,   *)
(* Exp_ID = ++Experiment_Sequence_Number, and choose the database: the    *)
(* name given to expRestore (restore), or a new name, probed in the       *)
(* working directory when the database is saved and generated in /tmp    *)
(* otherwise.                                                             *)
CtorStart(w, restore) ==
    LET p == w[1]  t == w[2]  id == NewId(p)  o == <<p, Made(p) + 1>>
        gen == restore = NoName /\ ~save[p]
        name == CASE restore # NoName -> restore
                  [] save[p] -> FirstFree(p, id)
                  [] OTHER -> TempName(p, id, TRUE)
    IN
    /\ pc[w] = "idle"
    /\ ListFree(p)
    /\ Made(p) < MaxExp
    /\ lock' = [lock EXCEPT ![p] = t]
    /\ seq' = [seq EXCEPT ![p] = id]
    /\ objs' = objs @@ o :> [id |-> id, file |-> name, generated |-> gen,
                             fw |-> FALSE, created |-> FALSE,
                             restored |-> restore # NoName, phase |-> "ctor"]
    /\ cur' = [cur EXCEPT ![w] = o]
    /\ pc' = [pc EXCEPT ![w] = IF restore # NoName THEN "open" ELSE "create"]
    /\ UNCHANGED <<save, list, files>>

(* Experiment::create(Data_File_Name); on its exception Exp_ID = 0 and   *)
(* the name counts as not generated.                                      *)
CtorCreate(w) ==
    LET o == cur[w] IN
    /\ pc[w] = "create"
    /\ IF objs[o].file \in files
       THEN /\ objs' = [objs EXCEPT ![o].id = 0, ![o].generated = FALSE]
            /\ UNCHANGED files
       ELSE /\ files' = files \cup {objs[o].file}
            /\ objs' = [objs EXCEPT ![o].created = TRUE]
    /\ pc' = [pc EXCEPT ![w] = "open"]
    /\ UNCHANGED <<save, seq, lock, list, cur>>

(* new Experiment(Data_File_Name) and push_front on the list, or, when    *)
(* it throws, Exp_ID = 0 and FW_Experiment = NULL; then both locks are    *)
(* released.                                                               *)
CtorOpen(w) ==
    LET p == w[1]  o == cur[w] IN
    /\ pc[w] = "open"
    /\ IF objs[o].file \in files
       THEN /\ objs' = [objs EXCEPT ![o].fw = TRUE, ![o].phase = "live"]
            /\ list' = [list EXCEPT ![p] = <<o>> \o @]
       ELSE /\ objs' = [objs EXCEPT ![o].id = 0, ![o].generated = FALSE,
                                    ![o].phase = "failed"]
            /\ UNCHANGED list
    /\ lock' = [lock EXCEPT ![p] = NoThread]
    /\ pc' = [pc EXCEPT ![w] = "idle"]
    /\ cur' = [cur EXCEPT ![w] = NoObj]
    /\ UNCHANGED <<save, seq, files>>

(* ~ExperimentObject, first part: remove the experiment from the list    *)
(* under Experiment_List_Lock.  The command closing it found it there.   *)
DtorStart(w, o) ==
    LET p == w[1] IN
    /\ pc[w] = "idle"
    /\ ListFree(p)
    /\ o \in Listed(p)
    /\ objs[o].phase = "live"
    /\ list' = [list EXCEPT ![p] = SelectSeq(@, LAMBDA x : x # o)]
    /\ objs' = [objs EXCEPT ![o].phase = "dying"]
    /\ cur' = [cur EXCEPT ![w] = o]
    /\ pc' = [pc EXCEPT ![w] = "dtor"]
    /\ UNCHANGED <<save, seq, lock, files>>

(* A destructor that removes the file of every experiment it deletes     *)
(* (mutation).                                                            *)
RemovesFileAlways(o) == objs[o].fw

(* "Delete the file AFTER deleting the experiment object": only a        *)
(* generated name is removed.                                             *)
RemovesFile(o) == objs[o].fw /\ objs[o].generated

(* ~ExperimentObject, second part, without the lock.                     *)
DtorFinish(w) ==
    LET o == cur[w] IN
    /\ pc[w] = "dtor"
    /\ files' = IF RemovesFile(o) THEN files \ {objs[o].file} ELSE files
    /\ objs' = [objs EXCEPT ![o].phase = "dead"]
    /\ pc' = [pc EXCEPT ![w] = "idle"]
    /\ cur' = [cur EXCEPT ![w] = NoObj]
    /\ UNCHANGED <<save, seq, lock, list>>

(* Every process has made its experiments and closed them all.           *)
Halted ==
    \A p \in Procs : Made(p) = MaxExp /\ Listed(p) = {}
                     /\ \A t \in Threads : pc[<<p, t>>] = "idle"

Next ==
    \/ \E w \in Workers, r \in {NoName} \cup (Leftovers \cap files) : CtorStart(w, r)
    \/ \E w \in Workers : CtorCreate(w) \/ CtorOpen(w) \/ DtorFinish(w)
    \/ \E w \in Workers : \E o \in Listed(w[1]) : DtorStart(w, o)
    \/ Halted /\ UNCHANGED vars

Spec == Init /\ [][Next]_vars
-----------------------------------------------------------------------------
Live == {o \in DOMAIN objs : objs[o].phase = "live"}

(* Spec 3: each experiment on a process's list has its own identifier,   *)
(* never 0, and works on the database the user restored or the one its   *)
(* own Experiment::create made, never on a file another experiment or    *)
(* session left in the directory.                                         *)
ListedAreOwn ==
    \A p \in Procs : \A o \in Listed(p) :
        /\ objs[o].id # 0
        /\ \A o2 \in Listed(p) \ {o} : objs[o2].id # objs[o].id
        /\ objs[o].created \/ objs[o].restored

(* Spec 3, "if the store was an ephemeral scratch file, removed": the    *)
(* database of every live experiment exists, and once the destructor     *)
(* has run a generated database is gone while a saved or restored one    *)
(* is still there.                                                        *)
StoreLifetime ==
    /\ \A o \in Live : objs[o].file \in files
    /\ \A o \in DOMAIN objs :
          objs[o].phase = "dead" =>
              (objs[o].file \in files <=> ~objs[o].generated)
-----------------------------------------------------------------------------
(* The registry as ExperimentIds sees it: the counter, the identifiers    *)
(* of the listed experiments, and those of every experiment that was     *)
(* ever listed (whose ExperimentObject is live, being destroyed or gone). *)
Ids(S) == {objs[o].id : o \in S}
EverListed(p) ==
    {o \in DOMAIN objs : o[1] = p /\ objs[o].phase \in {"live", "dying", "dead"}}

Abs == INSTANCE ExperimentIds WITH
           next <- seq,
           listed <- [p \in Procs |-> Ids(Listed(p))],
           used <- [p \in Procs |-> Ids(EverListed(p))]

(* Spec 2, Experiment: identifiers come from the counter under the global *)
(* lock, the experiment the constructor lists carries the identifier it  *)
(* drew, and no identifier is listed twice while the process lives: the  *)
(* constructor and destructor steps implement ExperimentIds.             *)
IdsRefined == Abs!Spec
=============================================================================
