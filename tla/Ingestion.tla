----------------------------- MODULE Ingestion -----------------------------
(***************************************************************************)
(* The store-writing callbacks of                                          *)
(* src/libopenss-framework/cbtf/Callbacks.cxx for one experiment database *)
(* and one process.                                                        *)
(*                                                                         *)
(* Before the process exists the experiment holds a placeholder Threads   *)
(* row whose pid is the negated row id (OrigPid = -1 for row 1).  The     *)
(* launcher's connection reports CreatedProcess; the connection of each   *)
(* posix thread t of the process reports, in order, the messages of       *)
(* ThreadMsgs(t); in an experiment whose symbols are resolved from the   *)
(* sampled addresses, the aggregator then sends one address buffer.       *)
(* Connections are delivered independently, and each                      *)
(* callback runs inside BEGIN_WRITE_TRANSACTION ... END_TRANSACTION, so   *)
(* one handler (or one thread iteration of a handler) is one step.  A     *)
(* message already handled may be delivered again (at most MaxRedeliver   *)
(* times in all) when its type is in Redeliverable.                       *)
(*                                                                         *)
(* A row id is its position in the table's sequence; a SELECT looped with *)
(* while(executeStatement()) keeps the last row it matched.               *)
(***************************************************************************)
EXTENDS Integers, Sequences, SequencesExt, FiniteSets

CONSTANTS
    Tids,           \* posix thread ids of the process's threads
    Exe,            \* the executable, reported by linkedObjectGroup
    Lib,            \* a library dlopen'ed later (loadedLinkedObject)
    RealPid,        \* pid reported by createdProcess
    NoTid,          \* posix_tid ISNULL
    LauncherFirst,  \* createdProcess is handled before any thread message
    Redeliverable,  \* message types the transport may deliver again
    MaxRedeliver,
    Modes,          \* how symbols reach the store: "symtab" messages of each
                    \* thread, "abuf", the aggregator's address buffer, or
                    \* "offline", a vector of the initially loaded objects
    Sampled,        \* linked objects the address buffer has a sample in
    BufferLast      \* the address buffer comes after every thread message

ASSUME /\ RealPid \in Nat /\ MaxRedeliver \in Nat
       /\ LauncherFirst \in BOOLEAN /\ BufferLast \in BOOLEAN
       /\ Modes \subseteq {"symtab", "abuf", "offline"}

OrigPid == -1
LOs == {Exe, Lib}
Msg(type, t, l) == [type |-> type, t |-> t, lo |-> l]
Created == Msg("created", NoTid, NoTid)
Abuf == Msg("abuf", NoTid, NoTid)
Evec == Msg("entryvec", NoTid, NoTid)

(* What the connection of thread t reports: attachedToThreads, the       *)
(* initial linked-object group, then a dlopen'ed library, each followed  *)
(* by its symbol table when the thread sends symbols.  (The handler of   *)
(* dlclose, unloadedLinkedObject, is compiled out by #if 0.)             *)
(* In an offline experiment the threads are only attached; their linked  *)
(* objects come in the one entry vector.                                  *)
ThreadMsgs(mode, t) ==
    CASE mode = "symtab" ->
           << Msg("attach", t, NoTid), Msg("group", t, Exe), Msg("symtab", t, Exe),
              Msg("loaded", t, Lib), Msg("symtab", t, Lib) >>
      [] mode = "abuf" ->
           << Msg("attach", t, NoTid), Msg("group", t, Exe), Msg("loaded", t, Lib) >>
      [] mode = "offline" -> << Msg("attach", t, NoTid) >>

VARIABLES
    mode,         \* how this experiment gets its symbols
    launcher,     \* createdProcess not yet delivered (<<Created>> or <<>>)
    chan,         \* messages of each thread's connection not yet delivered
    aggregator,   \* the address buffer or entry vector not yet delivered
    delivered,    \* messages handled at least once
    redelivered,  \* redeliveries so far
    threads,      \* Threads rows: [pid, tid]
    los,          \* LinkedObjects rows (through Files): the file path
    spaces,       \* AddressSpaces rows: [thread, lo, open (time_end = TheEnd)]
    functions,    \* Functions rows, as the linked_object id of each batch
    statements,   \* Statements rows, as the linked_object id of each batch
    allfuncs      \* the static allfuncs: paths whose functions addressBuffer stored

vars == <<mode, launcher, chan, aggregator, delivered, redelivered, threads,
          los, spaces, functions, statements, allfuncs>>
Store == <<threads, los, spaces, functions, statements>>

Init ==
    /\ mode \in Modes
    /\ launcher = <<Created>>
    /\ chan = [t \in Tids |-> ThreadMsgs(mode, t)]
    /\ aggregator = CASE mode = "abuf" -> <<Abuf>>
                      [] mode = "offline" -> <<Evec>>
                      [] mode = "symtab" -> <<>>
    /\ delivered = {}
    /\ redelivered = 0
    /\ threads = << [pid |-> OrigPid, tid |-> NoTid] >>
    /\ los = <<>>
    /\ spaces = <<>>
    /\ functions = <<>>
    /\ statements = <<>>
    /\ allfuncs = {}
-----------------------------------------------------------------------------
(* A row id, or -1 when the SELECT returned nothing.                      *)
IdOf(i) == IF i = 0 THEN -1 ELSE i

(* getThreadIdentifier for a thread name with a posix tid.                *)
ThreadId(t) ==
    IdOf(SelectLastInSeq(threads, LAMBDA r : r.pid = RealPid /\ r.tid = t))

(* getLinkedObjectIdentifier: LinkedObjects joined with Files by path.    *)
LinkedObjectId(l) == IdOf(SelectLastInSeq(los, LAMBDA p : p = l))

(* A variant that binds original_thread.pid without negating it          *)
(* (mutation).                                                            *)
PlaceholderRowUnnegated(i) == i = OrigPid

PlaceholderRow(i) == i = -OrigPid

(* Callbacks::createdProcess: the placeholder row (pid OrigPid, no tid)   *)
(* gets the real pid through "UPDATE Threads SET pid = ? WHERE id = ?"    *)
(* with id bound to -original_thread.pid; without a placeholder a new row *)
(* (host, pid) is inserted.                                               *)

CreatedProcess ==
    LET ph == SelectLastInSeq(threads,
                  LAMBDA r : r.pid = OrigPid /\ r.tid = NoTid) IN
    /\ threads' =
         IF ph # 0
         THEN [i \in DOMAIN threads |->
                  IF PlaceholderRow(i) THEN [threads[i] EXCEPT !.pid = RealPid]
                  ELSE threads[i]]
         ELSE Append(threads, [pid |-> RealPid, tid |-> NoTid])
    /\ UNCHANGED <<los, spaces, functions, statements, allfuncs>>

(* Callbacks::attachedToThreads for one thread name (host, pid, t): a     *)
(* placeholder (host, pid, posix_tid ISNULL) gets the tid; otherwise, if  *)
(* some row has the host and pid, a row (host, pid, t) is inserted;       *)
(* otherwise "INSERT INTO Threads (host, pid)" is run, whose two          *)
(* parameters leave the tid (bound as argument 3) out of the row.         *)
AttachedToThreads(t) ==
    LET ph == SelectLastInSeq(threads,
                  LAMBDA r : r.pid = RealPid /\ r.tid = NoTid)
        same == SelectLastInSeq(threads, LAMBDA r : r.pid = RealPid) IN
    /\ threads' =
         CASE ph # 0 -> [threads EXCEPT ![ph].tid = t]
           [] same # 0 -> Append(threads, [pid |-> RealPid, tid |-> t])
           [] OTHER -> Append(threads, [pid |-> RealPid, tid |-> NoTid])
    /\ UNCHANGED <<los, spaces, functions, statements, allfuncs>>

(* The body shared by loadedLinkedObject and linkedObjectGroup for a     *)
(* thread row th and a linked object l: look l up by path, insert Files   *)
(* and LinkedObjects rows when absent, and insert an AddressSpaces row    *)
(* open until TheEnd.                                                     *)
AddAddressSpace(th, l) ==
    LET id == LinkedObjectId(l) IN
    /\ los' = IF id = -1 THEN Append(los, l) ELSE los
    /\ spaces' = Append(spaces, [thread |-> th,
                                 lo |-> IF id = -1 THEN Len(los) + 1 ELSE id,
                                 open |-> TRUE])

(* Callbacks::loadedLinkedObject for one thread of the message: nothing  *)
(* is written for an unknown thread.                                      *)
LoadedLinkedObject(t, l) ==
    LET th == ThreadId(t) IN
    /\ IF th = -1 THEN UNCHANGED <<los, spaces>> ELSE AddAddressSpace(th, l)
    /\ UNCHANGED <<threads, functions, statements, allfuncs>>

(* A variant without the has_functions and has_statements tests          *)
(* (mutation).                                                            *)
SymbolTableNoCheck(l) ==
    LET lo == LinkedObjectId(l) IN
    /\ functions' = IF lo # -1 THEN Append(functions, lo) ELSE functions
    /\ statements' = IF lo # -1 THEN Append(statements, lo) ELSE statements
    /\ UNCHANGED <<threads, los, spaces, allfuncs>>

(* Callbacks::symbolTable: for a known linked object, functions are       *)
(* inserted only if it has none yet, and statements only if it has none  *)
(* yet (a row count "WHERE linked_object = ?").                   *)
SymbolTable(l) ==
    LET lo == LinkedObjectId(l) IN
    /\ functions' = IF lo # -1 /\ lo \notin Range(functions)
                    THEN Append(functions, lo) ELSE functions
    /\ statements' = IF lo # -1 /\ lo \notin Range(statements)
                     THEN Append(statements, lo) ELSE statements
    /\ UNCHANGED <<threads, los, spaces, allfuncs>>

(* Callbacks::linkedObjectGroup: the same body for each linked object of  *)
(* the group, all in one transaction (the group here has one object).    *)
LinkedObjectGroup(t, l) == LoadedLinkedObject(t, l)

(* The linked objects (row ids) whose address range holds a sample of    *)
(* the buffer, among those of every thread recorded in Threads; each     *)
(* path once.                                                            *)
SampledObjects ==
    {lo \in {spaces[i].lo : i \in DOMAIN spaces} : los[lo] \in Sampled}

(* The final "UPDATE AddressSpaces SET time_end = ? WHERE time_end = ?"  *)
(* with TheEnd: every open address space is closed.                      *)
EndOpenSpaces ==
    [i \in DOMAIN spaces |-> [spaces[i] EXCEPT !.open = FALSE]]

(* Callbacks::addressBuffer: a symbol table for each sampled linked       *)
(* object; functions already in allfuncs are removed from it, the rest   *)
(* recorded there; processAndStore stores its functions and statements;  *)
(* then the open address spaces are closed at the end of the Data extent.*)
AddressBuffer ==
    LET hit == SampledObjects
        newf == {lo \in hit : los[lo] \notin allfuncs} IN
    /\ allfuncs' = allfuncs \cup {los[lo] : lo \in hit}
    /\ functions' = functions \o SetToSeq(newf)
    /\ statements' = statements \o SetToSeq(hit)
    /\ spaces' = EndOpenSpaces
    /\ UNCHANGED <<threads, los>>

(* The entry vector of an offline experiment: for each thread, in the     *)
(* order of Tids, the executable and the library it had loaded.           *)
Entries ==
    LET ts == SetToSeq(Tids) IN
    FlattenSeq([i \in DOMAIN ts |-> << [t |-> ts[i], lo |-> Exe],
                                       [t |-> ts[i], lo |-> Lib] >>])

(* The entries whose thread getThreadIdentifier finds; the others are     *)
(* skipped without a word.                                                *)
EntriesKnown == SelectSeq(Entries, LAMBDA e : ThreadId(e.t) # -1)

(* Callbacks::linkedObjectEntryVec, one transaction: for each entry of a  *)
(* known thread, look its path up, insert Files and LinkedObjects rows    *)
(* when absent, and insert an AddressSpaces row with the entry's own      *)
(* interval, which ends at TheEnd unless the entry's thread is in         *)
(* unloaded.                                                               *)
LinkedObjectEntryVec(unloaded) ==
    LET known == EntriesKnown
        new == SelectSeq(<<Exe, Lib>>, LAMBDA l : LinkedObjectId(l) = -1
                            /\ \E i \in DOMAIN known : known[i].lo = l)
        los2 == los \o new IN
    /\ los' = los2
    /\ spaces' = spaces \o
         [i \in DOMAIN known |->
             [thread |-> ThreadId(known[i].t),
              lo |-> SelectLastInSeq(los2, LAMBDA p : p = known[i].lo),
              open |-> known[i].t \notin unloaded]]
    /\ UNCHANGED <<threads, functions, statements, allfuncs>>

(* The frontend message pump hands a message to its callback.             *)
Handle(m) ==
    \/ m.type = "created" /\ CreatedProcess
    \/ m.type = "attach" /\ AttachedToThreads(m.t)
    \/ m.type = "group" /\ LinkedObjectGroup(m.t, m.lo)
    \/ m.type = "loaded" /\ LoadedLinkedObject(m.t, m.lo)
    \/ m.type = "symtab" /\ SymbolTable(m.lo)
    \/ m.type = "abuf" /\ AddressBuffer
    \/ m.type = "entryvec" /\ \E u \in SUBSET Tids : LinkedObjectEntryVec(u)
-----------------------------------------------------------------------------
DeliverCreated ==
    /\ launcher # <<>>
    /\ launcher' = <<>>
    /\ delivered' = delivered \cup {Created}
    /\ Handle(Created)
    /\ UNCHANGED <<mode, chan, aggregator, redelivered>>

DeliverThreadMsg(t) ==
    /\ chan[t] # <<>>
    /\ LauncherFirst => launcher = <<>>
    /\ chan' = [chan EXCEPT ![t] = Tail(@)]
    /\ delivered' = delivered \cup {Head(chan[t])}
    /\ Handle(Head(chan[t]))
    /\ UNCHANGED <<mode, launcher, aggregator, redelivered>>

(* The aggregator's address buffer or entry vector, after the threads'   *)
(* messages when BufferLast.                                              *)
DeliverBuffer ==
    /\ aggregator # <<>>
    /\ BufferLast => \A t \in Tids : chan[t] = <<>>
    /\ aggregator' = <<>>
    /\ delivered' = delivered \cup {Head(aggregator)}
    /\ Handle(Head(aggregator))
    /\ UNCHANGED <<mode, launcher, chan, redelivered>>

Redeliver(m) ==
    /\ m.type \in Redeliverable
    /\ redelivered < MaxRedeliver
    /\ redelivered' = redelivered + 1
    /\ Handle(m)
    /\ UNCHANGED <<mode, launcher, chan, aggregator, delivered>>

(* Every connection has delivered everything.                            *)
Drained == launcher = <<>> /\ aggregator = <<>> /\ \A t \in Tids : chan[t] = <<>>

Next ==
    \/ DeliverCreated
    \/ \E t \in Tids : DeliverThreadMsg(t)
    \/ DeliverBuffer
    \/ \E m \in delivered : Redeliver(m)
    \/ Drained /\ UNCHANGED vars

Spec == Init /\ [][Next]_vars
-----------------------------------------------------------------------------
Msgs == {Created, Abuf, Evec} \cup
        UNION {Range(ThreadMsgs(md, t)) : md \in Modes, t \in Tids}
Row == [pid : {OrigPid, RealPid}, tid : Tids \cup {NoTid}]

TypeOK ==
    /\ mode \in Modes
    /\ aggregator \in {<<>>, <<Abuf>>, <<Evec>>}
    /\ allfuncs \subseteq LOs
    /\ launcher \in {<<>>, <<Created>>}
    /\ chan \in [Tids -> Seq(Msgs)]
    /\ delivered \subseteq Msgs
    /\ redelivered \in 0..MaxRedeliver
    /\ threads \in Seq(Row)
    /\ los \in Seq(LOs)
    /\ spaces \in Seq([thread : DOMAIN threads, lo : DOMAIN los, open : BOOLEAN])
    /\ functions \in Seq(DOMAIN los) /\ statements \in Seq(DOMAIN los)

NoDuplicates(s) == \A i, j \in DOMAIN s : i # j => s[i] # s[j]

(* Spec 4.5(a) and (b): lookup and creation inside one write transaction  *)
(* keep natural keys unique over the orders of the threads' messages that *)
(* follow createdProcess and the redelivery of a symbol table: one        *)
(* Threads row per (host, pid, posix_tid), one                            *)
(* LinkedObjects row per path, and one batch of Functions and of          *)
(* Statements per linked object, though every thread's connection sends  *)
(* the symbol tables of the objects it has (or the address buffer names  *)
(* objects every thread loaded).                                          *)
StoreKeysUnique ==
    /\ NoDuplicates(threads)
    /\ NoDuplicates(los)
    /\ NoDuplicates(functions) /\ NoDuplicates(statements)

(* Once attachedToThreads for thread t is handled, exactly one Threads   *)
(* row names (RealPid, t): createdProcess turned the placeholder into the *)
(* process row and the first attach took it over.                       *)
ThreadsResolved ==
    \A t \in Tids :
        Msg("attach", t, NoTid) \in delivered =>
            Cardinality({i \in DOMAIN threads :
                           threads[i] = [pid |-> RealPid, tid |-> t]}) = 1

(* Spec 4.5, "open end" sentinel: once a thread's loadedLinkedObject is  *)
(* handled the thread has an address space of Lib, and every address     *)
(* space stays open (time_end = TheEnd) exactly until addressBuffer has   *)
(* been handled, whichever connections delivered what before it (an      *)
(* offline entry carries its own end).                                    *)
SpacesOpenUntilBuffer ==
    /\ \A t \in Tids :
          Msg("loaded", t, Lib) \in delivered =>
              \E i \in DOMAIN spaces : spaces[i].thread = ThreadId(t)
                                     /\ los[spaces[i].lo] = Lib
    /\ mode # "offline" =>
          \A i \in DOMAIN spaces : spaces[i].open <=> Abuf \notin delivered

(* Spec 8, idempotent ingestion: delivering the same loadedLinkedObject   *)
(* again leaves one AddressSpaces row per thread and linked object.       *)
LoadedIdempotent ==
    \A i, j \in DOMAIN spaces :
        i # j => ~(spaces[i].thread = spaces[j].thread /\ spaces[i].lo = spaces[j].lo)

(* Callbacks::linkedObjectEntryVec: when the entry vector comes after    *)
(* every thread's attachedToThreads, each thread gets exactly one address *)
(* space of each linked object it had loaded, on its own Threads row and  *)
(* on the one LinkedObjects row of the path, though the first entry of    *)
(* each path inserts that row inside the same transaction.                *)
EntriesRecorded ==
    (mode = "offline" /\ Evec \in delivered /\ BufferLast) =>
        \A t \in Tids, l \in LOs :
            Cardinality({i \in DOMAIN spaces :
                           spaces[i].thread = ThreadId(t)
                           /\ los[spaces[i].lo] = l}) = 1

=============================================================================
