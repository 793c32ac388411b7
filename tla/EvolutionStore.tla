--------------------------- MODULE EvolutionStore ---------------------------
(***************************************************************************)
(* The files of one evolution cycle: events.jsonl (the journal), state.json  *)
(* (the snapshot) and .write.lock, under EvolutionStore.create, save and     *)
(* load called by several processes that may be killed between any two file  *)
(* operations.  Cycles are separate directories, so one is modelled.         *)
(*                                                                           *)
(* One action is one file operation that another process can see; what a     *)
(* process computes between two of them belongs to the first.  A cycle is    *)
(* its history, a sequence of the processes that made its transitions, and   *)
(* stands for its own SHA-256.  A killed process never returns: Procs are    *)
(* process ids, and an id is not used again.                                 *)
(***************************************************************************)
EXTENDS Naturals, Sequences, FiniteSets

CONSTANTS
  Procs,        \* processes that use the store
  MaxHistory,   \* bound on the transitions of the cycle
  MaxCrashes,   \* bound on the processes killed
  TornWrites,   \* whether a kill may cut a journal write short
  Null,         \* no record, no file, a null checksum
  Garbage       \* a journal line that is not JSON

ASSUME StoreBounds ==
  MaxHistory \in Nat /\ MaxCrashes \in Nat /\ TornWrites \in BOOLEAN

VARIABLES
  journal,   \* events.jsonl: its lines, and whether the last lacks its newline
  snapshot,  \* state.json
  lock,      \* .write.lock
  stolen,    \* history: a live process's lock was removed by another process
  temps,     \* processes with a temporary snapshot file on disk
  proc,      \* what each process is doing
  known,     \* the cycle each process last created, saved or loaded
  acked,     \* cycles whose create or save has returned
  reads      \* cycles that load has returned

vars == <<journal, snapshot, lock, stolen, temps, proc, known, acked, reads>>
files == <<journal, snapshot, lock, stolen, temps>>
answers == <<known, acked, reads>>

-----------------------------------------------------------------------------
(* Records and the journal.                                                  *)

Cycle == UNION {[1..n -> Procs] : n \in 0..MaxHistory}
JournalRecord == [sequence : 0..MaxHistory, previous : Cycle \cup {Null}, cycle : Cycle]
LockRecord == [holder : Procs, written : BOOLEAN, old : BOOLEAN]

ASSUME GarbageAssumption == Garbage \notin JournalRecord
ASSUME NullAssumption == Null \notin {"create", "save", "load"} \cup LockRecord

MakeRecord(cycle, previous) ==
  [sequence |-> Len(cycle), previous |-> previous, cycle |-> cycle]

LastLine(j) == j.lines[Len(j.lines)]
AllButLast(j) == SubSeq(j.lines, 1, Len(j.lines) - 1)

\* Mutant: invalid lines are passed over wherever they stand.
ParsedWhereValid(j) == SelectSeq(j.lines, LAMBDA line : line # Garbage)

\* What readJournal parses: an invalid line is passed over only when it is the
\* last one and has no newline.
Parsed(j) ==
  IF j.open /\ LastLine(j) = Garbage THEN AllButLast(j) ELSE j.lines

\* migrateJournalRecord on every line: contiguous sequences, chained checksums.
Chained(lines) ==
  \A i \in DOMAIN lines :
    /\ lines[i] # Garbage
    /\ lines[i].sequence + 1 = i
    /\ lines[i].previous = IF i = 1 THEN Null ELSE lines[i-1].cycle

Readable(j) == j.exists /\ Parsed(j) # <<>> /\ Chained(Parsed(j))
Latest(j) == Parsed(j)[Len(Parsed(j))]

\* The journal after one write; what follows a line without newline joins it.
Written(j, line, open) ==
  [exists |-> TRUE,
   lines |-> IF j.open THEN Append(AllButLast(j), Garbage) ELSE Append(j.lines, line),
   open |-> open]

-----------------------------------------------------------------------------
(* Processes.                                                                *)

Ops == {"create", "save", "load"}
Results == {"none", "ok", "refused"}
Steps == {"idle", "locking", "judging", "judgingOld", "reclaiming", "marking", "checking",
          "loading", "comparing", "stale", "repairing", "opening", "writing", "appended", "replacing",
          "releasing", "unlinking", "dead"}

\* record is the journal record the process has read or is writing; floor is the
\* longest acknowledged history when a load began, kept for ReadsAreRecent.
ProcRecord == [step : Steps, op : Ops \cup {Null}, next : Cycle,
               record : JournalRecord \cup {Null}, result : Results, floor : 0..MaxHistory]

Idle == [step |-> "idle", op |-> Null, next |-> <<>>, record |-> Null,
         result |-> "none", floor |-> 0]
Dead == [Idle EXCEPT !.step = "dead"]

Alive == {p \in Procs : proc[p] # Dead}
At(p, step) == proc[p].step = step
Go(p, step) == proc' = [proc EXCEPT ![p].step = step]
Finish(p, result) ==
  proc' = [proc EXCEPT ![p].step = "releasing", ![p].result = result]

LongestAcked == IF acked = {} THEN 0
                ELSE CHOOSE n \in {Len(c) : c \in acked} : \A c \in acked : Len(c) <= n

-----------------------------------------------------------------------------
(* The three operations begin.                                               *)

\* Temporary snapshots whose owner is dead are removed.
Swept == temps \cap Alive

Create(p) ==
  /\ proc[p] = Idle /\ known[p] = Null
  /\ temps' = Swept
  /\ proc' = [proc EXCEPT ![p] = [Idle EXCEPT !.op = "create", !.step = "locking"]]
  /\ UNCHANGED <<journal, snapshot, lock, stolen, answers>>

\* The caller derives the next cycle, one transition longer, from the one it has.
Save(p) ==
  /\ proc[p] = Idle /\ known[p] # Null /\ Len(known[p]) < MaxHistory
  /\ proc' = [proc EXCEPT ![p] = [Idle EXCEPT !.op = "save", !.step = "locking",
                                               !.next = Append(known[p], p)]]
  /\ UNCHANGED <<files, answers>>

Load(p) ==
  /\ proc[p] = Idle
  /\ proc' = [proc EXCEPT ![p] = [Idle EXCEPT !.op = "load", !.step = "loading",
                                               !.floor = LongestAcked]]
  /\ UNCHANGED <<files, answers>>

-----------------------------------------------------------------------------
(* acquireLock.                                                              *)

\* open(path, "wx") creates an empty file ...
OpenLock(p) ==
  /\ At(p, "locking") /\ lock = Null
  /\ lock' = [holder |-> p, written |-> FALSE, old |-> FALSE]
  /\ Go(p, "marking")
  /\ UNCHANGED <<journal, snapshot, stolen, temps, answers>>

\* ... and a second step writes the token and the process id into it, or into an
\* unlinked file when the lock was taken away in between.
MarkLock(p) ==
  /\ At(p, "marking")
  /\ lock' = IF lock # Null /\ lock.holder = p
             THEN [lock EXCEPT !.written = TRUE, !.old = FALSE] ELSE lock
  /\ Go(p, IF proc[p].op = "create" THEN "checking" ELSE "loading")
  /\ UNCHANGED <<journal, snapshot, stolen, temps, answers>>

\* lockIsReclaimable: stat tells whether the file there now is older than staleLockMs ...
StatLock(p) ==
  /\ At(p, "locking") /\ lock # Null
  /\ Go(p, IF lock.old THEN "judgingOld" ELSE "judging")
  /\ UNCHANGED <<files, answers>>

\* ... and the record is read after that, of whatever file is there by then: the
\* owner is dead, or there is no record and the file seen by stat was old.
Reclaimable(p) ==
  IF lock # Null /\ lock.written THEN lock.holder \notin Alive ELSE At(p, "judgingOld")

ReadLock(p) ==
  /\ proc[p].step \in {"judging", "judgingOld"}
  /\ Go(p, IF Reclaimable(p) THEN "reclaiming" ELSE "locking")
  /\ UNCHANGED <<files, answers>>

Steals(p) == lock # Null /\ lock.holder \in Alive \ {p}

\* A lock found reclaimable is removed by its path, whatever file is there by then.
Reclaim(p) ==
  /\ At(p, "reclaiming")
  /\ lock' = Null /\ stolen' = (stolen \/ Steals(p))
  /\ Go(p, "locking")
  /\ UNCHANGED <<journal, snapshot, temps, answers>>

\* Mutant: the wait has a deadline only when nobody holds the lock.
TimeoutWhenFree(p) ==
  /\ At(p, "locking") /\ lock = Null
  /\ proc' = [proc EXCEPT ![p] = Idle]
  /\ UNCHANGED <<files, answers>>

Timeout(p) ==
  /\ At(p, "locking")
  /\ proc' = [proc EXCEPT ![p] = Idle]
  /\ UNCHANGED <<files, answers>>

\* staleLockMs pass, while the owner is dead or takes its time.
AgeLock ==
  /\ lock # Null /\ ~lock.old
  /\ lock' = [lock EXCEPT !.old = TRUE]
  /\ UNCHANGED <<journal, snapshot, stolen, temps, proc, answers>>

\* The caller gets its answer; only now does it know what was accepted.
Return(p) ==
  /\ proc' = [proc EXCEPT ![p] = Idle]
  /\ IF proc[p].result = "ok"
     THEN /\ known' = [known EXCEPT ![p] = proc[p].next]
          /\ acked' = acked \cup {proc[p].next}
     ELSE UNCHANGED <<known, acked>>
  /\ UNCHANGED reads

\* The release reads the lock ...
Release(p) ==
  /\ At(p, "releasing")
  /\ IF lock # Null /\ lock.holder = p /\ lock.written
     THEN Go(p, "unlinking") /\ UNCHANGED answers
     ELSE Return(p)
  /\ UNCHANGED files

\* ... and removes it if it held the token of this acquisition.
Unlink(p) ==
  /\ At(p, "unlinking")
  /\ lock' = Null /\ stolen' = (stolen \/ Steals(p))
  /\ Return(p)
  /\ UNCHANGED <<journal, snapshot, temps>>

-----------------------------------------------------------------------------
(* load, called alone without the lock and by save under it.                 *)

\* Mutant: the caller's cycle is not compared with the stored one.
CurrentUnchecked(p, cycle) == TRUE

\* save goes on if what it loaded is what its caller had.
Current(p, cycle) == cycle = known[p]

\* What follows a load: its return, or the rest of the save that called it.
Continue(p, cycle) ==
  IF proc[p].op = "load"
  THEN /\ proc' = [proc EXCEPT ![p] = Idle]
       /\ known' = [known EXCEPT ![p] = cycle]
       /\ reads' = reads \cup {cycle}
       /\ UNCHANGED acked
  ELSE /\ IF Current(p, cycle) THEN Go(p, "opening") ELSE Finish(p, "refused")
       /\ UNCHANGED answers

\* Orphaned temporary files go first; they are of dead processes only.
ReadJournal(p) ==
  /\ At(p, "loading")
  /\ temps' = Swept
  /\ IF Readable(journal)
     THEN proc' = [proc EXCEPT ![p].step = "comparing", ![p].record = Latest(journal)]
     ELSE IF proc[p].op = "load" THEN proc' = [proc EXCEPT ![p] = Idle]
     ELSE Finish(p, "refused")
  /\ UNCHANGED <<journal, snapshot, lock, stolen, answers>>

\* Mutant: any snapshot is taken for the state.
CompareNothing(p) ==
  /\ At(p, "comparing")
  /\ IF snapshot # Null THEN Continue(p, snapshot.cycle)
     ELSE Go(p, "stale") /\ UNCHANGED answers
  /\ UNCHANGED files

\* The snapshot is used if it is the last record of the journal that was read.
Compare(p) ==
  /\ At(p, "comparing")
  /\ IF snapshot = proc[p].record THEN Continue(p, snapshot.cycle)
     ELSE Go(p, "stale") /\ UNCHANGED answers
  /\ UNCHANGED files

-----------------------------------------------------------------------------
(* appendJournal and atomicWriteJson.                                        *)

\* create refuses a cycle any file of which exists.
CheckAbsent(p) ==
  /\ At(p, "checking")
  /\ IF snapshot # Null \/ journal.exists THEN Finish(p, "refused") ELSE Go(p, "opening")
  /\ UNCHANGED <<files, answers>>

NewRecord(p) == MakeRecord(proc[p].next, known[p])

\* Mutant: the snapshot is replaced before the journal is written.
OpenJournalLate(p) ==
  /\ At(p, "opening")
  /\ journal' = [journal EXCEPT !.exists = TRUE]
  /\ snapshot' = NewRecord(p)
  /\ Go(p, "writing")
  /\ UNCHANGED <<lock, stolen, temps, answers>>

OpenJournal(p) ==
  /\ At(p, "opening")
  /\ journal' = [journal EXCEPT !.exists = TRUE]
  /\ Go(p, "writing")
  /\ UNCHANGED <<snapshot, lock, stolen, temps, answers>>

WriteJournal(p) ==
  /\ At(p, "writing")
  /\ journal' = Written(journal, NewRecord(p), FALSE)
  /\ proc' = [proc EXCEPT ![p].step = "appended", ![p].record = NewRecord(p)]
  /\ UNCHANGED <<snapshot, lock, stolen, temps, answers>>

\* A temporary file is written and synced ...
WriteTemporary(p) ==
  /\ proc[p].step \in {"stale", "appended"}
  /\ temps' = temps \cup {p}
  /\ Go(p, IF At(p, "stale") THEN "repairing" ELSE "replacing")
  /\ UNCHANGED <<journal, snapshot, lock, stolen, answers>>

\* ... and renamed over the snapshot, under the lock or not.
RenameSnapshot(p) ==
  /\ proc[p].step \in {"repairing", "replacing"}
  /\ snapshot' = proc[p].record
  /\ temps' = temps \ {p}
  /\ IF At(p, "repairing") THEN Continue(p, proc[p].record.cycle)
     ELSE Finish(p, "ok") /\ UNCHANGED answers
  /\ UNCHANGED <<journal, lock, stolen>>

-----------------------------------------------------------------------------
\* SIGKILL between two file operations, or within the write of a record: then a
\* part of the line, or all of it but its newline, may be left in the journal.
Crash(p) ==
  /\ p \in Alive /\ Cardinality(Procs \ Alive) < MaxCrashes
  /\ proc' = [proc EXCEPT ![p] = Dead]
  /\ \/ UNCHANGED journal
     \/ /\ TornWrites /\ At(p, "writing")
        /\ \E line \in {NewRecord(p), Garbage} : journal' = Written(journal, line, TRUE)
  /\ UNCHANGED <<snapshot, lock, stolen, temps, answers>>

Init ==
  /\ journal = [exists |-> FALSE, lines |-> <<>>, open |-> FALSE]
  /\ snapshot = Null /\ lock = Null /\ stolen = FALSE /\ temps = {}
  /\ proc = [p \in Procs |-> Idle]
  /\ known = [p \in Procs |-> Null]
  /\ acked = {} /\ reads = {}

Begin(p) == Create(p) \/ Save(p) \/ Load(p)

\* What a process does once it has begun, but for giving up.
Step(p) ==
  \/ OpenLock(p) \/ MarkLock(p) \/ StatLock(p) \/ ReadLock(p) \/ Reclaim(p)
  \/ Release(p) \/ Unlink(p)
  \/ ReadJournal(p) \/ Compare(p) \/ CheckAbsent(p)
  \/ OpenJournal(p) \/ WriteJournal(p) \/ WriteTemporary(p) \/ RenameSnapshot(p)

Next == AgeLock \/ \E p \in Procs : Begin(p) \/ Step(p) \/ Timeout(p) \/ Crash(p)

Spec == Init /\ [][Next]_vars

\* A live process goes on, and its wait for the lock has a deadline.
Fairness == \A p \in Procs : WF_vars(Step(p)) /\ SF_vars(Timeout(p))
FairSpec == Spec /\ Fairness

-----------------------------------------------------------------------------
(* Properties.                                                               *)

TypeOK ==
  /\ journal \in [exists : BOOLEAN, lines : Seq(JournalRecord \cup {Garbage}), open : BOOLEAN]
  /\ journal.open => journal.lines # <<>>
  /\ snapshot \in JournalRecord \cup {Null}
  /\ lock \in LockRecord \cup {Null} /\ stolen \in BOOLEAN
  /\ temps \subseteq Procs
  /\ proc \in [Procs -> ProcRecord]
  /\ known \in [Procs -> Cycle \cup {Null}]
  /\ acked \subseteq Cycle /\ reads \subseteq Cycle

Extends(longer, shorter) ==
  Len(shorter) <= Len(longer) /\ SubSeq(longer, 1, Len(shorter)) = shorter
Linear(cycles) == \A c, d \in cycles : Extends(c, d) \/ Extends(d, c)

\* "one accepted next transition under competing writers": no two acknowledged
\* histories branch.  The code does not keep it, because it judges a lock that
\* another process may have replaced before it is removed.
OneNextTransition == Linear(acked)

\* Acknowledged histories branch only after a process has removed the lock of a
\* live one: until then one of several competing saves of a cycle is accepted,
\* whatever is killed and whatever lock is reclaimed.
OneNextTransitionUnlessStolen == stolen \/ Linear(acked)

\* What a create or save has acknowledged is in the journal for as long as the
\* journal can be read.  A kill that cuts a write short can lose it: what readJournal
\* passes over joins the record of the next save, which is acknowledged.  Then no
\* load answers any more, rather than answer with an older history.
LossIsNeverSilent ==
  Readable(journal) =>
    \A c \in acked : \E i \in DOMAIN Parsed(journal) : Parsed(journal)[i].cycle = c

\* A killed process has left the line of its record without a newline, and the torn
\* write of another killed process has joined that line and spoilt it.
TornAway(record) ==
  LET dead == Procs \ Alive writer == record.cycle[Len(record.cycle)]
  IN record.cycle # <<>> /\ writer \in dead /\ dead # {writer}

\* The snapshot never runs ahead of a journal that can be read: it is one of its
\* records, unless two kills in writing have taken that record away again.
SnapshotJournaled ==
  snapshot # Null /\ Readable(journal) =>
    TornAway(snapshot) \/ \E i \in DOMAIN Parsed(journal) : Parsed(journal)[i] = snapshot

\* A load returns a history at least as long as any acknowledged before it began,
\* even though loads that hold no lock may put an older snapshot back.
ReadsAreRecent ==
  [][\A p \in Procs :
       /\ proc[p].op = "load" /\ proc[p].step \in {"comparing", "repairing"}
       /\ proc'[p] = Idle
       => Len(known'[p]) >= proc[p].floor]_vars

\* Every operation of a process that is not killed comes to an end.
OperationsEnd ==
  \A p \in Procs : proc[p].step \notin {"idle", "dead"} ~> proc[p].step \in {"idle", "dead"}

=============================================================================
