------------------------ MODULE EvolutionStoreProofs ------------------------
(***************************************************************************)
(* What the properties of EvolutionStore rest on, for any processes, kills  *)
(* and length of a history.                                                 *)
(*                                                                          *)
(* A line of the journal that has its newline is never touched again, so    *)
(* what was acknowledged stays in the journal or the journal is spoilt for  *)
(* good.  That holds whoever owns the lock, and so does the rest: only one  *)
(* line of transitions can be read, because every record continues the one  *)
(* before it.  The lock is exclusive until a live process's is removed.     *)
(***************************************************************************)
EXTENDS EvolutionStore, SequenceTheorems, WellFoundedInduction, TLAPS

\* The lines that have their newline.
Firm(j) == IF j.open THEN Len(j.lines) - 1 ELSE Len(j.lines)
Spoilt(j) == \E i \in 1..Firm(j) : j.lines[i] = Garbage
Kept(record, j) == Spoilt(j) \/ \E i \in 1..Firm(j) : j.lines[i] = record
KeptCycle(cycle, j) == Spoilt(j) \/ \E i \in 1..Firm(j) : j.lines[i].cycle = cycle

DeadProcs == Procs \ Alive
Writer(cycle) == cycle[Len(cycle)]

\* A record stands for one transition of its writer.
IsRecord(r) ==
  /\ r \in JournalRecord
  /\ r.sequence = Len(r.cycle)
  /\ r.cycle = <<>> => r.previous = Null
  /\ r.cycle # <<>> => r.previous \in Cycle /\ r.cycle = Append(r.previous, Writer(r.cycle))

\* A record that was read is in the journal, or its writer was killed in writing.
Sound(r, j, dead) ==
  \/ r.cycle = <<>>
  \/ Kept(r, j)
  \/ /\ Writer(r.cycle) \in dead
     /\ (j.open /\ r # Garbage /\ LastLine(j) = r) \/ dead # {Writer(r.cycle)}

Linked(lines, k) ==
  \A i \in 1..k : /\ lines[i] # Garbage /\ lines[i].sequence + 1 = i
                  /\ lines[i].previous = IF i = 1 THEN Null ELSE lines[i-1].cycle

JournalOK ==
  /\ \A i \in 1..Len(journal.lines) : journal.lines[i] = Garbage \/ IsRecord(journal.lines[i])
  /\ journal.open /\ LastLine(journal) # Garbage /\ LastLine(journal).cycle # <<>> =>
       Writer(LastLine(journal).cycle) \in DeadProcs
  /\ journal.lines # <<>> => journal.exists

LinesOK ==
  \A k \in 1..Len(journal.lines) : Linked(journal.lines, k) =>
    \A i \in 1..k : Extends(journal.lines[k].cycle, journal.lines[i].cycle)

SnapshotOK == snapshot # Null => IsRecord(snapshot) /\ Sound(snapshot, journal, DeadProcs)
AckedOK == \A c \in acked : KeptCycle(c, journal)

Loading == {"loading", "comparing", "stale", "repairing"}
Writing == Steps \ (Loading \cup {"idle", "dead"})

\* What a process knows at each step of its operation.
ProcOK(p) ==
  LET r == proc[p] IN
  /\ r.step \in {"idle", "dead"} => r.op = Null
  /\ r.step \in Loading => r.op \in {"load", "save"}
  /\ r.step \in Writing => r.op \in {"create", "save"}
  /\ r.op = "create" => known[p] = Null /\ r.next = <<>>
  /\ r.op = "save" => known[p] \in Cycle /\ r.next = Append(known[p], p)
  /\ r.op = "load" => r.floor = 0 \/ \E c \in acked : r.floor = Len(c)
  /\ r.step \in {"comparing", "stale", "repairing"} =>
       /\ IsRecord(r.record) /\ Sound(r.record, journal, DeadProcs)
       /\ r.op = "load" => r.floor <= Len(r.record.cycle)
  /\ r.step \in {"appended", "replacing"} =>
       r.record = NewRecord(p) /\ Kept(r.record, journal)
  /\ r.result = "ok" => r.step \in {"releasing", "unlinking"} /\ Kept(NewRecord(p), journal)

StoreInv ==
  TypeOK /\ JournalOK /\ LinesOK /\ SnapshotOK /\ AckedOK /\ \A p \in Procs : ProcOK(p)

----------------------------------------------------------------------------
(* Histories and the journal.                                               *)

LEMMA CycleFacts ==
  ASSUME NEW c \in Cycle
  PROVE  c \in Seq(Procs) /\ Len(c) \in 0..MaxHistory
<1>1. PICK n \in 0..MaxHistory : c \in [1..n -> Procs]
  BY DEF Cycle
<1>2. n \in Nat
  BY <1>1, StoreBounds
<1> QED
  BY <1>1, <1>2

LEMMA IsCycle ==
  ASSUME NEW c \in Seq(Procs), Len(c) <= MaxHistory
  PROVE  c \in Cycle
<1>1. Len(c) \in 0..MaxHistory /\ c \in [1..Len(c) -> Procs]
  BY StoreBounds
<1> QED
  BY <1>1 DEF Cycle

LEMMA Longer ==
  ASSUME NEW c \in Cycle, NEW p \in Procs, Len(c) < MaxHistory
  PROVE  Append(c, p) \in Cycle /\ Append(c, p) # <<>> /\ Writer(Append(c, p)) = p
<1>1. c \in Seq(Procs) /\ Len(c) \in Nat /\ MaxHistory \in Nat
  BY CycleFacts, StoreBounds
<1>2. Append(c, p) \in Seq(Procs) /\ Len(Append(c, p)) = Len(c) + 1
      /\ Append(c, p)[Len(c) + 1] = p
  BY <1>1
<1> DEFINE longer == Append(c, p)
<1>3. Len(longer) <= MaxHistory /\ Len(longer) # 0
  BY <1>1, <1>2
<1>4. longer # <<>>
  BY <1>3, EmptySeq
<1>5. longer[Len(longer)] = p
  BY <1>2
<1> HIDE DEF longer
<1> QED
  BY <1>2, <1>3, <1>4, <1>5, IsCycle DEF Writer, longer

\* The longest of the acknowledged histories has a length.
LEMMA LongestIs ==
  ASSUME acked \subseteq Cycle
  PROVE  /\ LongestAcked \in 0..MaxHistory
         /\ LongestAcked = 0 \/ \E c \in acked : LongestAcked = Len(c)
<1>1. CASE acked = {}
  BY <1>1, StoreBounds DEF LongestAcked
<1>2. CASE acked # {}
  <2> DEFINE lengths == {Len(c) : c \in acked}
             gaps == {MaxHistory - n : n \in lengths}
  <2>1. lengths \subseteq 0..MaxHistory /\ lengths # {}
    BY <1>2, CycleFacts
  <2>2. gaps \subseteq Nat /\ gaps # {}
    BY <2>1, StoreBounds
  <2>3. PICK least \in gaps : \A y \in gaps : <<y, least>> \notin OpToRel(<, Nat)
    BY <2>2, NatLessThanWellFounded, WFMin
  <2>4. \A y \in gaps : ~(y < least)
    BY <2>2, <2>3 DEF OpToRel
  <2>5. PICK n \in lengths : least = MaxHistory - n
    BY <2>3
  <2>6. ASSUME NEW m \in lengths PROVE m <= n
    <3>1. MaxHistory - m \in gaps
      OBVIOUS
    <3>2. ~(MaxHistory - m < MaxHistory - n)
      BY <2>4, <2>5, <3>1
    <3>3. m \in Nat /\ n \in Nat /\ MaxHistory \in Nat
      BY <2>1, StoreBounds
    <3> HIDE DEF lengths, gaps
    <3> QED
      BY <3>2, <3>3
  <2>7. \A c \in acked : Len(c) <= n
    BY <2>6
  <2>8. LongestAcked = CHOOSE k \in lengths : \A c \in acked : Len(c) <= k
    BY <1>2 DEF LongestAcked
  <2>9. LongestAcked \in lengths
    BY <2>5, <2>7, <2>8
  <2> QED
    BY <2>1, <2>9
<1> QED
  BY <1>1, <1>2

JournalType(j) ==
  /\ j \in [exists : BOOLEAN, lines : Seq(JournalRecord \cup {Garbage}), open : BOOLEAN]
  /\ j.open => j.lines # <<>>

\* What a write does to the lines.
LEMMA WrittenIs ==
  ASSUME NEW j, JournalType(j), NEW line \in JournalRecord \cup {Garbage}, NEW open \in BOOLEAN,
         NEW w, w = Written(j, line, open)
  PROVE  /\ JournalType(w) /\ w.open = open /\ w.exists
         /\ Firm(j) \in Nat /\ Len(w.lines) = Firm(j) + 1
         /\ \A i \in 1..Firm(j) : w.lines[i] = j.lines[i]
         /\ LastLine(w) = IF j.open THEN Garbage ELSE line
<1> USE DEF JournalType
<1>1. CASE ~j.open
  <2>1. w = [exists |-> TRUE, lines |-> Append(j.lines, line), open |-> open]
    BY <1>1 DEF Written
  <2>2. Firm(j) = Len(j.lines) /\ Len(j.lines) \in Nat
    BY <1>1 DEF Firm
  <2>3. /\ Append(j.lines, line) \in Seq(JournalRecord \cup {Garbage})
        /\ Len(Append(j.lines, line)) = Len(j.lines) + 1
        /\ \A i \in 1..Len(j.lines) : Append(j.lines, line)[i] = j.lines[i]
        /\ Append(j.lines, line)[Len(j.lines) + 1] = line
    OBVIOUS
  <2> QED
    BY <1>1, <2>1, <2>2, <2>3 DEF LastLine
<1>2. CASE j.open
  <2> DEFINE all == AllButLast(j)
  <2>1. w = [exists |-> TRUE, lines |-> Append(all, Garbage), open |-> open]
    BY <1>2 DEF Written
  <2>2. Len(j.lines) \in Nat \ {0} /\ Firm(j) = Len(j.lines) - 1
    BY <1>2, EmptySeq DEF Firm
  <2>3. /\ all \in Seq(JournalRecord \cup {Garbage}) /\ Len(all) = Firm(j)
        /\ \A i \in 1..Firm(j) : all[i] = j.lines[i]
    <3> DEFINE n == Len(j.lines) - 1
    <3>1. n \in Int /\ \A i \in 1..n : j.lines[i] \in JournalRecord \cup {Garbage}
      BY <2>2
    <3>2. all = SubSeq(j.lines, 1, n)
      BY DEF AllButLast
    <3>3. n >= 0 /\ n - 1 + 1 = n
      BY <2>2
    <3> HIDE DEF n
    <3>4. /\ all \in Seq(JournalRecord \cup {Garbage})
          /\ Len(all) = IF 1 <= n THEN n - 1 + 1 ELSE 0
          /\ \A i \in 1..n - 1 + 1 : all[i] = j.lines[1 + i - 1]
      BY <3>1, <3>2, SubSeqProperties
    <3> HIDE DEF all
    <3>5. Len(all) = n /\ \A i \in 1..n : all[i] = j.lines[i]
      <4>1. \A i \in 1..n : 1 + i - 1 = i
        BY <3>1
      <4> QED
        BY <3>1, <3>3, <3>4, <4>1
    <3> QED
      BY <2>2, <3>4, <3>5 DEF n
  <2> HIDE DEF all
  <2>4. /\ Append(all, Garbage) \in Seq(JournalRecord \cup {Garbage})
        /\ Len(Append(all, Garbage)) = Firm(j) + 1
        /\ \A i \in 1..Firm(j) : Append(all, Garbage)[i] = j.lines[i]
        /\ Append(all, Garbage)[Firm(j) + 1] = Garbage
    BY <2>2, <2>3
  <2> QED
    BY <1>2, <2>1, <2>2, <2>4 DEF LastLine
<1> QED
  BY <1>1, <1>2

----------------------------------------------------------------------------
(* What survives of the journal.                                            *)

Grows(j, w) == Firm(j) <= Firm(w) /\ \A i \in 1..Firm(j) : w.lines[i] = j.lines[i]

\* An open last line stays the last, or joins the next one when that is complete,
\* or joins what a process has written that was killed.
Moves(j, w, dead, later) ==
  /\ Firm(j) \in Nat /\ Firm(w) \in Nat /\ Grows(j, w)
  /\ dead \subseteq later
  /\ j.open => (w.open /\ LastLine(w) = LastLine(j)) \/ Spoilt(w) \/ \E q \in later : q \notin dead

LEMMA KeptStays ==
  ASSUME NEW j, NEW w, Firm(j) \in Nat, Firm(w) \in Nat, Grows(j, w), NEW record
  PROVE  /\ Kept(record, j) => Kept(record, w)
         /\ KeptCycle(record, j) => KeptCycle(record, w)
<1>1. \A i \in 1..Firm(j) : i \in 1..Firm(w) /\ w.lines[i] = j.lines[i]
  BY DEF Grows
<1> QED
  BY <1>1 DEF Kept, KeptCycle, Spoilt

LEMMA SoundStays ==
  ASSUME NEW j, NEW w, NEW dead, NEW later, Moves(j, w, dead, later), NEW r, Sound(r, j, dead)
  PROVE  Sound(r, w, later)
<1>1. CASE r.cycle = <<>>
  BY <1>1 DEF Sound
<1>2. CASE Kept(r, j)
  BY <1>2, KeptStays DEF Sound, Moves
<1>3. CASE /\ Writer(r.cycle) \in dead
           /\ (j.open /\ r # Garbage /\ LastLine(j) = r) \/ dead # {Writer(r.cycle)}
  <2>1. Writer(r.cycle) \in later
    BY <1>3 DEF Moves
  <2>2. CASE dead # {Writer(r.cycle)}
    BY <1>3, <2>1, <2>2 DEF Moves, Sound
  <2>3. CASE j.open /\ r # Garbage /\ LastLine(j) = r
    <3>1. CASE w.open /\ LastLine(w) = LastLine(j)
      BY <2>1, <2>3, <3>1 DEF Sound
    <3>2. CASE Spoilt(w)
      BY <3>2 DEF Sound, Kept
    <3>3. CASE \E q \in later : q \notin dead
      BY <1>3, <2>1, <3>3 DEF Sound
    <3> QED
      BY <2>3, <3>1, <3>2, <3>3 DEF Moves
  <2> QED
    BY <1>3, <2>2, <2>3
<1> QED
  BY <1>1, <1>2, <1>3 DEF Sound

\* A write, whole or cut short by the kill of its process.
LEMMA WriteMoves ==
  ASSUME NEW j, JournalType(j), NEW line \in JournalRecord \cup {Garbage}, NEW open \in BOOLEAN,
         NEW dead, NEW later, dead \subseteq later, open => \E q \in later : q \notin dead
  PROVE  Moves(j, Written(j, line, open), dead, later)
<1> DEFINE w == Written(j, line, open)
<1>0. w = Written(j, line, open)
  OBVIOUS
<1> HIDE DEF w
<1>1. /\ w.open = open /\ Firm(j) \in Nat /\ Len(w.lines) = Firm(j) + 1
      /\ \A i \in 1..Firm(j) : w.lines[i] = j.lines[i]
      /\ LastLine(w) = IF j.open THEN Garbage ELSE line
  BY <1>0, WrittenIs
<1>2. Firm(w) = IF open THEN Firm(j) ELSE Firm(j) + 1
  BY <1>1 DEF Firm
<1>3. Firm(w) \in Nat /\ Grows(j, w)
  BY <1>1, <1>2 DEF Grows
<1>4. j.open /\ ~open => Spoilt(w)
  <2>1. j.open /\ ~open => Firm(w) \in 1..Firm(w) /\ w.lines[Firm(w)] = Garbage
    BY <1>1, <1>2 DEF LastLine
  <2> QED
    BY <2>1 DEF Spoilt
<1> QED
  BY <1>1, <1>3, <1>4 DEF Moves, w

\* A whole line stays, or what it has joined spoils the journal.
LEMMA WriteKeeps ==
  ASSUME NEW j, JournalType(j), NEW line \in JournalRecord
  PROVE  Kept(line, Written(j, line, FALSE))
<1>1. PICK open \in BOOLEAN : open = FALSE
  OBVIOUS
<1>2. PICK w : w = Written(j, line, open)
  OBVIOUS
<1>3. line \in JournalRecord \cup {Garbage}
  OBVIOUS
<1>4. /\ w.open = open /\ Firm(j) \in Nat /\ Len(w.lines) = Firm(j) + 1
      /\ LastLine(w) = IF j.open THEN Garbage ELSE line
  BY <1>2, <1>3, WrittenIs
<1>5. Len(w.lines) \in 1..Firm(w) /\ w.lines[Len(w.lines)] = LastLine(w)
  BY <1>1, <1>4 DEF Firm, LastLine
<1> QED
  BY <1>1, <1>2, <1>4, <1>5 DEF Kept, Spoilt

LEMMA RecordOf ==
  ASSUME TypeOK, NEW p \in Procs, ProcOK(p), proc[p].op \in {"create", "save"}
  PROVE  IsRecord(NewRecord(p)) /\ NewRecord(p).cycle = proc[p].next
         /\ (NewRecord(p).cycle # <<>> => Writer(NewRecord(p).cycle) = p)
<1> DEFINE r == NewRecord(p)
<1>1. r = [sequence |-> Len(proc[p].next), previous |-> known[p], cycle |-> proc[p].next]
  BY DEF NewRecord, MakeRecord
<1>2. proc[p].next \in Cycle /\ known[p] \in Cycle \cup {Null}
  BY DEF TypeOK, ProcRecord
<1>3. Len(proc[p].next) \in 0..MaxHistory
  BY <1>2, CycleFacts
<1>4. r \in JournalRecord /\ r.sequence = Len(r.cycle) /\ r.cycle = proc[p].next /\ r.previous = known[p]
  BY <1>1, <1>2, <1>3 DEF JournalRecord
<1> HIDE DEF r
<1>5. CASE proc[p].op = "create"
  BY <1>4, <1>5 DEF IsRecord, ProcOK, r
<1>6. CASE proc[p].op = "save"
  <2>1. known[p] \in Seq(Procs) /\ known[p] \in Cycle /\ r.cycle = Append(known[p], p)
    BY <1>4, <1>6, CycleFacts DEF ProcOK
  <2>2. Writer(r.cycle) = p
    BY <2>1 DEF Writer
  <2> QED
    BY <1>4, <1>6, <2>1, <2>2 DEF IsRecord, r
<1> QED
  BY <1>5, <1>6

\* What a process does changes its own row and answer only, and kills nobody.
Acts(p) ==
  /\ proc[p].step # "dead" /\ proc'[p].step # "dead"
  /\ \A q \in Procs \ {p} : proc'[q] = proc[q] /\ known'[q] = known[q]
  /\ acked \subseteq acked'

LEMMA StepActs ==
  ASSUME TypeOK, NEW p \in Procs, Begin(p) \/ Step(p) \/ Timeout(p)
  PROVE  Acts(p)
<1>0. proc \in [Procs -> ProcRecord] /\ known \in [Procs -> Cycle \cup {Null}]
  BY DEF TypeOK
<1> USE <1>0 DEF Acts, ProcRecord, Go, Finish, At, Idle, files, answers
<1>1. CASE Create(p)
  BY <1>1 DEF Create
<1>8. CASE Save(p)
  BY <1>8 DEF Save
<1>9. CASE Load(p)
  BY <1>9 DEF Load
<1>2. CASE OpenLock(p) \/ MarkLock(p) \/ StatLock(p) \/ ReadLock(p) \/ Reclaim(p) \/ Timeout(p)
  BY <1>2 DEF OpenLock, MarkLock, StatLock, ReadLock, Reclaim, Timeout
<1>3. CASE Release(p) \/ Unlink(p)
  BY <1>3 DEF Release, Unlink, Return
<1>4. CASE ReadJournal(p)
  BY <1>4 DEF ReadJournal
<1>5. CASE Compare(p)
  BY <1>5 DEF Compare, Continue
<1>7. CASE RenameSnapshot(p)
  <2>1. CASE At(p, "repairing")
    BY <1>7, <2>1 DEF RenameSnapshot, Continue
  <2>2. CASE ~At(p, "repairing")
    BY <1>7, <2>2 DEF RenameSnapshot
  <2> QED
    BY <2>1, <2>2
<1>6. CASE CheckAbsent(p) \/ OpenJournal(p)
  BY <1>6 DEF CheckAbsent, OpenJournal
<1>10. CASE WriteJournal(p)
  BY <1>10 DEF WriteJournal
<1>11. CASE WriteTemporary(p)
  BY <1>11 DEF WriteTemporary
<1> QED
  BY <1>1, <1>2, <1>3, <1>4, <1>5, <1>6, <1>7, <1>8, <1>9, <1>10, <1>11 DEF Begin, Step

\* Every step moves the journal on, and the dead stay dead.
LEMMA JournalMoves ==
  ASSUME StoreInv, [Next]_vars
  PROVE  Moves(journal, journal', DeadProcs, DeadProcs')
<1>0. JournalType(journal) /\ Firm(journal) \in Nat
  <2>1. JournalType(journal)
    BY DEF StoreInv, TypeOK, JournalType
  <2>2. Len(journal.lines) \in Nat /\ (journal.open => Len(journal.lines) # 0)
    BY <2>1, EmptySeq DEF JournalType
  <2> QED
    BY <2>1, <2>2 DEF Firm
<1>1. ASSUME DeadProcs \subseteq DeadProcs', journal'.open = journal.open, journal'.lines = journal.lines
      PROVE  Moves(journal, journal', DeadProcs, DeadProcs')
  BY <1>0, <1>1 DEF Moves, Grows, Firm, LastLine
<1>2. ASSUME NEW p \in Procs, Acts(p)
      PROVE  DeadProcs \subseteq DeadProcs'
  BY <1>2 DEF DeadProcs, Alive, Acts, Dead, Idle
<1>3. ASSUME NEW p \in Procs, WriteJournal(p)
      PROVE  Moves(journal, journal', DeadProcs, DeadProcs')
  <2>1. DeadProcs \subseteq DeadProcs'
    BY <1>2, <1>3, StepActs DEF StoreInv, Step
  <2>2. NewRecord(p) \in JournalRecord
    BY <1>3, RecordOf DEF StoreInv, ProcOK, WriteJournal, At, Writing, Steps, Loading, IsRecord
  <2> QED
    BY <1>0, <1>3, <2>1, <2>2, WriteMoves DEF WriteJournal
<1>4. ASSUME NEW p \in Procs, Begin(p) \/ Step(p) \/ Timeout(p), ~WriteJournal(p)
      PROVE  Moves(journal, journal', DeadProcs, DeadProcs')
  <2>1. journal'.open = journal.open /\ journal'.lines = journal.lines
    BY <1>0, <1>4 DEF JournalType, Begin, Step, Create, Save, Load, OpenLock, MarkLock,
       StatLock, ReadLock, Reclaim, Timeout, Release, Unlink, ReadJournal, Compare, CheckAbsent,
       OpenJournal, WriteTemporary, RenameSnapshot, files
  <2> QED
    BY <1>1, <1>2, <1>4, <2>1, StepActs DEF StoreInv
<1>5. ASSUME NEW p \in Procs, Crash(p)
      PROVE  Moves(journal, journal', DeadProcs, DeadProcs')
  <2>1. p \notin DeadProcs /\ p \in DeadProcs' /\ DeadProcs \subseteq DeadProcs'
    BY <1>5 DEF Crash, DeadProcs, Alive, StoreInv, TypeOK
  <2>2. CASE UNCHANGED journal
    BY <1>1, <2>1, <2>2
  <2>3. CASE journal' # journal
    <3>1. PICK line \in {NewRecord(p), Garbage} : journal' = Written(journal, line, TRUE)
      BY <1>5, <2>3 DEF Crash
    <3>2. NewRecord(p) \in JournalRecord
      BY <1>5, <2>3, RecordOf DEF Crash, StoreInv, ProcOK, At, Writing, Steps, Loading, IsRecord
    <3> QED
      BY <1>0, <2>1, <3>1, <3>2, WriteMoves
  <2> QED
    BY <2>2, <2>3
<1>6. CASE UNCHANGED vars \/ AgeLock
  BY <1>1, <1>6 DEF AgeLock, vars, DeadProcs, Alive
<1> QED
  BY <1>3, <1>4, <1>5, <1>6 DEF Next

----------------------------------------------------------------------------
(* Types.                                                                   *)

LEMMA RowTypes ==
  ASSUME TypeOK, NEW p \in Procs
  PROVE  /\ proc[p] \in ProcRecord
         /\ \A s \in Steps : [proc EXCEPT ![p].step = s] \in [Procs -> ProcRecord]
         /\ \A row \in ProcRecord : [proc EXCEPT ![p] = row] \in [Procs -> ProcRecord]
         /\ \A s \in Results : [proc EXCEPT ![p].step = "releasing", ![p].result = s] \in [Procs -> ProcRecord]
         /\ \A r \in JournalRecord : \A s \in Steps :
              [proc EXCEPT ![p].step = s, ![p].record = r] \in [Procs -> ProcRecord]
<1>1. proc \in [Procs -> ProcRecord] /\ {"releasing"} \subseteq Steps
  BY DEF TypeOK, Steps
<1>2. proc[p] \in ProcRecord
  BY <1>1
<1>3. ASSUME NEW s \in Steps PROVE [proc EXCEPT ![p].step = s] \in [Procs -> ProcRecord]
  BY <1>1, <1>2 DEF ProcRecord
<1>4. ASSUME NEW s \in Results
      PROVE  [proc EXCEPT ![p].step = "releasing", ![p].result = s] \in [Procs -> ProcRecord]
  BY <1>1, <1>2 DEF ProcRecord
<1>5. ASSUME NEW r \in JournalRecord, NEW s \in Steps
      PROVE  [proc EXCEPT ![p].step = s, ![p].record = r] \in [Procs -> ProcRecord]
  BY <1>1, <1>2 DEF ProcRecord
<1> QED
  BY <1>1, <1>2, <1>3, <1>4, <1>5

LEMMA IdleType ==
  Idle \in ProcRecord /\ Dead \in ProcRecord
<1>1. 0 \in 0..MaxHistory /\ <<>> \in Cycle
  <2>1. <<>> \in Seq(Procs) /\ Len(<<>>) = 0
    BY EmptySeq
  <2>2. 0 \in 0..MaxHistory /\ Len(<<>>) <= MaxHistory
    BY <2>1, StoreBounds
  <2> QED
    BY <2>1, <2>2, IsCycle
<1> QED
  BY <1>1 DEF Idle, Dead, ProcRecord, Steps, Results

LEMMA RowSteps ==
  ASSUME TypeOK, NEW p \in Procs
  PROVE  /\ \A s \in Steps : Go(p, s) => proc' \in [Procs -> ProcRecord]
         /\ \A s \in Results : Finish(p, s) => proc' \in [Procs -> ProcRecord]
         /\ proc' = [proc EXCEPT ![p] = Idle] => proc' \in [Procs -> ProcRecord]
         /\ proc' = [proc EXCEPT ![p] = Dead] => proc' \in [Procs -> ProcRecord]
<1>1. ASSUME NEW s \in Steps, Go(p, s) PROVE proc' \in [Procs -> ProcRecord]
  BY <1>1, RowTypes DEF Go
<1>2. ASSUME NEW s \in Results, Finish(p, s) PROVE proc' \in [Procs -> ProcRecord]
  BY <1>2, RowTypes DEF Finish
<1> QED
  BY <1>1, <1>2, RowTypes, IdleType

\* The answers after an operation has returned.
LEMMA ReturnType ==
  ASSUME TypeOK, NEW p \in Procs, Return(p)
  PROVE  proc' \in [Procs -> ProcRecord] /\ known' \in [Procs -> Cycle \cup {Null}]
         /\ acked' \subseteq Cycle /\ reads' \subseteq Cycle
<1>1. proc[p].next \in Cycle
  BY DEF TypeOK, ProcRecord
<1> QED
  BY <1>1, RowTypes, IdleType DEF Return, TypeOK

LEMMA ContinueType ==
  ASSUME TypeOK, NEW p \in Procs, NEW cycle \in Cycle, Continue(p, cycle)
  PROVE  proc' \in [Procs -> ProcRecord] /\ known' \in [Procs -> Cycle \cup {Null}]
         /\ acked' \subseteq Cycle /\ reads' \subseteq Cycle
<1>1. CASE proc[p].op = "load"
  <2>1. proc' = [proc EXCEPT ![p] = Idle] /\ known' = [known EXCEPT ![p] = cycle]
        /\ reads' = reads \cup {cycle} /\ acked' = acked
    BY <1>1 DEF Continue
  <2>2. known \in [Procs -> Cycle \cup {Null}] /\ acked \subseteq Cycle /\ reads \subseteq Cycle
    BY DEF TypeOK
  <2> QED
    BY <2>1, <2>2, RowSteps
<1>2. CASE proc[p].op # "load"
  <2>1. proc' \in [Procs -> ProcRecord]
    <3>1. Go(p, "opening") \/ Finish(p, "refused")
      BY <1>2 DEF Continue
    <3>2. "opening" \in Steps /\ "refused" \in Results
      BY DEF Steps, Results
    <3> QED
      BY <3>1, <3>2, RowSteps
  <2> QED
    BY <1>2, <2>1 DEF Continue, TypeOK, answers
<1> QED
  BY <1>1, <1>2

LEMMA TypeInit == Init => TypeOK
<1>1. Init => stolen \in BOOLEAN
  BY Zenon DEF Init
<1> QED
  BY <1>1, EmptySeq, IdleType, StoreBounds DEF Init, TypeOK

\* What a load reads from the journal.
LEMMA LatestIs ==
  ASSUME TypeOK, JournalOK, Readable(journal)
  PROVE  /\ Parsed(journal) \in Seq(JournalRecord \cup {Garbage})
         /\ Len(Parsed(journal)) \in 1..Len(journal.lines)
         /\ Firm(journal) <= Len(Parsed(journal))
         /\ Len(Parsed(journal)) = Firm(journal) \/
              (journal.open /\ LastLine(journal) # Garbage /\ Parsed(journal) = journal.lines)
         /\ \A i \in 1..Len(Parsed(journal)) : Parsed(journal)[i] = journal.lines[i]
         /\ Linked(journal.lines, Len(Parsed(journal)))
         /\ Latest(journal) = journal.lines[Len(Parsed(journal))]
         /\ IsRecord(Latest(journal)) /\ Latest(journal) \in JournalRecord
         /\ Latest(journal).sequence + 1 = Len(Parsed(journal))
<1> DEFINE lines == journal.lines
           parsed == Parsed(journal)
           n == Len(parsed)
<1>1. lines \in Seq(JournalRecord \cup {Garbage}) /\ Len(lines) \in Nat /\ journal.open \in BOOLEAN
      /\ (journal.open => Len(lines) # 0)
  BY EmptySeq DEF TypeOK
<1>2. /\ parsed \in Seq(JournalRecord \cup {Garbage}) /\ n \in Nat /\ n <= Len(lines)
      /\ Firm(journal) <= n
      /\ n = Firm(journal) \/ (journal.open /\ LastLine(journal) # Garbage /\ parsed = lines)
      /\ \A i \in 1..n : parsed[i] = lines[i]
  <2>1. CASE journal.open /\ LastLine(journal) = Garbage
    <3> DEFINE m == Len(lines) - 1
    <3>1. parsed = SubSeq(lines, 1, m)
      BY <2>1 DEF Parsed, AllButLast
    <3>2. m \in Nat /\ Firm(journal) = m /\ m <= Len(lines) /\ \A i \in 1..m : lines[i] \in JournalRecord \cup {Garbage}
      BY <1>1, <2>1 DEF Firm
    <3> HIDE DEF m, lines
    <3>3. /\ SubSeq(lines, 1, m) \in Seq(JournalRecord \cup {Garbage})
          /\ Len(SubSeq(lines, 1, m)) = IF 1 <= m THEN m - 1 + 1 ELSE 0
          /\ \A i \in 1..m - 1 + 1 : SubSeq(lines, 1, m)[i] = lines[1 + i - 1]
      BY <3>2, SubSeqProperties
    <3> HIDE DEF parsed
    <3>4. n = m /\ \A i \in 1..m : 1 + i - 1 = i
      BY <3>1, <3>2, <3>3
    <3>5. \A i \in 1..m : parsed[i] = lines[i]
      BY <3>1, <3>2, <3>3, <3>4
    <3> QED
      BY <3>1, <3>2, <3>3, <3>4, <3>5
  <2>2. CASE ~(journal.open /\ LastLine(journal) = Garbage)
    <3>1. parsed = lines
      BY <2>2 DEF Parsed
    <3>2. Firm(journal) = Len(lines) \/ (journal.open /\ Firm(journal) = Len(lines) - 1)
      BY <1>1 DEF Firm
    <3> HIDE DEF lines, parsed
    <3> QED
      BY <1>1, <2>2, <3>1, <3>2
  <2> QED
    BY <2>1, <2>2
<1>3. parsed # <<>> /\ Chained(parsed) /\ Latest(journal) = parsed[n]
  BY DEF Readable, Latest
<1> HIDE DEF lines, parsed
<1>4. n \in 1..n /\ n \in 1..Len(lines) /\ DOMAIN parsed = 1..n
  BY <1>1, <1>2, <1>3, EmptySeq
<1>5. Linked(lines, n)
  <2>1. \A i \in 1..n : i # 1 => i - 1 \in 1..n
    BY <1>4
  <2> QED
    BY <1>2, <1>3, <1>4, <2>1 DEF Chained, Linked
<1>6. Latest(journal) = lines[n] /\ lines[n] # Garbage /\ lines[n].sequence + 1 = n
  BY <1>2, <1>3, <1>4, <1>5 DEF Linked
<1>7. IsRecord(lines[n])
  BY <1>4, <1>6 DEF JournalOK, lines
<1> QED
  BY <1>2, <1>4, <1>5, <1>6, <1>7 DEF IsRecord, lines, parsed

LEMMA TypesKept ==
  ASSUME StoreInv, [Next]_vars
  PROVE  TypeOK'
<1>0. TypeOK /\ \A p \in Procs : ProcOK(p)
  BY DEF StoreInv
<1>1. /\ JournalType(journal) /\ snapshot \in JournalRecord \cup {Null} /\ lock \in LockRecord \cup {Null}
      /\ stolen \in BOOLEAN /\ temps \subseteq Procs /\ proc \in [Procs -> ProcRecord]
      /\ known \in [Procs -> Cycle \cup {Null}] /\ acked \subseteq Cycle /\ reads \subseteq Cycle
  BY <1>0 DEF TypeOK, JournalType
<1> DEFINE Typed ==
             /\ JournalType(journal') /\ snapshot' \in JournalRecord \cup {Null}
             /\ lock' \in LockRecord \cup {Null} /\ stolen' \in BOOLEAN
             /\ temps' \subseteq Procs /\ proc' \in [Procs -> ProcRecord]
             /\ known' \in [Procs -> Cycle \cup {Null}] /\ acked' \subseteq Cycle /\ reads' \subseteq Cycle
<1>2. SUFFICES Typed
  BY DEF TypeOK, JournalType
<1>3. ASSUME NEW p \in Procs, Begin(p) PROVE Typed
  <2>0. proc[p] \in ProcRecord
    BY <1>1
  <2>1. CASE Create(p)
    <3>1. [Idle EXCEPT !.op = "create", !.step = "locking"] \in ProcRecord
      BY IdleType DEF ProcRecord, Steps, Ops
    <3> QED
      BY <1>0, <1>1, <2>1, <3>1, RowTypes DEF Create, Swept, answers
  <2>2. CASE Save(p)
    <3>1. known[p] \in Cycle
      BY <1>1, <2>2 DEF Save
    <3>2. [Idle EXCEPT !.op = "save", !.step = "locking", !.next = Append(known[p], p)] \in ProcRecord
      BY <2>2, <3>1, IdleType, Longer DEF Save, ProcRecord, Steps, Ops
    <3> QED
      BY <1>0, <1>1, <2>2, <3>2, RowTypes DEF Save, files, answers
  <2>3. CASE Load(p)
    <3>1. [Idle EXCEPT !.op = "load", !.step = "loading", !.floor = LongestAcked] \in ProcRecord
      BY <1>1, IdleType, LongestIs DEF ProcRecord, Steps, Ops
    <3> QED
      BY <1>0, <1>1, <2>3, <3>1, RowTypes DEF Load, files, answers
  <2> QED
    BY <1>3, <2>1, <2>2, <2>3 DEF Begin
<1>4. ASSUME NEW p \in Procs,
             OpenLock(p) \/ MarkLock(p) \/ StatLock(p) \/ ReadLock(p) \/ Reclaim(p) \/ Timeout(p)
      PROVE  Typed
  <2>1. proc' \in [Procs -> ProcRecord]
    <3>1. proc' = [proc EXCEPT ![p] = Idle] \/ \E s \in Steps : Go(p, s)
      BY <1>4 DEF OpenLock, MarkLock, StatLock, ReadLock, Reclaim, Timeout, Steps
    <3> QED
      BY <1>0, <3>1, RowSteps
  <2>2. lock' \in LockRecord \cup {Null}
    <3>1. CASE OpenLock(p)
      BY <3>1 DEF OpenLock, LockRecord
    <3>2. CASE MarkLock(p)
      <4>1. CASE lock \in LockRecord
        BY <3>2, <4>1 DEF MarkLock, LockRecord
      <4>2. CASE lock = Null
        BY <3>2, <4>2 DEF MarkLock
      <4> QED
        BY <1>1, <4>1, <4>2
    <3> QED
      BY <1>1, <1>4, <3>1, <3>2 DEF StatLock, ReadLock, Reclaim, Timeout, files
  <2> QED
    BY <1>1, <1>4, <2>1, <2>2 DEF OpenLock, MarkLock, StatLock, ReadLock, Reclaim, Timeout, files, answers
<1>5. ASSUME NEW p \in Procs, Release(p) \/ Unlink(p) PROVE Typed
  <2>1. CASE Return(p)
    BY <1>0, <1>1, <1>5, <2>1, ReturnType DEF Release, Unlink, files
  <2>2. CASE ~Return(p)
    <3>1. Go(p, "unlinking") /\ UNCHANGED <<files, answers>> /\ "unlinking" \in Steps
      BY <1>5, <2>2 DEF Release, Unlink, Steps
    <3> QED
      BY <1>0, <1>1, <3>1, RowSteps DEF files, answers
  <2> QED
    BY <2>1, <2>2
<1>6. ASSUME NEW p \in Procs, ReadJournal(p) PROVE Typed
  <2>1. CASE Readable(journal)
    <3>1. Latest(journal) \in JournalRecord
      BY <2>1, LatestIs, <1>0 DEF StoreInv
    <3>2. proc' \in [Procs -> ProcRecord]
      <4> DEFINE latest == Latest(journal)
      <4>1. proc' = [proc EXCEPT ![p].step = "comparing", ![p].record = latest] /\ "comparing" \in Steps
        BY <1>6, <2>1 DEF ReadJournal, Steps
      <4> HIDE DEF latest
      <4>2. latest \in JournalRecord
        BY <3>1 DEF latest
      <4> QED
        BY <1>0, <4>1, <4>2, RowTypes
    <3> QED
      BY <1>1, <1>6, <3>2 DEF ReadJournal, Swept, answers
  <2>2. CASE ~Readable(journal)
    <3>1. proc' \in [Procs -> ProcRecord]
      <4>1. proc' = [proc EXCEPT ![p] = Idle] \/ Finish(p, "refused")
        BY <1>6, <2>2 DEF ReadJournal
      <4>2. "refused" \in Results
        BY DEF Results
      <4> QED
        BY <1>0, <4>1, <4>2, RowSteps
    <3> QED
      BY <1>1, <1>6, <3>1 DEF ReadJournal, Swept, answers
  <2> QED
    BY <2>1, <2>2
<1>7. ASSUME NEW p \in Procs, Compare(p) PROVE Typed
  <2>1. proc[p].record \in JournalRecord /\ proc[p].record.cycle \in Cycle
    BY <1>0, <1>7 DEF Compare, At, ProcOK, IsRecord, JournalRecord
  <2>2. CASE snapshot = proc[p].record
    BY <1>0, <1>1, <1>7, <2>1, <2>2, ContinueType DEF Compare, files
  <2>3. CASE snapshot # proc[p].record
    <3>1. Go(p, "stale") /\ UNCHANGED <<files, answers>> /\ "stale" \in Steps
      BY <1>7, <2>3 DEF Compare, Steps
    <3> QED
      BY <1>0, <1>1, <3>1, RowSteps DEF files, answers
  <2> QED
    BY <2>2, <2>3
<1>8. ASSUME NEW p \in Procs, CheckAbsent(p) \/ OpenJournal(p) \/ WriteTemporary(p) PROVE Typed
  <2>1. proc' \in [Procs -> ProcRecord]
    <3>1. Finish(p, "refused") \/ \E s \in Steps : Go(p, s)
      BY <1>8 DEF CheckAbsent, OpenJournal, WriteTemporary, Steps
    <3>2. "refused" \in Results
      BY DEF Results
    <3> QED
      BY <1>0, <3>1, <3>2, RowSteps
  <2>2. JournalType(journal')
    BY <1>1, <1>8 DEF CheckAbsent, OpenJournal, WriteTemporary, JournalType, files
  <2> QED
    BY <1>1, <1>8, <2>1, <2>2 DEF CheckAbsent, OpenJournal, WriteTemporary, files, answers
<1>9. ASSUME NEW p \in Procs, At(p, "writing")
      PROVE  NewRecord(p) \in JournalRecord
  BY <1>0, <1>9, RecordOf DEF ProcOK, At, Writing, Steps, Loading, IsRecord
<1>10. ASSUME NEW line \in JournalRecord \cup {Garbage}, NEW open \in BOOLEAN,
              journal' = Written(journal, line, open)
       PROVE  JournalType(journal')
  BY <1>1, <1>10, WrittenIs
<1>11. ASSUME NEW p \in Procs, WriteJournal(p) PROVE Typed
  <2>1. proc' \in [Procs -> ProcRecord]
    BY <1>0, <1>9, <1>11, RowTypes DEF WriteJournal, Steps
  <2>2. JournalType(journal')
    BY <1>9, <1>10, <1>11 DEF WriteJournal
  <2> QED
    BY <1>1, <1>11, <2>1, <2>2 DEF WriteJournal, answers
<1>12. ASSUME NEW p \in Procs, RenameSnapshot(p) PROVE Typed
  <2>1. proc[p].record \in JournalRecord /\ proc[p].record.cycle \in Cycle
    <3>1. proc[p].record \in JournalRecord
      <4>1. CASE At(p, "repairing")
        BY <1>0, <4>1 DEF At, ProcOK, IsRecord
      <4>2. CASE At(p, "replacing")
        <5>1. proc[p].record = NewRecord(p) /\ proc[p].op \in {"create", "save"}
          BY <1>0, <4>2 DEF At, ProcOK, Writing, Steps, Loading
        <5> QED
          BY <1>0, <5>1, RecordOf DEF IsRecord
      <4> QED
        BY <1>12, <4>1, <4>2 DEF RenameSnapshot, At
    <3> QED
      BY <3>1 DEF JournalRecord
  <2>2. CASE At(p, "repairing")
    BY <1>0, <1>1, <1>12, <2>1, <2>2, ContinueType DEF RenameSnapshot
  <2>3. CASE ~At(p, "repairing")
    <3>1. proc' \in [Procs -> ProcRecord]
      BY <1>0, <1>12, <2>3, RowTypes DEF RenameSnapshot, Finish, Results
    <3> QED
      BY <1>1, <1>12, <2>1, <2>3, <3>1 DEF RenameSnapshot, answers
  <2> QED
    BY <2>2, <2>3
<1>13. ASSUME NEW p \in Procs, Crash(p) PROVE Typed
  <2>1. JournalType(journal')
    BY <1>1, <1>9, <1>10, <1>13 DEF Crash
  <2> QED
    BY <1>0, <1>1, <1>13, <2>1, RowTypes, IdleType DEF Crash, answers
<1>14. CASE AgeLock
  BY <1>1, <1>14 DEF AgeLock, LockRecord, answers
<1>15. CASE UNCHANGED vars
  BY <1>1, <1>15 DEF vars
<1> QED
  BY <1>3, <1>4, <1>5, <1>6, <1>7, <1>8, <1>11, <1>12, <1>13, <1>14, <1>15 DEF Next, Step

----------------------------------------------------------------------------
(* The journal after a step.                                                *)

LEMMA ExtendsSelf ==
  ASSUME NEW c \in Seq(Procs)
  PROVE  Extends(c, c)
BY SubSeqFull DEF Extends

LEMMA ExtendsFurther ==
  ASSUME NEW c \in Seq(Procs), NEW d \in Seq(Procs), NEW p \in Procs, Extends(c, d)
  PROVE  Extends(Append(c, p), d)
<1>1. /\ Len(c) \in Nat /\ Len(d) \in Nat
      /\ Append(c, p) \in Seq(Procs) /\ Len(Append(c, p)) = Len(c) + 1
      /\ \A i \in 1..Len(c) : Append(c, p)[i] = c[i]
  OBVIOUS
<1> DEFINE e == Append(c, p)
           m == Len(d)
<1>2. m \in Nat /\ m <= Len(c) /\ SubSeq(c, 1, m) = d
  BY <1>1 DEF Extends
<1>3. /\ \A i \in 1..m : c[i] \in Procs /\ e[i] = c[i] /\ e[i] \in Procs
      /\ m <= Len(e)
  BY <1>1, <1>2
<1> HIDE DEF e, m
<1>4. /\ SubSeq(c, 1, m) \in Seq(Procs) /\ SubSeq(e, 1, m) \in Seq(Procs)
      /\ Len(SubSeq(c, 1, m)) = Len(SubSeq(e, 1, m))
      /\ Len(SubSeq(c, 1, m)) = IF 1 <= m THEN m - 1 + 1 ELSE 0
      /\ \A i \in 1..m - 1 + 1 : SubSeq(c, 1, m)[i] = c[1 + i - 1] /\ SubSeq(e, 1, m)[i] = e[1 + i - 1]
  BY <1>2, <1>3, SubSeqProperties
<1>5. Len(SubSeq(c, 1, m)) = m /\ \A i \in 1..m : i \in 1..m - 1 + 1 /\ 1 + i - 1 = i
  BY <1>2, <1>4
<1>6. \A i \in 1..m : SubSeq(c, 1, m)[i] = SubSeq(e, 1, m)[i]
  BY <1>3, <1>4, <1>5
<1>7. SubSeq(c, 1, m) = SubSeq(e, 1, m)
  BY <1>4, <1>5, <1>6, SeqEqual
<1> QED
  BY <1>2, <1>3, <1>7 DEF Extends, e, m

LEMMA LinkedAs ==
  ASSUME NEW a, NEW b, NEW n \in Nat, NEW m \in Nat, m <= n, Linked(a, n),
         \A i \in 1..m : a[i] = b[i]
  PROVE  Linked(b, m)
<1> SUFFICES ASSUME NEW i \in 1..m
             PROVE  /\ b[i] # Garbage /\ b[i].sequence + 1 = i
                    /\ b[i].previous = IF i = 1 THEN Null ELSE b[i-1].cycle
  BY DEF Linked
<1>1. i \in 1..n /\ (i # 1 => i - 1 \in 1..m)
  OBVIOUS
<1> QED
  BY <1>1 DEF Linked

\* A write leaves the journal and its order as they should be.
LEMMA WriteOK ==
  ASSUME StoreInv, NEW line \in JournalRecord \cup {Garbage}, NEW open \in BOOLEAN,
         journal' = Written(journal, line, open),
         line = Garbage \/ IsRecord(line),
         open /\ line # Garbage /\ line.cycle # <<>> => Writer(line.cycle) \in DeadProcs'
  PROVE  JournalOK' /\ LinesOK'
<1> DEFINE lines == journal.lines
           after == journal'.lines
           n == Firm(journal)
<1>1. JournalType(journal)
  BY DEF StoreInv, TypeOK, JournalType
<1>2. /\ journal'.open = open /\ journal'.exists /\ n \in Nat /\ Len(after) = n + 1
      /\ \A i \in 1..n : after[i] = lines[i]
      /\ after[n + 1] = IF journal.open THEN Garbage ELSE line
  <2>1. /\ JournalType(journal') /\ journal'.open = open /\ journal'.exists
        /\ Firm(journal) \in Nat /\ Len(journal'.lines) = Firm(journal) + 1
        /\ \A i \in 1..Firm(journal) : journal'.lines[i] = journal.lines[i]
        /\ LastLine(journal') = IF journal.open THEN Garbage ELSE line
    BY <1>1, WrittenIs
  <2> QED
    BY <2>1 DEF LastLine
<1>3. n <= Len(lines)
  BY <1>1 DEF Firm, JournalType
<1>4. JournalOK'
  <2>1. \A i \in 1..n : i \in 1..Len(lines)
    BY <1>1, <1>2, <1>3 DEF JournalType
  <2>2. \A i \in 1..n + 1 : i = n + 1 \/ i \in 1..n
    BY <1>2
  <2>3. \A i \in 1..Len(after) : after[i] = Garbage \/ IsRecord(after[i])
    BY <1>2, <2>1, <2>2 DEF StoreInv, JournalOK
  <2>4. LastLine(journal') = IF journal.open THEN Garbage ELSE line
    BY <1>2 DEF LastLine
  <2> QED
    BY <1>2, <2>3, <2>4 DEF JournalOK
<1> HIDE DEF lines, after, n
<1>5. ASSUME NEW k \in 1..Len(after), Linked(after, k), NEW i \in 1..k
      PROVE  Extends(after[k].cycle, after[i].cycle)
  <2>1. \A h \in 1..n : h \in 1..Len(lines)
    BY <1>1, <1>2, <1>3 DEF JournalType, lines
  <2>2. ASSUME NEW m \in 1..n, Linked(after, m), NEW h \in 1..m
        PROVE  Extends(after[m].cycle, after[h].cycle)
    <3>1. \A g \in 1..m : g \in 1..n /\ (g # 1 => g - 1 \in 1..n)
      BY <1>2
    <3>2. Linked(lines, m)
      BY <1>2, <2>2, <3>1, LinkedAs
    <3> QED
      BY <1>2, <2>1, <3>1, <3>2 DEF StoreInv, LinesOK, lines
  <2>3. CASE k <= n
    BY <1>2, <1>5, <2>2, <2>3
  <2>4. CASE k = n + 1
    <3>1. after[k] = line /\ IsRecord(line) /\ line.sequence + 1 = n + 1
          /\ line.previous = IF n + 1 = 1 THEN Null ELSE after[n + 1 - 1].cycle
      BY <1>2, <1>5, <2>4 DEF Linked
    <3>2. line.cycle \in Cycle /\ line.cycle \in Seq(Procs) /\ Len(line.cycle) = n
      BY <1>2, <3>1, CycleFacts DEF IsRecord, JournalRecord
    <3>3. CASE i = k
      BY <2>4, <3>1, <3>2, <3>3, ExtendsSelf
    <3>4. CASE i # k
      <4>1. n \in 1..n /\ i \in 1..n /\ n + 1 - 1 = n /\ n + 1 # 1
        BY <1>2, <2>4, <3>4
      <4>2. Linked(after, n)
        BY <1>2, <1>5, <2>4, LinkedAs
      <4>3. Extends(after[n].cycle, after[i].cycle)
        BY <2>2, <4>1, <4>2
      <4>4. line.cycle # <<>>
        BY <3>2, <4>1, EmptySeq
      <4>5. line.previous = after[n].cycle /\ line.previous \in Cycle
            /\ line.cycle = Append(line.previous, Writer(line.cycle)) /\ Writer(line.cycle) \in Procs
        BY <3>1, <3>2, <4>1, <4>4 DEF IsRecord, Writer
      <4>6. after[i] # Garbage /\ after[i] = lines[i] /\ i \in 1..Len(lines)
        BY <1>2, <1>5, <2>1, <4>1 DEF Linked
      <4>7. after[i].cycle \in Seq(Procs)
        BY <4>6, CycleFacts DEF StoreInv, JournalOK, IsRecord, JournalRecord, lines
      <4> QED
        BY <2>4, <3>1, <4>3, <4>5, <4>7, CycleFacts, ExtendsFurther
    <3> QED
      BY <3>3, <3>4
  <2> QED
    BY <1>2, <2>3, <2>4
<1>6. LinesOK'
  BY <1>5 DEF LinesOK, after
<1> QED
  BY <1>4, <1>6

LEMMA JournalKept ==
  ASSUME StoreInv, [Next]_vars
  PROVE  JournalOK' /\ LinesOK'
<1>1. DeadProcs \subseteq DeadProcs'
  BY JournalMoves DEF Moves
<1>2. CASE journal' = journal \/ journal' = [journal EXCEPT !.exists = TRUE]
  <2>1. journal'.lines = journal.lines /\ journal'.open = journal.open /\ (journal.exists => journal'.exists)
    BY <1>2 DEF StoreInv, TypeOK
  <2> QED
    BY <1>1, <2>1 DEF StoreInv, JournalOK, LinesOK, LastLine
<1>3. ASSUME NEW p \in Procs, At(p, "writing")
      PROVE  /\ IsRecord(NewRecord(p)) /\ NewRecord(p) \in JournalRecord
             /\ NewRecord(p).cycle # <<>> => Writer(NewRecord(p).cycle) = p
  BY <1>3, RecordOf DEF StoreInv, ProcOK, At, Writing, Steps, Loading, IsRecord
<1>4. ASSUME NEW p \in Procs, WriteJournal(p)
      PROVE  JournalOK' /\ LinesOK'
  BY <1>3, <1>4, WriteOK DEF WriteJournal
<1>5. ASSUME NEW p \in Procs, Crash(p), journal' # journal
      PROVE  JournalOK' /\ LinesOK'
  <2>1. PICK line \in {NewRecord(p), Garbage} : journal' = Written(journal, line, TRUE)
    BY <1>5 DEF Crash
  <2>2. At(p, "writing") /\ p \in DeadProcs'
    BY <1>5 DEF Crash, DeadProcs, Alive, StoreInv, TypeOK
  <2> QED
    BY <1>3, <2>1, <2>2, WriteOK
<1>6. ASSUME NEW p \in Procs, Begin(p) \/ Step(p) \/ Timeout(p), ~WriteJournal(p)
      PROVE  journal' = journal \/ journal' = [journal EXCEPT !.exists = TRUE]
  BY <1>6 DEF Begin, Step, Create, Save, Load, OpenLock, MarkLock,
     StatLock, ReadLock, Reclaim, Timeout, Release, Unlink, ReadJournal, Compare, CheckAbsent,
     OpenJournal, WriteTemporary, RenameSnapshot, files
<1>7. CASE UNCHANGED vars \/ AgeLock
  BY <1>2, <1>7 DEF AgeLock, vars
<1> QED
  BY <1>2, <1>4, <1>5, <1>6, <1>7 DEF Next

----------------------------------------------------------------------------
(* What the processes know after a step.                                    *)

\* What a process knows does not change under the steps of the others.
LEMMA OtherKnows ==
  ASSUME StoreInv, [Next]_vars, NEW q \in Procs,
         proc'[q] = proc[q], known'[q] = known[q], acked \subseteq acked'
  PROVE  ProcOK(q)'
<1>1. ProcOK(q)
  BY DEF StoreInv
<1>2. NewRecord(q)' = NewRecord(q)
  BY DEF NewRecord
<1>3. \A r : /\ Sound(r, journal, DeadProcs) => Sound(r, journal', DeadProcs')
             /\ Kept(r, journal) => Kept(r, journal')
  BY JournalMoves, SoundStays, KeptStays DEF Moves
<1> DEFINE j == journal'
           dead == DeadProcs'
<1> HIDE DEF j, dead
<1>4. \A r : /\ Sound(r, journal, DeadProcs) => Sound(r, j, dead)
             /\ Kept(r, journal) => Kept(r, j)
  BY <1>3 DEF j, dead
<1> QED
  BY <1>1, <1>2, <1>4 DEF ProcOK, j, dead

\* A step that leaves the process all it knows needs to know what it goes on with.
LEMMA GoKnows ==
  ASSUME StoreInv, [Next]_vars, NEW p \in Procs, NEW s \in Steps \ {"idle", "dead"}, Go(p, s),
         known' = known, acked' = acked,
         s \in Loading => proc[p].op \in {"load", "save"},
         s \in Writing => proc[p].op \in {"create", "save"},
         s \in {"comparing", "stale", "repairing"} =>
           /\ IsRecord(proc[p].record) /\ Sound(proc[p].record, journal, DeadProcs)
           /\ proc[p].op = "load" => proc[p].floor <= Len(proc[p].record.cycle),
         s \in {"appended", "replacing"} =>
           proc[p].record = NewRecord(p) /\ Kept(proc[p].record, journal),
         proc[p].result = "ok" => s \in {"releasing", "unlinking"}
  PROVE  ProcOK(p)'
<1>1. ProcOK(p) /\ proc \in [Procs -> ProcRecord]
  BY DEF StoreInv, TypeOK
<1>2. /\ proc'[p].step = s /\ proc'[p].op = proc[p].op /\ proc'[p].next = proc[p].next
      /\ proc'[p].record = proc[p].record /\ proc'[p].result = proc[p].result
      /\ proc'[p].floor = proc[p].floor
  BY <1>1 DEF Go, ProcRecord
<1>3. NewRecord(p)' = NewRecord(p)
  BY <1>2 DEF NewRecord
<1>4. \A r : /\ Sound(r, journal, DeadProcs) => Sound(r, journal', DeadProcs')
             /\ Kept(r, journal) => Kept(r, journal')
  BY JournalMoves, SoundStays, KeptStays DEF Moves
<1> DEFINE row == proc'[p]
<1> HIDE DEF row
<1>5. /\ row.step = s /\ row.op = proc[p].op /\ row.next = proc[p].next
      /\ row.record = proc[p].record /\ row.result = proc[p].result /\ row.floor = proc[p].floor
  BY <1>2 DEF row
<1>6. /\ row.step \in {"idle", "dead"} => row.op = Null
      /\ row.step \in Loading => row.op \in {"load", "save"}
      /\ row.step \in Writing => row.op \in {"create", "save"}
      /\ row.op = "create" => known'[p] = Null /\ row.next = <<>>
      /\ row.op = "save" => known'[p] \in Cycle /\ row.next = Append(known'[p], p)
      /\ row.op = "load" => row.floor = 0 \/ \E c \in acked' : row.floor = Len(c)
  BY <1>1, <1>5 DEF ProcOK
<1>7. row.step \in {"comparing", "stale", "repairing"} =>
        /\ IsRecord(row.record) /\ Sound(row.record, journal', DeadProcs')
        /\ row.op = "load" => row.floor <= Len(row.record.cycle)
  BY <1>4, <1>5
<1>8. row.step \in {"appended", "replacing"} => row.record = NewRecord(p)' /\ Kept(row.record, journal')
  BY <1>3, <1>4, <1>5
<1>9. row.result = "ok" => row.step \in {"releasing", "unlinking"} /\ Kept(NewRecord(p)', journal')
  BY <1>1, <1>3, <1>4, <1>5 DEF ProcOK
<1> QED
  BY <1>6, <1>7, <1>8, <1>9 DEF ProcOK, row

LEMMA FinishKnows ==
  ASSUME StoreInv, [Next]_vars, NEW p \in Procs, NEW result \in Results, Finish(p, result),
         known' = known, acked' = acked, proc[p].op \in {"create", "save"},
         result = "ok" => Kept(NewRecord(p), journal)
  PROVE  ProcOK(p)'
<1>1. ProcOK(p) /\ proc \in [Procs -> ProcRecord]
  BY DEF StoreInv, TypeOK
<1>2. /\ proc'[p].step = "releasing" /\ proc'[p].op = proc[p].op /\ proc'[p].next = proc[p].next
      /\ proc'[p].result = result
  BY <1>1 DEF Finish, ProcRecord
<1>3. NewRecord(p)' = NewRecord(p)
  BY <1>2 DEF NewRecord
<1>4. Kept(NewRecord(p), journal) => Kept(NewRecord(p), journal')
  BY JournalMoves, KeptStays DEF Moves
<1> QED
  BY <1>1, <1>2, <1>3, <1>4 DEF ProcOK, Loading, Writing, Steps

LEMMA IdleKnows ==
  ASSUME NEW p \in Procs, proc'[p] \in {Idle, Dead}
  PROVE  ProcOK(p)'
<1>1. proc'[p].step \in {"idle", "dead"} /\ proc'[p].op = Null /\ proc'[p].result = "none"
  BY DEF Idle, Dead
<1>2. Null \notin {"create", "save", "load"}
  BY NullAssumption
<1> QED
  BY <1>1, <1>2 DEF ProcOK, Loading, Writing

LEMMA BeginKnows ==
  ASSUME StoreInv, NEW p \in Procs, Begin(p)
  PROVE  ProcOK(p)'
<1>0. proc \in [Procs -> ProcRecord] /\ known \in [Procs -> Cycle \cup {Null}] /\ acked \subseteq Cycle
  BY DEF StoreInv, TypeOK
<1> USE DEF ProcOK, Loading, Writing, Steps, Idle
<1>1. CASE Create(p)
  BY <1>0, <1>1 DEF Create, answers
<1>2. CASE Save(p)
  BY <1>0, <1>2 DEF Save, answers
<1>3. CASE Load(p)
  <2>1. LongestAcked = 0 \/ \E c \in acked : LongestAcked = Len(c)
    BY <1>0, LongestIs
  <2> DEFINE longest == LongestAcked
  <2>2. proc'[p] = [Idle EXCEPT !.op = "load", !.step = "loading", !.floor = longest]
        /\ known' = known /\ acked' = acked
    BY <1>0, <1>3 DEF Load, answers
  <2> HIDE DEF longest
  <2>3. longest = 0 \/ \E c \in acked : longest = Len(c)
    BY <2>1 DEF longest
  <2> QED
    BY <2>2, <2>3
<1> QED
  BY <1>1, <1>2, <1>3 DEF Begin

\* What a load reads is in the journal, or is the last line of a killed process.
LEMMA ReadIsSound ==
  ASSUME TypeOK, JournalOK, Readable(journal)
  PROVE  Sound(Latest(journal), journal, DeadProcs)
<1> DEFINE r == Latest(journal)
           n == Len(Parsed(journal))
<1>1. /\ n \in 1..Len(journal.lines) /\ r = journal.lines[n]
      /\ n = Firm(journal) \/ (journal.open /\ LastLine(journal) # Garbage /\ Parsed(journal) = journal.lines)
  BY LatestIs
<1>2. CASE n = Firm(journal)
  BY <1>1, <1>2 DEF Sound, Kept
<1>3. CASE journal.open /\ LastLine(journal) # Garbage /\ Parsed(journal) = journal.lines
  BY <1>1, <1>3 DEF Sound, JournalOK, LastLine
<1> QED
  BY <1>1, <1>2, <1>3

\* What was acknowledged is among the lines that are read, each as long as its place.
LEMMA AckedIsRead ==
  ASSUME TypeOK, JournalOK, AckedOK, Readable(journal), NEW c \in acked
  PROVE  \E i \in 1..Len(Parsed(journal)) :
           /\ Parsed(journal)[i] = journal.lines[i] /\ journal.lines[i].cycle = c
           /\ Len(c) + 1 = i
<1> DEFINE n == Len(Parsed(journal))
<1>1. /\ n \in 1..Len(journal.lines) /\ Firm(journal) <= n /\ Linked(journal.lines, n)
      /\ \A i \in 1..n : Parsed(journal)[i] = journal.lines[i]
  BY LatestIs
<1>2. Firm(journal) \in Int /\ n \in Int /\ Len(journal.lines) \in Nat
  BY <1>1 DEF Firm, TypeOK
<1>3. \A i \in 1..Firm(journal) : i \in 1..n
  BY <1>1, <1>2
<1>4. ~Spoilt(journal)
  BY <1>1, <1>3 DEF Spoilt, Linked
<1>5. PICK i \in 1..Firm(journal) : journal.lines[i].cycle = c
  BY <1>4 DEF AckedOK, KeptCycle
<1>6. journal.lines[i] # Garbage /\ journal.lines[i].sequence + 1 = i /\ i \in 1..Len(journal.lines)
  <2>1. i \in 1..n
    BY <1>3
  <2>2. i \in 1..Len(journal.lines)
    BY <1>1, <1>2, <2>1
  <2> QED
    BY <1>1, <2>1, <2>2 DEF Linked
<1>7. Len(c) = journal.lines[i].sequence
  BY <1>5, <1>6 DEF JournalOK, IsRecord
<1> QED
  BY <1>1, <1>3, <1>5, <1>6, <1>7

LEMMA ReadIsRecent ==
  ASSUME TypeOK, JournalOK, AckedOK, Readable(journal), NEW floor,
         floor = 0 \/ \E c \in acked : floor = Len(c)
  PROVE  floor <= Len(Latest(journal).cycle)
<1> DEFINE n == Len(Parsed(journal))
<1>1. Latest(journal).sequence + 1 = n /\ Latest(journal).sequence = Len(Latest(journal).cycle)
      /\ Latest(journal).sequence \in Nat
  BY LatestIs, StoreBounds DEF IsRecord, JournalRecord
<1>2. CASE floor = 0
  BY <1>1, <1>2
<1>3. ASSUME NEW c \in acked, floor = Len(c) PROVE floor <= Len(Latest(journal).cycle)
  <2>1. PICK i \in 1..n : Len(c) + 1 = i
    BY AckedIsRead
  <2>2. Len(c) \in Nat
    BY CycleFacts DEF TypeOK
  <2> HIDE DEF n
  <2> QED
    BY <1>1, <1>3, <2>1, <2>2
<1> QED
  BY <1>2, <1>3

\* A load goes on, or a save that called it does.
LEMMA ContinueKnows ==
  ASSUME StoreInv, [Next]_vars, NEW p \in Procs, NEW cycle, Continue(p, cycle),
         proc[p].op \in {"load", "save"}, proc[p].result # "ok"
  PROVE  ProcOK(p)'
<1>0. proc \in [Procs -> ProcRecord]
  BY DEF StoreInv, TypeOK
<1>1. CASE proc[p].op = "load"
  BY <1>0, <1>1, IdleKnows DEF Continue
<1>2. CASE proc[p].op # "load"
  <2>1. known' = known /\ acked' = acked /\ (Go(p, "opening") \/ Finish(p, "refused"))
    BY <1>2 DEF Continue, answers
  <2>2. CASE Go(p, "opening")
    BY <1>2, <2>1, <2>2, GoKnows DEF Steps, Loading
  <2>3. CASE Finish(p, "refused")
    BY <1>2, <2>1, <2>3, FinishKnows DEF Results
  <2> QED
    BY <2>1, <2>2, <2>3
<1> QED
  BY <1>1, <1>2

LEMMA StepKnows ==
  ASSUME StoreInv, [Next]_vars, NEW p \in Procs, Step(p) \/ Timeout(p)
  PROVE  ProcOK(p)'
<1>0. /\ ProcOK(p) /\ proc \in [Procs -> ProcRecord] /\ proc[p] \in ProcRecord
      /\ TypeOK /\ JournalOK
  BY DEF StoreInv, TypeOK
<1>1. CASE Timeout(p)
  BY <1>0, <1>1, IdleKnows DEF Timeout
<1>2. CASE OpenLock(p) \/ MarkLock(p) \/ StatLock(p) \/ ReadLock(p) \/ Reclaim(p)
  <2>1. PICK s \in {"marking", "checking", "loading", "judging", "judgingOld",
                   "reclaiming", "locking"} :
          Go(p, s) /\ (s \in Loading => proc[p].op # "create")
    BY <1>2 DEF OpenLock, MarkLock, StatLock, ReadLock, Reclaim, Loading
  <2>2. proc[p].op \in {"create", "save"} /\ proc[p].result # "ok" /\ known' = known /\ acked' = acked
    BY <1>0, <1>2 DEF OpenLock, MarkLock, StatLock, ReadLock, Reclaim, ProcOK, At, Steps, Loading, Writing, answers, files
  <2> QED
    BY <2>1, <2>2, GoKnows DEF Steps, Loading, Writing
<1>3. CASE Release(p) \/ Unlink(p)
  <2>1. CASE Return(p)
    BY <1>0, <2>1, IdleKnows DEF Return
  <2>2. CASE ~Return(p)
    <3>1. Go(p, "unlinking") /\ known' = known /\ acked' = acked /\ At(p, "releasing")
      BY <1>3, <2>2 DEF Release, Unlink, answers
    <3>2. proc[p].op \in {"create", "save"}
      BY <1>0, <3>1 DEF ProcOK, At, Steps, Loading, Writing
    <3> QED
      BY <3>1, <3>2, GoKnows DEF Steps, Loading, Writing
  <2> QED
    BY <2>1, <2>2
<1>4. CASE ReadJournal(p)
  <2>0. proc[p].op \in {"load", "save"} /\ proc[p].result # "ok" /\ known' = known /\ acked' = acked
    BY <1>0, <1>4 DEF ReadJournal, ProcOK, At, Steps, Loading, Writing, answers
  <2>1. CASE Readable(journal)
    <3> DEFINE latest == Latest(journal)
               row == proc'[p]
    <3>1. proc' = [proc EXCEPT ![p].step = "comparing", ![p].record = latest]
      BY <1>4, <2>1 DEF ReadJournal
    <3>2. IsRecord(latest) /\ Sound(latest, journal', DeadProcs')
      <4>1. Sound(latest, journal, DeadProcs)
        BY <1>0, <2>1, ReadIsSound
      <4> QED
        BY <1>0, <2>1, <4>1, LatestIs, JournalMoves, SoundStays
    <3>3. proc[p].op = "load" => proc[p].floor <= Len(latest.cycle)
      BY <1>0, <2>1, ReadIsRecent DEF ProcOK, StoreInv
    <3> HIDE DEF latest, row
    <3>4. row.step = "comparing" /\ row.record = latest /\ row.op = proc[p].op /\ row.next = proc[p].next
          /\ row.result = proc[p].result /\ row.floor = proc[p].floor
      BY <1>0, <3>1 DEF row, ProcRecord
    <3> QED
      BY <1>0, <2>0, <3>2, <3>3, <3>4 DEF ProcOK, row, Steps, Loading, Writing
  <2>2. CASE ~Readable(journal)
    <3>1. CASE proc[p].op = "load"
      BY <1>0, <1>4, <2>2, <3>1, IdleKnows DEF ReadJournal
    <3>2. CASE proc[p].op # "load"
      <4>1. Finish(p, "refused")
        BY <1>4, <2>2, <3>2 DEF ReadJournal
      <4> QED
        BY <2>0, <3>2, <4>1, FinishKnows DEF Results
    <3> QED
      BY <3>1, <3>2
  <2> QED
    BY <2>1, <2>2
<1>5. CASE Compare(p)
  <2>0. proc[p].op \in {"load", "save"} /\ proc[p].result # "ok"
    BY <1>0, <1>5 DEF Compare, ProcOK, At, Loading
  <2>1. CASE snapshot = proc[p].record
    BY <1>5, <2>0, <2>1, ContinueKnows DEF Compare
  <2>2. CASE snapshot # proc[p].record
    <3>1. Go(p, "stale") /\ known' = known /\ acked' = acked /\ At(p, "comparing")
      BY <1>5, <2>2 DEF Compare, answers
    <3> QED
      BY <1>0, <2>0, <3>1, GoKnows DEF ProcOK, At, Steps, Loading, Writing
  <2> QED
    BY <2>1, <2>2
<1>6. CASE CheckAbsent(p)
  <2>1. proc[p].op \in {"create", "save"} /\ proc[p].result # "ok" /\ known' = known /\ acked' = acked
    BY <1>0, <1>6 DEF CheckAbsent, ProcOK, At, Steps, Loading, Writing, answers
  <2>2. Go(p, "opening") \/ Finish(p, "refused")
    BY <1>6 DEF CheckAbsent
  <2> QED
    BY <2>1, <2>2, GoKnows, FinishKnows DEF Steps, Results, Loading, Writing
<1>7. CASE OpenJournal(p)
  <2>1. proc[p].op \in {"create", "save"} /\ proc[p].result # "ok" /\ known' = known /\ acked' = acked
        /\ Go(p, "writing")
    BY <1>0, <1>7 DEF OpenJournal, ProcOK, At, Steps, Loading, Writing, answers
  <2> QED
    BY <2>1, GoKnows DEF Steps, Loading, Writing
<1>8. CASE WriteJournal(p)
  <2>1. proc[p].op \in {"create", "save"} /\ proc[p].result # "ok" /\ known' = known /\ acked' = acked
    BY <1>0, <1>8 DEF WriteJournal, ProcOK, At, Steps, Loading, Writing, answers
  <2> DEFINE record == NewRecord(p)
             row == proc'[p]
  <2>2. proc' = [proc EXCEPT ![p].step = "appended", ![p].record = record]
        /\ journal' = Written(journal, record, FALSE)
    BY <1>8 DEF WriteJournal
  <2>3. record \in JournalRecord
    BY <1>0, <2>1, RecordOf DEF IsRecord
  <2>4. Kept(record, journal')
    <3>1. JournalType(journal)
      BY <1>0 DEF TypeOK, JournalType
    <3> QED
      BY <2>2, <2>3, <3>1, WriteKeeps
  <2>5. NewRecord(p)' = MakeRecord(proc'[p].next, known'[p]) /\ record = MakeRecord(proc[p].next, known[p])
    BY DEF NewRecord
  <2> HIDE DEF record, row
  <2>6. row.step = "appended" /\ row.record = record /\ row.op = proc[p].op /\ row.next = proc[p].next
        /\ row.result = proc[p].result /\ row.floor = proc[p].floor
    BY <1>0, <2>2 DEF row, ProcRecord
  <2>7. record = NewRecord(p)'
    BY <2>1, <2>5, <2>6 DEF row
  <2> QED
    BY <1>0, <2>1, <2>4, <2>6, <2>7 DEF ProcOK, row, Steps, Loading, Writing
<1>9. CASE WriteTemporary(p)
  <2>1. known' = known /\ acked' = acked /\ proc[p].result # "ok"
    BY <1>0, <1>9 DEF WriteTemporary, answers, ProcOK
  <2>2. CASE At(p, "stale")
    BY <1>0, <1>9, <2>1, <2>2, GoKnows DEF WriteTemporary, At, ProcOK, Steps, Loading, Writing
  <2>3. CASE At(p, "appended")
    BY <1>0, <1>9, <2>1, <2>3, GoKnows DEF WriteTemporary, At, ProcOK, Steps, Loading, Writing
  <2> QED
    BY <1>9, <2>2, <2>3 DEF WriteTemporary, At
<1>10. CASE RenameSnapshot(p)
  <2>1. CASE At(p, "repairing")
    <3>1. proc[p].op \in {"load", "save"} /\ proc[p].result # "ok" /\ Continue(p, proc[p].record.cycle)
      BY <1>0, <1>10, <2>1 DEF RenameSnapshot, ProcOK, At, Loading
    <3> QED
      BY <3>1, ContinueKnows
  <2>2. CASE At(p, "replacing")
    <3>1. proc[p].op \in {"create", "save"} /\ Kept(NewRecord(p), journal)
      BY <1>0, <2>2 DEF ProcOK, At, Steps, Loading, Writing
    <3>2. Finish(p, "ok") /\ known' = known /\ acked' = acked
      BY <1>10, <2>2 DEF RenameSnapshot, At, answers
    <3> QED
      BY <3>1, <3>2, FinishKnows DEF Results
  <2> QED
    BY <1>10, <2>1, <2>2 DEF RenameSnapshot, At
<1> QED
  BY <1>1, <1>2, <1>3, <1>4, <1>5, <1>6, <1>7, <1>8, <1>9, <1>10 DEF Step

----------------------------------------------------------------------------
(* The invariant, and what follows from it.                                 *)

LEMMA SnapshotKept ==
  ASSUME StoreInv, [Next]_vars
  PROVE  SnapshotOK'
<1>1. \A r : /\ Sound(r, journal, DeadProcs) => Sound(r, journal', DeadProcs')
             /\ Kept(r, journal) => Kept(r, journal')
  BY JournalMoves, SoundStays, KeptStays DEF Moves
<1>2. CASE snapshot' = snapshot
  BY <1>1, <1>2 DEF StoreInv, SnapshotOK
<1>3. ASSUME NEW p \in Procs, RenameSnapshot(p) PROVE SnapshotOK'
  <2>1. ProcOK(p) /\ snapshot' = proc[p].record
    BY <1>3 DEF StoreInv, RenameSnapshot
  <2>2. CASE At(p, "repairing")
    BY <1>1, <2>1, <2>2 DEF ProcOK, At, SnapshotOK
  <2>3. CASE At(p, "replacing")
    <3>1. proc[p].record = NewRecord(p) /\ Kept(NewRecord(p), journal) /\ proc[p].op \in {"create", "save"}
      BY <2>1, <2>3 DEF ProcOK, At, Steps, Loading, Writing
    <3>2. IsRecord(NewRecord(p))
      BY <2>1, <3>1, RecordOf DEF StoreInv
    <3> QED
      BY <1>1, <2>1, <3>1, <3>2 DEF SnapshotOK, Sound
  <2> QED
    BY <1>3, <2>2, <2>3 DEF RenameSnapshot, At
<1>4. ASSUME NEW p \in Procs, Begin(p) \/ Step(p) \/ Timeout(p) \/ Crash(p), ~RenameSnapshot(p)
      PROVE  snapshot' = snapshot
  BY <1>4 DEF Begin, Step, Create, Save, Load, OpenLock, MarkLock,
     StatLock, ReadLock, Reclaim, Timeout, Release, Unlink, ReadJournal, Compare, CheckAbsent,
     OpenJournal, WriteJournal, WriteTemporary, Crash, files
<1>5. CASE UNCHANGED vars \/ AgeLock
  BY <1>2, <1>5 DEF AgeLock, vars
<1> QED
  BY <1>2, <1>3, <1>4, <1>5 DEF Next

LEMMA AckedKept ==
  ASSUME StoreInv, [Next]_vars
  PROVE  AckedOK'
<1>1. \A r : KeptCycle(r, journal) => KeptCycle(r, journal')
  BY JournalMoves, KeptStays DEF Moves
<1>2. CASE acked' = acked
  BY <1>1, <1>2 DEF StoreInv, AckedOK
<1>3. ASSUME NEW p \in Procs, Return(p) PROVE AckedOK'
  <2>1. CASE proc[p].result = "ok"
    <3>1. acked' = acked \cup {proc[p].next} /\ Kept(NewRecord(p), journal)
          /\ proc[p].op \in {"create", "save"}
      BY <1>3, <2>1 DEF Return, StoreInv, ProcOK, Steps, Loading, Writing
    <3>2. NewRecord(p).cycle = proc[p].next
      BY <3>1, RecordOf DEF StoreInv
    <3>3. KeptCycle(proc[p].next, journal)
      BY <3>1, <3>2 DEF Kept, KeptCycle
    <3> QED
      BY <1>1, <3>1, <3>3 DEF StoreInv, AckedOK
  <2>2. CASE proc[p].result # "ok"
    BY <1>2, <1>3, <2>2 DEF Return
  <2> QED
    BY <2>1, <2>2
<1>4. ASSUME NEW p \in Procs, Begin(p) \/ Step(p) \/ Timeout(p) \/ Crash(p), ~Return(p)
      PROVE  acked' = acked
  BY <1>4 DEF Begin, Step, Create, Save, Load, OpenLock, MarkLock,
     StatLock, ReadLock, Reclaim, Timeout, Release, Unlink, ReadJournal, Compare, CheckAbsent, Continue,
     OpenJournal, WriteJournal, WriteTemporary, RenameSnapshot, Crash, answers
<1>5. CASE UNCHANGED vars \/ AgeLock
  BY <1>2, <1>5 DEF AgeLock, vars, answers
<1> QED
  BY <1>2, <1>3, <1>4, <1>5 DEF Next

LEMMA InitOK == Init => StoreInv
<1> SUFFICES ASSUME Init PROVE StoreInv
  OBVIOUS
<1>1. TypeOK
  BY TypeInit
<1>2. Len(journal.lines) = 0 /\ ~journal.open /\ journal.lines = <<>>
  BY EmptySeq DEF Init
<1>3. JournalOK /\ LinesOK
  BY <1>2 DEF JournalOK, LinesOK
<1>4. SnapshotOK /\ AckedOK
  BY DEF Init, SnapshotOK, AckedOK
<1>5. \A p \in Procs : ProcOK(p)
  BY NullAssumption DEF Init, ProcOK, Idle, Loading, Writing
<1> QED
  BY <1>1, <1>3, <1>4, <1>5 DEF StoreInv

LEMMA NextOK == StoreInv /\ [Next]_vars => StoreInv'
<1> SUFFICES ASSUME StoreInv, [Next]_vars PROVE StoreInv'
  OBVIOUS
<1>1. TypeOK' /\ JournalOK' /\ LinesOK' /\ SnapshotOK' /\ AckedOK'
  BY TypesKept, JournalKept, SnapshotKept, AckedKept
<1>2. ASSUME NEW q \in Procs PROVE ProcOK(q)'
  <2>1. CASE UNCHANGED vars \/ AgeLock
    BY <2>1, OtherKnows DEF AgeLock, vars, answers
  <2>2. ASSUME NEW p \in Procs, Begin(p) \/ Step(p) \/ Timeout(p)
        PROVE  ProcOK(q)'
    <3>1. CASE p = q
      BY <2>2, <3>1, BeginKnows, StepKnows
    <3>2. CASE p # q
      BY <2>2, <3>2, StepActs, OtherKnows DEF Acts, StoreInv
    <3> QED
      BY <3>1, <3>2
  <2>3. ASSUME NEW p \in Procs, Crash(p)
        PROVE  ProcOK(q)'
    <3>1. proc' = [proc EXCEPT ![p] = Dead] /\ known' = known /\ acked' = acked
          /\ proc \in [Procs -> ProcRecord]
      BY <2>3 DEF Crash, answers, StoreInv, TypeOK
    <3>2. CASE p = q
      BY <3>1, <3>2, IdleKnows
    <3>3. CASE p # q
      BY <3>1, <3>3, OtherKnows
    <3> QED
      BY <3>2, <3>3
  <2> QED
    BY <2>1, <2>2, <2>3 DEF Next
<1> QED
  BY <1>1, <1>2 DEF StoreInv

LEMMA StoreInvariant == Spec => []StoreInv
  BY InitOK, NextOK, PTL DEF Spec

\* Type correctness: the files, the processes between two file operations and the
\* answers are what EvolutionStore declares, in every reachable state.
THEOREM StoreTypes == Spec => []TypeOK
<1>1. StoreInv => TypeOK
  BY DEF StoreInv
<1> QED
  BY <1>1, StoreInvariant, PTL

\* What create and save have acknowledged is read as long as the journal can be
\* read, whatever processes were killed and whoever owned the lock.
THEOREM NothingIsLostSilently == Spec => []LossIsNeverSilent
<1>1. StoreInv => LossIsNeverSilent
  <2> SUFFICES ASSUME StoreInv, Readable(journal), NEW c \in acked
               PROVE  \E i \in DOMAIN Parsed(journal) : Parsed(journal)[i].cycle = c
    BY DEF LossIsNeverSilent
  <2>1. PICK i \in 1..Len(Parsed(journal)) : Parsed(journal)[i].cycle = c
    BY AckedIsRead DEF StoreInv
  <2>2. DOMAIN Parsed(journal) = 1..Len(Parsed(journal))
    BY LatestIs DEF StoreInv
  <2> QED
    BY <2>1, <2>2
<1> QED
  BY <1>1, StoreInvariant, PTL

\* The snapshot is one of the records of a journal that can be read, unless that
\* record's line was torn away by two kills.
THEOREM SnapshotsAreJournaled == Spec => []SnapshotJournaled
<1>1. StoreInv => SnapshotJournaled
  <2> SUFFICES ASSUME StoreInv, snapshot # Null, Readable(journal), ~TornAway(snapshot)
               PROVE  \E i \in DOMAIN Parsed(journal) : Parsed(journal)[i] = snapshot
    BY DEF SnapshotJournaled
  <2> DEFINE n == Len(Parsed(journal))
  <2>1. /\ n \in 1..Len(journal.lines) /\ Firm(journal) <= n /\ Linked(journal.lines, n)
        /\ DOMAIN Parsed(journal) = 1..n
        /\ \A i \in 1..n : Parsed(journal)[i] = journal.lines[i]
        /\ n = Firm(journal) \/ (journal.open /\ LastLine(journal) # Garbage /\ Parsed(journal) = journal.lines)
    BY LatestIs DEF StoreInv
  <2>2. IsRecord(snapshot) /\ Sound(snapshot, journal, DeadProcs)
    BY DEF StoreInv, SnapshotOK
  <2>3. Firm(journal) \in Int /\ n \in Nat /\ Len(journal.lines) \in Nat
    BY <2>1 DEF Firm, StoreInv, TypeOK
  <2>4. \A i \in 1..Firm(journal) : i \in 1..n
    BY <2>1, <2>3
  <2>5. CASE snapshot.cycle = <<>>
    <3>1. 1 \in 1..n /\ 1 \in 1..Len(journal.lines)
      BY <2>1, <2>3
    <3>2. journal.lines[1] # Garbage /\ journal.lines[1].sequence + 1 = 1 /\ journal.lines[1].previous = Null
      BY <2>1, <3>1 DEF Linked
    <3>3. IsRecord(journal.lines[1])
      BY <3>1, <3>2 DEF StoreInv, JournalOK
    <3>4. journal.lines[1].cycle = <<>> /\ journal.lines[1].sequence = 0
      <4>1. journal.lines[1].sequence \in Nat /\ Len(journal.lines[1].cycle) = journal.lines[1].sequence
            /\ journal.lines[1].cycle \in Seq(Procs)
        BY <3>3, CycleFacts, StoreBounds DEF IsRecord, JournalRecord
      <4> QED
        BY <3>2, <4>1, EmptySeq
    <3>5. snapshot.previous = Null /\ snapshot.sequence = 0
      BY <2>2, <2>5, EmptySeq DEF IsRecord
    <3>6. journal.lines[1] = snapshot
      BY <2>2, <2>5, <3>2, <3>3, <3>4, <3>5 DEF IsRecord, JournalRecord
    <3> QED
      BY <2>1, <3>1, <3>6
  <2>6. CASE Kept(snapshot, journal)
    BY <2>1, <2>4, <2>6 DEF Kept, Spoilt, Linked
  <2>7. CASE Writer(snapshot.cycle) \in DeadProcs /\ journal.open /\ snapshot # Garbage
             /\ LastLine(journal) = snapshot
    <3>1. Parsed(journal) = journal.lines
      BY <2>7 DEF Parsed, LastLine
    <3>2. n = Len(journal.lines) /\ n \in 1..n
      BY <2>1, <2>3, <3>1
    <3> QED
      BY <2>1, <2>7, <3>1, <3>2 DEF LastLine
  <2>8. CASE snapshot.cycle # <<>> /\ Writer(snapshot.cycle) \in DeadProcs
             /\ DeadProcs # {Writer(snapshot.cycle)}
    BY <2>8 DEF TornAway, DeadProcs, Writer
  <2> QED
    BY <2>2, <2>5, <2>6, <2>7, <2>8 DEF Sound
<1> QED
  BY <1>1, StoreInvariant, PTL

\* A load returns a history no shorter than any acknowledged before it began: it
\* has read a journal that has them all, and nothing shortens what it goes on with.
THEOREM LoadsAreRecent == Spec => ReadsAreRecent
<1>1. StoreInv /\ [Next]_vars =>
        [\A p \in Procs :
           /\ proc[p].op = "load" /\ proc[p].step \in {"comparing", "repairing"}
           /\ proc'[p] = Idle
           => Len(known'[p]) >= proc[p].floor]_vars
  <2> SUFFICES ASSUME StoreInv, Next, NEW p \in Procs, proc[p].op = "load",
                      proc[p].step \in {"comparing", "repairing"}, proc'[p] = Idle
               PROVE  Len(known'[p]) >= proc[p].floor
    OBVIOUS
  <2>1. /\ ProcOK(p) /\ TypeOK /\ proc \in [Procs -> ProcRecord]
        /\ known \in [Procs -> Cycle \cup {Null}] /\ proc[p] \in ProcRecord
    BY DEF StoreInv, TypeOK
  <2>2. proc[p].record.cycle \in Cycle /\ proc[p].floor <= Len(proc[p].record.cycle)
    BY <2>1 DEF ProcOK, IsRecord, JournalRecord
  <2>3. Len(proc[p].record.cycle) \in Nat /\ proc[p].floor \in Nat
    BY <2>1, <2>2, CycleFacts, StoreBounds DEF ProcRecord
  <2>4. proc'[p].step = "idle" /\ proc'[p] # proc[p]
    BY DEF Idle
  <2>5. PICK q \in Procs : Begin(q) \/ Step(q) \/ Timeout(q) \/ Crash(q)
    BY <2>4 DEF Next, AgeLock
  <2>6. ~Crash(q)
    BY <2>1, <2>4 DEF Crash, Dead, Idle
  <2>7. q = p
    BY <2>1, <2>4, <2>5, <2>6, StepActs DEF Acts
  <2>8. Compare(p) \/ RenameSnapshot(p)
    <3> USE DEF At, Idle
    <3>1. ~Begin(p) /\ ~Timeout(p)
      BY DEF Begin, Create, Save, Load, Timeout
    <3>2. ~OpenLock(p) /\ ~MarkLock(p) /\ ~StatLock(p) /\ ~ReadLock(p) /\ ~Reclaim(p)
          /\ ~Release(p) /\ ~Unlink(p)
      BY DEF OpenLock, MarkLock, StatLock, ReadLock, Reclaim, Release, Unlink
    <3>3. ~ReadJournal(p) /\ ~CheckAbsent(p) /\ ~OpenJournal(p) /\ ~WriteJournal(p)
      BY DEF ReadJournal, CheckAbsent, OpenJournal, WriteJournal
    <3>4. ~WriteTemporary(p)
      BY <2>1, <2>4 DEF WriteTemporary, Go, ProcRecord
    <3> QED
      BY <2>5, <2>6, <2>7, <3>1, <3>2, <3>3, <3>4 DEF Step
  <2>9. CASE Compare(p)
    <3>1. snapshot = proc[p].record
      <4>1. ASSUME Go(p, "stale") PROVE FALSE
        BY <2>1, <2>4, <4>1 DEF Go, ProcRecord
      <4> QED
        BY <2>9, <4>1 DEF Compare
    <3> QED
      BY <2>1, <2>2, <2>9, <3>1 DEF Compare, Continue
  <2>10. CASE RenameSnapshot(p)
    <3>1. At(p, "repairing")
      BY <2>10 DEF RenameSnapshot, At
    <3> QED
      BY <2>1, <2>2, <2>10, <3>1 DEF RenameSnapshot, Continue
  <2> QED
    BY <2>8, <2>9, <2>10
<1> QED
  BY <1>1, StoreInvariant, PTL DEF Spec, ReadsAreRecent

\* Whoever owned the lock and whatever was killed, acknowledged histories do not
\* branch while the journal can be read: OneNextTransition breaks only by the save
\* that spoils the journal for good.
ReadableIsLinear == Readable(journal) => Linear(acked)

THEOREM ReadableJournalsAreLinear == Spec => []ReadableIsLinear
<1>1. StoreInv => ReadableIsLinear
  <2> SUFFICES ASSUME StoreInv, Readable(journal), NEW c \in acked, NEW d \in acked
               PROVE  Extends(c, d) \/ Extends(d, c)
    BY DEF ReadableIsLinear, Linear
  <2> DEFINE lines == journal.lines
             n == Len(Parsed(journal))
  <2>1. n \in Nat /\ Len(lines) \in Nat /\ n <= Len(lines) /\ Linked(lines, n)
    BY LatestIs DEF StoreInv, TypeOK
  <2>2. PICK i \in 1..n : lines[i].cycle = c
    BY AckedIsRead DEF StoreInv
  <2>3. PICK k \in 1..n : lines[k].cycle = d
    BY AckedIsRead DEF StoreInv
  <2>4. \A m \in 1..Len(lines) : Linked(lines, m) =>
          \A h \in 1..m : Extends(lines[m].cycle, lines[h].cycle)
    BY DEF StoreInv, LinesOK
  <2> HIDE DEF lines, n
  <2>5. Linked(lines, i) /\ Linked(lines, k)
    BY <2>1, LinkedAs
  <2>6. CASE i <= k
    BY <2>1, <2>2, <2>3, <2>4, <2>5, <2>6
  <2>7. CASE k <= i
    BY <2>1, <2>2, <2>3, <2>4, <2>5, <2>7
  <2> QED
    BY <2>1, <2>6, <2>7
<1> QED
  BY <1>1, StoreInvariant, PTL

----------------------------------------------------------------------------
(* The lock.  Whoever works under it holds it until a live process's lock is *)
(* removed by another, and then the next transition follows every one that   *)
(* was acknowledged.                                                         *)

Holding(p) ==
  \/ proc[p].step \in {"marking", "checking", "opening", "writing", "appended", "replacing",
                       "releasing", "unlinking"}
  \/ proc[p].op = "save" /\ proc[p].step \in Loading

Exclusive == \A p \in Procs : Holding(p) => lock # Null /\ lock.holder = p

\* What a save has read, and what it writes then, follows all that was acknowledged.
Follows(p) ==
  /\ proc[p].step = "checking" => proc[p].op = "create"
  /\ proc[p].op = "save" /\ proc[p].step \in {"comparing", "stale", "repairing"} =>
       \A c \in acked : Extends(proc[p].record.cycle, c)
  /\ \/ proc[p].op = "save" /\ proc[p].step \in {"opening", "writing", "appended", "replacing"}
     \/ proc[p].op = "save" /\ proc[p].result = "ok"
     => \A c \in acked : Extends(proc[p].next, c)

Held == Exclusive /\ Linear(acked) /\ \A p \in Procs : Follows(p)

\* Where an action takes its process, and what it does to the lock.
LEMMA PlaceAfter ==
  ASSUME StoreInv, NEW p \in Procs
  PROVE  /\ Begin(p) \/ Timeout(p) =>
              ~Holding(p) /\ ~Holding(p)' /\ lock' = lock
         /\ OpenLock(p) => /\ ~Holding(p) /\ lock = Null /\ proc'[p].step = "marking"
                           /\ lock' = [holder |-> p, written |-> FALSE, old |-> FALSE]
         /\ StatLock(p) \/ ReadLock(p) => ~Holding(p) /\ ~Holding(p)' /\ lock' = lock
         /\ Reclaim(p) => ~Holding(p) /\ ~Holding(p)' /\ lock' = Null
         /\ MarkLock(p) => Holding(p) /\ Holding(p)'
         /\ Unlink(p) => Holding(p) /\ ~Holding(p)' /\ lock' = Null
<1>0. /\ proc \in [Procs -> ProcRecord] /\ proc[p] \in ProcRecord /\ ProcOK(p)
  BY DEF StoreInv, TypeOK
<1>1. ASSUME Begin(p) \/ Timeout(p)
      PROVE  ~Holding(p) /\ ~Holding(p)' /\ lock' = lock
  <2>1. lock' = lock
    BY <1>1 DEF Begin, Create, Save, Load, Timeout, files
  <2>2. ~Holding(p)
    BY <1>1 DEF Begin, Create, Save, Load, Timeout, Idle, At, Holding, Loading
  <2>3. \/ proc'[p].step \in {"locking", "idle"}
        \/ proc'[p].step = "loading" /\ proc'[p].op = "load"
    <3>1. CASE Create(p)
      BY <1>0, <3>1 DEF Create, Idle
    <3>2. CASE Save(p)
      BY <1>0, <3>2 DEF Save, Idle
    <3>3. CASE Load(p)
      <4> DEFINE row == [Idle EXCEPT !.op = "load", !.step = "loading", !.floor = LongestAcked]
      <4>1. row.step = "loading" /\ row.op = "load"
        BY DEF Idle
      <4>2. proc'[p] = row
        BY <1>0, <3>3 DEF Load
      <4> HIDE DEF row
      <4> QED
        BY <4>1, <4>2
    <3>4. CASE Timeout(p)
      BY <1>0, <3>4 DEF Timeout, Idle
    <3> QED
      BY <1>1, <3>1, <3>2, <3>3, <3>4 DEF Begin
  <2> QED
    BY <2>1, <2>2, <2>3 DEF Holding, Loading
<1>2. OpenLock(p) => /\ ~Holding(p) /\ lock = Null /\ proc'[p].step = "marking"
                     /\ lock' = [holder |-> p, written |-> FALSE, old |-> FALSE]
  BY <1>0 DEF OpenLock, Go, At, Holding, Loading, ProcRecord
<1>3. StatLock(p) \/ ReadLock(p) => ~Holding(p) /\ ~Holding(p)' /\ lock' = lock
  BY <1>0 DEF StatLock, ReadLock, Go, At, Holding, Loading, ProcRecord, files
<1>4. Reclaim(p) => ~Holding(p) /\ ~Holding(p)' /\ lock' = Null
  BY <1>0 DEF Reclaim, Go, At, Holding, Loading, ProcRecord
<1>5. ASSUME MarkLock(p) PROVE Holding(p) /\ Holding(p)'
  <2>1. /\ proc[p].step = "marking" /\ proc[p].op \in {"create", "save"} /\ proc'[p].op = proc[p].op
        /\ proc'[p].step = IF proc[p].op = "create" THEN "checking" ELSE "loading"
    BY <1>0, <1>5 DEF MarkLock, Go, At, ProcOK, Writing, Steps, Loading, ProcRecord
  <2> QED
    BY <2>1 DEF Holding, Loading
<1>6. Unlink(p) => Holding(p) /\ ~Holding(p)' /\ lock' = Null
  BY <1>0 DEF Unlink, Return, At, Idle, Holding, Loading
<1> QED
  BY <1>1, <1>2, <1>3, <1>4, <1>5, <1>6

\* The actions that leave the lock alone work under it, or belong to a load.
LEMMA WorkAfter ==
  ASSUME StoreInv, NEW p \in Procs,
         \/ Release(p) \/ ReadJournal(p) \/ Compare(p) \/ CheckAbsent(p) \/ OpenJournal(p)
         \/ WriteJournal(p) \/ WriteTemporary(p) \/ RenameSnapshot(p)
  PROVE  /\ lock' = lock
         /\ ~Release(p) => (Holding(p)' <=> Holding(p))
         /\ ~Release(p) /\ Holding(p) => proc'[p].step # "marking" /\ proc[p].step # "marking"
         /\ Release(p) => /\ Holding(p)
                          /\ IF lock # Null /\ lock.holder = p /\ lock.written
                             THEN proc'[p].step = "unlinking" ELSE ~Holding(p)'
<1>0. /\ proc \in [Procs -> ProcRecord] /\ proc[p] \in ProcRecord /\ ProcOK(p)
  BY DEF StoreInv, TypeOK
<1>1. lock' = lock
  BY DEF Release, ReadJournal, Compare, CheckAbsent, OpenJournal, WriteJournal, WriteTemporary,
         RenameSnapshot, files
<1>2. CASE Release(p)
  <2>1. CASE lock # Null /\ lock.holder = p /\ lock.written
    BY <1>0, <1>1, <1>2, <2>1 DEF Release, Go, At, Holding, ProcRecord
  <2>2. CASE ~(lock # Null /\ lock.holder = p /\ lock.written)
    BY <1>0, <1>1, <1>2, <2>2 DEF Release, Return, At, Idle, Holding, Loading
  <2> QED
    BY <2>1, <2>2
<1> DEFINE InLoad(step) == step \in {"loading", "comparing", "stale", "repairing"}
           InWork(step) == step \in {"checking", "opening", "writing", "appended", "replacing",
                                     "releasing"}
<1>h. ASSUME ~Release(p),
             \/ InWork(proc[p].step) /\ InWork(proc'[p].step)
             \/ /\ InLoad(proc[p].step) /\ proc[p].op = "save"
                /\ InWork(proc'[p].step) \/ (InLoad(proc'[p].step) /\ proc'[p].op = "save")
             \/ /\ InLoad(proc[p].step) /\ proc[p].op = "load"
                /\ proc'[p].step = "idle" \/ (InLoad(proc'[p].step) /\ proc'[p].op = "load")
      PROVE  /\ lock' = lock
             /\ ~Release(p) => (Holding(p)' <=> Holding(p))
             /\ ~Release(p) /\ Holding(p) => proc'[p].step # "marking" /\ proc[p].step # "marking"
             /\ ~Release(p)
  BY <1>1, <1>h DEF Holding, Loading
<1>c. ASSUME NEW cycle, Continue(p, cycle), InLoad(proc[p].step)
      PROVE  \/ proc[p].op = "load" /\ proc'[p].step = "idle"
             \/ proc[p].op = "save" /\ InWork(proc'[p].step)
  <2>1. proc[p].op \in {"load", "save"}
    BY <1>0, <1>c DEF ProcOK, Loading
  <2>2. CASE proc[p].op = "load"
    BY <1>0, <1>c, <2>2 DEF Continue, Idle
  <2>3. CASE proc[p].op = "save"
    BY <1>0, <1>c, <2>3 DEF Continue, Go, Finish, ProcRecord
  <2> QED
    BY <2>1, <2>2, <2>3
<1>3. CASE ReadJournal(p)
  <2>1. InLoad(proc[p].step) /\ proc[p].op \in {"load", "save"} /\ ~Release(p)
    BY <1>0, <1>3 DEF ReadJournal, Release, At, ProcOK, Loading
  <2>2. CASE Readable(journal)
    <3> DEFINE latest == Latest(journal)
               row == proc'[p]
    <3>1. proc' = [proc EXCEPT ![p].step = "comparing", ![p].record = latest]
      BY <1>3, <2>2 DEF ReadJournal
    <3> HIDE DEF latest, row
    <3>2. row.step = "comparing" /\ row.op = proc[p].op
      BY <1>0, <3>1 DEF row, ProcRecord
    <3> QED
      BY <1>h, <2>1, <3>2 DEF row
  <2>3. CASE ~Readable(journal) /\ proc[p].op = "load"
    BY <1>0, <1>3, <1>h, <2>1, <2>3 DEF ReadJournal, Idle
  <2>4. CASE ~Readable(journal) /\ proc[p].op = "save"
    <3>1. proc'[p].step = "releasing"
      BY <1>0, <1>3, <2>4 DEF ReadJournal, Finish, ProcRecord
    <3> QED
      BY <1>h, <2>1, <2>4, <3>1
  <2> QED
    BY <2>1, <2>2, <2>3, <2>4
<1>4. CASE Compare(p)
  <2>1. InLoad(proc[p].step) /\ proc[p].op \in {"load", "save"} /\ ~Release(p)
    BY <1>0, <1>4 DEF Compare, Release, At, ProcOK, Loading
  <2>2. CASE snapshot = proc[p].record
    BY <1>4, <1>c, <1>h, <2>1, <2>2 DEF Compare
  <2>3. CASE snapshot # proc[p].record
    <3>1. proc'[p].step = "stale" /\ proc'[p].op = proc[p].op
      BY <1>0, <1>4, <2>3 DEF Compare, Go, ProcRecord
    <3> QED
      BY <1>h, <2>1, <3>1
  <2> QED
    BY <2>2, <2>3
<1>5. CASE CheckAbsent(p) \/ OpenJournal(p)
  <2>1. InWork(proc[p].step) /\ InWork(proc'[p].step) /\ ~Release(p)
    BY <1>0, <1>5 DEF CheckAbsent, OpenJournal, Go, Finish, At, Release, ProcRecord
  <2> QED
    BY <1>h, <2>1
<1>6. CASE WriteJournal(p)
  <2> DEFINE record == NewRecord(p)
             row == proc'[p]
  <2>1. proc' = [proc EXCEPT ![p].step = "appended", ![p].record = record]
    BY <1>6 DEF WriteJournal
  <2> HIDE DEF record, row
  <2>2. row.step = "appended"
    BY <1>0, <2>1 DEF row, ProcRecord
  <2>3. proc[p].step = "writing" /\ ~Release(p)
    BY <1>6 DEF WriteJournal, At, Release
  <2> QED
    BY <1>h, <2>2, <2>3 DEF row
<1>7. CASE WriteTemporary(p)
  <2>1. /\ ~Release(p) /\ proc[p].step \in {"stale", "appended"} /\ proc'[p].op = proc[p].op
        /\ proc'[p].step = IF proc[p].step = "stale" THEN "repairing" ELSE "replacing"
    BY <1>0, <1>7 DEF WriteTemporary, Go, At, Release, ProcRecord
  <2>2. proc[p].step = "stale" => proc[p].op \in {"load", "save"}
    BY <1>0 DEF ProcOK, Loading
  <2> QED
    BY <1>h, <2>1, <2>2
<1>8. CASE RenameSnapshot(p)
  <2>1. ~Release(p)
    BY <1>8 DEF RenameSnapshot, Release, At
  <2>2. CASE At(p, "repairing")
    <3>1. InLoad(proc[p].step) /\ proc[p].op \in {"load", "save"}
      BY <1>0, <2>2 DEF At, ProcOK, Loading
    <3>2. Continue(p, proc[p].record.cycle)
      BY <1>8, <2>2 DEF RenameSnapshot
    <3> QED
      BY <1>c, <1>h, <2>1, <3>1, <3>2
  <2>3. CASE ~At(p, "repairing")
    <3>1. proc[p].step = "replacing" /\ proc'[p].step = "releasing"
      BY <1>0, <1>8, <2>3 DEF RenameSnapshot, Finish, At, ProcRecord
    <3> QED
      BY <1>h, <2>1, <3>1
  <2> QED
    BY <2>2, <2>3
<1> QED
  BY <1>2, <1>3, <1>4, <1>5, <1>6, <1>7, <1>8

LEMMA CrashIs ==
  ASSUME StoreInv, NEW p \in Procs, Crash(p)
  PROVE  /\ p \in Alive /\ ~Holding(p)' /\ proc'[p].step = "dead" /\ p \notin Alive'
         /\ \A q \in Procs \ {p} : proc'[q] = proc[q]
         /\ UNCHANGED <<lock, known, acked>>
<1>1. proc \in [Procs -> ProcRecord] /\ proc'[p] = Dead /\ proc' = [proc EXCEPT ![p] = Dead]
  BY DEF StoreInv, TypeOK, Crash
<1> QED
  BY <1>1 DEF Crash, Dead, Idle, Holding, Loading, Alive, answers

LEMMA LockStaysHeld ==
  ASSUME StoreInv, Exclusive, [Next]_vars, ~stolen'
  PROVE  Exclusive'
<1>0. /\ proc \in [Procs -> ProcRecord]
      /\ lock # Null => lock \in LockRecord /\ lock.holder \in Procs
  BY DEF StoreInv, TypeOK, LockRecord
<1>1. CASE UNCHANGED vars
  BY <1>1 DEF vars, Exclusive, Holding
<1>2. CASE AgeLock
  <2> DEFINE aged == [lock EXCEPT !.old = TRUE]
  <2>1. lock # Null /\ lock' = aged /\ proc' = proc
    BY <1>2 DEF AgeLock
  <2>2. aged \in LockRecord /\ aged.holder = lock.holder
    BY <1>0, <2>1 DEF LockRecord
  <2> HIDE DEF aged
  <2> QED
    BY <2>1, <2>2, NullAssumption DEF Exclusive, Holding
<1>3. ASSUME NEW p \in Procs, Crash(p) PROVE Exclusive'
  BY <1>3, CrashIs DEF Exclusive, Holding
<1>4. ASSUME NEW p \in Procs, Begin(p) \/ Step(p) \/ Timeout(p) PROVE Exclusive'
  <2>1. Acts(p)
    BY <1>4, StepActs DEF StoreInv
  <2>2. \A q \in Procs \ {p} : Holding(q)' <=> Holding(q)
    BY <2>1 DEF Acts, Holding
  <2>3. ASSUME lock' = lock, Holding(p)' => Holding(p) PROVE Exclusive'
    BY <2>2, <2>3 DEF Exclusive
  <2>4. ASSUME \A q \in Procs : ~Holding(q)' PROVE Exclusive'
    BY <2>4 DEF Exclusive
  <2>5. CASE Begin(p) \/ Timeout(p) \/ StatLock(p) \/ ReadLock(p)
    BY <2>3, <2>5, PlaceAfter
  <2>6. CASE OpenLock(p)
    <3>1. lock = Null /\ lock' = [holder |-> p, written |-> FALSE, old |-> FALSE]
      BY <2>6, PlaceAfter
    <3>2. [holder |-> p, written |-> FALSE, old |-> FALSE] \in LockRecord
      BY DEF LockRecord
    <3>3. \A q \in Procs \ {p} : ~Holding(q)'
      BY <2>2, <3>1 DEF Exclusive
    <3> QED
      BY <3>1, <3>2, <3>3, NullAssumption DEF Exclusive
  <2>7. CASE Reclaim(p)
    <3>1. lock = Null \/ lock.holder \notin Alive \/ lock.holder = p
      BY <1>0, <2>7 DEF Reclaim, Steals
    <3>2. \A q \in Procs : Holding(q) => q \in Alive
      BY <1>0 DEF Holding, Alive, Dead, Idle, Loading
    <3>3. \A q \in Procs : ~Holding(q)
      BY <2>7, <3>1, <3>2, PlaceAfter DEF Exclusive
    <3> QED
      BY <2>2, <2>4, <2>7, <3>3, PlaceAfter
  <2>8. CASE MarkLock(p)
    <3>1. Holding(p) /\ lock # Null /\ lock \in LockRecord /\ lock.holder = p
      BY <1>0, <2>8, PlaceAfter DEF Exclusive
    <3> DEFINE marked == [lock EXCEPT !.written = TRUE, !.old = FALSE]
    <3>2. lock' = marked
      BY <2>8, <3>1 DEF MarkLock
    <3>3. marked \in LockRecord /\ marked.holder = p
      BY <3>1 DEF LockRecord
    <3> HIDE DEF marked
    <3> QED
      BY <2>2, <3>1, <3>2, <3>3, NullAssumption DEF Exclusive
  <2>9. CASE Unlink(p)
    <3>1. \A q \in Procs \ {p} : ~Holding(q)
      BY <2>9, PlaceAfter DEF Exclusive
    <3> QED
      BY <2>2, <2>4, <2>9, <3>1, PlaceAfter
  <2>10. CASE \/ Release(p) \/ ReadJournal(p) \/ Compare(p) \/ CheckAbsent(p) \/ OpenJournal(p)
              \/ WriteJournal(p) \/ WriteTemporary(p) \/ RenameSnapshot(p)
    BY <2>3, <2>10, WorkAfter
  <2> QED
    BY <1>4, <2>5, <2>6, <2>7, <2>8, <2>9, <2>10 DEF Step
<1> QED
  BY <1>1, <1>2, <1>3, <1>4 DEF Next

\* The last record that can be read follows every acknowledged history.
LEMMA LatestFollows ==
  ASSUME StoreInv, Readable(journal), NEW c \in acked
  PROVE  Extends(Latest(journal).cycle, c)
<1> DEFINE lines == journal.lines
           n == Len(Parsed(journal))
<1>1. n \in 1..Len(lines) /\ Linked(lines, n) /\ Latest(journal) = lines[n]
  BY LatestIs DEF StoreInv
<1>2. PICK i \in 1..n : lines[i].cycle = c
  BY AckedIsRead DEF StoreInv
<1>3. \A k \in 1..Len(lines) : Linked(lines, k) =>
        \A h \in 1..k : Extends(lines[k].cycle, lines[h].cycle)
  BY DEF StoreInv, LinesOK
<1> HIDE DEF lines, n
<1> QED
  BY <1>1, <1>2, <1>3

\* Nobody else follows anything while a process works under the lock.
LEMMA OthersFollow ==
  ASSUME StoreInv, Held, NEW p \in Procs, Holding(p), Acts(p), NEW q \in Procs \ {p}
  PROVE  Follows(q)'
<1>1. ~Holding(q) /\ proc'[q] = proc[q] /\ ProcOK(q)
  BY DEF Held, Exclusive, Acts, StoreInv
<1>2. proc[q].result = "ok" => proc[q].step \in {"releasing", "unlinking"}
  BY <1>1 DEF ProcOK
<1> QED
  BY <1>1, <1>2 DEF Holding, Follows, Loading

\* What an operation has acknowledged is one line with what was acknowledged before.
LEMMA ReturnFollows ==
  ASSUME StoreInv, Held, NEW p \in Procs, Holding(p), Acts(p), Return(p)
  PROVE  Linear(acked)' /\ \A q \in Procs : Follows(q)'
<1>0. /\ proc \in [Procs -> ProcRecord] /\ proc[p] \in ProcRecord /\ ProcOK(p)
      /\ acked \subseteq Cycle
  BY DEF StoreInv, TypeOK
<1>1. proc'[p] = Idle
  BY <1>0 DEF Return
<1>2. Follows(p)'
  BY <1>1 DEF Follows, Idle
<1>3. \A q \in Procs : Follows(q)'
  BY <1>2, OthersFollow
<1>4. CASE proc[p].result # "ok"
  BY <1>3, <1>4 DEF Return, Held
<1>5. CASE proc[p].result = "ok"
  <2>1. acked' = acked \cup {proc[p].next} /\ proc[p].op \in {"create", "save"}
    BY <1>0, <1>5 DEF Return, ProcOK, Writing, Steps, Loading
  <2>2. proc[p].next \in Cycle /\ proc[p].next \in Seq(Procs)
    BY <1>0, CycleFacts DEF ProcRecord
  <2>3. Extends(proc[p].next, proc[p].next)
    BY <2>2, ExtendsSelf
  <2>4. ASSUME NEW c \in acked PROVE Extends(proc[p].next, c) \/ Extends(c, proc[p].next)
    <3>1. CASE proc[p].op = "save"
      BY <1>5, <3>1 DEF Held, Follows
    <3>2. CASE proc[p].op = "create"
      <4>1. proc[p].next = <<>> /\ c \in Seq(Procs) /\ Len(c) \in Nat
        BY <1>0, <3>2, CycleFacts DEF ProcOK
      <4>2. SubSeq(c, 1, 0) = <<>> /\ Len(<<>>) = 0
        BY <4>1, EmptySeq, SubSeqEmpty
      <4> QED
        BY <4>1, <4>2 DEF Extends
    <3> QED
      BY <2>1, <3>1, <3>2
  <2> QED
    BY <1>3, <2>1, <2>3, <2>4 DEF Linear, Held
<1> QED
  BY <1>3, <1>4, <1>5

\* A step of a save keeps to what follows the acknowledged histories.
LEMMA SaveFollows ==
  ASSUME StoreInv, [Next]_vars, Held, NEW p \in Procs, Acts(p), acked' = acked,
         proc'[p].step = "checking" => proc'[p].op = "create",
         \/ proc'[p].op # "save"
         \/ /\ proc'[p].step \notin {"comparing", "stale", "repairing", "opening", "writing",
                                     "appended", "replacing"}
            /\ proc'[p].result # "ok"
         \/ /\ proc'[p].step \in {"comparing", "stale", "repairing"}
            /\ \A c \in acked : Extends(proc'[p].record.cycle, c)
         \/ /\ proc'[p].step \notin {"comparing", "stale", "repairing"}
            /\ \A c \in acked : Extends(proc'[p].next, c)
  PROVE  Linear(acked)' /\ \A q \in Procs : Follows(q)'
<1>1. ProcOK(p)'
  BY NextOK DEF StoreInv
<1>2. proc'[p].result = "ok" => proc'[p].step \in {"releasing", "unlinking"}
  BY <1>1 DEF ProcOK
<1>3. Follows(p)'
  BY <1>2 DEF Follows
<1>4. \A q \in Procs \ {p} : Follows(q)'
  BY DEF Held, Acts, Follows
<1> QED
  BY <1>3, <1>4 DEF Held

LEMMA WorkFollows ==
  ASSUME StoreInv, [Next]_vars, Held, NEW p \in Procs, Begin(p) \/ Step(p) \/ Timeout(p)
  PROVE  Linear(acked)' /\ \A q \in Procs : Follows(q)'
<1>0. /\ proc \in [Procs -> ProcRecord] /\ proc[p] \in ProcRecord /\ ProcOK(p) /\ Follows(p)
      /\ acked \subseteq Cycle
  BY DEF StoreInv, TypeOK, Held
<1>a. Acts(p)
  BY StepActs DEF StoreInv
<1>1. CASE Begin(p)
  <2>1. acked' = acked
    BY <1>1 DEF Begin, Create, Save, Load, answers
  <2>2. CASE Create(p) \/ Save(p)
    <3>1. proc'[p].step = "locking" /\ proc'[p].result = "none"
      BY <1>0, <2>2 DEF Create, Save, Idle
    <3> QED
      BY <1>a, <2>1, <3>1, SaveFollows
  <2>3. CASE Load(p)
    <3> DEFINE row == [Idle EXCEPT !.op = "load", !.step = "loading", !.floor = LongestAcked]
    <3>1. row.op = "load" /\ row.step = "loading"
      BY DEF Idle
    <3>2. proc'[p] = row
      BY <1>0, <2>3 DEF Load
    <3> HIDE DEF row
    <3> QED
      BY <1>a, <2>1, <3>1, <3>2, SaveFollows
  <2> QED
    BY <1>1, <2>2, <2>3 DEF Begin
<1>2. CASE Timeout(p)
  <2>1. acked' = acked /\ proc'[p] = Idle
    BY <1>0, <1>2 DEF Timeout, answers
  <2> QED
    BY <1>a, <2>1, NullAssumption, SaveFollows DEF Idle
<1>3. CASE OpenLock(p) \/ MarkLock(p) \/ StatLock(p) \/ ReadLock(p) \/ Reclaim(p)
  <2>1. /\ acked' = acked /\ proc'[p].result = proc[p].result
        /\ proc[p].step \in {"locking", "judging", "judgingOld", "marking", "reclaiming"}
        /\ proc'[p].step \in {"marking", "checking", "loading", "judging", "judgingOld",
                              "reclaiming", "locking"}
        /\ proc'[p].op = proc[p].op /\ (proc'[p].step = "checking" => proc[p].op = "create")
    BY <1>0, <1>3 DEF OpenLock, MarkLock, StatLock, ReadLock, Reclaim, Go, At, answers, ProcRecord
  <2>2. proc[p].result # "ok"
    BY <1>0, <2>1 DEF ProcOK
  <2> QED
    BY <1>a, <2>1, <2>2, SaveFollows
<1>4. CASE Release(p) \/ Unlink(p)
  <2>1. Holding(p)
    BY <1>4 DEF Release, Unlink, At, Holding
  <2>2. CASE Return(p)
    BY <1>a, <2>1, <2>2, ReturnFollows
  <2>3. CASE ~Return(p)
    <3>1. /\ acked' = acked /\ proc'[p].op = proc[p].op /\ proc'[p].next = proc[p].next
          /\ proc'[p].result = proc[p].result /\ proc'[p].step = "unlinking"
      BY <1>0, <1>4, <2>3 DEF Release, Unlink, Go, answers, ProcRecord
    <3> QED
      BY <1>0, <1>a, <3>1, SaveFollows DEF Follows
  <2> QED
    BY <2>2, <2>3
\* What follows a load.
<1>c. ASSUME NEW cycle, Continue(p, cycle), proc[p].step \in {"comparing", "repairing"},
             cycle = proc[p].record.cycle
      PROVE  Linear(acked)' /\ \A q \in Procs : Follows(q)'
  <2>1. proc[p].op \in {"load", "save"} /\ proc[p].result # "ok"
    BY <1>0, <1>c DEF ProcOK, Loading
  <2>2. CASE proc[p].op = "load"
    <3>1. acked' = acked /\ proc'[p] = Idle
      BY <1>0, <1>c, <2>2 DEF Continue, Idle
    <3> QED
      BY <1>a, <3>1, NullAssumption, SaveFollows DEF Idle
  <2>3. CASE proc[p].op = "save" /\ cycle = known[p]
    <3>1. /\ acked' = acked /\ proc'[p].step = "opening" /\ proc'[p].next = proc[p].next
      BY <1>0, <1>c, <2>3 DEF Continue, Current, Go, answers, ProcRecord
    <3>2. /\ known[p] \in Seq(Procs) /\ proc[p].next = Append(known[p], p)
          /\ \A c \in acked : c \in Seq(Procs) /\ Extends(known[p], c)
      BY <1>0, <1>c, <2>3, CycleFacts DEF ProcOK, Follows
    <3>3. \A c \in acked : Extends(proc[p].next, c)
      BY <3>2, ExtendsFurther
    <3> QED
      BY <1>a, <3>1, <3>3, SaveFollows
  <2>4. CASE proc[p].op = "save" /\ cycle # known[p]
    <3>1. acked' = acked /\ proc'[p].step = "releasing" /\ proc'[p].result = "refused"
      BY <1>0, <1>c, <2>4 DEF Continue, Current, Finish, answers, ProcRecord
    <3> QED
      BY <1>a, <3>1, SaveFollows
  <2> QED
    BY <2>1, <2>2, <2>3, <2>4
<1>5. CASE ReadJournal(p)
  <2>1. acked' = acked /\ proc[p].step = "loading"
    BY <1>5 DEF ReadJournal, At, answers
  <2>2. CASE Readable(journal)
    <3> DEFINE latest == Latest(journal)
               row == proc'[p]
    <3>1. proc' = [proc EXCEPT ![p].step = "comparing", ![p].record = latest]
      BY <1>5, <2>2 DEF ReadJournal
    <3>2. \A c \in acked : Extends(latest.cycle, c)
      BY <2>2, LatestFollows
    <3> HIDE DEF latest, row
    <3>3. row.step = "comparing" /\ row.record = latest
      BY <1>0, <3>1 DEF row, ProcRecord
    <3>4. row.step \in {"comparing", "stale", "repairing"} /\ \A c \in acked : Extends(row.record.cycle, c)
      BY <3>2, <3>3
    <3> QED
      BY <1>a, <2>1, <3>4, SaveFollows DEF row
  <2>3. CASE ~Readable(journal)
    <3>1. \/ proc'[p] = Idle
          \/ proc'[p].step = "releasing" /\ proc'[p].result = "refused"
      BY <1>0, <1>5, <2>3 DEF ReadJournal, Finish, ProcRecord
    <3> QED
      BY <1>a, <2>1, <3>1, NullAssumption, SaveFollows DEF Idle
  <2> QED
    BY <2>2, <2>3
<1>6. CASE Compare(p)
  <2>1. proc[p].step = "comparing"
    BY <1>6 DEF Compare, At
  <2>2. CASE snapshot = proc[p].record
    BY <1>6, <1>c, <2>1, <2>2 DEF Compare
  <2>3. CASE snapshot # proc[p].record
    <3>1. /\ acked' = acked /\ proc'[p].step = "stale" /\ proc'[p].record = proc[p].record
          /\ proc'[p].op = proc[p].op
      BY <1>0, <1>6, <2>3 DEF Compare, Go, answers, ProcRecord
    <3> QED
      BY <1>0, <1>a, <2>1, <3>1, SaveFollows DEF Follows
  <2> QED
    BY <2>2, <2>3
<1>7. CASE CheckAbsent(p) \/ OpenJournal(p)
  <2>1. /\ acked' = acked /\ proc'[p].op = proc[p].op /\ proc'[p].next = proc[p].next
        /\ proc[p].step = "checking" \/ (proc[p].step = "opening" /\ proc'[p].step = "writing")
    BY <1>0, <1>7 DEF CheckAbsent, OpenJournal, Go, Finish, At, answers, ProcRecord
  <2>2. CASE proc[p].step = "checking"
    <3>1. proc[p].op = "create" /\ proc'[p].step \in {"opening", "releasing"}
      BY <1>0, <1>7, <2>2 DEF Follows, CheckAbsent, OpenJournal, Go, Finish, At, ProcRecord
    <3> QED
      BY <1>a, <2>1, <3>1, SaveFollows
  <2>3. CASE proc[p].step = "opening" /\ proc'[p].step = "writing"
    BY <1>0, <1>a, <2>1, <2>3, SaveFollows DEF Follows
  <2> QED
    BY <2>1, <2>2, <2>3
<1>8. CASE WriteJournal(p)
  <2> DEFINE record == NewRecord(p)
             row == proc'[p]
  <2>1. /\ proc' = [proc EXCEPT ![p].step = "appended", ![p].record = record]
        /\ acked' = acked /\ proc[p].step = "writing"
    BY <1>8 DEF WriteJournal, At, answers
  <2> HIDE DEF record, row
  <2>2. row.step = "appended" /\ row.next = proc[p].next /\ row.op = proc[p].op
    BY <1>0, <2>1 DEF row, ProcRecord
  <2>3. row.op = "save" => \A c \in acked : Extends(row.next, c)
    BY <1>0, <2>1, <2>2 DEF Follows
  <2> QED
    BY <1>a, <2>1, <2>2, <2>3, SaveFollows DEF row
<1>9. CASE WriteTemporary(p)
  <2>1. /\ acked' = acked /\ proc'[p].op = proc[p].op /\ proc'[p].next = proc[p].next
        /\ proc'[p].record = proc[p].record
        /\ \/ proc[p].step = "stale" /\ proc'[p].step = "repairing"
           \/ proc[p].step = "appended" /\ proc'[p].step = "replacing"
    BY <1>0, <1>9 DEF WriteTemporary, Go, At, answers, ProcRecord
  <2> QED
    BY <1>0, <1>a, <2>1, SaveFollows DEF Follows
<1>10. CASE RenameSnapshot(p)
  <2>1. CASE At(p, "repairing")
    BY <1>10, <1>c, <2>1 DEF RenameSnapshot, At
  <2>2. CASE ~At(p, "repairing")
    <3>1. /\ acked' = acked /\ proc'[p].op = proc[p].op /\ proc'[p].next = proc[p].next
          /\ proc[p].step = "replacing" /\ proc'[p].step = "releasing"
      BY <1>0, <1>10, <2>2 DEF RenameSnapshot, Finish, At, answers, ProcRecord
    <3> QED
      BY <1>0, <1>a, <3>1, SaveFollows DEF Follows
  <2> QED
    BY <2>1, <2>2
<1> QED
  BY <1>1, <1>2, <1>3, <1>4, <1>5, <1>6, <1>7, <1>8, <1>9, <1>10 DEF Step

LEMMA StolenStays ==
  ASSUME [Next]_vars, stolen
  PROVE  stolen'
<1>1. CASE UNCHANGED vars \/ AgeLock
  BY <1>1 DEF vars, AgeLock
<1>2. ASSUME NEW p \in Procs, Reclaim(p) \/ Unlink(p) PROVE stolen'
  BY <1>2 DEF Reclaim, Unlink
<1>3. ASSUME NEW p \in Procs, Begin(p) \/ Timeout(p) \/ Crash(p) \/ Step(p),
             ~Reclaim(p) /\ ~Unlink(p)
      PROVE  stolen' = stolen
  BY <1>3 DEF Begin, Step, Create, Save, Load, OpenLock, MarkLock, StatLock, ReadLock, Timeout,
     Release, ReadJournal, Compare, CheckAbsent, OpenJournal, WriteJournal, WriteTemporary,
     RenameSnapshot, Crash, files
<1> QED
  BY <1>1, <1>2, <1>3 DEF Next

LEMMA HeldStep ==
  ASSUME StoreInv, Held, [Next]_vars, ~stolen'
  PROVE  Held'
<1>1. Exclusive'
  BY LockStaysHeld DEF Held
<1>2. Linear(acked)' /\ \A p \in Procs : Follows(p)'
  <2>1. CASE UNCHANGED vars \/ AgeLock
    BY <2>1 DEF vars, AgeLock, answers, Held, Follows
  <2>2. ASSUME NEW p \in Procs, Crash(p)
        PROVE  Linear(acked)' /\ \A q \in Procs : Follows(q)'
    <3>1. /\ proc'[p] = Dead /\ acked' = acked
          /\ \A q \in Procs \ {p} : proc'[q] = proc[q]
      BY <2>2, CrashIs DEF Crash, StoreInv, TypeOK
    <3>2. Follows(p)'
      BY <3>1, NullAssumption DEF Follows, Dead, Idle
    <3> QED
      BY <3>1, <3>2 DEF Held, Follows
  <2> QED
    BY <2>1, <2>2, WorkFollows DEF Next
<1> QED
  BY <1>1, <1>2 DEF Held

LEMMA HeldAtFirst == Init => Held
<1> SUFFICES ASSUME Init PROVE Held
  OBVIOUS
<1>1. /\ \A p \in Procs : proc[p] = Idle
      /\ lock = Null /\ acked = {}
  BY DEF Init
<1>2. \A p \in Procs : proc[p].step = "idle" /\ ~Holding(p) /\ Follows(p)
  BY <1>1, NullAssumption DEF Idle, Holding, Loading, Follows
<1> QED
  BY <1>1, <1>2 DEF Held, Exclusive, Linear

\* OneNextTransitionUnlessStolen for any number of writers and kills: whoever works
\* under the lock holds it until the lock of a live process has been removed, and
\* up to then acknowledged histories never branch.
THEOREM OneNextTransitionUntilStolen == Spec => []OneNextTransitionUnlessStolen
<1> DEFINE Inv == stolen \/ Held
<1>1. Init => Inv
  BY HeldAtFirst
<1>2. StoreInv /\ Inv /\ [Next]_vars => Inv'
  <2> SUFFICES ASSUME StoreInv, Inv, [Next]_vars, ~stolen' PROVE Held'
    OBVIOUS
  <2>1. ~stolen
    BY StolenStays
  <2> QED
    BY <2>1, HeldStep
<1>3. Inv => OneNextTransitionUnlessStolen
  BY DEF Held, OneNextTransitionUnlessStolen
<1> QED
  BY <1>1, <1>2, <1>3, StoreInvariant, PTL DEF Spec
=============================================================================
