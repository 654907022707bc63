---------------------------- MODULE BackupProofs ----------------------------
(***************************************************************************)
(* Proofs about Backup, for any callers, windows and interval: a backup    *)
(* takes nobody's place, retention keeps every group's newest, a backup    *)
(* the exit made covers what was committed before it, and the indicator    *)
(* says "saving" exactly while somebody saves.                             *)
(***************************************************************************)
EXTENDS Backup, FiniteSetTheorems, WellFoundedInduction, TLAPS

(***************************************************************************)
(* The invariant.                                                          *)
(***************************************************************************)
Working == {"reserve", "vacuum", "publish", "prune", "finish", "emit"}
Before == {"counted", "admitted", "queued"}
Counted == Before \cup (Working \ {"emit"})

\* Who has not asked for anything.
Out == {"idle", "draining", "done"}

CountedJobs == {j \in Jobs : job[j].pc \in Counted}

Types ==
  /\ now \in Nat /\ files \subseteq Files /\ locks \subseteq Files
  /\ IsFiniteSet(files) /\ IsFiniteSet(locks)
  /\ job \in [Jobs -> JobType]
  /\ \A j \in Jobs : job[j].pc \notin Out => job[j].reason \in Reasons
  /\ gate \in Jobs \cup {None} /\ shutdown \in BOOLEAN /\ owed \in BOOLEAN

\* Who works holds the gate.
WorkersHoldGate == \A j \in Jobs : job[j].pc \in Working => gate = j

\* The name a job has reserved is not taken while it has it.
NamesAreNew ==
  \A j \in Jobs : job[j].pc \in {"vacuum", "publish"} => job[j].name \in Files \ files

\* The exit's job is there from the drain on, when nothing is committed any
\* more that it would have to cover.
ExitInv ==
  /\ exit \in {"agents", "draining", "ended"} => shutdown
  /\ exit \notin {"draining", "ended"} => job[Quit].pc = "idle" /\ ~job[Quit].ok
  /\ job[Quit].pc = "publish" => job[Quit].latest
  /\ job[Quit].ok => ~owed

\* Until the exit the count is that of the jobs on their way; a timed-out
\* exit leaves its own behind.
CountInv ==
  /\ IsFiniteSet(CountedJobs)
  /\ pending \in Nat /\ pending >= Cardinality(CountedJobs)
  /\ ~shutdown => pending = Cardinality(CountedJobs)

\* An event that counts others leaves one of them to emit the next.
UiInv ==
  /\ gate # None => ui = "saving"
  /\ ~shutdown => /\ \A j \in Jobs : job[j].pc = "emit" /\ job[j].left > 0 =>
                       \E k \in Jobs : job[k].pc \in Before
                  /\ ui = "saving" => \E k \in Jobs : job[k].pc \in Counted \cup {"emit"}

SafeInv == WorkersHoldGate /\ NamesAreNew /\ ExitInv
BackupInv == Types /\ SafeInv /\ CountInv /\ UiInv

(***************************************************************************)
(* Retention.                                                              *)
(***************************************************************************)
\* A nonempty set of naturals has a least element.
LEMMA LeastNatural ==
  ASSUME NEW S \in SUBSET Nat, S # {}
  PROVE  \E m \in S : \A n \in S : m <= n
<1>1. \E m \in S : \A n \in S : <<n, m>> \notin OpToRel(<, Nat)
  BY NatLessThanWellFounded, WFMin
<1>2. \A m, n \in Nat : <<n, m>> \notin OpToRel(<, Nat) => m <= n
  BY DEF OpToRel
<1> QED
  BY <1>1, <1>2

\* Newer is a strict order.
LEMMA NewerOrder ==
  ASSUME NEW f \in Files, NEW g \in Files, NEW h \in Files
  PROVE  ~Newer(f, f) /\ (Newer(h, g) /\ Newer(g, f) => Newer(h, f))
<1>1. \A r : ReasonRank(r) \in Int
  BY DEF ReasonRank
<1>2. f.at \in Int /\ g.at \in Int /\ h.at \in Int /\ f.n \in Int /\ g.n \in Int /\ h.n \in Int
  BY DEF Files
<1> HIDE DEF ReasonRank
<1> QED
  BY <1>1, <1>2 DEF Newer

\* Above every backup that is not its group's newest there is one that is.
LEMMA NewestAbove ==
  ASSUME files \subseteq Files, IsFiniteSet(files),
         NEW f \in files, f \notin SafetyFloor
  PROVE  \E g \in SafetyFloor : Group(g.reason) = Group(f.reason) /\ Newer(g, f)
<1> DEFINE Above(g) == {h \in files : Group(h.reason) = Group(g.reason) /\ Newer(h, g)}
           Sizes == {Cardinality(Above(g)) : g \in Above(f)}
<1>1. Above(f) # {}
  BY DEF SafetyFloor
<1>2. \A g \in files : IsFiniteSet(Above(g)) /\ Cardinality(Above(g)) \in Nat
  BY FS_Subset, FS_CardinalityType
<1>3. Sizes \in SUBSET Nat /\ Sizes # {}
  BY <1>1, <1>2
<1>4. PICK m \in Sizes : \A n \in Sizes : m <= n
  BY <1>3, LeastNatural
<1>5. PICK g \in Above(f) : m = Cardinality(Above(g))
  BY <1>4
<1>6. g \in SafetyFloor
  <2> SUFFICES ASSUME NEW h \in files, Group(h.reason) = Group(g.reason), Newer(h, g)
               PROVE  FALSE
    BY <1>5 DEF SafetyFloor
  <2>1. h \in Above(f)
    BY <1>5, NewerOrder
  <2>2. Above(h) \subseteq Above(g)
    BY <1>5, NewerOrder
  <2>3. h \in Above(g) /\ h \notin Above(h)
    BY NewerOrder
  <2>4. Above(h) # Above(g)
    BY <2>3
  <2>5. IsFiniteSet(Above(g)) /\ Cardinality(Above(g)) \in Nat /\ Cardinality(Above(h)) \in Nat
    BY <1>2, <1>5
  <2>6. /\ Cardinality(Above(h)) <= Cardinality(Above(g))
        /\ Cardinality(Above(g)) = Cardinality(Above(h)) => Above(g) = Above(h)
    <3>1. Above(h) \in SUBSET Above(g)
      BY <2>2
    <3> HIDE DEF Above
    <3> QED
      BY <2>5, <3>1, FS_Subset
  <2>7. Cardinality(Above(h)) < Cardinality(Above(g))
    BY <2>4, <2>5, <2>6
  <2>8. Cardinality(Above(h)) \in Sizes
    BY <2>1
  <2>9. Cardinality(Above(g)) <= Cardinality(Above(h))
    BY <1>4, <1>5, <2>8
  <2> QED
    BY <2>5, <2>7, <2>9
<1> QED
  BY <1>5, <1>6

LEMMA PruneKeeps ==
  ASSUME Types, NEW j \in Jobs, Prune(j)
  PROVE  /\ files' \subseteq files
         /\ \A f \in files \ files' :
              \E g \in files' : Group(g.reason) = Group(f.reason) /\ Newer(g, f)
<1>1. files' \subseteq files /\ files \ files' \subseteq Removable
  BY DEF Prune, Removable
<1>2. SafetyFloor \subseteq files'
  BY DEF Prune, Removable, SafetyFloor
<1> QED
  BY <1>1, <1>2, NewestAbove DEF Removable, Types

(***************************************************************************)
(* How a job moves.                                                        *)
(***************************************************************************)
LEMMA QuitIsAJob == Quit \in Jobs /\ Sched \in Jobs
BY DEF Jobs

LEMMA IdleForm == Idle \in JobType /\ Idle.pc = "idle" /\ ~Idle.ok /\ Idle.left = 0
BY DEF Idle, JobType, Pcs

LEMMA PcForm ==
  ASSUME NEW d \in JobType, NEW pc \in Pcs
  PROVE  /\ [d EXCEPT !.pc = pc] \in JobType
         /\ [d EXCEPT !.pc = pc].pc = pc /\ [d EXCEPT !.pc = pc].name = d.name
         /\ [d EXCEPT !.pc = pc].latest = d.latest /\ [d EXCEPT !.pc = pc].ok = d.ok
         /\ [d EXCEPT !.pc = pc].left = d.left /\ [d EXCEPT !.pc = pc].reason = d.reason
BY DEF JobType

\* What the count does when one job moves.
LEMMA CountMoves ==
  ASSUME Types, CountInv, NEW j \in Jobs, NEW new \in JobType,
         job' = [job EXCEPT ![j] = new],
         \/ new.pc \in Counted /\ job[j].pc \in Counted /\ pending' = pending
         \/ new.pc \notin Counted /\ job[j].pc \notin Counted /\ pending' = pending
         \/ new.pc \in Counted /\ job[j].pc \notin Counted /\ pending' = pending + 1
         \/ new.pc \notin Counted /\ job[j].pc \in Counted /\ pending' = pending - 1,
         shutdown' = shutdown
  PROVE  CountInv'
<1>1. job'[j] = new /\ \A k \in Jobs : k # j => job'[k] = job[k]
  BY DEF Types
<1>2. /\ IsFiniteSet(CountedJobs) /\ Cardinality(CountedJobs) \in Nat
      /\ pending \in Nat /\ pending >= Cardinality(CountedJobs)
      /\ ~shutdown => pending = Cardinality(CountedJobs)
  BY FS_CardinalityType DEF CountInv
<1>3. CASE new.pc \in Counted <=> job[j].pc \in Counted
  <2>1. CountedJobs' = CountedJobs
    BY <1>1, <1>3 DEF CountedJobs
  <2> QED
    BY <1>2, <1>3, <2>1 DEF CountInv
<1>4. CASE new.pc \in Counted /\ job[j].pc \notin Counted
  <2>1. CountedJobs' = CountedJobs \cup {j} /\ j \notin CountedJobs
    BY <1>1, <1>4 DEF CountedJobs
  <2>2. /\ IsFiniteSet(CountedJobs')
        /\ Cardinality(CountedJobs') = Cardinality(CountedJobs) + 1
    BY <1>2, <2>1, FS_AddElement
  <2> QED
    BY <1>2, <1>4, <2>2 DEF CountInv
<1>5. CASE new.pc \notin Counted /\ job[j].pc \in Counted
  <2>1. CountedJobs' = CountedJobs \ {j} /\ j \in CountedJobs
    BY <1>1, <1>5 DEF CountedJobs
  <2>2. /\ IsFiniteSet(CountedJobs')
        /\ Cardinality(CountedJobs') = Cardinality(CountedJobs) - 1
    BY <1>2, <2>1, FS_RemoveElement
  <2>3. Cardinality(CountedJobs') \in Nat
    BY <2>2, FS_CardinalityType
  <2> QED
    BY <1>2, <1>5, <2>2, <2>3 DEF CountInv
<1> QED
  BY <1>3, <1>4, <1>5

\* What names and the exit ask of a job that moves, its place at the gate kept.
LEMMA SafeMoves ==
  ASSUME Types, SafeInv, NEW j \in Jobs, NEW new \in JobType,
         job' = [job EXCEPT ![j] = new],
         new.pc \in Working => gate' = j,
         gate' = gate \/ \A k \in Jobs : k # j => job[k].pc \notin Working,
         files' \subseteq files,
         new.pc \in {"vacuum", "publish"} => new.name \in Files \ files',
         shutdown' = shutdown, exit' = exit, owed' = owed,
         j = Quit => /\ exit \in {"draining", "ended"}
                     /\ new.ok => job[Quit].ok
                     /\ new.pc = "publish" => new.latest
  PROVE  SafeInv'
<1>1. job'[j] = new /\ \A k \in Jobs : k # j => job'[k] = job[k]
  BY DEF Types
<1>2. WorkersHoldGate'
  BY <1>1 DEF WorkersHoldGate, SafeInv
<1>3. NamesAreNew'
  BY <1>1 DEF NamesAreNew, SafeInv
<1>4. ExitInv'
  <2>1. CASE j = Quit
    BY <1>1, <2>1 DEF ExitInv, SafeInv
  <2>2. CASE j # Quit
    BY <1>1, <2>2, QuitIsAJob DEF ExitInv, SafeInv
  <2> QED
    BY <2>1, <2>2
<1> QED
  BY <1>2, <1>3, <1>4 DEF SafeInv

\* What the indicator asks of it.
LEMMA UiMoves ==
  ASSUME Types, UiInv, NEW j \in Jobs, NEW new \in JobType,
         job' = [job EXCEPT ![j] = new], UNCHANGED <<gate, ui, shutdown>>,
         ~shutdown /\ job[j].pc \in Before => new.pc \in Before,
         ~shutdown /\ job[j].pc \in Counted \cup {"emit"} => new.pc \in Counted \cup {"emit"},
         new.pc = "emit" /\ ~shutdown /\ new.left > 0 => \E k \in Jobs : k # j /\ job[k].pc \in Before
  PROVE  UiInv'
<1>1. job'[j] = new /\ \A k \in Jobs : k # j => job'[k] = job[k]
  BY DEF Types
<1>2. ~shutdown => \A k \in Jobs : job[k].pc \in Before => job'[k].pc \in Before
  BY <1>1
<1>3. ~shutdown => \A k \in Jobs : job'[k].pc = "emit" /\ job'[k].left > 0 =>
                     \E i \in Jobs : job'[i].pc \in Before
  <2> SUFFICES ASSUME ~shutdown, NEW k \in Jobs, job'[k].pc = "emit", job'[k].left > 0
               PROVE  \E i \in Jobs : job'[i].pc \in Before
    OBVIOUS
  <2>1. CASE k = j
    BY <1>1, <1>2, <2>1
  <2>2. CASE k # j
    BY <1>1, <1>2, <2>2 DEF UiInv
  <2> QED
    BY <2>1, <2>2
<1>4. ~shutdown /\ ui = "saving" => \E k \in Jobs : job'[k].pc \in Counted \cup {"emit"}
  BY <1>1 DEF UiInv
<1> QED
  BY <1>3, <1>4 DEF UiInv

\* A job that moves with the disk's files, the gate and the events as they are.
LEMMA MoveStep ==
  ASSUME BackupInv, NEW j \in Jobs, NEW new \in JobType,
         job' = [job EXCEPT ![j] = new],
         UNCHANGED <<now, files, gate, shutdown, exit, owed, ui>>,
         new.pc \in Out \/ new.reason \in Reasons,
         locks' \subseteq Files, IsFiniteSet(locks'),
         new.pc \in Working => job[j].pc \in Working,
         new.pc \in {"vacuum", "publish"} => new.name \in Files \ files,
         j = Quit => /\ exit \in {"draining", "ended"}
                     /\ new.ok => job[Quit].ok
                     /\ new.pc = "publish" => new.latest,
         \/ new.pc \in Counted /\ job[j].pc \in Counted /\ pending' = pending
         \/ new.pc \notin Counted /\ job[j].pc \notin Counted /\ pending' = pending
         \/ new.pc \in Counted /\ job[j].pc \notin Counted /\ pending' = pending + 1
         \/ new.pc \notin Counted /\ job[j].pc \in Counted /\ pending' = pending - 1,
         ~shutdown /\ job[j].pc \in Before => new.pc \in Before,
         ~shutdown /\ job[j].pc \in Counted \cup {"emit"} => new.pc \in Counted \cup {"emit"},
         new.pc = "emit" /\ ~shutdown /\ new.left > 0 => \E k \in Jobs : k # j /\ job[k].pc \in Before
  PROVE  BackupInv'
<1>1. Types /\ SafeInv /\ CountInv /\ UiInv
  BY DEF BackupInv
<1>2. Types'
  BY <1>1 DEF Types, JobType
<1>3. new.pc \in Working => gate' = j
  BY <1>1 DEF SafeInv, WorkersHoldGate
<1>4. SafeInv'
  BY <1>1, <1>3, SafeMoves
<1>5. CountInv'
  BY <1>1, CountMoves
<1>6. UiInv'
  BY <1>1, UiMoves
<1> QED
  BY <1>2, <1>4, <1>5, <1>6 DEF BackupInv

LEMMA JobIsTyped ==
  ASSUME BackupInv, NEW j \in Jobs
  PROVE  job[j] \in JobType /\ (job[j].pc \notin Out => job[j].reason \in Reasons)
BY DEF BackupInv, Types

\* The exit's job is on its way only while the exit drains.
LEMMA QuitIsOut ==
  ASSUME BackupInv, NEW j \in Jobs, j = Quit, job[j].pc # "idle"
  PROVE  exit \in {"draining", "ended"}
BY DEF BackupInv, SafeInv, ExitInv

LEMMA LocksAreFinite == BackupInv => locks \subseteq Files /\ IsFiniteSet(locks)
BY DEF BackupInv, Types

LEMMA AskStep ==
  ASSUME BackupInv, NEW j \in Callers \cup {Sched}, NEW reason \in Reasons, Ask(j, reason),
         UNCHANGED <<now, disk, pending, gate, shutdown, exit, owed, ui>>
  PROVE  BackupInv'
<1>1. j \in Jobs /\ j # Quit
  BY BackupConstants DEF Jobs
<1>2. PICK new \in JobType : new = [Idle EXCEPT !.pc = "asked", !.reason = reason]
  BY DEF Idle, JobType, Pcs
<1>3. new.pc = "asked" /\ new.reason = reason
  BY <1>2 DEF JobType
<1>4. job' = [job EXCEPT ![j] = new] /\ job[j].pc = "idle"
  BY <1>2 DEF Ask, At
<1> QED
  BY <1>1, <1>3, <1>4, MoveStep, LocksAreFinite
     DEF disk, Counted, Before, Working

LEMMA AdmissionStep ==
  ASSUME BackupInv, NEW j \in Jobs, Count(j) \/ Recheck(j) \/ Enqueue(j)
  PROVE  BackupInv'
<1>1. PICK d \in JobType : d = job[j]
  BY JobIsTyped
<1>2. /\ locks' \subseteq Files /\ IsFiniteSet(locks')
      /\ UNCHANGED <<now, files, gate, shutdown, exit, owed, ui>>
  BY LocksAreFinite DEF Count, Recheck, Enqueue, disk
<1>3. job[j].pc # "idle"
  BY DEF Count, Recheck, Enqueue, At
<1>4. CASE Count(j)
  <2>1. PICK new \in JobType : new = [d EXCEPT !.pc = "counted"] /\ new.pc = "counted"
                               /\ new.ok = d.ok /\ new.reason = d.reason
    <3>1. "counted" \in Pcs
      BY DEF Pcs
    <3> QED
      BY <3>1, PcForm
  <2>2. job' = [job EXCEPT ![j] = new] /\ d.pc = "asked" /\ pending' = pending + 1
    BY <1>1, <1>4, <2>1 DEF Count, At, Goto
  <2> QED
    BY <1>1, <1>2, <1>3, <2>1, <2>2, QuitIsOut, MoveStep, JobIsTyped
       DEF Counted, Before, Working, Out
<1>5. CASE Recheck(j) /\ Allowed(job[j].reason)
  <2>1. PICK new \in JobType : new = [d EXCEPT !.pc = "admitted"] /\ new.pc = "admitted"
                               /\ new.ok = d.ok /\ new.reason = d.reason
    <3>1. "admitted" \in Pcs
      BY DEF Pcs
    <3> QED
      BY <3>1, PcForm
  <2>2. job' = [job EXCEPT ![j] = new] /\ d.pc = "counted" /\ pending' = pending
    BY <1>1, <1>5, <2>1 DEF Recheck, At, Goto
  <2> QED
    BY <1>1, <1>2, <1>3, <2>1, <2>2, QuitIsOut, MoveStep, JobIsTyped
       DEF Counted, Before, Working, Out
<1>6. CASE Recheck(j) /\ ~Allowed(job[j].reason)
  <2>1. /\ job' = [job EXCEPT ![j] = Idle] /\ job[j].pc = "counted"
        /\ pending' = pending - 1 /\ shutdown
    BY <1>6 DEF Recheck, At, Allowed, BackupInv, Types
  <2> QED
    BY <1>2, <1>3, <2>1, IdleForm, QuitIsOut, MoveStep, JobIsTyped
       DEF Counted, Before, Working, Out
<1>7. CASE Enqueue(j)
  <2>1. PICK new \in JobType : new = [d EXCEPT !.pc = "queued"] /\ new.pc = "queued"
                               /\ new.ok = d.ok /\ new.reason = d.reason
    <3>1. "queued" \in Pcs
      BY DEF Pcs
    <3> QED
      BY <3>1, PcForm
  <2>2. job' = [job EXCEPT ![j] = new] /\ d.pc = "admitted" /\ pending' = pending
    BY <1>1, <1>7, <2>1 DEF Enqueue, At, Goto
  <2> QED
    BY <1>1, <1>2, <1>3, <2>1, <2>2, QuitIsOut, MoveStep, JobIsTyped
       DEF Counted, Before, Working, Out
<1> QED
  BY <1>4, <1>5, <1>6, <1>7

\* A job that moves on at the gate, with its count and the events as they are.
LEMMA WorkStep ==
  ASSUME BackupInv, NEW j \in Jobs, NEW new \in JobType,
         job' = [job EXCEPT ![j] = new],
         job[j].pc \in Working \ {"emit"}, new.pc \in Working \ {"emit"},
         new.pc \in Out \/ new.reason \in Reasons,
         UNCHANGED <<now, gate, shutdown, exit, pending, ui>>,
         owed' \in BOOLEAN, files' \subseteq Files, IsFiniteSet(files'),
         locks' \subseteq Files, IsFiniteSet(locks'),
         owed' => owed,
         \A k \in Jobs : k # j /\ job[k].pc \in {"vacuum", "publish"} => job[k].name \notin files',
         new.pc \in {"vacuum", "publish"} => new.name \in Files \ files',
         new.ok => job[j].ok \/ ~owed' \/ j # Quit,
         j = Quit /\ new.pc = "publish" => new.latest
  PROVE  BackupInv'
<1>1. Types /\ SafeInv /\ CountInv /\ UiInv
  BY DEF BackupInv
<1>2. Types'
  BY <1>1 DEF Types
<1>3. job'[j] = new /\ \A k \in Jobs : k # j => job'[k] = job[k]
  BY <1>1 DEF Types
<1>4. WorkersHoldGate' /\ NamesAreNew'
  BY <1>1, <1>3 DEF SafeInv, WorkersHoldGate, NamesAreNew
<1>5. ExitInv'
  <2>1. CASE j = Quit
    <3>1. exit \in {"draining", "ended"}
      BY <2>1, QuitIsOut DEF Working
    <3> QED
      BY <1>1, <1>3, <2>1, <3>1 DEF ExitInv, SafeInv
  <2>2. CASE j # Quit
    BY <1>1, <1>3, <2>2, QuitIsAJob DEF ExitInv, SafeInv
  <2> QED
    BY <2>1, <2>2
<1>6. CountInv'
  BY <1>1, CountMoves DEF Counted
<1>7. UiInv'
  BY <1>1, UiMoves DEF Counted, Before, Working
<1> QED
  BY <1>2, <1>4, <1>5, <1>6, <1>7 DEF BackupInv, SafeInv

LEMMA OnlyOneWorks ==
  ASSUME BackupInv, NEW j \in Jobs, job[j].pc \in Working
  PROVE  gate = j /\ \A k \in Jobs : k # j => job[k].pc \notin Working
BY DEF BackupInv, SafeInv, WorkersHoldGate

LEMMA FilesAreFinite == BackupInv => files \subseteq Files /\ IsFiniteSet(files) /\ owed \in BOOLEAN
BY DEF BackupInv, Types

LEMMA ReserveStep ==
  ASSUME BackupInv, NEW j \in Jobs, Reserve(j)
  PROVE  BackupInv'
<1>1. PICK d \in JobType : d = job[j] /\ d.pc = "reserve" /\ d.reason \in Reasons
  BY JobIsTyped DEF Reserve, At, Out
<1>2. PICK n \in 0 .. Cardinality(files) + Cardinality(locks) :
        LET f == [reason |-> d.reason, at |-> now, n |-> n]
        IN  /\ FirstFree(f) /\ locks' = locks \cup {f}
            /\ job' = [job EXCEPT ![j].pc = "vacuum", ![j].name = f]
  BY <1>1 DEF Reserve
<1>3. n \in Nat /\ now \in Nat
  BY LocksAreFinite, FilesAreFinite, FS_CardinalityType DEF BackupInv, Types
<1>4. PICK f \in Files : f = [reason |-> d.reason, at |-> now, n |-> n]
  BY <1>1, <1>3 DEF Files
<1>5. f \notin files /\ locks' = locks \cup {f}
  BY <1>2, <1>4 DEF FirstFree, IsFree
<1>6. locks' \subseteq Files /\ IsFiniteSet(locks')
  BY <1>5, LocksAreFinite, FS_AddElement
<1>7. PICK new \in JobType : new = [d EXCEPT !.pc = "vacuum", !.name = f]
  BY <1>4 DEF JobType, Pcs
<1>8. new.pc = "vacuum" /\ new.name = f /\ new.ok = d.ok /\ new.reason = d.reason
  BY <1>7 DEF JobType
<1>9. job' = [job EXCEPT ![j] = new]
  BY <1>1, <1>2, <1>4, <1>7 DEF BackupInv, Types
<1>10. \A k \in Jobs : k # j => job[k].pc \notin Working
  BY <1>1, OnlyOneWorks DEF Working
<1>11. UNCHANGED <<now, gate, shutdown, exit, pending, ui, owed, files>>
  BY DEF Reserve
<1>12. /\ owed' \in BOOLEAN /\ (owed' => owed) /\ files' \subseteq Files /\ IsFiniteSet(files')
       /\ new.pc \in {"vacuum", "publish"} => new.name \in Files \ files'
       /\ new.ok => job[j].ok
       /\ job[j].pc \in Working \ {"emit"} /\ new.pc \in Working \ {"emit"}
       /\ new.pc # "publish" /\ new.reason \in Reasons
       /\ \A k \in Jobs : k # j => job[k].pc \notin {"vacuum", "publish"}
  BY <1>1, <1>4, <1>5, <1>8, <1>10, <1>11, FilesAreFinite DEF Working
<1> QED
  BY <1>6, <1>9, <1>11, <1>12, WorkStep

LEMMA VacuumStep ==
  ASSUME BackupInv, NEW j \in Jobs, Vacuum(j)
  PROVE  BackupInv'
<1>1. PICK d \in JobType : d = job[j] /\ d.pc = "vacuum" /\ d.reason \in Reasons
  BY JobIsTyped DEF Vacuum, At, Out
<1>2. d.name \in Files \ files
  BY <1>1 DEF BackupInv, SafeInv, NamesAreNew
<1>3. PICK new \in JobType : new = [d EXCEPT !.pc = "publish", !.latest = TRUE]
  BY DEF JobType, Pcs
<1>4. /\ new.pc = "publish" /\ new.name = d.name /\ new.ok = d.ok /\ new.latest
      /\ new.reason = d.reason
  BY <1>3 DEF JobType
<1>5. job' = [job EXCEPT ![j] = new]
  BY <1>1, <1>3 DEF Vacuum, BackupInv, Types
<1>6. \A k \in Jobs : k # j => job[k].pc \notin Working
  BY <1>1, OnlyOneWorks DEF Working
<1>7. UNCHANGED <<now, gate, shutdown, exit, pending, ui, owed, files, locks>>
  BY DEF Vacuum, disk
<1>8. /\ owed' \in BOOLEAN /\ (owed' => owed) /\ files' \subseteq Files /\ IsFiniteSet(files')
      /\ locks' \subseteq Files /\ IsFiniteSet(locks')
      /\ new.pc \in {"vacuum", "publish"} => new.name \in Files \ files'
      /\ new.ok => job[j].ok
      /\ job[j].pc \in Working \ {"emit"} /\ new.pc \in Working \ {"emit"}
      /\ new.reason \in Reasons /\ new.latest
      /\ \A k \in Jobs : k # j => job[k].pc \notin {"vacuum", "publish"}
  BY <1>1, <1>2, <1>4, <1>6, <1>7, FilesAreFinite, LocksAreFinite DEF Working
<1> QED
  BY <1>5, <1>7, <1>8, WorkStep

\* The exit's backup was read after the last commit it has to cover.
LEMMA PublishStep ==
  ASSUME BackupInv, NEW j \in Jobs, Publish(j)
  PROVE  BackupInv'
<1>1. PICK d \in JobType : d = job[j] /\ d.pc = "publish" /\ d.reason \in Reasons
  BY JobIsTyped DEF Publish, At, Out
<1>2. d.name \in Files \ files
  BY <1>1 DEF BackupInv, SafeInv, NamesAreNew
<1>3. PICK new \in JobType :
        new = [d EXCEPT !.pc = "prune", !.ok = TRUE, !.name = NoFile, !.latest = FALSE]
  BY DEF JobType, Pcs
<1>4. new.pc = "prune" /\ new.reason = d.reason
  BY <1>3 DEF JobType
<1>5. job' = [job EXCEPT ![j] = new]
  BY <1>1, <1>3 DEF Publish, BackupInv, Types
<1>6. \A k \in Jobs : k # j => job[k].pc \notin Working
  BY <1>1, OnlyOneWorks DEF Working
<1>7. files' \subseteq Files /\ IsFiniteSet(files')
  BY <1>1, <1>2, FilesAreFinite, FS_AddElement DEF Publish
<1>8. locks' \subseteq Files /\ IsFiniteSet(locks')
  BY <1>1, LocksAreFinite, FS_RemoveElement DEF Publish
<1>9. owed' \in BOOLEAN /\ (owed' => owed)
  BY FilesAreFinite DEF Publish
<1>10. j = Quit => ~owed'
  BY <1>1 DEF Publish, BackupInv, SafeInv, ExitInv
<1>11. UNCHANGED <<now, gate, shutdown, exit, pending, ui>>
  BY DEF Publish
<1>12. /\ job[j].pc \in Working \ {"emit"} /\ new.pc \in Working \ {"emit"}
       /\ new.pc \notin {"vacuum", "publish"} /\ new.reason \in Reasons
       /\ \A k \in Jobs : k # j => job[k].pc \notin {"vacuum", "publish"}
  BY <1>1, <1>4, <1>6 DEF Working
<1> QED
  BY <1>5, <1>7, <1>8, <1>9, <1>10, <1>11, <1>12, WorkStep

LEMMA FailStep ==
  ASSUME BackupInv, NEW j \in Jobs, Fail(j)
  PROVE  BackupInv'
<1>1. PICK d \in JobType : /\ d = job[j] /\ d.pc \in {"reserve", "vacuum", "publish"}
                           /\ d.reason \in Reasons
  BY JobIsTyped DEF Fail, At, Out
<1>2. PICK new \in JobType :
        new = [d EXCEPT !.pc = "finish", !.name = NoFile, !.latest = FALSE]
  BY DEF JobType, Pcs
<1>3. new.pc = "finish" /\ new.reason = d.reason /\ new.ok = d.ok
  BY <1>2 DEF JobType
<1>4. job' = [job EXCEPT ![j] = new]
  BY <1>1, <1>2 DEF Fail, BackupInv, Types
<1>5. \A k \in Jobs : k # j => job[k].pc \notin Working
  BY <1>1, OnlyOneWorks DEF Working
<1>6. locks' \subseteq Files /\ IsFiniteSet(locks')
  BY <1>1, LocksAreFinite, FS_RemoveElement DEF Fail
<1>7. UNCHANGED <<now, gate, shutdown, exit, pending, ui>>
  BY DEF Fail
<1>8. /\ owed' \in BOOLEAN /\ (owed' => owed) /\ files' \subseteq Files /\ IsFiniteSet(files')
  <2>1. CASE UNCHANGED <<files, owed>>
    BY <2>1, FilesAreFinite
  <2>2. CASE /\ job[j].pc = "publish" /\ files' = files \cup {job[j].name}
             /\ owed' = (owed /\ ~job[j].latest)
    <3>1. job[j].name \in Files
      BY <2>2 DEF BackupInv, SafeInv, NamesAreNew
    <3> QED
      BY <2>2, <3>1, FilesAreFinite, FS_AddElement
  <2> QED
    BY <2>1, <2>2 DEF Fail, At
<1>9. /\ new.ok => job[j].ok
      /\ job[j].pc \in Working \ {"emit"} /\ new.pc \in Working \ {"emit"}
      /\ new.pc \notin {"vacuum", "publish"} /\ new.reason \in Reasons
      /\ \A k \in Jobs : k # j => job[k].pc \notin {"vacuum", "publish"}
  BY <1>1, <1>3, <1>5 DEF Working
<1> QED
  BY <1>4, <1>6, <1>7, <1>8, <1>9, WorkStep

LEMMA PruneStep ==
  ASSUME BackupInv, NEW j \in Jobs, Prune(j)
  PROVE  BackupInv'
<1>1. PICK d \in JobType : d = job[j] /\ d.pc = "prune" /\ d.reason \in Reasons
  BY JobIsTyped DEF Prune, At, Out
<1>2. PICK new \in JobType : /\ new = [d EXCEPT !.pc = "finish"] /\ new.pc = "finish"
                             /\ new.ok = d.ok /\ new.reason = d.reason
  <2>1. "finish" \in Pcs
    BY DEF Pcs
  <2> QED
    BY <2>1, PcForm
<1>3. job' = [job EXCEPT ![j] = new]
  BY <1>1, <1>2 DEF Prune, Goto
<1>4. files' \subseteq files
  BY PruneKeeps DEF BackupInv
<1>5. files' \subseteq Files /\ IsFiniteSet(files')
  BY <1>4, FilesAreFinite, FS_Subset
<1>6. \A k \in Jobs : k # j => job[k].pc \notin Working
  BY <1>1, OnlyOneWorks DEF Working
<1> QED
  BY <1>1, <1>2, <1>3, <1>5, <1>6, WorkStep, FilesAreFinite, LocksAreFinite DEF Prune, Working

\* The gate is free, so nobody else is at work.
LEMMA StartStep ==
  ASSUME BackupInv, NEW j \in Jobs, Start(j)
  PROVE  BackupInv'
<1>1. Types /\ SafeInv /\ CountInv /\ UiInv
  BY DEF BackupInv
<1>2. PICK d \in JobType : d = job[j] /\ d.pc = "queued" /\ d.reason \in Reasons
  BY JobIsTyped DEF Start, At, Out
<1>3. PICK new \in JobType : /\ new = [d EXCEPT !.pc = "reserve"] /\ new.pc = "reserve"
                             /\ new.ok = d.ok /\ new.reason = d.reason
  <2>1. "reserve" \in Pcs
    BY DEF Pcs
  <2> QED
    BY <2>1, PcForm
<1>4. job' = [job EXCEPT ![j] = new]
  BY <1>2, <1>3 DEF Start, Goto
<1>5. /\ gate = None /\ gate' = j /\ ui' = "saving"
      /\ UNCHANGED <<now, files, locks, pending, shutdown, exit, owed>>
  BY DEF Start, Next1, disk
<1>6. \A k \in Jobs : job[k].pc \notin Working
  BY <1>1, <1>5, BackupConstants DEF SafeInv, WorkersHoldGate, Jobs
<1>7. job'[j] = new /\ \A k \in Jobs : k # j => job'[k] = job[k]
  BY <1>1, <1>4 DEF Types
<1>8. Types'
  <2>1. job' \in [Jobs -> JobType]
    BY <1>1, <1>4 DEF Types
  <2>2. \A k \in Jobs : job'[k].pc \notin Out => job'[k].reason \in Reasons
    BY <1>1, <1>2, <1>3, <1>7 DEF Types
  <2> QED
    BY <1>1, <1>5, <2>1, <2>2 DEF Types
<1>9. SafeInv'
  <2>1. j = Quit => exit \in {"draining", "ended"}
    BY <1>2, QuitIsOut
  <2> QED
    BY <1>1, <1>2, <1>3, <1>4, <1>5, <1>6, <2>1, SafeMoves
<1>10. CountInv'
  BY <1>1, <1>2, <1>3, <1>4, <1>5, CountMoves DEF Counted, Before, Working
<1>11. UiInv'
  BY <1>3, <1>5, <1>6, <1>7 DEF UiInv, Working, Counted
<1> QED
  BY <1>8, <1>9, <1>10, <1>11 DEF BackupInv

\* Others that count are before the gate, for its holder is this job.
LEMMA FinishStep ==
  ASSUME BackupInv, NEW j \in Jobs, Finish(j)
  PROVE  BackupInv'
<1>1. PICK d \in JobType : d = job[j] /\ d.pc = "finish" /\ d.reason \in Reasons
  BY JobIsTyped DEF Finish, At, Out
<1>2. /\ IsFiniteSet(CountedJobs) /\ Cardinality(CountedJobs) \in Nat
      /\ pending \in Nat /\ pending >= Cardinality(CountedJobs)
      /\ ~shutdown => pending = Cardinality(CountedJobs)
  BY FS_CardinalityType DEF CountInv, BackupInv
<1>3. j \in CountedJobs
  BY <1>1 DEF CountedJobs, Counted, Working
<1>4. /\ IsFiniteSet(CountedJobs \ {j})
      /\ Cardinality(CountedJobs \ {j}) = Cardinality(CountedJobs) - 1
      /\ Cardinality(CountedJobs \ {j}) \in Nat
  BY <1>2, <1>3, FS_RemoveElement, FS_CardinalityType
<1>5. pending - 1 \in Nat /\ (~shutdown => pending - 1 = Cardinality(CountedJobs \ {j}))
  BY <1>2, <1>4
<1>6. PICK new \in JobType : new = [d EXCEPT !.pc = "emit", !.left = pending - 1]
  BY <1>5 DEF JobType, Pcs
<1>7. /\ new.pc = "emit" /\ new.left = pending - 1 /\ new.ok = d.ok
      /\ new.reason = d.reason
  BY <1>6 DEF JobType
<1>8. job' = [job EXCEPT ![j] = new]
  BY <1>1, <1>6 DEF Finish, BackupInv, Types
<1>9. \A k \in Jobs : k # j => job[k].pc \notin Working
  BY <1>1, OnlyOneWorks DEF Working
<1>10. ~shutdown /\ new.left > 0 => \E k \in Jobs : k # j /\ job[k].pc \in Before
  <2> SUFFICES ASSUME ~shutdown, new.left > 0
               PROVE  \E k \in Jobs : k # j /\ job[k].pc \in Before
    OBVIOUS
  <2>1. CountedJobs \ {j} # {}
    BY <1>4, <1>5, <1>7, FS_EmptySet
  <2>2. PICK k \in CountedJobs : k # j
    BY <2>1
  <2> QED
    BY <1>9, <2>2 DEF CountedJobs, Counted
<1>11. /\ UNCHANGED <<now, files, locks, gate, shutdown, exit, owed, ui>>
       /\ pending' = pending - 1
  BY DEF Finish, disk
<1>12. /\ new.pc \in Working /\ job[j].pc \in Working
       /\ new.pc \notin {"vacuum", "publish"}
       /\ new.pc \notin Counted /\ job[j].pc \in Counted /\ job[j].pc \notin Before
       /\ new.pc \in Counted \cup {"emit"}
  BY <1>1, <1>7 DEF Counted, Working, Before
<1>13. j = Quit => exit \in {"draining", "ended"}
  BY <1>1, QuitIsOut
<1> QED
  BY <1>1, <1>7, <1>8, <1>10, <1>11, <1>12, <1>13, MoveStep, LocksAreFinite

LEMMA EmitStep ==
  ASSUME BackupInv, NEW j \in Jobs, Emit(j)
  PROVE  BackupInv'
<1>1. Types /\ SafeInv /\ CountInv /\ UiInv
  BY DEF BackupInv
<1>2. PICK d \in JobType : d = job[j] /\ d.pc = "emit"
  BY JobIsTyped DEF Emit, At
<1>3. \A k \in Jobs : k # j => job[k].pc \notin Working
  BY <1>2, OnlyOneWorks DEF Working
<1>4. /\ gate' = None /\ ui' \in {"failed", "saving", "saved"}
      /\ ui' = "saving" => d.left > 0
      /\ UNCHANGED <<now, files, locks, pending, shutdown, owed>>
  BY <1>2 DEF Emit, disk
<1>5. PICK new \in JobType :
        /\ job' = [job EXCEPT ![j] = new] /\ new.pc \in Out
        /\ j = Quit => new.pc = "done" /\ new.ok = d.ok /\ exit' = "ended"
        /\ j # Quit => exit' = exit
  <2>1. CASE j = Quit
    <3>1. PICK new \in JobType : /\ new = [d EXCEPT !.pc = "done"] /\ new.pc = "done"
                                 /\ new.ok = d.ok
      <4>1. "done" \in Pcs
        BY DEF Pcs
      <4> QED
        BY <4>1, PcForm
    <3> QED
      BY <1>2, <2>1, <3>1 DEF Emit, Goto, Out
  <2>2. CASE j # Quit
    BY <2>2, IdleForm DEF Emit, Out
  <2> QED
    BY <2>1, <2>2
<1>6. job'[j] = new /\ \A k \in Jobs : k # j => job'[k] = job[k]
  BY <1>1, <1>5 DEF Types
<1>7. Types'
  BY <1>1, <1>4, <1>5, <1>6 DEF Types
<1>8. WorkersHoldGate' /\ NamesAreNew'
  BY <1>1, <1>3, <1>4, <1>5, <1>6 DEF SafeInv, WorkersHoldGate, NamesAreNew, Working, Out
<1>9. ExitInv'
  <2>1. CASE j = Quit
    <3>1. exit \in {"draining", "ended"}
      BY <1>2, <2>1, QuitIsOut
    <3> QED
      BY <1>1, <1>2, <1>4, <1>5, <1>6, <2>1, <3>1 DEF ExitInv, SafeInv
  <2>2. CASE j # Quit
    BY <1>1, <1>4, <1>5, <1>6, <2>2, QuitIsAJob DEF ExitInv, SafeInv
  <2> QED
    BY <2>1, <2>2
<1>10. CountInv'
  <2>1. new.pc \notin Counted /\ job[j].pc \notin Counted
    BY <1>2, <1>5 DEF Counted, Before, Working, Out
  <2> QED
    BY <1>1, <1>4, <1>5, <2>1, CountMoves
<1>11. UiInv'
  <2>1. \A k \in Jobs : job'[k].pc # "emit"
    BY <1>3, <1>5, <1>6 DEF Working, Out
  <2>2. ~shutdown /\ d.left > 0 => \E k \in Jobs : job'[k].pc \in Counted
    BY <1>1, <1>2, <1>6 DEF UiInv, Counted, Before
  <2> QED
    BY <1>4, <2>1, <2>2 DEF UiInv
<1> QED
  BY <1>7, <1>8, <1>9, <1>10, <1>11 DEF BackupInv, SafeInv

(***************************************************************************)
(* The exit, the crash and the commits.                                    *)
(***************************************************************************)
LEMMA DrainStep ==
  ASSUME BackupInv, Drain
  PROVE  BackupInv'
<1>1. Types /\ SafeInv /\ CountInv /\ UiInv
  BY DEF BackupInv
<1>2. PICK d \in JobType : d = job[Quit]
  BY JobIsTyped, QuitIsAJob
<1>3. PICK new \in JobType : /\ new = [d EXCEPT !.pc = "draining"] /\ new.pc = "draining"
                             /\ new.ok = d.ok
  <2>1. "draining" \in Pcs
    BY DEF Pcs
  <2> QED
    BY <2>1, PcForm
<1>4. /\ job' = [job EXCEPT ![Quit] = new] /\ exit = "agents" /\ exit' = "draining"
      /\ UNCHANGED <<now, files, locks, pending, gate, shutdown, owed, ui>>
  BY <1>2, <1>3 DEF Drain, Goto, disk
<1>5. d.pc = "idle" /\ shutdown
  BY <1>1, <1>2, <1>4 DEF SafeInv, ExitInv
<1>6. job'[Quit] = new /\ \A k \in Jobs : k # Quit => job'[k] = job[k]
  BY <1>1, <1>4, QuitIsAJob DEF Types
<1>7. Types'
  BY <1>1, <1>3, <1>4, <1>6 DEF Types, Out
<1>8. SafeInv'
  BY <1>1, <1>2, <1>3, <1>4, <1>5, <1>6
     DEF SafeInv, WorkersHoldGate, NamesAreNew, ExitInv, Working
<1>9. CountInv'
  BY <1>1, <1>2, <1>3, <1>4, <1>5, QuitIsAJob, CountMoves DEF Counted, Before, Working
<1>10. UiInv'
  BY <1>1, <1>4, <1>5 DEF UiInv
<1> QED
  BY <1>7, <1>8, <1>9, <1>10 DEF BackupInv

LEMMA DrainedStep ==
  ASSUME BackupInv, Drained
  PROVE  BackupInv'
<1>1. PICK new \in JobType : new = [Idle EXCEPT !.pc = "asked", !.reason = "app_exit"]
  BY DEF Idle, JobType, Pcs, Reasons
<1>2. new.pc = "asked" /\ new.reason \in Reasons /\ ~new.ok
  BY <1>1 DEF JobType, Idle, Reasons
<1>3. /\ job' = [job EXCEPT ![Quit] = new] /\ job[Quit].pc = "draining"
      /\ UNCHANGED <<now, files, locks, pending, gate, shutdown, exit, owed, ui>>
  BY <1>1 DEF Drained, At, disk
<1>4. exit \in {"draining", "ended"}
  BY <1>3, QuitIsOut, QuitIsAJob
<1> QED
  BY <1>2, <1>3, <1>4, QuitIsAJob, MoveStep, LocksAreFinite
     DEF Counted, Before, Working

\* The dropped drain takes its place with it; its count may stay.
LEMMA TimedOutStep ==
  ASSUME BackupInv, TimedOut
  PROVE  BackupInv'
<1>1. Types /\ SafeInv /\ CountInv /\ UiInv
  BY DEF BackupInv
<1>2. PICK new \in JobType : new = [Idle EXCEPT !.pc = "done"]
  BY DEF Idle, JobType, Pcs
<1>3. new.pc = "done" /\ ~new.ok
  BY <1>2 DEF JobType, Idle
<1>4. /\ job' = [job EXCEPT ![Quit] = new] /\ exit = "draining" /\ exit' = "ended"
      /\ gate' = IF gate = Quit THEN None ELSE gate
      /\ locks' = locks \ {job[Quit].name}
      /\ UNCHANGED <<now, files, pending, shutdown, owed, ui>>
  BY <1>2 DEF TimedOut, QuitDropped
<1>5. job'[Quit] = new /\ \A k \in Jobs : k # Quit => job'[k] = job[k]
  BY <1>1, <1>4, QuitIsAJob DEF Types
<1>6. locks' \subseteq Files /\ IsFiniteSet(locks')
  BY <1>4, LocksAreFinite, FS_RemoveElement
<1>7. Types'
  BY <1>1, <1>3, <1>4, <1>5, <1>6 DEF Types, Out
<1>8. SafeInv'
  <2>1. WorkersHoldGate'
    BY <1>1, <1>3, <1>4, <1>5 DEF SafeInv, WorkersHoldGate, Working
  <2>2. NamesAreNew' /\ ExitInv'
    BY <1>1, <1>3, <1>4, <1>5 DEF SafeInv, NamesAreNew, ExitInv
  <2> QED
    BY <2>1, <2>2 DEF SafeInv
<1>9. shutdown
  BY <1>1, <1>4 DEF SafeInv, ExitInv
<1>10. CountInv'
  <2>1. CountedJobs' \in SUBSET CountedJobs
    BY <1>3, <1>5 DEF CountedJobs, Counted, Before, Working
  <2>2. /\ IsFiniteSet(CountedJobs) /\ Cardinality(CountedJobs) \in Nat
        /\ pending \in Nat /\ pending >= Cardinality(CountedJobs)
    BY <1>1, FS_CardinalityType DEF CountInv
  <2>3. /\ IsFiniteSet(CountedJobs') /\ Cardinality(CountedJobs') <= Cardinality(CountedJobs)
        /\ Cardinality(CountedJobs') \in Nat
    BY <2>1, <2>2, FS_Subset, FS_CardinalityType
  <2> QED
    BY <1>4, <1>9, <2>2, <2>3 DEF CountInv
<1>11. UiInv'
  BY <1>1, <1>4, <1>9 DEF UiInv
<1> QED
  BY <1>7, <1>8, <1>10, <1>11 DEF BackupInv

LEMMA GoneStep ==
  ASSUME BackupInv, Gone
  PROVE  BackupInv'
<1>1. \A j \in Jobs : job'[j] = Idle
  BY DEF Gone
<1>2. Types'
  BY <1>1, IdleForm DEF Gone, disk, BackupInv, Types, Out
<1>3. SafeInv'
  BY <1>1, IdleForm, QuitIsAJob
     DEF Gone, SafeInv, WorkersHoldGate, NamesAreNew, ExitInv, Working
<1>4. CountInv'
  <2>1. CountedJobs' = {}
    BY <1>1, IdleForm DEF CountedJobs, Counted, Before, Working
  <2> QED
    BY <2>1, FS_EmptySet DEF Gone, CountInv
<1>5. UiInv'
  BY <1>1, IdleForm DEF Gone, UiInv
<1> QED
  BY <1>2, <1>3, <1>4, <1>5 DEF BackupInv

LEMMA CommitStep ==
  ASSUME BackupInv, Commit
  PROVE  BackupInv'
<1>1. Types /\ SafeInv /\ CountInv /\ UiInv
  BY DEF BackupInv
<1>2. \A j \in Jobs : /\ job'[j] \in JobType /\ job'[j].pc = job[j].pc
                      /\ job'[j].name = job[j].name /\ job'[j].ok = job[j].ok
                      /\ job'[j].left = job[j].left /\ job'[j].reason = job[j].reason
  <2> TAKE j \in Jobs
  <2>1. PICK d \in JobType : d = job[j]
    BY JobIsTyped
  <2>2. job'[j] = [d EXCEPT !.latest = FALSE]
    BY <2>1 DEF Commit
  <2> QED
    BY <2>1, <2>2 DEF JobType
<1>3. /\ exit = "no" /\ owed' = TRUE /\ DOMAIN job' = Jobs /\ job' = [j \in Jobs |-> job'[j]]
      /\ UNCHANGED <<now, files, locks, pending, gate, shutdown, exit, ui>>
  BY DEF Commit, disk
<1>4. Types'
  <2>1. job' \in [Jobs -> JobType]
    BY <1>2, <1>3
  <2> QED
    BY <1>1, <1>2, <1>3, <2>1 DEF Types
<1>5. SafeInv'
  BY <1>1, <1>2, <1>3, QuitIsAJob
     DEF SafeInv, WorkersHoldGate, NamesAreNew, ExitInv
<1>6. CountedJobs' = CountedJobs
  BY <1>2 DEF CountedJobs
<1>7. CountInv' /\ UiInv'
  BY <1>1, <1>2, <1>3, <1>6 DEF CountInv, UiInv
<1> QED
  BY <1>4, <1>5, <1>7 DEF BackupInv

\* Steps that move no job.
LEMMA QuietStep ==
  ASSUME BackupInv, Hide \/ ExitRequested \/ Restart \/ Tick \/ UNCHANGED vars
  PROVE  BackupInv'
<1>1. Types /\ SafeInv /\ CountInv /\ UiInv
  BY DEF BackupInv
<1>2. UNCHANGED <<files, locks, job, pending, gate, owed>>
  BY DEF Hide, ExitRequested, Restart, Tick, vars, disk
<1>3. /\ now' \in Nat
      /\ ui' = ui \/ (ui = "saved" /\ ui' = "idle")
      /\ shutdown' = shutdown \/ shutdown' = TRUE
      /\ \/ exit' = exit /\ shutdown' = shutdown
         \/ exit = "no" /\ exit' = "agents" /\ shutdown' = TRUE
         \/ exit = "gone" /\ exit' = "no" /\ shutdown' = shutdown
  <2>1. CASE Hide
    BY <1>1, <2>1 DEF Hide, Types
  <2>2. CASE ExitRequested
    BY <1>1, <2>2 DEF ExitRequested, Types
  <2>3. CASE Restart
    BY <1>1, <2>3 DEF Restart, Types
  <2>4. CASE Tick
    BY <1>1, <2>4 DEF Tick, Types
  <2>5. CASE UNCHANGED vars
    BY <1>1, <2>5 DEF vars, Types
  <2> QED
    BY <2>1, <2>2, <2>3, <2>4, <2>5
<1>4. Types'
  BY <1>1, <1>2, <1>3 DEF Types
<1>5. SafeInv'
  BY <1>1, <1>2, <1>3 DEF SafeInv, WorkersHoldGate, NamesAreNew, ExitInv
<1>6. CountedJobs' = CountedJobs
  BY <1>2 DEF CountedJobs
<1>7. CountInv'
  BY <1>1, <1>2, <1>3, <1>6 DEF CountInv, Types
<1>8. UiInv'
  BY <1>1, <1>2, <1>3 DEF UiInv, Types
<1> QED
  BY <1>4, <1>5, <1>7, <1>8 DEF BackupInv

LEMMA InitHolds == Init => BackupInv
<1> SUFFICES ASSUME Init PROVE BackupInv
  OBVIOUS
<1>1. \A j \in Jobs : job[j] = Idle
  BY DEF Init
<1>2. Types
  BY <1>1, IdleForm, FS_EmptySet DEF Init, Types, Out
<1>3. SafeInv
  BY <1>1, IdleForm, QuitIsAJob
     DEF Init, SafeInv, WorkersHoldGate, NamesAreNew, ExitInv, Working
<1>4. CountInv
  <2>1. CountedJobs = {}
    BY <1>1, IdleForm DEF CountedJobs, Counted, Before, Working
  <2> QED
    BY <2>1, FS_EmptySet DEF Init, CountInv
<1>5. UiInv
  BY <1>1, IdleForm DEF Init, UiInv
<1> QED
  BY <1>2, <1>3, <1>4, <1>5 DEF BackupInv

LEMMA AskingStep ==
  ASSUME BackupInv, (\E j \in Callers : Command(j)) \/ CatchUp \/ Scheduled
  PROVE  BackupInv'
<1>1. CASE \E j \in Callers : Command(j)
  <2>1. PICK j \in Callers : Command(j)
    BY <1>1
  <2>2. PICK reason \in ReasonsOf(j) : Ask(j, reason)
    BY <2>1 DEF Command
  <2>3. reason \in Reasons
    BY DEF ReasonsOf, Reasons
  <2> QED
    BY <2>1, <2>2, <2>3, AskStep DEF Command
<1>2. CASE CatchUp \/ Scheduled
  <2>1. CASE Ask(Sched, "scheduled")
    <3>1. "scheduled" \in Reasons
      BY DEF Reasons
    <3> QED
      BY <1>2, <2>1, <3>1, AskStep DEF CatchUp, Scheduled
  <2>2. CASE ~Ask(Sched, "scheduled")
    <3>1. UNCHANGED <<now, files, locks, job, pending, gate, shutdown, exit, owed, ui>>
      BY <1>2, <2>2 DEF CatchUp, Scheduled, disk
    <3> QED
      BY <3>1 DEF BackupInv, Types, SafeInv, WorkersHoldGate, NamesAreNew, ExitInv,
                  CountInv, CountedJobs, UiInv
  <2> QED
    BY <2>1, <2>2
<1> QED
  BY <1>1, <1>2

LEMMA NextHolds == BackupInv /\ [Next]_vars => BackupInv'
<1> SUFFICES ASSUME BackupInv, [Next]_vars PROVE BackupInv'
  OBVIOUS
<1>1. CASE (\E j \in Callers : Command(j)) \/ CatchUp \/ Scheduled
  BY <1>1, AskingStep
<1>2. ASSUME NEW j \in Jobs, JobStep(j) PROVE BackupInv'
  BY <1>2, AdmissionStep, StartStep, ReserveStep, VacuumStep, PublishStep, FailStep,
     PruneStep, FinishStep, EmitStep DEF JobStep
<1>3. CASE Drain \/ Drained \/ TimedOut
  BY <1>3, DrainStep, DrainedStep, TimedOutStep
<1>4. CASE Exit \/ Crash
  BY <1>4, GoneStep DEF Exit, Crash
<1>5. CASE Commit
  BY <1>5, CommitStep
<1>6. CASE Hide \/ ExitRequested \/ Restart \/ Tick \/ UNCHANGED vars
  BY <1>6, QuietStep
<1> QED
  BY <1>1, <1>2, <1>3, <1>4, <1>5, <1>6 DEF Next

(***************************************************************************)
(* The theorems.                                                           *)
(***************************************************************************)
\* The invariant holds of every behaviour.
THEOREM BackupInvariant == Spec => []BackupInv
BY InitHolds, NextHolds, PTL DEF Spec

\* While a job holds the gate the indicator says so, and once nobody is
\* counted, queued or run it does not say "saving" any more.
THEOREM IndicatorTellsTruth == Spec => []IndicatorIsTrue
<1>1. BackupInv => IndicatorIsTrue
  BY DEF BackupInv, UiInv, IndicatorIsTrue, Counted, Before, Working
<1> QED
  BY <1>1, BackupInvariant, PTL

\* A backup takes the place of no other.
THEOREM BackupIsNew == Spec => NeverOverwrites
<1>1. BackupInv =>
        [\A j \in Jobs : job[j].pc = "publish" /\ job'[j].pc \in {"prune", "finish"} =>
                           job[j].name \notin files]_vars
  BY DEF BackupInv, SafeInv, NamesAreNew
<1> QED
  BY <1>1, BackupInvariant, PTL DEF NeverOverwrites

\* Retention keeps every group's newest, whatever it fails to remove.
THEOREM RetentionKeepsTheNewest == Spec => KeepsTheNewest
<1>1. BackupInv /\ [Next]_vars =>
        [\A f \in files \ files' :
           \E g \in files' : Group(g.reason) = Group(f.reason) /\ Newer(g, f)]_vars
  <2> SUFFICES ASSUME BackupInv, [Next]_vars, NEW f \in files \ files'
               PROVE  \E g \in files' : Group(g.reason) = Group(f.reason) /\ Newer(g, f)
    OBVIOUS
  <2>1. PICK j \in Jobs : Prune(j)
    BY DEF Next, JobStep, Command, Count, Recheck, Enqueue, Start, Reserve, Vacuum, Publish,
           Fail, Finish, Emit, Hide, CatchUp, Scheduled, ExitRequested, Drain, Drained,
           TimedOut, QuitDropped, Exit, Crash, Gone, Restart, Commit, Tick, vars, disk
  <2> QED
    BY <2>1, PruneKeeps DEF BackupInv
<1> QED
  BY <1>1, BackupInvariant, PTL DEF Spec, KeepsTheNewest

\* A backup the exit has made covers every commit made before the exit.
THEOREM ExitCovers == Spec => []ExitBackupCoversCommits
<1>1. BackupInv => ExitBackupCoversCommits
  BY DEF BackupInv, SafeInv, ExitInv, ExitBackupCoversCommits
<1> QED
  BY <1>1, BackupInvariant, PTL
=============================================================================
