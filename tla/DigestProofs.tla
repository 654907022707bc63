---------------------------- MODULE DigestProofs ----------------------------
(***************************************************************************)
(* A digest reaches the owner at most once. A run's claims are numbered,   *)
(* so only one task holds the current one; it records the send before it   *)
(* makes it, and from then on nothing opens the run again.                 *)
(***************************************************************************)
EXTENDS Digest, TLAPS

(***************************************************************************)
(* Types. A task that has read the clock has an instant of the clock and a *)
(* target, one that holds a claim has a run and knows how it will end.     *)
(***************************************************************************)
Reading == {"recover", "startup", "hourly", "insert"}

Knows(d) ==
  /\ d.pc \in Reading => d.at \in Ticks /\ d.target \in Targets
  /\ d.pc \in Holding \cup {"insert"} => d.run \in Runs
  /\ d.pc = "write" => d.ends # "none"

\* So does a statement left behind.
KnowsLeft(s) ==
  /\ s.pc # "recover" => s.run \in Runs
  /\ s.pc = "write" => s.ends # "none"

TypeInv ==
  /\ TypeOK /\ now \in Ticks
  /\ \A t \in Tasks : Knows(task[t])
  /\ \A s \in left : KnowsLeft(s)

(***************************************************************************)
(* Claims. A run is out once its message may be on its way; an open claim  *)
(* is one that may still send, or that is about to open the run again.     *)
(***************************************************************************)
Sending == {"check", "send"}

Out(r) == sent[r] > 0 \/ \E t \in Tasks : task[t].run = r /\ task[t].pc \in Sending

Open(d) ==
  \/ d.pc \in {"build", "mark"}
  \/ d.pc = "write" /\ d.ends = "retry_waiting"

\* A task's claim is one its row has counted, and nobody else's.
ClaimsAreCounted ==
  \A t \in Tasks : task[t].pc \in Holding => task[t].token <= row[task[t].run].attempts

ClaimsAreDistinct ==
  \A t, u \in Tasks :
    /\ task[t].pc \in Holding /\ task[u].pc \in Holding
    /\ task[t].run = task[u].run /\ task[t].token = task[u].token
    => t = u

\* What is out was recorded first, and waits for nobody to claim it.
OutIsRecorded ==
  \A r \in Runs : Out(r) => /\ row[r].started
                            /\ row[r].status \in {"in_progress", "delivered", "failed"}

OneSends ==
  \A t \in Tasks : task[t].pc \in Sending =>
    /\ sent[task[t].run] = 0
    /\ \A u \in Tasks : task[u].pc \in Sending /\ task[u].run = task[t].run => u = t

OpenIsIn == \A t \in Tasks : Open(task[t]) /\ Mine(t) => ~Out(task[t].run)

\* A verdict left behind is that of a claim its row has counted and that no
\* task holds; it opens no run that is out.
LeftIsCounted ==
  \A s \in left : s.pc = "write" => s.token <= row[s.run].attempts

LeftIsAlone ==
  \A s \in left, t \in Tasks :
    /\ s.pc = "write" /\ task[t].pc \in Holding /\ task[t].run = s.run
    => task[t].token # s.token

LeftIsIn ==
  \A s \in left : s.pc = "write" /\ s.ends = "retry_waiting" /\ Current(s.run, s.token)
    => ~Out(s.run)

LeftInv == LeftIsCounted /\ LeftIsAlone /\ LeftIsIn

ClaimInv ==
  /\ ClaimsAreCounted /\ ClaimsAreDistinct
  /\ OutIsRecorded /\ OneSends /\ OpenIsIn
  /\ LeftInv /\ SentOnce

DigestInv == TypeInv /\ ClaimInv

(***************************************************************************)
(* Steps that send nothing and claim nothing.                              *)
(***************************************************************************)
\* A task lets its claim go, or keeps it and comes no nearer to a send; it
\* decides on a retry only of a run that is not out.
Follows(d, e) ==
  \/ e.pc \notin Holding
  \/ /\ d.pc \in Holding /\ e.run = d.run /\ e.token = d.token
     /\ e.pc \in Sending => d.pc \in Sending
     /\ Open(e) => Open(d) \/ ~Out(d.run)

\* A row keeps its count and its record of a send, no claim is made on it, and
\* it is not opened once it is out.
RowFollows(r) ==
  /\ row'[r].attempts = row[r].attempts
  /\ row[r].started => row'[r].started
  /\ row'[r].status = "in_progress" => /\ row[r].status = "in_progress"
                                       /\ row'[r].token = row[r].token
  /\ Out(r) => row'[r].status \in {"in_progress", "delivered", "failed"}

\* What is left behind was there, or is what a task was waiting for that gave
\* its claim up or was only recording the send.
LeftFollows ==
  \A s \in left' :
    \/ s \in left
    \/ \E t \in Tasks : /\ s = Statement(t) /\ task[t].pc \in Waiting
                       /\ (task'[t].pc \notin Holding \/ task[t].pc = "mark")

LEMMA HoldingPcs ==
  /\ Sending \subseteq Holding
  /\ \A d : Open(d) => d.pc \in Holding
BY DEF Sending, Holding, Open

LEMMA QuietStep ==
  ASSUME DigestInv, UNCHANGED sent, LeftFollows,
         \A t \in Tasks : Follows(task[t], task'[t]),
         \A r \in Runs : RowFollows(r)
  PROVE  ClaimInv'
<1>1. \A t \in Tasks : task'[t].pc \in Holding =>
         /\ task[t].pc \in Holding
         /\ task'[t].run = task[t].run /\ task'[t].token = task[t].token
         /\ task[t].run \in Runs
  BY DEF Follows, DigestInv, TypeInv, Knows
<1>2. \A t \in Tasks : task'[t].pc \in Sending =>
         task[t].pc \in Sending /\ task'[t].run = task[t].run
  BY <1>1, HoldingPcs DEF Follows
<1>3. \A r \in Runs : Out(r)' => Out(r)
  BY <1>2 DEF Out
<1>4. ClaimsAreCounted'
  BY <1>1 DEF ClaimsAreCounted, RowFollows, DigestInv, ClaimInv
<1>5. ClaimsAreDistinct'
  BY <1>1 DEF ClaimsAreDistinct, DigestInv, ClaimInv
<1>6. OutIsRecorded'
  BY <1>3 DEF OutIsRecorded, RowFollows, DigestInv, ClaimInv
<1>7. OneSends'
  BY <1>2 DEF OneSends, DigestInv, ClaimInv
<1>8. OpenIsIn'
  <2> SUFFICES ASSUME NEW t \in Tasks, Open(task[t])', Mine(t)'
               PROVE  ~Out(task[t].run)'
    BY DEF OpenIsIn
  <2>1. /\ task[t].pc \in Holding
        /\ task'[t].run = task[t].run /\ task'[t].token = task[t].token
    BY <1>1, HoldingPcs
  <2>2. PICK r \in Runs : r = task[t].run
    BY <1>1, HoldingPcs
  <2>3. Mine(t)
    BY <2>1, <2>2 DEF Mine, Current, RowFollows
  <2>4. Open(task[t]) \/ ~Out(r)
    BY <2>2, HoldingPcs DEF Follows
  <2>5. ~Out(r)
    BY <2>2, <2>3, <2>4 DEF OpenIsIn, DigestInv, ClaimInv
  <2> QED
    BY <1>3, <2>1, <2>2, <2>5
<1>9. SentOnce'
  BY DEF SentOnce, DigestInv, ClaimInv
<1>10. LeftInv'
  <2> SUFFICES ASSUME NEW s \in left', s.pc = "write"
               PROVE  /\ s.token <= row'[s.run].attempts
                      /\ \A t \in Tasks : task'[t].pc \in Holding /\ task'[t].run = s.run
                                          => task'[t].token # s.token
                      /\ s.ends = "retry_waiting" /\ Current(s.run, s.token)'
                           => ~Out(s.run)'
    BY DEF LeftInv, LeftIsCounted, LeftIsAlone, LeftIsIn
  <2>1. /\ s.run \in Runs /\ s.token <= row[s.run].attempts
        /\ \A t \in Tasks : task'[t].pc \in Holding /\ task[t].run = s.run
                            => task[t].token # s.token
        /\ s.ends = "retry_waiting" /\ Current(s.run, s.token) => ~Out(s.run)
    <3>1. CASE s \in left
      BY <1>1, <3>1 DEF DigestInv, TypeInv, KnowsLeft, ClaimInv, LeftInv, LeftIsCounted,
                 LeftIsAlone, LeftIsIn
    <3>2. ASSUME NEW t \in Tasks, s = Statement(t), task[t].pc \in Waiting,
                 task'[t].pc \notin Holding \/ task[t].pc = "mark"
          PROVE  /\ s.run \in Runs /\ s.token <= row[s.run].attempts
                 /\ \A u \in Tasks : task'[u].pc \in Holding /\ task[u].run = s.run
                                     => task[u].token # s.token
                 /\ s.ends = "retry_waiting" /\ Current(s.run, s.token) => ~Out(s.run)
      <4>1. /\ task[t].pc = "write" /\ s.run = task[t].run /\ s.token = task[t].token
            /\ s.ends = task[t].ends
        BY <3>2 DEF Statement
      <4>2. task[t].pc \in Holding /\ task'[t].pc \notin Holding
        BY <3>2, <4>1 DEF Holding
      <4>3. s.run \in Runs /\ s.token <= row[s.run].attempts
        BY <4>1, <4>2 DEF DigestInv, TypeInv, Knows, ClaimInv, ClaimsAreCounted
      <4>4. \A u \in Tasks : task'[u].pc \in Holding /\ task[u].run = s.run
                             => task[u].token # s.token
        BY <1>1, <4>1, <4>2 DEF DigestInv, ClaimInv, ClaimsAreDistinct
      <4>5. s.ends = "retry_waiting" /\ Current(s.run, s.token) => ~Out(s.run)
        BY <4>1 DEF DigestInv, ClaimInv, OpenIsIn, Open, Mine
      <4> QED
        BY <4>3, <4>4, <4>5
    <3> QED
      BY <3>1, <3>2 DEF LeftFollows
  <2>2. s.token <= row'[s.run].attempts
    BY <2>1 DEF RowFollows
  <2>3. Current(s.run, s.token)' => Current(s.run, s.token)
    BY <2>1 DEF RowFollows, Current
  <2> QED
    BY <1>1, <1>3, <2>1, <2>2, <2>3
<1> QED
  BY <1>4, <1>5, <1>6, <1>7, <1>8, <1>9, <1>10 DEF ClaimInv

LEMMA RowsStandStill ==
  ASSUME DigestInv, UNCHANGED row
  PROVE  \A r \in Runs : RowFollows(r)
BY DEF RowFollows, DigestInv, ClaimInv, OutIsRecorded

LEMMA LeftStandsStill == UNCHANGED left => LeftFollows
BY DEF LeftFollows

LEMMA LeftIsTyped ==
  ASSUME DigestInv, LeftFollows
  PROVE  left' \subseteq LeftType /\ \A s \in left' : KnowsLeft(s)
<1> SUFFICES ASSUME NEW s \in left'
             PROVE  s \in LeftType /\ KnowsLeft(s)
  OBVIOUS
<1>1. CASE s \in left
  BY <1>1 DEF DigestInv, TypeInv, TypeOK
<1>2. ASSUME NEW t \in Tasks, s = Statement(t), task[t].pc \in Waiting
      PROVE  s \in LeftType /\ KnowsLeft(s)
  <2>1. task[t] \in TaskType /\ Knows(task[t]) /\ now \in Nat
    BY DEF DigestInv, TypeInv, TypeOK
  <2>2. s \in LeftType
    <3>1. s.at \in Nat
      BY <1>2, <2>1 DEF Statement, TaskType
    <3> QED
      BY <1>2, <2>1, <3>1 DEF Statement, LeftType, TaskType
  <2>3. KnowsLeft(s)
    BY <1>2, <2>1 DEF Statement, KnowsLeft, Knows, Waiting, Holding
  <2> QED
    BY <2>2, <2>3
<1> QED
  BY <1>1, <1>2 DEF LeftFollows

\* One task moves on, and at most rows that it may touch change.
LEMMA MoveLeft ==
  ASSUME DigestInv, NEW t \in Tasks, NEW new \in TaskType,
         task' = [task EXCEPT ![t] = new], Knows(new), Follows(task[t], new),
         row' \in [Runs -> RowType], \A r \in Runs : RowFollows(r),
         LeftFollows, crossed' \subseteq Runs,
         UNCHANGED <<now, slot, sent>>
  PROVE  DigestInv'
<1>1. /\ task'[t] = new /\ task' \in [Tasks -> TaskType]
      /\ \A u \in Tasks : u # t => task'[u] = task[u]
  BY DEF DigestInv, TypeInv, TypeOK
<1>2. \A u \in Tasks : Knows(task'[u])
  BY <1>1 DEF DigestInv, TypeInv
<1>3. TypeInv'
  BY <1>1, <1>2, LeftIsTyped DEF DigestInv, TypeInv, TypeOK, Knows, KnowsLeft
<1>4. \A u \in Tasks : Follows(task[u], task'[u])
  <2>1. \A u \in Tasks : Follows(task[u], task[u])
    BY DEF Follows
  <2> QED
    BY <1>1, <2>1
<1>5. ClaimInv'
  BY <1>4, QuietStep
<1> QED
  BY <1>3, <1>5 DEF DigestInv

LEMMA MoveStep ==
  ASSUME DigestInv, NEW t \in Tasks, NEW new \in TaskType,
         task' = [task EXCEPT ![t] = new], Knows(new), Follows(task[t], new),
         row' \in [Runs -> RowType], \A r \in Runs : RowFollows(r),
         UNCHANGED <<now, slot, left, sent, crossed>>
  PROVE  DigestInv'
<1>1. crossed' \subseteq Runs
  BY DEF DigestInv, TypeInv, TypeOK
<1> QED
  BY <1>1, MoveLeft, LeftStandsStill

LEMMA OffForm == Off \in TaskType /\ Off.pc = "off"
BY DigestConstants DEF Off, TaskType, Pcs

LEMMA LoopForm ==
  ASSUME NEW d \in TaskType
  PROVE  Looping(d) \in TaskType /\ Looping(d).pc = "loop"
BY DigestConstants DEF Looping, Off, TaskType, Pcs

LEMMA PcForm ==
  ASSUME NEW d \in TaskType, NEW pc \in Pcs
  PROVE  /\ [d EXCEPT !.pc = pc] \in TaskType
         /\ [d EXCEPT !.pc = pc].pc = pc
         /\ [d EXCEPT !.pc = pc].run = d.run /\ [d EXCEPT !.pc = pc].token = d.token
         /\ [d EXCEPT !.pc = pc].at = d.at /\ [d EXCEPT !.pc = pc].target = d.target
         /\ [d EXCEPT !.pc = pc].ends = d.ends
BY DEF TaskType

\* A task that ends, or that starts its loop again.
LEMMA LeaveStep ==
  ASSUME DigestInv, NEW t \in Tasks, NEW new \in TaskType,
         task' = [task EXCEPT ![t] = new], new.pc \in {"off", "loop"},
         row' \in [Runs -> RowType], \A r \in Runs : RowFollows(r),
         UNCHANGED <<now, slot, left, sent, crossed>>
  PROVE  DigestInv'
<1>1. Knows(new) /\ Follows(task[t], new)
  BY DEF Knows, Follows, Holding, Reading
<1> QED
  BY <1>1, MoveStep

\* A task that is aborted, whose statement may stay behind.
LEMMA AbortStep ==
  ASSUME DigestInv, NEW t \in Tasks, Abort(t)
  PROVE  DigestInv'
<1>1. task' = [task EXCEPT ![t] = Off] /\ task \in [Tasks -> TaskType]
  BY DEF Abort, Finish, DigestInv, TypeInv, TypeOK
<1>2. Off \in TaskType /\ Off.pc = "off"
  BY DigestConstants DEF Off, TaskType, Pcs
<1>3. Knows(Off) /\ Follows(task[t], Off) /\ task'[t].pc \notin Holding
  BY <1>1, <1>2 DEF Knows, Follows, Holding, Reading
<1>4. LeftFollows
  BY <1>3 DEF Abort, Drop, LeftFollows
<1>5. /\ row' \in [Runs -> RowType] /\ \A r \in Runs : RowFollows(r)
      /\ crossed' \subseteq Runs /\ UNCHANGED <<now, slot, sent>>
  BY RowsStandStill DEF Abort, DigestInv, TypeInv, TypeOK
<1> QED
  BY <1>1, <1>2, <1>3, <1>4, <1>5, MoveLeft

LEMMA FinishStep ==
  ASSUME DigestInv, NEW t \in Tasks, Finish(t) \/ task' = [task EXCEPT ![t] = Looping(task[t])],
         row' \in [Runs -> RowType], \A r \in Runs : RowFollows(r),
         UNCHANGED <<now, slot, left, sent, crossed>>
  PROVE  DigestInv'
<1>1. task[t] \in TaskType
  BY DEF DigestInv, TypeInv, TypeOK
<1>2. PICK new \in TaskType : new.pc \in {"off", "loop"} /\ task' = [task EXCEPT ![t] = new]
  BY <1>1, OffForm, LoopForm DEF Finish
<1> QED
  BY <1>2, LeaveStep

\* A task that only changes its place.
LEMMA GotoStep ==
  ASSUME DigestInv, NEW t \in Tasks, NEW pc \in Pcs, Goto(t, pc),
         pc \in Holding => /\ task[t].pc \in Holding
                           /\ pc \in Sending => task[t].pc \in Sending
                           /\ pc \in {"build", "mark"} => task[t].pc \in {"build", "mark"},
         pc \notin {"write", "insert", "recover"},
         pc \in {"startup", "hourly"} => task[t].pc \in Reading,
         row' \in [Runs -> RowType], \A r \in Runs : RowFollows(r),
         UNCHANGED <<now, slot, left, sent, crossed>>
  PROVE  DigestInv'
<1>1. PICK d \in TaskType : d = task[t]
  BY DEF DigestInv, TypeInv, TypeOK
<1>2. Knows(d)
  BY <1>1 DEF DigestInv, TypeInv
<1>3. PICK new \in TaskType :
        /\ new = [d EXCEPT !.pc = pc] /\ new.pc = pc
        /\ new.run = d.run /\ new.token = d.token /\ new.at = d.at
        /\ new.target = d.target /\ new.ends = d.ends
  BY PcForm
<1>4. task' = [task EXCEPT ![t] = new]
  BY <1>1, <1>3 DEF Goto
<1>5. Knows(new)
  BY <1>1, <1>2, <1>3 DEF Knows, Reading
<1>6. Follows(d, new)
  BY <1>1, <1>3 DEF Follows, Open
<1> QED
  BY <1>1, <1>4, <1>5, <1>6, MoveStep

(***************************************************************************)
(* The supervisor and the loop.                                            *)
(***************************************************************************)
LEMMA RowsAreTyped == DigestInv => row \in [Runs -> RowType]
BY DEF DigestInv, TypeInv, TypeOK

LEMMA TaskIsTyped ==
  ASSUME DigestInv, NEW t \in Tasks
  PROVE  task[t] \in TaskType /\ Knows(task[t])
BY DEF DigestInv, TypeInv, TypeOK

\* Only places change hands: the tasks' claims and the tables stay.
LEMMA SlotStep ==
  ASSUME DigestInv, UNCHANGED <<now, row, sent, crossed>>, left' \subseteq left,
         slot' \in Tasks \cup {None},
         task' \in [Tasks -> TaskType],
         \A t \in Tasks : Knows(task'[t]) /\ Follows(task[t], task'[t])
  PROVE  DigestInv'
<1>1. ClaimInv'
  BY QuietStep, RowsStandStill DEF LeftFollows
<1>2. TypeInv'
  BY DEF DigestInv, TypeInv, TypeOK, Knows, KnowsLeft
<1> QED
  BY <1>1, <1>2 DEF DigestInv

LEMMA ReconcileStep ==
  ASSUME DigestInv, NEW ready \in BOOLEAN, Reconcile(ready)
  PROVE  DigestInv'
<1>1. \A t \in Tasks : Follows(task[t], task[t])
  BY DEF Follows
<1>2. /\ slot \in Tasks \cup {None}
      /\ task \in [Tasks -> TaskType] /\ \A t \in Tasks : Knows(task[t])
  BY DEF DigestInv, TypeInv, TypeOK
<1>3. CASE UNCHANGED <<task, slot>>
  BY <1>1, <1>2, <1>3, SlotStep DEF Reconcile
<1>4. ASSUME NEW t \in Tasks, Spawn(t)
      PROVE  DigestInv'
  <2>1. PICK new \in TaskType : new.pc = "loop" /\ task' = [task EXCEPT ![t] = new]
    <3>1. [Off EXCEPT !.pc = "loop"] \in TaskType /\ [Off EXCEPT !.pc = "loop"].pc = "loop"
      BY OffForm, PcForm DEF Pcs
    <3> QED
      BY <1>4, <3>1 DEF Spawn
  <2>2. Knows(new) /\ Follows(task[t], new)
    BY <2>1 DEF Knows, Follows, Holding, Reading
  <2>3. slot' \in Tasks \cup {None}
    BY <1>2, <1>4 DEF Spawn
  <2>4. /\ task' \in [Tasks -> TaskType]
        /\ \A u \in Tasks : task'[u] = IF u = t THEN new ELSE task[u]
    BY <1>2, <2>1
  <2> QED
    BY <1>1, <1>2, <2>2, <2>3, <2>4, SlotStep DEF Reconcile
<1>5. CASE ShutdownDigest
  <2>1. slot' \in Tasks \cup {None}
    BY <1>2, <1>5 DEF ShutdownDigest
  <2>2. CASE UNCHANGED task
    BY <1>1, <1>2, <2>1, <2>2, SlotStep DEF Reconcile
  <2>3. CASE IsRunning /\ task' = [task EXCEPT ![slot].signalled = TRUE]
    <3>1. PICK t \in Tasks : t = slot
      BY <1>2, <2>3 DEF IsRunning
    <3>2. PICK d \in TaskType : d = task[t]
      BY <1>2
    <3>3. PICK new \in TaskType : new = [d EXCEPT !.signalled = TRUE]
      BY DEF TaskType
    <3>4. /\ new.pc = d.pc /\ new.run = d.run /\ new.token = d.token /\ new.at = d.at
          /\ new.target = d.target /\ new.ends = d.ends
      BY <3>3 DEF TaskType
    <3>5. /\ task' \in [Tasks -> TaskType]
          /\ \A u \in Tasks : task'[u] = IF u = t THEN new ELSE task[u]
      BY <1>2, <2>3, <3>1, <3>2, <3>3
    <3>6. Knows(new)
      BY <1>2, <3>2, <3>4 DEF Knows
    <3>7. Follows(d, new)
      BY <3>4 DEF Follows, Open
    <3> QED
      BY <1>1, <1>2, <2>1, <3>2, <3>5, <3>6, <3>7, SlotStep DEF Reconcile
  <2> QED
    BY <1>5, <2>2, <2>3 DEF ShutdownDigest
<1> QED
  BY <1>3, <1>4, <1>5 DEF Reconcile, StartDigestIfNeeded

LEMMA LoopStep ==
  ASSUME DigestInv, NEW t \in Tasks, Stop(t) \/ Begin(t) \/ Retry(t)
  PROVE  DigestInv'
<1>1. row \in [Runs -> RowType] /\ \A r \in Runs : RowFollows(r) \/ row' # row
  BY RowsAreTyped, RowsStandStill
<1>2. CASE \/ Finish(t) \/ task' = [task EXCEPT ![t] = Off]
           \/ task' = [task EXCEPT ![t] = Looping(task[t])]
  BY <1>1, <1>2, FinishStep DEF Stop, Begin, Retry, Finish
<1>3. CASE Begin(t) /\ ~Finish(t)
  <2>1. PICK c \in Targets :
          task' = [task EXCEPT ![t] = [@ EXCEPT !.pc = "recover", !.at = now, !.target = c]]
    BY <1>3 DEF Begin
  <2>2. PICK d \in TaskType : d = task[t]
    BY TaskIsTyped
  <2>3. now \in Ticks /\ now \in Nat
    BY DEF DigestInv, TypeInv, TypeOK
  <2>4. PICK new \in TaskType :
          new = [d EXCEPT !.pc = "recover", !.at = now, !.target = c]
    BY <2>3 DEF TaskType, Pcs
  <2>5. new.pc = "recover" /\ new.at = now /\ new.target = c
    BY <2>4 DEF TaskType
  <2>6. Knows(new) /\ Follows(d, new)
    BY <2>3, <2>5 DEF Knows, Follows, Holding, Reading
  <2> QED
    BY <1>1, <1>3, <2>1, <2>2, <2>4, <2>6, MoveStep DEF Begin
<1> QED
  BY <1>2, <1>3 DEF Stop, Begin, Retry

\* The recovery of abandoned claims opens no run whose send is recorded.
LEMMA RecoverRows ==
  ASSUME DigestInv, NEW at \in Nat, RecoverAll(at)
  PROVE  row' \in [Runs -> RowType] /\ \A r \in Runs : RowFollows(r)
<1>2. \A s \in RowType :
        /\ Recovered(s, at) \in RowType
        /\ Recovered(s, at).attempts = s.attempts
        /\ Recovered(s, at).started = s.started
        /\ Recovered(s, at).status \in {"failed", "retry_waiting"}
        /\ s.started => Recovered(s, at).status = "failed"
  BY DEF Recovered, RowType, Statuses
<1>3. row' \in [Runs -> RowType]
  BY <1>2, RowsAreTyped DEF RecoverAll
<1>4. \A r \in Runs : RowFollows(r)
  <2> TAKE r \in Runs
  <2>1. row[r] \in RowType
    BY RowsAreTyped
  <2>2. Out(r) => row[r].started /\ row[r].status \in {"in_progress", "delivered", "failed"}
    BY DEF DigestInv, ClaimInv, OutIsRecorded
  <2>3. row'[r] \in {row[r], Recovered(row[r], at)}
    BY DEF RecoverAll
  <2> QED
    BY <1>2, <2>1, <2>2, <2>3 DEF RowFollows
<1> QED
  BY <1>3, <1>4

LEMMA RecoverStep ==
  ASSUME DigestInv, NEW t \in Tasks, Recover(t)
  PROVE  DigestInv'
<1>1. task[t].at \in Nat /\ task[t].pc = "recover"
  BY TaskIsTyped DEF TaskType, Recover, At
<1>2. row' \in [Runs -> RowType] /\ \A r \in Runs : RowFollows(r)
  BY <1>1, RecoverRows DEF Recover
<1> QED
  BY <1>1, <1>2, GotoStep DEF Recover, Pcs, Holding, Reading

LEMMA HourStartIsTick ==
  ASSUME NEW n \in Ticks
  PROVE  HourStart(n) \in Ticks
<1>1. Hour \in Nat /\ Hour > 0 /\ MaxNow \in Nat /\ n \in Nat /\ n <= MaxNow
  BY DigestConstants DEF Ticks
<1>2. n \div Hour \in Nat
  BY <1>1
<1>3. (n \div Hour) * Hour <= n
  BY <1>1, Z3
<1>4. (n \div Hour) * Hour >= 0 /\ (n \div Hour) * Hour \in Int
  BY <1>1, <1>2, Z3
<1> QED
  BY <1>1, <1>3, <1>4 DEF HourStart, Ticks

LEMMA LookStep ==
  ASSUME DigestInv, NEW t \in Tasks, Look(t)
  PROVE  DigestInv'
<1> DEFINE next == IF At(t, "startup") THEN "hourly" ELSE "claim"
<1>1. PICK d \in TaskType : d = task[t]
  BY TaskIsTyped
<1>2. d.pc \in {"startup", "hourly"} /\ d.at \in Ticks /\ d.target \in Targets
  BY <1>1, TaskIsTyped DEF Look, At, Knows, Reading
<1>3. <<DueAt(t), d.target>> \in Runs
  BY <1>1, <1>2, HourStartIsTick DEF DueAt, Runs
<1>4. PICK new \in TaskType :
        /\ task' = [task EXCEPT ![t] = new]
        /\ new.at = d.at /\ new.target = d.target
        /\ \/ new.pc = next
           \/ new.pc = "insert" /\ new.run \in Runs
  <2>1. CASE task' = [task EXCEPT ![t].pc = next, ![t].begun = TRUE]
    <3>1. [d EXCEPT !.pc = next, !.begun = TRUE] \in TaskType
      BY DEF TaskType, Pcs
    <3>2. task' = [task EXCEPT ![t] = [d EXCEPT !.pc = next, !.begun = TRUE]]
      BY <1>1, <2>1, TaskIsTyped DEF DigestInv, TypeInv, TypeOK
    <3> QED
      BY <3>1, <3>2 DEF TaskType
  <2>2. CASE task' = [task EXCEPT ![t].pc = "insert", ![t].run = <<DueAt(t), d.target>>]
    <3>1. [d EXCEPT !.pc = "insert", !.run = <<DueAt(t), d.target>>] \in TaskType
      BY <1>3 DEF TaskType, Pcs
    <3>2. task' = [task EXCEPT ![t] = [d EXCEPT !.pc = "insert",
                                                !.run = <<DueAt(t), d.target>>]]
      BY <1>1, <2>2, TaskIsTyped DEF DigestInv, TypeInv, TypeOK
    <3> QED
      BY <1>3, <3>1, <3>2 DEF TaskType
  <2> QED
    BY <1>1, <2>1, <2>2 DEF Look
<1>5. Knows(new) /\ Follows(d, new)
  BY <1>2, <1>4 DEF Knows, Follows, Holding, Reading
<1>6. crossed' \subseteq Runs /\ LeftFollows
  BY <1>1, <1>3, LeftStandsStill DEF Look, Inserting, DigestInv, TypeInv, TypeOK
<1> QED
  BY <1>1, <1>4, <1>5, <1>6, MoveLeft, RowsAreTyped, RowsStandStill DEF Look

LEMMA AddRows ==
  ASSUME DigestInv, NEW r \in Runs, Add(r)
  PROVE  row' \in [Runs -> RowType] /\ \A q \in Runs : RowFollows(q)
<1>1. CASE UNCHANGED row
  BY <1>1, RowsAreTyped, RowsStandStill
<1>2. CASE row[r].status = "none" /\ row' = [row EXCEPT ![r].status = "pending"]
  <2>1. PICK s \in RowType : s = row[r]
    BY RowsAreTyped
  <2>2. PICK new \in RowType : new = [s EXCEPT !.status = "pending"]
    BY DEF RowType, Statuses
  <2>3. /\ row' \in [Runs -> RowType] /\ row'[r] = new
        /\ \A q \in Runs : q # r => row'[q] = row[q]
    BY <1>2, <2>1, <2>2, RowsAreTyped
  <2>4. ~Out(r)
    BY <1>2 DEF DigestInv, ClaimInv, OutIsRecorded
  <2>5. RowFollows(r)
    BY <2>1, <2>2, <2>3, <2>4 DEF RowFollows, RowType
  <2>6. \A q \in Runs : q # r => RowFollows(q)
    BY <2>3 DEF RowFollows, DigestInv, ClaimInv, OutIsRecorded
  <2> QED
    BY <2>3, <2>5, <2>6
<1> QED
  BY <1>1, <1>2 DEF Add

LEMMA InsertStep ==
  ASSUME DigestInv, NEW t \in Tasks, Insert(t)
  PROVE  DigestInv'
<1>1. PICK d \in TaskType : d = task[t]
  BY TaskIsTyped
<1>2. PICK r \in Runs : r = task[t].run
  BY TaskIsTyped DEF Insert, At, Knows
<1>3. row' \in [Runs -> RowType] /\ \A q \in Runs : RowFollows(q)
  BY <1>2, AddRows DEF Insert
<1> DEFINE next == IF d.begun THEN "claim" ELSE "hourly"
<1>4. [d EXCEPT !.pc = next, !.run = None, !.begun = TRUE] \in TaskType
  BY DEF TaskType, Pcs
<1>5. PICK new \in TaskType : new = [d EXCEPT !.pc = next, !.run = None, !.begun = TRUE]
  BY <1>4
<1>6. new.pc = next /\ new.at = d.at /\ new.target = d.target
  BY <1>5 DEF TaskType
<1>7. task' = [task EXCEPT ![t] = new]
  BY <1>1, <1>5 DEF Insert, DigestInv, TypeInv, TypeOK
<1>8. Knows(new) /\ Follows(d, new)
  <2>1. d.at \in Ticks /\ d.target \in Targets
    BY <1>1, TaskIsTyped DEF Insert, At, Knows, Reading
  <2> QED
    BY <1>6, <2>1 DEF Knows, Follows, Holding, Reading
<1> QED
  BY <1>1, <1>3, <1>7, <1>8, MoveStep DEF Insert

(***************************************************************************)
(* A claim: the row counts it and names it by the count, so it is nobody   *)
(* else's; and a row that can be claimed is not out.                       *)
(***************************************************************************)
LEMMA ClaimStep ==
  ASSUME DigestInv, NEW t \in Tasks, Claim(t)
  PROVE  DigestInv'
<1>1. PICK d \in TaskType : d = task[t]
  BY TaskIsTyped
<1>2. CASE task' = [task EXCEPT ![t] = Looping(@)] /\ UNCHANGED row
  BY <1>2, FinishStep, RowsAreTyped, RowsStandStill DEF Claim
<1>3. ASSUME NEW r \in Runs, NEW n, n = row[r].attempts + 1, First(t, r),
             row' = [row EXCEPT ![r] = [@ EXCEPT !.status = "in_progress", !.attempts = n,
                                                 !.token = n, !.when = now]],
             task' = [task EXCEPT ![t] = [@ EXCEPT !.pc = "build", !.run = r, !.token = n,
                                                   !.at = 0, !.target = None]]
      PROVE  DigestInv'
  <2>1. PICK s \in RowType : s = row[r]
    BY RowsAreTyped
  <2>2. n \in Nat /\ now \in Nat
    BY <1>3, <2>1 DEF RowType, DigestInv, TypeInv, TypeOK
  <2>3. PICK z \in RowType :
          z = [s EXCEPT !.status = "in_progress", !.attempts = n, !.token = n, !.when = now]
    BY <2>2 DEF RowType, Statuses
  <2>4. PICK new \in TaskType :
          new = [d EXCEPT !.pc = "build", !.run = r, !.token = n, !.at = 0, !.target = None]
    BY <2>2 DEF TaskType, Pcs
  <2>4a. /\ z.attempts = n /\ z.token = n
         /\ new.pc = "build" /\ new.run = r /\ new.token = n
    BY <2>3, <2>4 DEF RowType, TaskType
  <2>5. /\ row' \in [Runs -> RowType] /\ row'[r] = z
        /\ \A q \in Runs : q # r => row'[q] = row[q]
    BY <1>3, <2>1, <2>3, RowsAreTyped
  <2>6. /\ task' \in [Tasks -> TaskType] /\ task'[t] = new
        /\ \A u \in Tasks : u # t => task'[u] = task[u]
    BY <1>1, <1>3, <2>4 DEF DigestInv, TypeInv, TypeOK
  <2>7. TypeInv'
    <3>1. Knows(new)
      BY <2>4a DEF Knows, Reading, Holding
    <3>2. \A u \in Tasks : Knows(task'[u])
      BY <2>6, <3>1, TaskIsTyped
    <3> QED
      BY <2>5, <2>6, <3>2 DEF TypeInv, TypeOK, Claim, DigestInv, Knows, KnowsLeft
  <2>8. ~Out(r)
    BY <1>3 DEF First, Ripe, DigestInv, ClaimInv, OutIsRecorded
  <2>9. \A u \in Tasks : task'[u].pc \in Sending => u # t
    BY <2>6, <2>4a DEF Sending
  <2>10. \A q \in Runs : Out(q)' => Out(q)
    BY <2>6, <2>9 DEF Out, Claim
  <2>11. \A u \in Tasks : u # t /\ task[u].pc \in Holding =>
           task[u].run \in Runs /\ task[u].token <= row[task[u].run].attempts
    BY TaskIsTyped DEF DigestInv, ClaimInv, ClaimsAreCounted, Knows
  <2>12. \A u \in Tasks : task[u].token \in Nat
    BY TaskIsTyped DEF TaskType
  <2>13. s.attempts \in Nat /\ n > s.attempts
    BY <1>3, <2>1 DEF RowType
  <2>14. ClaimsAreCounted'
    <3> SUFFICES ASSUME NEW u \in Tasks, task'[u].pc \in Holding
                 PROVE  task'[u].token <= row'[task'[u].run].attempts
      BY DEF ClaimsAreCounted
    <3>1. CASE u = t
      BY <2>2, <2>5, <2>6, <2>4a, <3>1
    <3>2. CASE u # t
      <4>1. /\ task'[u] = task[u] /\ task[u].run \in Runs /\ task[u].token \in Nat
            /\ task[u].token <= row[task[u].run].attempts
        BY <2>6, <2>11, <2>12, <3>2
      <4>2. CASE task[u].run = r
        BY <2>1, <2>5, <2>13, <2>4a, <4>1, <4>2, <2>2
      <4>3. CASE task[u].run # r
        BY <2>5, <4>1, <4>3
      <4> QED
        BY <4>2, <4>3
    <3> QED
      BY <3>1, <3>2
  <2>15. ClaimsAreDistinct'
    <3>1. \A u \in Tasks : u # t /\ task[u].pc \in Holding /\ task[u].run = r
                           => task[u].token # n
      BY <2>1, <2>11, <2>12, <2>13
    <3>2. \A u \in Tasks : u # t /\ task'[u].pc \in Holding /\ task'[u].run = r
                           => task'[u].token # n
      BY <2>6, <3>1
    <3>3. \A u, v \in Tasks :
            /\ u # t /\ v # t /\ task'[u].pc \in Holding /\ task'[v].pc \in Holding
            /\ task'[u].run = task'[v].run /\ task'[u].token = task'[v].token
            => u = v
      BY <2>6 DEF ClaimsAreDistinct, DigestInv, ClaimInv
    <3>4. task'[t].run = r /\ task'[t].token = n
      BY <2>6, <2>4a
    <3> QED
      BY <3>2, <3>3, <3>4 DEF ClaimsAreDistinct
  <2>16. OutIsRecorded'
    BY <2>5, <2>8, <2>10 DEF OutIsRecorded, DigestInv, ClaimInv
  <2>17. OneSends'
    BY <2>6, <2>9 DEF OneSends, DigestInv, ClaimInv, Claim
  <2>18. OpenIsIn'
    <3> SUFFICES ASSUME NEW u \in Tasks, Open(task[u])', Mine(u)'
                 PROVE  ~Out(task[u].run)'
      BY DEF OpenIsIn
    <3>1. CASE u = t
      BY <2>6, <2>8, <2>10, <2>4a, <3>1
    <3>2. CASE u # t
      <4>1. task'[u] = task[u] /\ Open(task[u])
        BY <2>6, <3>2
      <4>2. PICK q \in Runs : q = task[u].run
        BY <4>1, HoldingPcs, <2>11, <3>2
      <4>3. CASE q = r
        BY <2>8, <2>10, <4>1, <4>2, <4>3
      <4>4. CASE q # r
        <5>1. Mine(u)
          BY <2>5, <4>1, <4>2, <4>4 DEF Mine, Current
        <5>2. ~Out(q)
          BY <4>1, <4>2, <5>1 DEF OpenIsIn, DigestInv, ClaimInv
        <5> QED
          BY <2>10, <4>1, <4>2, <5>2
      <4> QED
        BY <4>3, <4>4
    <3> QED
      BY <3>1, <3>2
  <2>19. SentOnce'
    BY DEF SentOnce, Claim, DigestInv, ClaimInv
  <2>20. LeftInv'
    <3> SUFFICES ASSUME NEW s2 \in left, s2.pc = "write"
                 PROVE  /\ s2.token <= row'[s2.run].attempts
                        /\ \A u \in Tasks : task'[u].pc \in Holding /\ task'[u].run = s2.run
                                            => task'[u].token # s2.token
                        /\ s2.ends = "retry_waiting" /\ Current(s2.run, s2.token)'
                             => ~Out(s2.run)'
      BY DEF Claim, LeftInv, LeftIsCounted, LeftIsAlone, LeftIsIn
    <3>1. /\ s2.run \in Runs /\ s2.token \in Nat /\ s2.token <= row[s2.run].attempts
          /\ \A u \in Tasks : task[u].pc \in Holding /\ task[u].run = s2.run
                              => task[u].token # s2.token
          /\ s2.ends = "retry_waiting" /\ Current(s2.run, s2.token) => ~Out(s2.run)
      BY DEF DigestInv, TypeInv, TypeOK, LeftType, KnowsLeft, ClaimInv, LeftInv,
             LeftIsCounted, LeftIsAlone, LeftIsIn
    <3>2. CASE s2.run = r
      <4>1. s2.token <= row'[s2.run].attempts /\ s2.token # n
        BY <2>1, <2>2, <2>5, <2>13, <2>4a, <3>1, <3>2
      <4>2. ~Out(s2.run)'
        BY <2>8, <2>10, <3>1, <3>2
      <4> QED
        BY <2>6, <2>4a, <3>1, <4>1, <4>2
    <3>3. CASE s2.run # r
      <4>1. row'[s2.run] = row[s2.run]
        BY <2>5, <3>1, <3>3
      <4> QED
        BY <2>6, <2>10, <2>4a, <3>1, <3>3, <4>1 DEF Current
    <3> QED
      BY <3>2, <3>3
  <2> QED
    BY <2>7, <2>14, <2>15, <2>16, <2>17, <2>18, <2>19, <2>20 DEF DigestInv, ClaimInv
<1> QED
  BY <1>2, <1>3 DEF Claim

(***************************************************************************)
(* A delivery.                                                             *)
(***************************************************************************)
LEMMA QuietDelivery ==
  ASSUME DigestInv, NEW t \in Tasks, Build(t) \/ Check(t) \/ Answer(t)
  PROVE  DigestInv'
<1>1. CASE Build(t)
  BY <1>1, GotoStep, RowsAreTyped, RowsStandStill
     DEF Build, At, Pcs, Holding, Sending
<1>2. CASE Check(t)
  BY <1>2, GotoStep, RowsAreTyped, RowsStandStill
     DEF Check, At, Pcs, Holding, Sending
<1>3. CASE Answer(t)
  BY <1>3, GotoStep, RowsAreTyped, RowsStandStill
     DEF Answer, At, Pcs, Holding, Sending
<1> QED
  BY <1>1, <1>2, <1>3

\* A row written in one of its fields, by the task that holds its claim.
LEMMA RowWritten ==
  ASSUME DigestInv, NEW r \in Runs, NEW z \in RowType, row' = [row EXCEPT ![r] = z],
         z.attempts = row[r].attempts, row[r].started => z.started,
         z.status = "in_progress" =>
           row[r].status = "in_progress" /\ z.token = row[r].token,
         Out(r) => z.status \in {"in_progress", "delivered", "failed"}
  PROVE  row' \in [Runs -> RowType] /\ \A q \in Runs : RowFollows(q)
<1>1. /\ row' \in [Runs -> RowType] /\ row'[r] = z
      /\ \A q \in Runs : q # r => row'[q] = row[q]
  BY RowsAreTyped
<1> QED
  BY <1>1 DEF RowFollows, DigestInv, ClaimInv, OutIsRecorded

\* The send is recorded by the only task whose claim is current: nobody has
\* sent, or is about to, when it goes on to its own.
LEMMA MarkStep ==
  ASSUME DigestInv, NEW t \in Tasks, Mark(t)
  PROVE  DigestInv'
<1>1. CASE UNCHANGED row /\ Goto(t, "fail")
  BY <1>1, GotoStep, RowsAreTyped, RowsStandStill DEF Mark, At, Pcs, Holding, Sending
<1>2. CASE /\ Mine(t) /\ Record(task[t].run)
           /\ Goto(t, "check")
  <2>1. PICK d \in TaskType : d = task[t]
    BY TaskIsTyped
  <2>2. d.pc = "mark" /\ UNCHANGED <<now, slot, left, sent, crossed>>
    BY <2>1 DEF Mark, At
  <2>3. PICK r \in Runs : r = d.run
    BY <2>1, <2>2, TaskIsTyped DEF Knows, Holding
  <2>4. PICK s \in RowType : s = row[r]
    BY RowsAreTyped
  <2>5. PICK z \in RowType : z = [s EXCEPT !.started = TRUE]
    BY DEF RowType
  <2>6. /\ z.started /\ z.attempts = s.attempts /\ z.token = s.token
        /\ z.status = s.status
    BY <2>5 DEF RowType
  <2>7. /\ row' \in [Runs -> RowType] /\ row'[r] = z
        /\ \A q \in Runs : q # r => row'[q] = row[q]
    BY <1>2, <2>1, <2>3, <2>4, <2>5, RowsAreTyped DEF Record
  <2>8. PICK new \in TaskType :
          /\ new = [d EXCEPT !.pc = "check"] /\ new.pc = "check"
          /\ new.run = r /\ new.token = d.token
    <3>1. "check" \in Pcs
      BY DEF Pcs
    <3> QED
      BY <2>3, <3>1, PcForm
  <2>9. /\ task' \in [Tasks -> TaskType] /\ task'[t] = new
        /\ \A u \in Tasks : u # t => task'[u] = task[u]
    BY <1>2, <2>1, <2>8 DEF Goto, DigestInv, TypeInv, TypeOK
  <2>10. TypeInv'
    <3>1. \A u \in Tasks : Knows(task'[u])
      BY <2>8, <2>9, TaskIsTyped DEF Knows, Reading
    <3> QED
      BY <2>2, <2>7, <2>9, <3>1 DEF TypeInv, TypeOK, DigestInv, Knows, KnowsLeft
  <2>11. Open(d) /\ s.status = "in_progress" /\ s.token = d.token /\ ~Out(r)
    BY <1>2, <2>1, <2>2, <2>3, <2>4
       DEF Open, Mine, Current, OpenIsIn, DigestInv, ClaimInv
  <2>12. /\ sent[r] = 0
         /\ \A u \in Tasks : task[u].run = r => task[u].pc \notin Sending
    <3>1. sent[r] \in Nat
      BY DEF DigestInv, TypeInv, TypeOK
    <3> QED
      BY <2>11, <3>1 DEF Out
  <2>13. \A q \in Runs : q # r /\ Out(q)' => Out(q)
    BY <2>2, <2>8, <2>9 DEF Out
  <2>14. \A q \in Runs : /\ row'[q].attempts = row[q].attempts
                         /\ row'[q].token = row[q].token
                         /\ row'[q].status = row[q].status
    BY <2>4, <2>6, <2>7
  <2>15. \A u \in Tasks : task'[u].run = task[u].run /\ task'[u].token = task[u].token
    BY <2>1, <2>3, <2>8, <2>9
  <2>16. \A u \in Tasks : task'[u].pc \in Holding =>
           task[u].pc \in Holding /\ task[u].run \in Runs
    BY <2>1, <2>2, <2>9, TaskIsTyped DEF Holding, Knows
  <2>17. ClaimsAreCounted'
    BY <2>14, <2>15, <2>16 DEF ClaimsAreCounted, DigestInv, ClaimInv
  <2>18. ClaimsAreDistinct'
    BY <2>15, <2>16 DEF ClaimsAreDistinct, DigestInv, ClaimInv
  <2>19. OutIsRecorded'
    BY <2>4, <2>6, <2>7, <2>11, <2>13 DEF OutIsRecorded, DigestInv, ClaimInv
  <2>20. OneSends'
    <3>1. \A u \in Tasks : u # t /\ task'[u].pc \in Sending => task[u].pc \in Sending
      BY <2>9
    <3> QED
      BY <2>1, <2>2, <2>3, <2>12, <2>15, <3>1 DEF OneSends, DigestInv, ClaimInv
  <2>21. OpenIsIn'
    <3> SUFFICES ASSUME NEW u \in Tasks, Open(task[u])', Mine(u)'
                 PROVE  ~Out(task[u].run)'
      BY DEF OpenIsIn
    <3>1. u # t /\ task'[u] = task[u]
      BY <2>8, <2>9 DEF Open
    <3>2. PICK q \in Runs : q = task[u].run
      BY <3>1, <2>16, HoldingPcs
    <3>3. Mine(u)
      BY <2>14, <3>1, <3>2 DEF Mine, Current
    <3>4. q # r
      BY <2>1, <2>2, <2>3, <2>4, <2>11, <3>1, <3>2, <3>3, HoldingPcs
         DEF Mine, Current, ClaimsAreDistinct, DigestInv, ClaimInv, Open
    <3>5. ~Out(q)
      BY <3>1, <3>2, <3>3 DEF OpenIsIn, DigestInv, ClaimInv
    <3> QED
      BY <2>13, <3>1, <3>2, <3>4, <3>5
  <2>22. SentOnce'
    BY <2>2 DEF SentOnce, DigestInv, ClaimInv
  <2>23. LeftInv'
    <3> SUFFICES ASSUME NEW s2 \in left, s2.pc = "write"
                 PROVE  /\ s2.token <= row'[s2.run].attempts
                        /\ \A u \in Tasks : task'[u].pc \in Holding /\ task'[u].run = s2.run
                                            => task'[u].token # s2.token
                        /\ s2.ends = "retry_waiting" /\ Current(s2.run, s2.token)'
                             => ~Out(s2.run)'
      BY <2>2 DEF LeftInv, LeftIsCounted, LeftIsAlone, LeftIsIn
    <3>1. /\ s2.run \in Runs /\ s2.token <= row[s2.run].attempts
          /\ \A u \in Tasks : task[u].pc \in Holding /\ task[u].run = s2.run
                              => task[u].token # s2.token
          /\ s2.ends = "retry_waiting" /\ Current(s2.run, s2.token) => ~Out(s2.run)
      BY DEF DigestInv, TypeInv, TypeOK, KnowsLeft, ClaimInv, LeftInv,
             LeftIsCounted, LeftIsAlone, LeftIsIn
    <3>2. Current(s2.run, s2.token)' => Current(s2.run, s2.token) /\ s2.run # r
      <4>1. Current(s2.run, s2.token)' => Current(s2.run, s2.token)
        BY <2>14, <3>1 DEF Current
      <4>2. s2.run = r => s2.token # d.token
        BY <2>1, <2>2, <2>3, <3>1 DEF Holding
      <4> QED
        BY <2>4, <2>11, <4>1, <4>2 DEF Current
    <3> QED
      BY <2>13, <2>14, <2>15, <2>16, <3>1, <3>2
  <2> QED
    BY <2>10, <2>17, <2>18, <2>19, <2>20, <2>21, <2>22, <2>23 DEF DigestInv, ClaimInv
<1> QED
  BY <1>1, <1>2 DEF Mark

LEMMA ArriveStep ==
  ASSUME DigestInv, NEW t \in Tasks, Arrive(t)
  PROVE  DigestInv'
<1>1. PICK d \in TaskType : d = task[t]
  BY TaskIsTyped
<1>2. d.pc = "send" /\ UNCHANGED <<now, row, slot, left, crossed>>
  BY <1>1 DEF Arrive, At
<1>3. PICK r \in Runs : r = d.run
  BY <1>1, <1>2, TaskIsTyped DEF Knows, Holding
<1>4. PICK new \in TaskType :
        /\ new = [d EXCEPT !.pc = "arrived"] /\ new.pc = "arrived"
        /\ new.run = r /\ new.token = d.token
  <2>1. "arrived" \in Pcs
    BY DEF Pcs
  <2> QED
    BY <1>3, <2>1, PcForm
<1>5. /\ task' \in [Tasks -> TaskType] /\ task'[t] = new
      /\ \A u \in Tasks : u # t => task'[u] = task[u]
  BY <1>1, <1>4 DEF Arrive, Goto, DigestInv, TypeInv, TypeOK
<1>6. /\ sent[r] = 0
      /\ \A u \in Tasks : task[u].pc \in Sending /\ task[u].run = r => u = t
      /\ Out(r)
  BY <1>1, <1>2, <1>3 DEF OneSends, DigestInv, ClaimInv, Sending, Out
<1>7. /\ sent' \in [Runs -> Nat] /\ sent'[r] = 1
      /\ \A q \in Runs : q # r => sent'[q] = sent[q]
  BY <1>1, <1>3, <1>6 DEF Arrive, DigestInv, TypeInv, TypeOK
<1>8. TypeInv'
  <2>1. \A u \in Tasks : Knows(task'[u])
    BY <1>4, <1>5, TaskIsTyped DEF Knows, Reading
  <2> QED
    BY <1>2, <1>5, <1>7, <2>1 DEF TypeInv, TypeOK, DigestInv, Knows, KnowsLeft
<1>9. \A u \in Tasks : task'[u].run = task[u].run /\ task'[u].token = task[u].token
  BY <1>1, <1>3, <1>4, <1>5
<1>10. \A u \in Tasks : task'[u].pc \in Holding => task[u].pc \in Holding
  BY <1>1, <1>2, <1>5 DEF Holding
<1>11. \A u \in Tasks : task'[u].pc \in Sending => task[u].pc \in Sending /\ u # t
  BY <1>4, <1>5 DEF Sending
<1>12. \A q \in Runs : Out(q)' => Out(q)
  BY <1>6, <1>7, <1>9, <1>11 DEF Out
<1>13. ClaimsAreCounted' /\ ClaimsAreDistinct'
  BY <1>2, <1>9, <1>10 DEF ClaimsAreCounted, ClaimsAreDistinct, DigestInv, ClaimInv
<1>14. OutIsRecorded'
  BY <1>2, <1>12 DEF OutIsRecorded, DigestInv, ClaimInv
<1>15. OneSends'
  <2> SUFFICES ASSUME NEW u \in Tasks, task'[u].pc \in Sending
               PROVE  /\ sent'[task'[u].run] = 0
                      /\ \A v \in Tasks : task'[v].pc \in Sending
                                          /\ task'[v].run = task'[u].run => v = u
    BY DEF OneSends
  <2>1. task[u].pc \in Sending /\ u # t /\ task'[u].run = task[u].run
    BY <1>9, <1>11
  <2>2. task[u].run \in Runs /\ task[u].run # r
    BY <1>6, <2>1, TaskIsTyped, HoldingPcs DEF Knows
  <2> QED
    BY <1>7, <1>9, <1>11, <2>1, <2>2 DEF OneSends, DigestInv, ClaimInv
<1>16. OpenIsIn'
  <2> SUFFICES ASSUME NEW u \in Tasks, Open(task[u])', Mine(u)'
               PROVE  ~Out(task[u].run)'
    BY DEF OpenIsIn
  <2>1. u # t /\ task'[u] = task[u] /\ Open(task[u])
    BY <1>4, <1>5 DEF Open
  <2>2. PICK q \in Runs : q = task[u].run
    BY <2>1, HoldingPcs, TaskIsTyped DEF Knows
  <2>3. Mine(u)
    BY <1>2, <2>1 DEF Mine, Current
  <2> QED
    BY <1>12, <2>1, <2>2, <2>3 DEF OpenIsIn, DigestInv, ClaimInv
<1>17. SentOnce'
  BY <1>7 DEF SentOnce, DigestInv, ClaimInv
<1>18. LeftInv'
  <2>1. LeftIsCounted' /\ LeftIsAlone'
    BY <1>2, <1>9, <1>10 DEF LeftInv, LeftIsCounted, LeftIsAlone, DigestInv, ClaimInv
  <2>2. LeftIsIn'
    BY <1>2, <1>12 DEF LeftInv, LeftIsIn, Current, DigestInv, TypeInv, KnowsLeft, ClaimInv
  <2> QED
    BY <2>1, <2>2 DEF LeftInv
<1> QED
  BY <1>8, <1>13, <1>14, <1>15, <1>16, <1>17, <1>18 DEF DigestInv, ClaimInv

\* A row closed by the statement of its claim.
LEMMA CloseRows ==
  ASSUME DigestInv, NEW r \in Runs, NEW at \in Nat,
         NEW status \in {"delivered", "failed", "retry_waiting"}, Close(r, status, at),
         status = "retry_waiting" => ~Out(r)
  PROVE  row' \in [Runs -> RowType] /\ \A q \in Runs : RowFollows(q)
<1>1. PICK s \in RowType : s = row[r]
  BY RowsAreTyped
<1>2. PICK z \in RowType : z = [s EXCEPT !.status = status, !.when = at]
  BY DEF RowType, Statuses
<1>3. z.attempts = s.attempts /\ z.started = s.started /\ z.status = status
  BY <1>2 DEF RowType
<1>4. row' = [row EXCEPT ![r] = z]
  BY <1>1, <1>2, RowsAreTyped DEF Close
<1> QED
  BY <1>1, <1>3, <1>4, RowWritten

\* A send recorded.
LEMMA RecordRows ==
  ASSUME DigestInv, NEW r \in Runs, Record(r)
  PROVE  row' \in [Runs -> RowType] /\ \A q \in Runs : RowFollows(q)
<1>1. PICK s \in RowType : s = row[r]
  BY RowsAreTyped
<1>2. PICK z \in RowType : z = [s EXCEPT !.started = TRUE]
  BY DEF RowType
<1>3. /\ z.started /\ z.attempts = s.attempts /\ z.token = s.token
      /\ z.status = s.status
  BY <1>2 DEF RowType
<1>4. row' = [row EXCEPT ![r] = z]
  BY <1>1, <1>2, RowsAreTyped DEF Record
<1>5. Out(r) => s.status \in {"in_progress", "delivered", "failed"}
  BY <1>1 DEF DigestInv, ClaimInv, OutIsRecorded
<1> QED
  BY <1>1, <1>3, <1>4, <1>5, RowWritten

LEMMA DeliveredStep ==
  ASSUME DigestInv, NEW t \in Tasks, Delivered(t)
  PROVE  DigestInv'
<1>1. task[t].run \in Runs /\ now \in Nat
  BY TaskIsTyped DEF Delivered, At, Knows, Holding, DigestInv, TypeInv, TypeOK
<1>2. row' \in [Runs -> RowType] /\ \A q \in Runs : RowFollows(q)
  BY <1>1, CloseRows DEF Delivered
<1> QED
  BY <1>2, FinishStep DEF Delivered

LEMMA ShutdownStep ==
  ASSUME DigestInv, NEW t \in Tasks, Shutdown(t)
  PROVE  DigestInv'
<1>1. PICK d \in TaskType : d = task[t]
  BY TaskIsTyped
<1>2. PICK new \in TaskType : new = [d EXCEPT !.pc = "fail", !.stopping = TRUE]
  BY DEF TaskType, Pcs
<1>3. new.pc = "fail" /\ new.run = d.run /\ new.token = d.token
  BY <1>2 DEF TaskType
<1>4. d.pc \in Holding /\ d.run \in Runs
  BY <1>1, TaskIsTyped DEF Shutdown, Knows, Holding
<1>5. Knows(new) /\ Follows(d, new)
  BY <1>3, <1>4 DEF Knows, Follows, Reading, Sending, Open
<1>6. task' = [task EXCEPT ![t] = new]
  BY <1>1, <1>2 DEF Shutdown, DigestInv, TypeInv, TypeOK
<1>7. LeftFollows
  <2>1. task[t].pc \in Waiting => task[t].pc = "mark"
    BY DEF Shutdown, Waiting
  <2> QED
    BY <2>1 DEF Shutdown, Drop, LeftFollows
<1>8. crossed' \subseteq Runs /\ UNCHANGED <<now, row, slot, sent>>
  BY DEF Shutdown, DigestInv, TypeInv, TypeOK
<1> QED
  BY <1>1, <1>5, <1>6, <1>7, <1>8, MoveLeft, RowsAreTyped, RowsStandStill

\* A statement left behind is run.
LEMMA LandStep ==
  ASSUME DigestInv, NEW s \in left, Land(s)
  PROVE  DigestInv'
<1>1. s \in LeftType /\ KnowsLeft(s)
  BY DEF DigestInv, TypeInv, TypeOK
<1>2. row' \in [Runs -> RowType] /\ \A r \in Runs : RowFollows(r)
  <2>1. CASE s.pc = "recover" /\ RecoverAll(s.at)
    BY <1>1, <2>1, RecoverRows DEF LeftType
  <2>2. CASE s.pc = "insert" /\ Add(s.run)
    BY <1>1, <2>2, AddRows DEF KnowsLeft
  <2>3. CASE s.pc \in {"mark", "sent", "write"} /\ Fenced(s)
    <3>1. CASE UNCHANGED row
      BY <3>1, RowsAreTyped, RowsStandStill
    <3>2. CASE s.pc = "mark" /\ Record(s.run)
      BY <1>1, <3>2, RecordRows DEF KnowsLeft
    <3>3. CASE s.pc = "sent" /\ Close(s.run, "delivered", s.at)
      BY <1>1, <3>3, CloseRows DEF KnowsLeft, LeftType
    <3>4. CASE Current(s.run, s.token) /\ s.pc = "write" /\ Close(s.run, s.ends, s.at)
      <4>1. s.ends = "retry_waiting" => ~Out(s.run)
        BY <3>4 DEF DigestInv, ClaimInv, LeftInv, LeftIsIn
      <4>2. s.run \in Runs /\ s.ends \in {"failed", "retry_waiting"} /\ s.at \in Nat
        BY <1>1, <3>4 DEF KnowsLeft, LeftType
      <4> QED
        BY <3>4, <4>1, <4>2, CloseRows
    <3> QED
      BY <2>3, <3>1, <3>2, <3>3, <3>4 DEF Fenced
  <2> QED
    BY <2>1, <2>2, <2>3 DEF Land
<1>3. left' \subseteq left /\ UNCHANGED <<now, task, slot, sent, crossed>>
  BY DEF Land
<1>4. ClaimInv'
  BY <1>2, <1>3, QuietStep DEF Follows, LeftFollows
<1>5. TypeInv'
  BY <1>2, <1>3 DEF DigestInv, TypeInv, TypeOK, Knows, KnowsLeft
<1> QED
  BY <1>4, <1>5 DEF DigestInv

\* A retry is decided on a row that shows no send, so of a run that is not out.
LEMMA FailStep ==
  ASSUME DigestInv, NEW t \in Tasks, Fail(t)
  PROVE  DigestInv'
<1>1. PICK d \in TaskType : d = task[t]
  BY TaskIsTyped
<1>2. d.pc = "fail" /\ d.pc \in Holding /\ UNCHANGED <<now, row, slot, left, sent, crossed>>
  BY <1>1 DEF Fail, At, Holding
<1>3. PICK r \in Runs : r = d.run
  BY <1>1, <1>2, TaskIsTyped DEF Knows
<1>4. now + 1 \in Nat
  BY DEF DigestInv, TypeInv, TypeOK
<1>5. PICK new \in TaskType :
        /\ task' = [task EXCEPT ![t] = new]
        /\ \/ new = [d EXCEPT !.pc = "write", !.ends = "failed"]
           \/ /\ new = [d EXCEPT !.pc = "write", !.at = now + 1, !.ends = "retry_waiting"]
              /\ ~row[r].started
  <2>1. [d EXCEPT !.pc = "write", !.ends = "failed"] \in TaskType
    BY DEF TaskType, Pcs
  <2>2. [d EXCEPT !.pc = "write", !.at = now + 1, !.ends = "retry_waiting"] \in TaskType
    BY <1>4 DEF TaskType, Pcs
  <2> QED
    BY <1>1, <1>3, <2>1, <2>2 DEF Fail
<1>6. /\ new.pc = "write" /\ new.run = r /\ new.token = d.token
      /\ new.ends \in {"failed", "retry_waiting"}
      /\ new.ends = "retry_waiting" => ~row[r].started
  BY <1>3, <1>5 DEF TaskType
<1>7. Knows(new)
  BY <1>6 DEF Knows, Reading, Holding
<1>8. Follows(d, new)
  <2>1. new.ends = "retry_waiting" => ~Out(r)
    BY <1>6 DEF DigestInv, ClaimInv, OutIsRecorded
  <2>2. Open(new) => ~Out(r)
    BY <1>6, <2>1 DEF Open
  <2> QED
    BY <1>2, <1>3, <1>6, <2>2 DEF Follows, Sending
<1> QED
  BY <1>1, <1>2, <1>5, <1>7, <1>8, MoveStep, RowsAreTyped, RowsStandStill

LEMMA WriteStep ==
  ASSUME DigestInv, NEW t \in Tasks, Write(t)
  PROVE  DigestInv'
<1>1. PICK d \in TaskType : d = task[t]
  BY TaskIsTyped
<1>2. d.pc = "write" /\ Mine(t) /\ Verdict(t)
  BY <1>1 DEF Write, At
<1>3. d.run \in Runs /\ d.ends \in {"failed", "retry_waiting"} /\ d.at \in Nat
  BY <1>1, <1>2, TaskIsTyped DEF Knows, Holding, TaskType
<1>4. d.ends = "retry_waiting" => ~Out(d.run)
  BY <1>1, <1>2 DEF OpenIsIn, Open, DigestInv, ClaimInv
<1>5. row' \in [Runs -> RowType] /\ \A q \in Runs : RowFollows(q)
  BY <1>1, <1>2, <1>3, <1>4, CloseRows DEF Verdict
<1>6. \/ Finish(t) \/ task' = [task EXCEPT ![t] = Looping(task[t])]
  BY <1>2 DEF Verdict, Finish
<1> QED
  BY <1>2, <1>5, <1>6, FinishStep DEF Verdict

LEMMA TickStep ==
  ASSUME DigestInv, Tick
  PROVE  DigestInv'
<1>1. now' \in Nat /\ now' \in Ticks
  BY DigestConstants DEF Tick, Ticks, DigestInv, TypeInv, TypeOK
<1>2. TypeInv'
  BY <1>1 DEF Tick, TypeInv, TypeOK, DigestInv, Knows, KnowsLeft
<1>3. \A t \in Tasks : Follows(task[t], task'[t])
  BY DEF Tick, Follows
<1>4. ClaimInv'
  BY <1>3, QuietStep, RowsStandStill, LeftStandsStill DEF Tick
<1> QED
  BY <1>2, <1>4 DEF DigestInv

LEMMA CrashStep ==
  ASSUME DigestInv, Crash
  PROVE  DigestInv'
<1>1. \A t \in Tasks : task'[t] = Off
  BY DEF Crash
<1>2. \A t \in Tasks : Knows(task'[t]) /\ Follows(task[t], task'[t])
  BY <1>1, OffForm DEF Knows, Follows, Reading, Holding
<1>3. task' \in [Tasks -> TaskType]
  BY OffForm DEF Crash
<1> QED
  BY <1>2, <1>3, SlotStep DEF Crash

LEMMA StutterStep == ASSUME DigestInv, UNCHANGED vars PROVE DigestInv'
<1>1. \A t \in Tasks : Follows(task[t], task'[t])
  BY DEF vars, Follows
<1>2. ClaimInv'
  BY <1>1, QuietStep, RowsStandStill, LeftStandsStill DEF vars
<1>3. TypeInv'
  BY DEF vars, TypeInv, TypeOK, DigestInv, Knows, KnowsLeft
<1> QED
  BY <1>2, <1>3 DEF DigestInv

LEMMA InitInv == Init => DigestInv
<1> SUFFICES ASSUME Init PROVE DigestInv
  OBVIOUS
<1>1. \A t \in Tasks : task[t] = Off
  BY DEF Init
<1>2. \A t \in Tasks : task[t].pc \notin Holding
  BY <1>1, OffForm DEF Holding
<1>3. \A r \in Runs : ~Out(r)
  BY <1>2, HoldingPcs DEF Init, Out
<1>4. TypeInv
  <2>1. Absent \in RowType
    BY DEF Absent, RowType, Statuses
  <2>2. \A t \in Tasks : Knows(task[t])
    BY <1>1, OffForm DEF Knows, Reading, Holding
  <2>3. now \in Ticks
    BY DigestConstants DEF Init, Ticks
  <2> QED
    BY <2>1, <2>2, <2>3, OffForm DEF Init, TypeInv, TypeOK
<1>5. ClaimInv
  BY <1>2, <1>3, HoldingPcs
     DEF Init, ClaimInv, ClaimsAreCounted, ClaimsAreDistinct, OutIsRecorded, OneSends,
         OpenIsIn, SentOnce, LeftInv, LeftIsCounted, LeftIsAlone, LeftIsIn
<1> QED
  BY <1>4, <1>5 DEF DigestInv

LEMMA NextStep == DigestInv /\ [Next]_vars => DigestInv'
<1> SUFFICES ASSUME DigestInv, [Next]_vars PROVE DigestInv'
  OBVIOUS
<1>1. ASSUME NEW t \in Tasks, Step(t)
      PROVE  DigestInv'
  BY <1>1, AbortStep, LoopStep, RecoverStep, LookStep, InsertStep, ClaimStep, QuietDelivery,
     MarkStep, ArriveStep, DeliveredStep, ShutdownStep, FailStep, WriteStep
     DEF Step
<1> QED
  BY <1>1, ReconcileStep, LandStep, TickStep, CrashStep, StutterStep DEF Next

(***************************************************************************)
(* One run an hour. Two runs of an hour that are there or under way have   *)
(* crossed, for a look that saw the one would not have begun the other.    *)
(***************************************************************************)
Pending(r) ==
  \/ \E u \in Tasks : At(u, "insert") /\ task[u].run = r
  \/ \E s \in left : s.pc = "insert" /\ s.run = r

Begun(r) == row[r].status # "none" \/ Pending(r)

HourInv ==
  \A q, r \in Runs :
    q # r /\ SameHour(q, r) /\ Begun(q) /\ Begun(r) => {q, r} \subseteq crossed

BeginsNothing == UNCHANGED crossed /\ \A r \in Runs : Begun(r)' => Begun(r)

LEMMA NothingBegun ==
  ASSUME HourInv, BeginsNothing
  PROVE  HourInv'
BY DEF HourInv, BeginsNothing, SameHour

\* Nothing is inserted but what was being inserted.
AddsNothing ==
  /\ \A r \in Runs : row'[r].status # "none" => Begun(r)
  /\ \A t \in Tasks : task'[t].pc = "insert" =>
       task[t].pc = "insert" /\ task'[t].run = task[t].run
  /\ \A s \in left' : s \in left \/ \E t \in Tasks : s = Statement(t)
  /\ UNCHANGED crossed

LEMMA NothingAdded ==
  ASSUME HourInv, AddsNothing
  PROVE  HourInv'
<1>1. \A r \in Runs : Pending(r)' => Pending(r)
  <2> SUFFICES ASSUME NEW r \in Runs, Pending(r)' PROVE Pending(r)
    OBVIOUS
  <2>1. CASE \E u \in Tasks : task'[u].pc = "insert" /\ task'[u].run = r
    BY <2>1 DEF AddsNothing, Pending, At
  <2>2. CASE \E s \in left' : s.pc = "insert" /\ s.run = r
    <3>1. PICK s \in left' : s.pc = "insert" /\ s.run = r
      BY <2>2
    <3>2. CASE s \in left
      BY <3>1, <3>2 DEF Pending
    <3>3. ASSUME NEW t \in Tasks, s = Statement(t) PROVE Pending(r)
      BY <3>1, <3>3 DEF Statement, Pending, At
    <3> QED
      BY <3>2, <3>3 DEF AddsNothing
  <2> QED
    BY <2>1, <2>2 DEF Pending, At
<1>2. BeginsNothing
  BY <1>1 DEF BeginsNothing, AddsNothing, Begun
<1> QED
  BY <1>2, NothingBegun

LEMMA HourStartOfStart ==
  ASSUME NEW n \in Nat
  PROVE  HourStart(HourStart(n)) = HourStart(n)
<1>1. Hour \in Int /\ Hour > 0
  BY DigestConstants
<1>2. PICK k \in Nat : k = n \div Hour
  BY <1>1, Z3
<1>3. (k * Hour) \div Hour = k
  BY <1>1, <1>2, Z3
<1> QED
  BY <1>2, <1>3 DEF HourStart

LEMMA QuietHours ==
  ASSUME DigestInv, HourInv, NEW t \in Tasks,
         \/ Abort(t) \/ Begin(t) \/ Stop(t) \/ Recover(t) \/ Claim(t) \/ Retry(t)
         \/ Build(t) \/ Mark(t) \/ Check(t) \/ Arrive(t) \/ Answer(t) \/ Delivered(t)
         \/ Shutdown(t) \/ Fail(t) \/ Write(t)
  PROVE  HourInv'
<1> SUFFICES AddsNothing
  BY NothingAdded
<1>1. row \in [Runs -> RowType] /\ task \in [Tasks -> TaskType] /\ Knows(task[t])
  BY RowsAreTyped, TaskIsTyped DEF DigestInv, TypeInv, TypeOK
<1>2. UNCHANGED crossed /\ \A s \in left' : s \in left \/ s = Statement(t)
  BY DEF Abort, Begin, Stop, Recover, Claim, Retry, Build, Mark, Check, Arrive, Answer,
         Delivered, Shutdown, Fail, Write, Verdict, Drop
<1>3. \A u \in Tasks : u # t => task'[u] = task[u]
  BY <1>1 DEF Abort, Begin, Stop, Recover, Claim, Retry, Build, Mark, Check, Arrive,
         Answer, Delivered, Shutdown, Fail, Write, Verdict, Goto, Finish
<1>4. task'[t].pc # "insert"
  <2>1. PICK d \in TaskType : d = task[t]
    BY <1>1
  <2>2. Off.pc = "off" /\ Looping(d).pc = "loop"
    BY OffForm, LoopForm
  <2>3. CASE task' = [task EXCEPT ![t] = Off] \/ task' = [task EXCEPT ![t] = Looping(d)]
    BY <1>1, <2>2, <2>3
  <2>4. ASSUME NEW pc \in Pcs \ {"insert"}, Goto(t, pc)
        PROVE  task'[t].pc # "insert"
    BY <1>1, <2>1, <2>4, PcForm DEF Goto
  <2>6. CASE Abort(t) \/ Stop(t) \/ Retry(t) \/ Delivered(t) \/ Write(t)
    BY <2>1, <2>3, <2>6 DEF Abort, Stop, Retry, Delivered, Write, Verdict, Finish
  <2>7. CASE \/ Recover(t) \/ Build(t) \/ Mark(t) \/ Check(t) \/ Arrive(t) \/ Answer(t)
    <3>1. {"hourly", "startup", "mark", "fail", "check", "send", "arrived", "sent"}
            \subseteq Pcs \ {"insert"}
      BY DEF Pcs
    <3>2. PICK pc \in {"hourly", "startup", "mark", "fail", "check", "send", "arrived", "sent"} :
            Goto(t, pc)
      BY <2>7 DEF Recover, Build, Mark, Check, Arrive, Answer
    <3> QED
      BY <2>4, <3>1, <3>2
  <2>8. CASE Begin(t)
    BY <1>1, <2>1, <2>3, <2>8 DEF Begin, Finish, TaskType
  <2>9. CASE Claim(t)
    <3>1. CASE task' = [task EXCEPT ![t] = Looping(@)]
      BY <2>1, <2>3, <3>1
    <3>2. ASSUME NEW r \in Runs, NEW n,
                 task' = [task EXCEPT ![t] = [@ EXCEPT !.pc = "build", !.run = r, !.token = n,
                                                       !.at = 0, !.target = None]]
          PROVE  task'[t].pc # "insert"
      BY <1>1, <2>1, <3>2 DEF TaskType
    <3> QED
      BY <2>9, <3>1, <3>2 DEF Claim
  <2>10. CASE Shutdown(t)
    BY <1>1, <2>1, <2>10 DEF Shutdown, TaskType
  <2>11. CASE Fail(t)
    BY <1>1, <2>1, <2>11 DEF Fail, TaskType
  <2> QED
    BY <2>6, <2>7, <2>8, <2>9, <2>10, <2>11
<1>5. \A r \in Runs : row'[r].status # "none" => row[r].status # "none"
  BY <1>1 DEF Abort, Begin, Stop, Recover, RecoverAll, Claim, Retry, Build, Mark, Record,
         Check, Arrive, Answer, Delivered, Close, Shutdown, Fail, Write, Verdict, RowType,
         Abandoned, First, Ripe, Mine, Current
<1> QED
  BY <1>2, <1>3, <1>4, <1>5 DEF AddsNothing, Begun

\* A task goes to insert a run of an hour that has none; those that are under
\* way it crosses.
LEMMA LookHours ==
  ASSUME DigestInv, HourInv, NEW t \in Tasks, Look(t)
  PROVE  HourInv'
<1> DEFINE due == DueAt(t)
           next == IF At(t, "startup") THEN "hourly" ELSE "claim"
<1>1. PICK d \in TaskType : d = task[t]
  BY TaskIsTyped
<1>2. /\ d.pc \in {"startup", "hourly"} /\ d.at \in Ticks /\ d.target \in Targets
      /\ UNCHANGED <<row, left>>
  BY <1>1, TaskIsTyped DEF Look, At, Knows, Reading
<1>3. due \in Ticks /\ HourStart(due) = HourStart(d.at)
  BY <1>1, <1>2, HourStartIsTick, HourStartOfStart DEF DueAt, Ticks
<1> HIDE DEF due
<1>4. task \in [Tasks -> TaskType]
  BY DEF DigestInv, TypeInv, TypeOK
<1>5. CASE task' = [task EXCEPT ![t].pc = next, ![t].begun = TRUE] /\ UNCHANGED crossed
  <2>1. /\ \A u \in Tasks : u # t => task'[u] = task[u]
        /\ task'[t].pc # "insert"
    BY <1>1, <1>4, <1>5 DEF TaskType
  <2>2. AddsNothing
    BY <1>2, <1>5, <2>1 DEF AddsNothing, Begun
  <2> QED
    BY <2>2, NothingAdded
<1>6. ASSUME NEW new, new = <<due, d.target>>, ~Covered(d.target, d.at, due),
             task' = [task EXCEPT ![t].pc = "insert", ![t].run = new],
             crossed' = IF Inserting(new) = {} THEN crossed
                        ELSE crossed \cup {new} \cup Inserting(new)
      PROVE  HourInv'
  <2>1. /\ \A u \in Tasks : u # t => task'[u] = task[u]
        /\ task'[t].run = new /\ task[t].pc # "insert"
    BY <1>1, <1>2, <1>4, <1>6 DEF TaskType
  <2>2. \A r \in Runs : row[r].status # "none" => ~SameHour(r, new)
    BY <1>3, <1>6 DEF Covered, SameHour, Target, Due
  <2>3. new \in Runs /\ crossed \subseteq crossed'
    BY <1>2, <1>3, <1>6 DEF Runs
  <2>4. \A r \in Runs : r # new /\ Begun(r)' => Begun(r)
    BY <1>2, <2>1 DEF Begun, Pending, At
  <2>5. \A r \in Runs : r # new /\ SameHour(r, new) /\ Begun(r)' => {r, new} \subseteq crossed'
    <3> SUFFICES ASSUME NEW r \in Runs, r # new, SameHour(r, new), Begun(r)'
                 PROVE  {r, new} \subseteq crossed'
      OBVIOUS
    <3>1. Pending(r)
      BY <2>2, <2>4 DEF Begun
    <3>2. r \in Inserting(new)
      BY <3>1 DEF Inserting, Pending
    <3> QED
      BY <1>6, <3>2
  <2>6. \A q, r \in Runs : SameHour(q, r) => SameHour(r, q)
    BY DEF SameHour
  <2> SUFFICES ASSUME NEW q \in Runs, NEW r \in Runs,
                      q # r, SameHour(q, r), Begun(q)', Begun(r)'
               PROVE  {q, r} \subseteq crossed'
    BY DEF HourInv, SameHour
  <2>7. CASE q = new \/ r = new
    BY <2>3, <2>5, <2>6, <2>7
  <2>8. CASE q # new /\ r # new
    <3>1. Begun(q) /\ Begun(r)
      BY <2>4, <2>8
    <3> QED
      BY <2>3, <3>1 DEF HourInv
  <2> QED
    BY <2>7, <2>8
<1>7. \/ task' = [task EXCEPT ![t].pc = next, ![t].begun = TRUE] /\ UNCHANGED crossed
      \/ /\ ~Covered(d.target, d.at, due)
         /\ task' = [task EXCEPT ![t].pc = "insert", ![t].run = <<due, d.target>>]
         /\ crossed' = IF Inserting(<<due, d.target>>) = {} THEN crossed
                       ELSE crossed \cup {<<due, d.target>>} \cup Inserting(<<due, d.target>>)
  BY <1>1 DEF Look, due
<1> QED
  BY <1>5, <1>6, <1>7

\* The run that is added was being inserted.
LEMMA AddedWasPending ==
  ASSUME DigestInv, NEW r \in Runs, Pending(r), Add(r)
  PROVE  \A q \in Runs : row'[q].status # "none" => Begun(q)
BY RowsAreTyped DEF Add, Begun

LEMMA InsertHours ==
  ASSUME DigestInv, HourInv, NEW t \in Tasks, Insert(t)
  PROVE  HourInv'
<1>1. PICK d \in TaskType : d = task[t]
  BY TaskIsTyped
<1>2. d.pc = "insert" /\ UNCHANGED <<left, crossed>>
  BY <1>1 DEF Insert, At
<1>3. d.run \in Runs /\ Pending(d.run)
  BY <1>1, <1>2, TaskIsTyped DEF Knows, Pending, At
<1>4. \A q \in Runs : row'[q].status # "none" => Begun(q)
  BY <1>1, <1>3, AddedWasPending DEF Insert
<1>5. /\ \A u \in Tasks : u # t => task'[u] = task[u]
      /\ task'[t].pc \in {"claim", "hourly"}
  BY <1>1 DEF Insert, TaskType, DigestInv, TypeInv, TypeOK
<1>6. AddsNothing
  BY <1>2, <1>4, <1>5 DEF AddsNothing
<1> QED
  BY <1>6, NothingAdded

LEMMA LandHours ==
  ASSUME DigestInv, HourInv, NEW s \in left, Land(s)
  PROVE  HourInv'
<1>1. row \in [Runs -> RowType] /\ s \in LeftType /\ KnowsLeft(s)
  BY RowsAreTyped DEF DigestInv, TypeInv, TypeOK
<1>2. left' \subseteq left /\ UNCHANGED <<task, crossed>>
  BY DEF Land
<1>3. \A q \in Runs : row'[q].status # "none" => Begun(q)
  <2>1. CASE s.pc = "insert" /\ Add(s.run)
    <3>1. s.run \in Runs /\ Pending(s.run)
      BY <1>1, <2>1 DEF KnowsLeft, Pending
    <3> QED
      BY <2>1, <3>1, AddedWasPending
  <2>2. CASE s.pc = "recover" /\ RecoverAll(s.at)
    BY <1>1, <2>2 DEF RecoverAll, Abandoned, Begun
  <2>3. CASE s.pc \in {"mark", "sent", "write"} /\ Fenced(s)
    BY <1>1, <2>3 DEF Fenced, Current, Record, Close, Begun, RowType
  <2> QED
    BY <2>1, <2>2, <2>3 DEF Land
<1>4. AddsNothing
  BY <1>2, <1>3 DEF AddsNothing
<1> QED
  BY <1>4, NothingAdded

LEMMA ReconcileHours ==
  ASSUME DigestInv, HourInv, NEW ready \in BOOLEAN, Reconcile(ready)
  PROVE  HourInv'
<1>1. task \in [Tasks -> TaskType] /\ UNCHANGED <<row, left, crossed>>
  BY DEF Reconcile, DigestInv, TypeInv, TypeOK
<1>2. \A u \in Tasks : task'[u].pc = "insert" =>
        task[u].pc = "insert" /\ task'[u].run = task[u].run
  <2>1. CASE UNCHANGED task
    BY <2>1
  <2>2. CASE IsRunning /\ task' = [task EXCEPT ![slot].signalled = TRUE]
    BY <1>1, <2>2 DEF TaskType
  <2>3. ASSUME NEW t \in Tasks, Spawn(t)
        PROVE  \A u \in Tasks : task'[u].pc = "insert" =>
                 task[u].pc = "insert" /\ task'[u].run = task[u].run
    <3>1. [Off EXCEPT !.pc = "loop"].pc = "loop"
      BY OffForm, PcForm DEF Pcs
    <3> QED
      BY <1>1, <2>3, <3>1 DEF Spawn
  <2> QED
    BY <2>1, <2>2, <2>3 DEF Reconcile, StartDigestIfNeeded, ShutdownDigest
<1>3. AddsNothing
  BY <1>1, <1>2 DEF AddsNothing, Begun
<1> QED
  BY <1>3, NothingAdded

LEMMA OtherHours ==
  ASSUME DigestInv, HourInv, Tick \/ Crash \/ UNCHANGED vars
  PROVE  HourInv'
<1>1. CASE Tick \/ UNCHANGED vars
  BY <1>1, NothingAdded DEF Tick, vars, AddsNothing, Begun
<1>2. CASE Crash
  <2>1. \A t \in Tasks : task'[t].pc = "off"
    BY <1>2, OffForm DEF Crash
  <2> QED
    BY <1>2, <2>1, NothingAdded DEF Crash, AddsNothing, Begun
<1> QED
  BY <1>1, <1>2

LEMMA NextHours == DigestInv /\ HourInv /\ [Next]_vars => HourInv'
<1> SUFFICES ASSUME DigestInv, HourInv, [Next]_vars PROVE HourInv'
  OBVIOUS
<1>1. ASSUME NEW t \in Tasks, Step(t)
      PROVE  HourInv'
  BY <1>1, QuietHours, LookHours, InsertHours DEF Step
<1> QED
  BY <1>1, ReconcileHours, LandHours, OtherHours DEF Next

(***************************************************************************)
(* The theorems.                                                           *)
(***************************************************************************)
\* The types of the tables and the tasks, and what a run's claims know of one
\* another, hold for any tasks, targets and limits.
THEOREM DigestInvariant == Spec => []DigestInv
BY InitInv, NextStep, PTL DEF Spec

\* Type correctness.
THEOREM DigestTypes == Spec => []TypeOK
<1>1. DigestInv => TypeOK
  BY DEF DigestInv, TypeInv
<1> QED
  BY <1>1, DigestInvariant, PTL

\* The digest of a run reaches its chat at most once, however many schedulers
\* overlap, die, are shut down or lose their claim in the middle of it.
THEOREM DigestIsSentOnce == Spec => []SentOnce
<1>1. DigestInv => SentOnce
  BY DEF DigestInv, ClaimInv
<1> QED
  BY <1>1, DigestInvariant, PTL

\* Two runs of an hour for one target were looked for while the other was being
\* inserted: whatever schedulers overlap and whenever a statement left behind is
\* run, a run that is there keeps every later look from adding another.
THEOREM HoursHaveOneRun == Spec => []HourHasOneRun
<1>1. Init => HourInv
  BY OffForm DEF Init, HourInv, Begun, Pending, At, Absent
<1>2. HourInv => HourHasOneRun
  BY DEF HourInv, HourHasOneRun, Begun
<1> QED
  BY <1>1, <1>2, NextHours, DigestInvariant, PTL DEF Spec

=============================================================================
