------------------------- MODULE CommandLedgerProofs -------------------------
(***************************************************************************)
(* Proofs about CommandLedger, for any set of calls, keys and payloads,    *)
(* any lease and any clock.                                                *)
(***************************************************************************)
EXTENDS CommandLedger, TLAPS

(***************************************************************************)
(* Types.                                                                  *)
(***************************************************************************)

\* The row a call works on is a row.
LEMMA RowOfType ==
  ASSUME TypeOK, NEW c \in Calls
  PROVE  Key(c) \in Keys /\ Hash(c) \in Hashes /\ RowOf(c) \in Row
  BY DEF TypeOK, Key, Hash, RowOf

\* Every row the statements write is a row.
LEMMA RowForms ==
  ASSUME TypeOK, NEW c \in Calls, NEW row \in Row
  PROVE  /\ Absent \in Row
         /\ NewClaim(c) \in Row
         /\ TakenOver(c, row) \in Row
         /\ Refreshed(row) \in Row
         /\ [row EXCEPT !.locks = c] \in Row
         /\ CompletedBy(c, row) \in Row
         /\ CompletedBy(c, [Absent EXCEPT !.hash = Hash(c), !.token = c]) \in Row
         /\ FailedBy(c, row) \in Row
         /\ GivenUp(row) \in Row
         /\ \A b \in BOOLEAN : [row EXCEPT !.dismissed = b] \in Row
<1>1. /\ NoLease \in Leases
      /\ now + LeaseTime \in Leases
      /\ call[c].readAt + LeaseTime \in Leases
  BY LedgerAssumption DEF Leases, TypeOK, CallState
<1>2. /\ "absent" \in Statuses /\ "in_progress" \in Statuses
      /\ "completed" \in Statuses /\ "failed_retryable" \in Statuses
      /\ "failed_terminal" \in Statuses
  BY DEF Statuses
<1>3. Nil \in Authors /\ c \in Authors /\ Operator \in Authors
  BY DEF Authors
<1>4. Hash(c) \in Hashes
  BY RowOfType
<1>5. Absent \in Row
  BY <1>1, <1>2, <1>3 DEF Absent, Row
<1>6. NewClaim(c) \in Row
  BY <1>1, <1>2, <1>4, <1>5 DEF NewClaim, Row
<1>7. TakenOver(c, row) \in Row
  BY <1>1, <1>2, <1>3 DEF TakenOver, Row
<1>8. Refreshed(row) \in Row /\ [row EXCEPT !.locks = c] \in Row
  BY <1>1 DEF Refreshed, Row
<1>9. ASSUME NEW r \in Row PROVE CompletedBy(c, r) \in Row
  BY <1>1, <1>2, <1>3 DEF CompletedBy, Row
<1>10. [Absent EXCEPT !.hash = Hash(c), !.token = c] \in Row
  BY <1>4, <1>5 DEF Row
<1>11. FailedBy(c, row) \in Row
  BY <1>1, <1>2, <1>3 DEF FailedBy, Row
<1>12. GivenUp(row) \in Row
  BY <1>1, <1>2, <1>3 DEF GivenUp, Row
<1>13. \A b \in BOOLEAN : [row EXCEPT !.dismissed = b] \in Row
  BY DEF Row
<1> QED
  BY <1>5, <1>6, <1>7, <1>8, <1>9, <1>10, <1>11, <1>12, <1>13

\* What the operators that write a row or move a call do.
LEMMA WriteEffect ==
  ASSUME TypeOK, NEW c \in Calls, NEW row \in Row, Write(c, row)
  PROVE  /\ ledger' \in [Keys -> Row]
         /\ ledger'[Key(c)] = row
         /\ \A k \in Keys : k # Key(c) => ledger'[k] = ledger[k]
  BY DEF TypeOK, Write, Key

LEMMA GotoEffect ==
  ASSUME TypeOK, NEW c \in Calls, NEW pc \in PCs, Goto(c, pc)
  PROVE  /\ call' \in [Calls -> CallState]
         /\ call'[c].pc = pc /\ call'[c].reply = call[c].reply
         /\ \A d \in Calls : d # c => call'[d] = call[d]
  BY DEF TypeOK, Goto, CallState

LEMMA AnswerEffect ==
  ASSUME TypeOK, NEW c \in Calls, NEW kind \in Kinds, NEW by \in Authors,
         Answer(c, kind, by)
  PROVE  /\ call' \in [Calls -> CallState]
         /\ call'[c].pc = "done" /\ call'[c].reply = [kind |-> kind, by |-> by]
         /\ \A d \in Calls : d # c => call'[d] = call[d]
<1>1. "done" \in PCs /\ [kind |-> kind, by |-> by] \in Reply
  BY DEF PCs, Reply
<1> QED
  BY <1>1 DEF TypeOK, Answer, CallState

LEMMA FailEffect ==
  ASSUME TypeOK, NEW c \in Calls, NEW f \in Failures, FailWith(c, f)
  PROVE  /\ call' \in [Calls -> CallState]
         /\ call'[c].pc = "finalize" /\ call'[c].reply = call[c].reply
         /\ \A d \in Calls : d # c => call'[d] = call[d]
<1>1. "finalize" \in PCs
  BY DEF PCs, InFlight
<1> QED
  BY <1>1 DEF TypeOK, FailWith, CallState

\* A row answers a call with its recorded response, its recorded error, or
\* something that commits to nothing.
LEMMA ResolutionForms ==
  ASSUME NEW row \in Row, NEW hash \in Hashes
  PROVE  \E kind \in Kinds, by \in Authors :
           /\ Resolution(row, hash) = [kind |-> kind, by |-> by]
           /\ \/ kind = "replayed" /\ row.status = "completed"
                 /\ row.hash = hash /\ by = row.response
              \/ kind = "terminal" /\ row.status = "failed_terminal"
                 /\ row.hash = hash /\ by = row.error
              \/ kind = "hash_mismatch" /\ row.hash # hash /\ by = Nil
              \/ kind = "in_flight" /\ by = Nil
<1>1. /\ "replayed" \in Kinds /\ "terminal" \in Kinds
      /\ "hash_mismatch" \in Kinds /\ "in_flight" \in Kinds
  BY DEF Kinds
<1>2. Nil \in Authors /\ row.response \in Authors /\ row.error \in Authors
  BY DEF Authors, Row
<1>3. CASE row.hash # hash
  BY <1>1, <1>2, <1>3 DEF Resolution
<1>4. CASE row.hash = hash /\ row.status = "completed"
  BY <1>1, <1>2, <1>4 DEF Resolution
<1>5. CASE row.hash = hash /\ row.status = "failed_terminal"
  BY <1>1, <1>2, <1>5 DEF Resolution
<1>6. CASE row.hash = hash /\ row.status \notin {"completed", "failed_terminal"}
  BY <1>1, <1>2, <1>6 DEF Resolution
<1> QED
  BY <1>3, <1>4, <1>5, <1>6

LEMMA ResolveEffect ==
  ASSUME TypeOK, NEW c \in Calls, Resolve(c)
  PROVE  \E kind \in Kinds, by \in Authors :
           /\ Answer(c, kind, by)
           /\ \/ kind = "replayed" /\ RowOf(c).status = "completed"
                 /\ RowOf(c).hash = Hash(c) /\ by = RowOf(c).response
              \/ kind = "terminal" /\ RowOf(c).status = "failed_terminal"
                 /\ RowOf(c).hash = Hash(c) /\ by = RowOf(c).error
              \/ kind = "hash_mismatch" /\ RowOf(c).hash # Hash(c) /\ by = Nil
              \/ kind = "in_flight" /\ by = Nil
<1>1. PICK kind \in Kinds, by \in Authors :
           /\ Resolution(RowOf(c), Hash(c)) = [kind |-> kind, by |-> by]
           /\ \/ kind = "replayed" /\ RowOf(c).status = "completed"
                 /\ RowOf(c).hash = Hash(c) /\ by = RowOf(c).response
              \/ kind = "terminal" /\ RowOf(c).status = "failed_terminal"
                 /\ RowOf(c).hash = Hash(c) /\ by = RowOf(c).error
              \/ kind = "hash_mismatch" /\ RowOf(c).hash # Hash(c) /\ by = Nil
              \/ kind = "in_flight" /\ by = Nil
  BY RowOfType, ResolutionForms
<1>2. Answer(c, kind, by)
  BY <1>1 DEF Resolve
<1> QED
  BY <1>1, <1>2

(***************************************************************************)
(* The induction.  A step of a call either leaves the tables alone         *)
(* (QuietStep) or writes its own row (WriteStep); the operator writes any  *)
(* recoverable row (OperatorStep).                                         *)
(***************************************************************************)
Settled == {"completed", "failed_terminal"}

\* The part of the invariant that is not typing.
Exact == /\ SilentUntilDone /\ RowsHavePayloads /\ ClaimHasAnOwner
         /\ EffectIffCompleted /\ AnswersAreKept

\* A step of c that touches no row keeps the invariant, if it tells c nothing
\* but what the row says and does not drop a claim without telling so.
LEMMA QuietStep ==
  ASSUME LedgerInv, NEW c \in Calls, UNCHANGED <<request, ledger, effects>>,
         \A d \in Calls : d # c => call'[d] = call[d],
         call'[c].pc # "done" => call'[c].reply = [kind |-> "none", by |-> Nil],
         Owns(c) => \/ call'[c].pc \in Holding
                    \/ call'[c].pc = "done" /\ call'[c].reply.kind = "unrecorded",
         call'[c].reply.kind \in {"ok", "replayed"} =>
           /\ RowOf(c).status = "completed" /\ RowOf(c).hash = Hash(c)
           /\ RowOf(c).response = call'[c].reply.by,
         call'[c].reply.kind = "terminal" =>
           /\ RowOf(c).status = "failed_terminal" /\ RowOf(c).hash = Hash(c)
           /\ RowOf(c).error = call'[c].reply.by
  PROVE  Exact'
<1> USE DEF LedgerInv
<1>1. SilentUntilDone'
  BY DEF SilentUntilDone
<1>2. RowsHavePayloads'
  BY DEF RowsHavePayloads, Absent
<1>3. ClaimHasAnOwner'
  BY DEF ClaimHasAnOwner, Owns, RowOf, Key
<1>4. EffectIffCompleted'
  BY DEF EffectIffCompleted
<1>5. AnswersAreKept'
  BY DEF AnswersAreKept, RowOf, Key, Hash
<1> QED
  BY <1>1, <1>2, <1>3, <1>4, <1>5 DEF Exact

\* A call that writes its own row keeps the invariant, if the row was not
\* settled, the payload is its own, a claim it writes is its own, and it
\* completes the row together with its business write.
LEMMA WriteStep ==
  ASSUME LedgerInv, NEW c \in Calls, NEW row \in Row, Write(c, row),
         UNCHANGED request,
         \A d \in Calls : d # c => call'[d] = call[d],
         RowOf(c).status \notin Settled,
         row.status # "absent" /\ row.hash = Hash(c),
         row.status = "in_progress" => row.token = c /\ call'[c].pc \in Holding,
         \/ row.status # "completed" /\ effects' = effects
         \/ /\ row.status = "completed" /\ row.response = c
            /\ effects' = effects \cup {[key |-> Key(c), hash |-> Hash(c), by |-> c]},
         call'[c].pc # "done" => call'[c].reply = [kind |-> "none", by |-> Nil],
         call'[c].reply.kind \in {"ok", "replayed"} =>
           row.status = "completed" /\ row.response = call'[c].reply.by,
         call'[c].reply.kind = "terminal" =>
           row.status = "failed_terminal" /\ row.error = call'[c].reply.by
  PROVE  Exact'
<1> USE DEF LedgerInv
<1>1. /\ Key(c) \in Keys /\ Hash(c) \in Hashes
      /\ ledger'[Key(c)] = row
      /\ \A k \in Keys : k # Key(c) => ledger'[k] = ledger[k]
  BY RowOfType, WriteEffect
<1>2. SilentUntilDone'
  BY DEF SilentUntilDone
<1>3. RowsHavePayloads'
  BY <1>1 DEF RowsHavePayloads, Absent
<1>4. request[c] = [key |-> Key(c), hash |-> Hash(c)]
  BY DEF TypeOK, Key, Hash
<1>5. ClaimHasAnOwner'
  <2> SUFFICES ASSUME NEW k \in Keys, ledger'[k].status = "in_progress"
               PROVE  /\ ledger'[k].token \in Calls
                      /\ request[ledger'[k].token] = [key |-> k, hash |-> ledger'[k].hash]
                      /\ \/ call'[ledger'[k].token].pc \in Holding
                         \/ /\ call'[ledger'[k].token].pc = "done"
                            /\ call'[ledger'[k].token].reply.kind = "unrecorded"
    BY DEF ClaimHasAnOwner
  <2>1. CASE k = Key(c)
    BY <1>1, <1>4, <2>1
  <2>2. CASE k # Key(c)
    <3>1. ledger'[k] = ledger[k] /\ ledger[k].status = "in_progress"
      BY <1>1, <2>2
    <3>2. request[ledger[k].token] = [key |-> k, hash |-> ledger[k].hash]
      BY <3>1 DEF ClaimHasAnOwner
    <3>3. request[ledger[k].token].key = k
      BY <3>2
    <3>4. ledger[k].token # c
      BY <2>2, <3>3 DEF Key
    <3> QED
      BY <3>1, <3>4 DEF ClaimHasAnOwner
  <2> QED
    BY <2>1, <2>2
<1>6. EffectIffCompleted'
  <2>1. \A e \in effects : e.key \in Keys /\ e.key # Key(c)
    BY DEF EffectIffCompleted, RowOf, Settled, TypeOK
  <2>2. CASE row.status # "completed" /\ effects' = effects
    BY <1>1, <2>1, <2>2 DEF EffectIffCompleted
  <2>3. CASE /\ row.status = "completed" /\ row.response = c
             /\ effects' = effects \cup {[key |-> Key(c), hash |-> Hash(c), by |-> c]}
    <3> DEFINE mine == [key |-> Key(c), hash |-> Hash(c), by |-> c]
    <3>1. mine.key = Key(c) /\ mine.hash = Hash(c) /\ mine.by = c
      OBVIOUS
    <3>2. \A e \in effects' : e = mine \/ e \in effects
      BY <2>3
    <3> HIDE DEF mine
    <3>3. \A e \in effects' : /\ ledger'[e.key].status = "completed"
                              /\ ledger'[e.key].hash = e.hash
                              /\ ledger'[e.key].response = e.by
      BY <1>1, <2>1, <2>3, <3>1, <3>2 DEF EffectIffCompleted
    <3>4. ASSUME NEW k \in Keys, ledger'[k].status = "completed"
          PROVE  [key |-> k, hash |-> ledger'[k].hash, by |-> ledger'[k].response]
                   \in effects'
      <4>1. CASE k = Key(c)
        BY <1>1, <2>3, <4>1 DEF mine
      <4>2. CASE k # Key(c)
        BY <1>1, <2>3, <3>4, <4>2 DEF EffectIffCompleted
      <4> QED
        BY <4>1, <4>2
    <3> QED
      BY <3>3, <3>4 DEF EffectIffCompleted
  <2> QED
    BY <2>2, <2>3
<1>7. AnswersAreKept'
  <2> SUFFICES ASSUME NEW d \in Calls
               PROVE /\ call'[d].reply.kind \in {"ok", "replayed"} =>
                          /\ ledger'[Key(d)].status = "completed"
                          /\ ledger'[Key(d)].response = call'[d].reply.by
                          /\ ledger'[Key(d)].hash = Hash(d)
                     /\ call'[d].reply.kind = "terminal" =>
                          /\ ledger'[Key(d)].status = "failed_terminal"
                          /\ ledger'[Key(d)].error = call'[d].reply.by
                          /\ ledger'[Key(d)].hash = Hash(d)
    BY DEF AnswersAreKept, RowOf, Key, Hash
  <2>1. CASE d = c
    BY <1>1, <2>1
  <2>2. CASE d # c /\ Key(d) = Key(c)
    BY <2>2 DEF AnswersAreKept, RowOf, Settled
  <2>3. CASE d # c /\ Key(d) # Key(c)
    BY <1>1, <2>3, RowOfType DEF AnswersAreKept, RowOf
  <2> QED
    BY <2>1, <2>2, <2>3
<1> QED
  BY <1>2, <1>3, <1>5, <1>6, <1>7 DEF Exact

\* The operator changes a recoverable row, which no answer was read from.
LEMMA OperatorStep ==
  ASSUME LedgerInv, NEW k \in Keys, NEW row \in Row,
         UNCHANGED <<request, effects, call>>,
         ledger' = [ledger EXCEPT ![k] = row],
         ledger[k].status \in {"in_progress", "failed_retryable"},
         row.hash = ledger[k].hash,
         \/ row.status = ledger[k].status /\ row.token = ledger[k].token
         \/ row.status = "failed_terminal"
  PROVE  Exact'
<1> USE DEF LedgerInv
<1>1. /\ ledger'[k] = row
      /\ \A j \in Keys : j # k => ledger'[j] = ledger[j]
  BY DEF TypeOK
<1>2. SilentUntilDone'
  BY DEF SilentUntilDone
<1>3. RowsHavePayloads'
  BY <1>1 DEF RowsHavePayloads, Absent
<1>4. ClaimHasAnOwner'
  BY <1>1 DEF ClaimHasAnOwner
<1>5. EffectIffCompleted'
  <2>1. \A e \in effects : e.key \in Keys /\ e.key # k
    BY DEF EffectIffCompleted, TypeOK
  <2> QED
    BY <1>1, <2>1 DEF EffectIffCompleted
<1>6. AnswersAreKept'
  <2>1. \A d \in Calls : Key(d) \in Keys /\ Key(d)' = Key(d) /\ Hash(d)' = Hash(d)
    BY RowOfType DEF Key, Hash
  <2>2. ASSUME NEW d \in Calls, Key(d) = k
        PROVE  call[d].reply.kind \notin {"ok", "replayed", "terminal"}
    BY <2>2 DEF AnswersAreKept, RowOf
  <2> QED
    BY <1>1, <2>1, <2>2 DEF AnswersAreKept, RowOf
<1> QED
  BY <1>2, <1>3, <1>4, <1>5, <1>6 DEF Exact

LEMMA InitInv == Init => LedgerInv
<1> SUFFICES ASSUME Init PROVE LedgerInv
  OBVIOUS
<1>1. TypeOK
  <2>1. Absent \in Row
    BY DEF Absent, Row, Statuses, Leases, Authors
  <2>2. [pc |-> "idle", readAt |-> 0, failure |-> "retryable",
         reply |-> [kind |-> "none", by |-> Nil]] \in CallState
    BY DEF CallState, PCs, Failures, Reply, Kinds, Authors
  <2> QED
    BY <2>1, <2>2 DEF Init, TypeOK
<1>2. /\ ClaimHasAnOwner /\ EffectIffCompleted /\ AnswersAreKept
      /\ SilentUntilDone /\ RowsHavePayloads
  BY <1>1 DEF Init, TypeOK, ClaimHasAnOwner, EffectIffCompleted, AnswersAreKept,
              SilentUntilDone, RowsHavePayloads, Absent, RowOf, Key
<1> QED
  BY <1>1, <1>2 DEF LedgerInv

\* A call that is not done has been told nothing, so a step that moves it
\* without an answer leaves it silent.
LEMMA MoveStep ==
  ASSUME LedgerInv, NEW c \in Calls, call[c].pc # "done",
         UNCHANGED <<request, now, ledger, effects, audit>>,
         call' \in [Calls -> CallState],
         \A d \in Calls : d # c => call'[d] = call[d],
         call'[c].pc # "done", call'[c].reply = call[c].reply,
         call[c].pc \in Holding => call'[c].pc \in Holding
  PROVE  LedgerInv'
<1>1. TypeOK'
  BY DEF LedgerInv, TypeOK
<1>2. call[c].reply = [kind |-> "none", by |-> Nil]
  BY DEF LedgerInv, SilentUntilDone
<1>3. Owns(c) => call[c].pc \in Holding
  <2> SUFFICES ASSUME Owns(c) PROVE call[c].pc \in Holding
    OBVIOUS
  <2>1. Key(c) \in Keys /\ ClaimHasAnOwner
    BY RowOfType DEF LedgerInv
  <2>2. ledger[Key(c)].status = "in_progress" /\ ledger[Key(c)].token = c
    BY DEF Owns, RowOf
  <2>3. call[c].pc \in Holding \/ call[c].pc = "done"
    BY <2>1, <2>2, Zenon DEF ClaimHasAnOwner
  <2> QED
    BY <2>3
<1>4. Exact'
  BY <1>2, <1>3, QuietStep
<1> QED
  BY <1>1, <1>4 DEF LedgerInv, Exact

\* A step that ends the call c without touching the row, and tells c what the
\* row says or an error nobody recorded.
LEMMA TellStep ==
  ASSUME LedgerInv, NEW c \in Calls, call[c].pc # "done",
         NEW kind \in Kinds, NEW by \in Authors, Answer(c, kind, by),
         UNCHANGED <<request, now, ledger, effects, audit>>,
         \/ kind = "unrecorded"
         \/ /\ ~Owns(c)
            /\ \/ kind = "replayed" /\ RowOf(c).status = "completed"
                  /\ RowOf(c).hash = Hash(c) /\ by = RowOf(c).response
               \/ kind = "terminal" /\ RowOf(c).status = "failed_terminal"
                  /\ RowOf(c).hash = Hash(c) /\ by = RowOf(c).error
               \/ kind = "hash_mismatch" \/ kind = "in_flight"
  PROVE  LedgerInv'
<1>1. /\ call' \in [Calls -> CallState]
      /\ call'[c].pc = "done" /\ call'[c].reply = [kind |-> kind, by |-> by]
      /\ \A d \in Calls : d # c => call'[d] = call[d]
  BY AnswerEffect DEF LedgerInv
<1>2. TypeOK'
  BY <1>1 DEF LedgerInv, TypeOK
<1>3. Exact'
  BY <1>1, QuietStep
<1> QED
  BY <1>2, <1>3 DEF LedgerInv, Exact

\* A call that has not claimed owns nothing.
LEMMA NotHolding ==
  ASSUME LedgerInv, NEW c \in Calls, call[c].pc \notin Holding, call[c].pc # "done"
  PROVE  ~Owns(c)
<1>1. Key(c) \in Keys
  BY RowOfType DEF LedgerInv
<1> QED
  BY <1>1 DEF LedgerInv, ClaimHasAnOwner, Owns, RowOf

\* Reading the verdict of the row is safe wherever no claim is held.
LEMMA ResolveStep ==
  ASSUME LedgerInv, NEW c \in Calls, call[c].pc \notin Holding,
         call[c].pc # "done", Resolve(c),
         UNCHANGED <<request, now, ledger, effects, audit>>
  PROVE  LedgerInv'
<1>1. ~Owns(c)
  BY NotHolding
<1>2. PICK kind \in Kinds, by \in Authors :
           /\ Answer(c, kind, by)
           /\ \/ kind = "replayed" /\ RowOf(c).status = "completed"
                 /\ RowOf(c).hash = Hash(c) /\ by = RowOf(c).response
              \/ kind = "terminal" /\ RowOf(c).status = "failed_terminal"
                 /\ RowOf(c).hash = Hash(c) /\ by = RowOf(c).error
              \/ kind = "hash_mismatch" /\ RowOf(c).hash # Hash(c) /\ by = Nil
              \/ kind = "in_flight" /\ by = Nil
  BY ResolveEffect DEF LedgerInv
<1> QED
  BY <1>1, <1>2, TellStep

\* Going from one unfinished statement to the next.
LEMMA GotoStep ==
  ASSUME LedgerInv, NEW c \in Calls, call[c].pc # "done",
         NEW pc \in PCs, pc # "done", Goto(c, pc),
         call[c].pc \in Holding => pc \in Holding,
         UNCHANGED <<request, now, ledger, effects, audit>>
  PROVE  LedgerInv'
  BY GotoEffect, MoveStep DEF LedgerInv

LEMMA FailStep ==
  ASSUME LedgerInv, NEW c \in Calls, call[c].pc # "done",
         NEW f \in Failures, FailWith(c, f),
         UNCHANGED <<request, now, ledger, effects, audit>>
  PROVE  LedgerInv'
  BY FailEffect, MoveStep DEF LedgerInv, Holding

\* An owner that rewrites its claim without ending it, and stays on its way.
LEMMA KeepClaimStep ==
  ASSUME LedgerInv, NEW c \in Calls, call[c].pc # "done", Owns(c),
         NEW row \in Row, Write(c, row), row.status = "in_progress",
         row.token = c, row.hash = RowOf(c).hash,
         UNCHANGED <<request, now, effects, audit>>,
         call' \in [Calls -> CallState],
         \A d \in Calls : d # c => call'[d] = call[d],
         call'[c].pc \in Holding, call'[c].reply = call[c].reply
  PROVE  LedgerInv'
<1>1. call[c].reply = [kind |-> "none", by |-> Nil] /\ call'[c].pc # "done"
  BY DEF LedgerInv, SilentUntilDone, Holding
<1>2. RowOf(c).hash = Hash(c)
  <2>1. Key(c) \in Keys
    BY RowOfType DEF LedgerInv
  <2>2. request[c] = [key |-> Key(c), hash |-> RowOf(c).hash]
    BY <2>1 DEF LedgerInv, ClaimHasAnOwner, Owns, RowOf
  <2> QED
    BY <2>2 DEF Hash
<1>3. RowOf(c).status \notin Settled
  BY DEF Owns, Settled
<1>4. Exact'
  BY <1>1, <1>2, <1>3, WriteStep
<1>5. TypeOK'
  BY WriteEffect DEF LedgerInv, TypeOK
<1> QED
  BY <1>4, <1>5 DEF LedgerInv, Exact

LEMMA SubmitStep == ASSUME LedgerInv, NEW c \in Calls, Submit(c) PROVE LedgerInv'
<1>1. "atomic" \in PCs /\ "fetch" \in PCs
  BY DEF PCs, InFlight
<1>2. /\ call' \in [Calls -> CallState]
      /\ call'[c].pc \in {"atomic", "fetch"} /\ call'[c].reply = call[c].reply
      /\ \A d \in Calls : d # c => call'[d] = call[d]
  BY <1>1 DEF Submit, LedgerInv, TypeOK, CallState
<1> QED
  BY <1>2, MoveStep DEF Submit, Holding

LEMMA FetchStep == ASSUME LedgerInv, NEW c \in Calls, Fetch(c) PROVE LedgerInv'
<1>1. "insert" \in PCs /\ "reclaim" \in PCs
  BY DEF PCs, InFlight
<1>2. CASE Goto(c, "insert") \/ Goto(c, "reclaim")
  BY <1>1, <1>2, GotoStep DEF Fetch, Holding
<1>3. CASE Resolve(c)
  BY <1>3, ResolveStep DEF Fetch, Holding
<1> QED
  BY <1>2, <1>3 DEF Fetch

LEMMA InsertStep == ASSUME LedgerInv, NEW c \in Calls, Insert(c) PROVE LedgerInv'
<1>1. Claimed(c) \in PCs /\ Claimed(c) \in Holding /\ Claimed(c) # "done" /\ "resolve" \in PCs
  BY DEF PCs, InFlight, Claimed, Holding
<1>2. CASE RowOf(c).status = "absent" /\ Write(c, NewClaim(c)) /\ Goto(c, Claimed(c))
  <2>1. NewClaim(c) \in Row /\ Absent \in Row
    BY RowForms, RowOfType DEF LedgerInv
  <2>2. /\ NewClaim(c).status = "in_progress" /\ NewClaim(c).token = c
        /\ NewClaim(c).hash = Hash(c)
    BY DEF NewClaim, Absent
  <2>3. /\ call' \in [Calls -> CallState]
        /\ call'[c].pc = Claimed(c) /\ call'[c].reply = [kind |-> "none", by |-> Nil]
        /\ \A d \in Calls : d # c => call'[d] = call[d]
    BY <1>1, <1>2, GotoEffect DEF Insert, LedgerInv, SilentUntilDone
  <2>4. Exact'
    BY <1>1, <1>2, <2>1, <2>2, <2>3, WriteStep DEF Insert, Settled
  <2>5. TypeOK'
    BY <1>2, <2>1, <2>3, WriteEffect DEF Insert, LedgerInv, TypeOK
  <2> QED
    BY <2>4, <2>5 DEF LedgerInv, Exact
<1>3. CASE Goto(c, "resolve") /\ UNCHANGED ledger
  BY <1>1, <1>3, GotoStep DEF Insert, Holding
<1> QED
  BY <1>2, <1>3 DEF Insert

LEMMA ReclaimStep == ASSUME LedgerInv, NEW c \in Calls, Reclaim(c) PROVE LedgerInv'
<1>1. Claimed(c) \in PCs /\ Claimed(c) \in Holding /\ Claimed(c) # "done" /\ "resolve" \in PCs
  BY DEF PCs, InFlight, Claimed, Holding
<1>2. CASE /\ Reclaimable(RowOf(c), Hash(c), call[c].readAt)
           /\ Write(c, TakenOver(c, RowOf(c))) /\ Goto(c, Claimed(c))
  <2>1. TakenOver(c, RowOf(c)) \in Row /\ RowOf(c) \in Row
    BY RowForms, RowOfType DEF LedgerInv
  <2>2. /\ TakenOver(c, RowOf(c)).status = "in_progress"
        /\ TakenOver(c, RowOf(c)).token = c
        /\ TakenOver(c, RowOf(c)).hash = Hash(c)
    BY <1>2, <2>1 DEF TakenOver, Row, Reclaimable
  <2>3. /\ call' \in [Calls -> CallState]
        /\ call'[c].pc = Claimed(c) /\ call'[c].reply = [kind |-> "none", by |-> Nil]
        /\ \A d \in Calls : d # c => call'[d] = call[d]
    BY <1>1, <1>2, GotoEffect DEF Reclaim, LedgerInv, SilentUntilDone
  <2>4. RowOf(c).status \notin Settled
    BY <1>2 DEF Reclaimable, Settled
  <2>5. Exact'
    BY <1>1, <1>2, <2>1, <2>2, <2>3, <2>4, WriteStep DEF Reclaim
  <2>6. TypeOK'
    BY <1>2, <2>1, <2>3, WriteEffect DEF Reclaim, LedgerInv, TypeOK
  <2> QED
    BY <2>5, <2>6 DEF LedgerInv, Exact
<1>3. CASE Goto(c, "resolve") /\ UNCHANGED ledger
  BY <1>1, <1>3, GotoStep DEF Reclaim, Holding
<1> QED
  BY <1>2, <1>3 DEF Reclaim

LEMMA GuardStep == ASSUME LedgerInv, NEW c \in Calls, Guard(c) PROVE LedgerInv'
<1>1. /\ "lock_keys" \in PCs /\ "run" \in PCs /\ "finalize" \in PCs
      /\ "retryable" \in Failures /\ "terminal" \in Failures
      /\ \A pc \in {"guard", "lock_keys", "run", "finalize"} : pc \in Holding
  BY DEF PCs, InFlight, Failures, Holding
<1>2. CASE AcquireGuard(c)
  BY <1>1, <1>2, GotoStep DEF AcquireGuard
<1>3. CASE GuardFails(c)
  BY <1>3, FailStep DEF GuardFails
<1>4. RowOf(c) \in Row /\ Refreshed(RowOf(c)) \in Row /\ [RowOf(c) EXCEPT !.locks = c] \in Row
  BY RowOfType, RowForms DEF LedgerInv
<1>5. /\ Refreshed(RowOf(c)).status = RowOf(c).status
      /\ Refreshed(RowOf(c)).token = RowOf(c).token
      /\ Refreshed(RowOf(c)).hash = RowOf(c).hash
  BY <1>4 DEF Refreshed, Row
<1>6. CASE RefreshLease(c)
  <2>1. CASE Owns(c) /\ Write(c, Refreshed(RowOf(c))) /\ UNCHANGED call
    BY <1>1, <1>4, <1>5, <1>6, <2>1, KeepClaimStep
       DEF RefreshLease, Owns, LedgerInv, TypeOK
  <2>2. CASE FailWith(c, "terminal") /\ UNCHANGED ledger
    BY <1>1, <1>6, <2>2, FailStep DEF RefreshLease
  <2> QED
    BY <1>6, <2>1, <2>2 DEF RefreshLease
<1>7. CASE RefreshTimesOut(c)
  <2>1. CASE UNCHANGED ledger
    BY <1>1, <1>7, <2>1, FailStep DEF RefreshTimesOut
  <2>2. CASE Owns(c) /\ Write(c, Refreshed(RowOf(c)))
    <3>1. /\ call' \in [Calls -> CallState]
          /\ call'[c].pc = "finalize" /\ call'[c].reply = call[c].reply
          /\ \A d \in Calls : d # c => call'[d] = call[d]
      BY <1>1, <1>7, FailEffect DEF RefreshTimesOut, LedgerInv
    <3> QED
      BY <1>1, <1>4, <1>5, <1>7, <2>2, <3>1, KeepClaimStep DEF RefreshTimesOut, Owns
  <2> QED
    BY <1>7, <2>1, <2>2 DEF RefreshTimesOut
<1>8. CASE RecordLockKeys(c)
  <2>1. CASE Owns(c) /\ Write(c, [RowOf(c) EXCEPT !.locks = c]) /\ Goto(c, "run")
    <3>1. /\ call' \in [Calls -> CallState]
          /\ call'[c].pc = "run" /\ call'[c].reply = call[c].reply
          /\ \A d \in Calls : d # c => call'[d] = call[d]
      BY <1>1, <2>1, GotoEffect DEF LedgerInv
    <3> DEFINE row == [RowOf(c) EXCEPT !.locks = c]
    <3>2. row.status = "in_progress" /\ row.token = c /\ row.hash = RowOf(c).hash
      BY <1>4, <2>1 DEF Owns, Row
    <3>3. row \in Row /\ Write(c, row)
      BY <1>4, <2>1
    <3> HIDE DEF row
    <3> QED
      BY <1>1, <1>8, <2>1, <3>1, <3>2, <3>3, KeepClaimStep DEF RecordLockKeys
  <2>2. CASE UNCHANGED ledger /\ \E f \in Failures : FailWith(c, f)
    BY <1>8, <2>2, FailStep DEF RecordLockKeys
  <2> QED
    BY <1>1, <1>8, <2>1, <2>2 DEF RecordLockKeys
<1> QED
  BY <1>2, <1>3, <1>6, <1>7, <1>8 DEF Guard

\* The owner ends its claim: it completes it together with its write, or
\* records its failure.
LEMMA CommitStep == ASSUME LedgerInv, NEW c \in Calls, CommitClaimed(c) PROVE LedgerInv'
<1>1. "ok" \in Kinds /\ c \in Authors
  BY DEF Kinds, Authors
<1>2. /\ call' \in [Calls -> CallState]
      /\ call'[c].pc = "done" /\ call'[c].reply = [kind |-> "ok", by |-> c]
      /\ \A d \in Calls : d # c => call'[d] = call[d]
  BY <1>1, AnswerEffect DEF CommitClaimed, LedgerInv
<1>3. /\ Key(c) \in Keys /\ Hash(c) \in Hashes /\ RowOf(c) \in Row
      /\ CompletedBy(c, RowOf(c)) \in Row
  BY RowOfType, RowForms DEF LedgerInv
<1>4. RowOf(c).hash = Hash(c)
  <2>1. request[c] = [key |-> Key(c), hash |-> RowOf(c).hash]
    BY <1>3 DEF CommitClaimed, LedgerInv, ClaimHasAnOwner, Owns, RowOf
  <2> QED
    BY <2>1 DEF Hash
<1>5. /\ CompletedBy(c, RowOf(c)).status = "completed"
      /\ CompletedBy(c, RowOf(c)).response = c
      /\ CompletedBy(c, RowOf(c)).hash = Hash(c)
  BY <1>3, <1>4 DEF CompletedBy, Row
<1>6. RowOf(c).status \notin Settled
  BY DEF CommitClaimed, Owns, Settled
<1>7. Exact'
  BY <1>2, <1>3, <1>5, <1>6, WriteStep DEF CommitClaimed
<1>8. TypeOK'
  BY <1>2, <1>3, WriteEffect DEF CommitClaimed, LedgerInv, TypeOK
<1> QED
  BY <1>7, <1>8 DEF LedgerInv, Exact

LEMMA FinalizeStep == ASSUME LedgerInv, NEW c \in Calls, Finalize(c) PROVE LedgerInv'
<1> DEFINE f == call[c].failure
<1>1. f \in {"retryable", "terminal"} /\ f \in Kinds /\ c \in Authors
  BY DEF LedgerInv, TypeOK, CallState, Failures, Kinds, Authors
<1>2. CASE Owns(c) /\ Write(c, FailedBy(c, RowOf(c))) /\ Answer(c, f, c)
  <2>1. /\ call' \in [Calls -> CallState]
        /\ call'[c].pc = "done" /\ call'[c].reply = [kind |-> f, by |-> c]
        /\ \A d \in Calls : d # c => call'[d] = call[d]
    BY <1>1, <1>2, AnswerEffect DEF LedgerInv
  <2>2. /\ Key(c) \in Keys /\ RowOf(c) \in Row /\ FailedBy(c, RowOf(c)) \in Row
    BY RowOfType, RowForms DEF LedgerInv
  <2>3. RowOf(c).hash = Hash(c)
    <3>1. request[c] = [key |-> Key(c), hash |-> RowOf(c).hash]
      BY <1>2, <2>2 DEF LedgerInv, ClaimHasAnOwner, Owns, RowOf
    <3> QED
      BY <3>1 DEF Hash
  <2>4. /\ FailedBy(c, RowOf(c)).status \in {"failed_retryable", "failed_terminal"}
        /\ f = "terminal" => FailedBy(c, RowOf(c)).status = "failed_terminal"
        /\ FailedBy(c, RowOf(c)).error = c
        /\ FailedBy(c, RowOf(c)).hash = Hash(c)
    BY <2>2, <2>3 DEF FailedBy, Row
  <2>5. RowOf(c).status \notin Settled
    BY <1>2 DEF Owns, Settled
  <2>6. Exact'
    BY <1>1, <1>2, <2>1, <2>2, <2>4, <2>5, WriteStep DEF Finalize
  <2>7. TypeOK'
    BY <1>2, <2>1, <2>2, WriteEffect DEF Finalize, LedgerInv, TypeOK
  <2> QED
    BY <2>6, <2>7 DEF LedgerInv, Exact
<1>3. CASE Answer(c, "unrecorded", Nil) /\ UNCHANGED ledger
  <2>1. "unrecorded" \in Kinds /\ Nil \in Authors
    BY DEF Kinds, Authors
  <2> QED
    BY <1>3, <2>1, TellStep DEF Finalize
<1> QED
  BY <1>2, <1>3 DEF Finalize

LEMMA AtomicStep == ASSUME LedgerInv, NEW c \in Calls, ExecuteAtomic(c) PROVE LedgerInv'
<1>1. CASE Resolve(c) /\ UNCHANGED <<ledger, effects>>
  BY <1>1, ResolveStep DEF ExecuteAtomic, Holding
<1>2. CASE /\ RowOf(c).status = "absent"
           /\ effects' = effects \cup {[key |-> Key(c), hash |-> Hash(c), by |-> c]}
           /\ Write(c, CompletedBy(c, [Absent EXCEPT !.hash = Hash(c), !.token = c]))
           /\ Answer(c, "ok", c)
  <2> DEFINE row == CompletedBy(c, [Absent EXCEPT !.hash = Hash(c), !.token = c])
  <2>1. "ok" \in Kinds /\ c \in Authors
    BY DEF Kinds, Authors
  <2>2. /\ call' \in [Calls -> CallState]
        /\ call'[c].pc = "done" /\ call'[c].reply = [kind |-> "ok", by |-> c]
        /\ \A d \in Calls : d # c => call'[d] = call[d]
    BY <1>2, <2>1, AnswerEffect DEF LedgerInv
  <2>3. Key(c) \in Keys /\ Hash(c) \in Hashes /\ row \in Row
    BY RowOfType, RowForms DEF LedgerInv
  <2>4. row.status = "completed" /\ row.response = c /\ row.hash = Hash(c)
    BY DEF CompletedBy, Absent
  <2>5. Write(c, row) /\ RowOf(c).status \notin Settled
    BY <1>2 DEF Settled
  <2> HIDE DEF row
  <2>6. Exact'
    BY <1>2, <2>2, <2>3, <2>4, <2>5, WriteStep DEF ExecuteAtomic
  <2>7. TypeOK'
    BY <1>2, <2>2, <2>3, <2>5, WriteEffect DEF ExecuteAtomic, LedgerInv, TypeOK
  <2> QED
    BY <2>6, <2>7 DEF LedgerInv, Exact
<1> QED
  BY <1>1, <1>2 DEF ExecuteAtomic

LEMMA RunStep == ASSUME LedgerInv, NEW c \in Calls, Run(c) PROVE LedgerInv'
<1>1. "unrecorded" \in Kinds /\ Nil \in Authors
  BY DEF Kinds, Authors
<1>2. CASE LoseClaim(c)
  BY <1>1, <1>2, TellStep DEF LoseClaim
<1>3. CASE ServiceFails(c)
  BY <1>3, FailStep DEF ServiceFails
<1>4. CASE StatementFails(c)
  BY <1>1, <1>4, TellStep DEF StatementFails, InFlight
<1> QED
  BY <1>2, <1>3, <1>4, CommitStep, FinalizeStep, AtomicStep DEF Run

LEMMA RecoverStep == ASSUME LedgerInv, NEW k \in Keys, Recover(k) PROVE LedgerInv'
<1>1. PICK b \in BOOLEAN : RequestRetry(k, b) \/ Dismiss(k, b) \/ MarkTerminal(k, b)
  BY DEF Recover
<1>2. ledger[k] \in Row
  BY DEF LedgerInv, TypeOK
<1>3. /\ ledger[k].status \in {"in_progress", "failed_retryable"}
      /\ UNCHANGED <<request, now, effects, call>>
  BY <1>1 DEF RequestRetry, Dismiss, MarkTerminal, Recoverable, Expired
<1>4. audit' \subseteq [key : Keys,
                        action : {"retry_requested", "dismissed", "marked_terminal"},
                        confirmed : BOOLEAN]
  BY <1>1 DEF RequestRetry, Dismiss, MarkTerminal, Record, LedgerInv, TypeOK
<1>5. PICK row \in Row :
        /\ ledger' = [ledger EXCEPT ![k] = row]
        /\ row.hash = ledger[k].hash
        /\ \/ row.status = ledger[k].status /\ row.token = ledger[k].token
           \/ row.status = "failed_terminal"
  <2>1. CASE RequestRetry(k, b)
    <3>1. [ledger[k] EXCEPT !.dismissed = FALSE] \in Row
      BY <1>2 DEF Row
    <3> QED
      BY <1>2, <2>1, <3>1 DEF RequestRetry, Row
  <2>2. CASE Dismiss(k, b)
    <3>1. [ledger[k] EXCEPT !.dismissed = TRUE] \in Row
      BY <1>2 DEF Row
    <3> QED
      BY <1>2, <2>2, <3>1 DEF Dismiss, Row
  <2>3. CASE MarkTerminal(k, b)
    <3>1. "failed_terminal" \in Statuses /\ Operator \in Authors /\ NoLease \in Leases
      BY DEF Statuses, Authors, Leases
    <3>2. /\ GivenUp(ledger[k]) \in Row
          /\ GivenUp(ledger[k]).status = "failed_terminal"
          /\ GivenUp(ledger[k]).hash = ledger[k].hash
      BY <1>2, <3>1 DEF GivenUp, Row
    <3> QED
      BY <2>3, <3>2 DEF MarkTerminal
  <2> QED
    BY <1>1, <2>1, <2>2, <2>3
<1>6. Exact'
  BY <1>3, <1>5, OperatorStep
<1>7. TypeOK'
  BY <1>3, <1>4, <1>5 DEF LedgerInv, TypeOK
<1> QED
  BY <1>6, <1>7 DEF LedgerInv, Exact

\* A crash silences the calls in flight; what they claimed stays claimed.
LEMMA CrashStep == ASSUME LedgerInv, Crash PROVE LedgerInv'
<1>1. \A c \in Calls : /\ call[c].pc \in InFlight => call'[c].pc = "lost"
                       /\ call[c].pc \notin InFlight => call'[c].pc = call[c].pc
                       /\ call'[c].reply = call[c].reply
                       /\ call'[c] \in CallState
  <2>1. \A c \in Calls : call[c] \in CallState
    BY DEF LedgerInv, TypeOK
  <2>2. "lost" \in PCs
    BY DEF PCs
  <2> QED
    BY <2>1, <2>2 DEF Crash, CallState
<1>2. TypeOK'
  <2>1. call' \in [Calls -> CallState]
    BY <1>1 DEF Crash
  <2> QED
    BY <2>1 DEF Crash, LedgerInv, TypeOK
<1>3. ClaimHasAnOwner'
  BY <1>1 DEF Crash, LedgerInv, ClaimHasAnOwner, Holding, InFlight
<1>4. SilentUntilDone' /\ AnswersAreKept'
  BY <1>1 DEF Crash, LedgerInv, SilentUntilDone, AnswersAreKept, InFlight,
              RowOf, Key, Hash
<1>5. RowsHavePayloads' /\ EffectIffCompleted'
  BY DEF Crash, LedgerInv, RowsHavePayloads, EffectIffCompleted, Absent
<1> QED
  BY <1>2, <1>3, <1>4, <1>5 DEF LedgerInv

LEMMA ClockStep == ASSUME LedgerInv, Tick \/ SetClockBack PROVE LedgerInv'
<1>1. now' \in Nat /\ UNCHANGED <<request, ledger, effects, call, audit>>
  BY DEF Tick, SetClockBack, LedgerInv, TypeOK
<1>2. TypeOK'
  BY <1>1 DEF LedgerInv, TypeOK
<1>3. /\ SilentUntilDone' /\ RowsHavePayloads' /\ ClaimHasAnOwner'
      /\ EffectIffCompleted' /\ AnswersAreKept'
  BY <1>1 DEF LedgerInv, SilentUntilDone, RowsHavePayloads, ClaimHasAnOwner,
              EffectIffCompleted, AnswersAreKept, RowOf, Key, Hash, Absent
<1> QED
  BY <1>2, <1>3 DEF LedgerInv

LEMMA StutterStep == ASSUME LedgerInv, UNCHANGED vars PROVE LedgerInv'
<1>1. UNCHANGED <<request, now, ledger, effects, call, audit>>
  BY DEF vars
<1>2. TypeOK'
  BY <1>1 DEF LedgerInv, TypeOK
<1>3. /\ SilentUntilDone' /\ RowsHavePayloads' /\ ClaimHasAnOwner'
      /\ EffectIffCompleted' /\ AnswersAreKept'
  BY <1>1 DEF LedgerInv, SilentUntilDone, RowsHavePayloads, ClaimHasAnOwner,
              EffectIffCompleted, AnswersAreKept, RowOf, Key, Hash, Absent
<1> QED
  BY <1>2, <1>3 DEF LedgerInv

LEMMA NextStep == LedgerInv /\ [Next]_vars => LedgerInv'
<1> SUFFICES ASSUME LedgerInv, [Next]_vars PROVE LedgerInv'
  OBVIOUS
<1>1. ASSUME NEW c \in Calls, Claim(c) PROVE LedgerInv'
  <2>1. CASE ResolveExisting(c)
    BY <2>1, ResolveStep DEF ResolveExisting, Holding
  <2> QED
    BY <1>1, <2>1, SubmitStep, FetchStep, InsertStep, ReclaimStep DEF Claim
<1> QED
  BY <1>1, GuardStep, RunStep, RecoverStep, CrashStep, ClockStep, StutterStep
     DEF Next

(***************************************************************************)
(* Theorems.                                                               *)
(***************************************************************************)

\* The inductive invariant holds in every reachable state.
THEOREM LedgerInvariant == Spec => []LedgerInv
<1>1. LedgerInv /\ [Next]_vars => LedgerInv'
  BY NextStep
<1> QED
  BY <1>1, InitInv, PTL DEF Spec

\* Every variable of the ledger keeps its type.
THEOREM TypesAreKept == Spec => []TypeOK
<1>1. LedgerInv => TypeOK
  BY DEF LedgerInv
<1> QED
  BY <1>1, LedgerInvariant, PTL

\* The business write of a key and the completion of its row are never apart,
\* for every number of calls, every lease and every clock.
THEOREM EffectsMatchTheLedger == Spec => []EffectIffCompleted
<1>1. LedgerInv => EffectIffCompleted
  BY DEF LedgerInv
<1> QED
  BY <1>1, LedgerInvariant, PTL

\* No key's business write is ever applied twice.
THEOREM ExactlyOnce == Spec => []EffectAtMostOnce
<1>1. LedgerInv => EffectAtMostOnce
  <2> SUFFICES ASSUME LedgerInv, NEW e \in effects, NEW f \in effects, e.key = f.key
               PROVE  e = f
    BY DEF EffectAtMostOnce
  <2>1. e.hash = f.hash /\ e.by = f.by
    BY DEF LedgerInv, EffectIffCompleted
  <2>2. /\ e \in [key : Keys, hash : Hashes, by : Calls]
        /\ f \in [key : Keys, hash : Hashes, by : Calls]
    BY DEF LedgerInv, TypeOK
  <2> QED
    BY <2>1, <2>2
<1> QED
  BY <1>1, LedgerInvariant, PTL

\* What a caller was told stays what the ledger says.
THEOREM AnswersStayTrue == Spec => []AnswersAreKept
<1>1. LedgerInv => AnswersAreKept
  BY DEF LedgerInv
<1> QED
  BY <1>1, LedgerInvariant, PTL

(***************************************************************************)
(* Leases.  With a clock that only runs forward the instant a call has     *)
(* read is past, and a claim in progress never carries a verdict.          *)
(***************************************************************************)
ReadsArePast == \A c \in Calls : call[c].readAt <= now

ClaimsAreUndecided ==
  \A k \in Keys : ledger[k].status = "in_progress" => ledger[k].error # Operator

LeaseInv == ReadsArePast /\ ClaimsAreUndecided

\* What a step may do to the row of k: leave its claim alone, make one, take
\* a lapsed one over, close one for its owner, or close a lapsed one.
KeepsClaim(k) ==
  /\ ledger'[k].status = ledger[k].status
  /\ ledger'[k].token = ledger[k].token
  /\ ledger'[k].error = ledger[k].error

Lapsed(k) == ledger[k].status = "in_progress" => ledger[k].lease <= now

RowStep(k) ==
  \/ KeepsClaim(k)
  \/ ledger[k].status = "absent" /\ ledger'[k].error # Operator
  \/ Lapsed(k) /\ ledger'[k].error # Operator
  \/ /\ ledger'[k].token = ledger[k].token /\ ledger'[k].error # Operator
     /\ ledger'[k].status # "in_progress"
  \/ Lapsed(k) /\ ledger'[k].status # "in_progress"

\* Only the row that is written makes a step.
LEMMA WriteIsRowStep ==
  ASSUME TypeOK, NEW c \in Calls, NEW row \in Row, Write(c, row),
         ledger'[Key(c)] = row => RowStep(Key(c))
  PROVE  \A k \in Keys : RowStep(k)
BY WriteEffect DEF RowStep, KeepsClaim

LEMMA ClaimRows ==
  ASSUME LedgerInv, ReadsArePast, NEW c \in Calls, Claim(c)
  PROVE  \A k \in Keys : RowStep(k)
<1>1. TypeOK
  BY DEF LedgerInv
<1>2. PICK row \in Row : row = RowOf(c)
  BY <1>1, RowOfType
<1>3. Nil # Operator
  BY LedgerAssumption
<1>4. CASE UNCHANGED ledger
  BY <1>4 DEF RowStep, KeepsClaim
<1>5. CASE RowOf(c).status = "absent" /\ Write(c, NewClaim(c))
  <2>1. PICK new \in Row : new = NewClaim(c)
    BY <1>1, <1>2, RowForms
  <2>2. new.error = Nil
    BY <2>1 DEF NewClaim, Absent
  <2>3. Write(c, new)
    BY <1>5, <2>1 DEF Write
  <2> QED
    BY <1>1, <1>3, <1>5, <2>2, <2>3, WriteIsRowStep DEF RowStep, RowOf
<1>6. CASE /\ Reclaimable(RowOf(c), Hash(c), call[c].readAt)
           /\ Write(c, TakenOver(c, RowOf(c)))
  <2>1. PICK new \in Row : new = TakenOver(c, row)
    BY <1>1, RowForms
  <2>2. new.error = Nil
    BY <2>1 DEF TakenOver, Row
  <2>3. Write(c, new)
    BY <1>2, <1>6, <2>1 DEF Write
  <2>4. Lapsed(Key(c))
    <3>1. now \in Nat /\ call[c].readAt \in Nat /\ call[c].readAt <= now
      BY <1>1 DEF TypeOK, CallState, ReadsArePast
    <3>2. row.lease \in Leases
      BY DEF Row
    <3>3. row.status = "in_progress" => row.lease = NoLease \/ row.lease <= call[c].readAt
      BY <1>2, <1>6 DEF Reclaimable
    <3>4. row.status = "in_progress" => row.lease <= now
      BY <3>1, <3>2, <3>3 DEF Leases, NoLease
    <3> QED
      BY <1>2, <3>4 DEF Lapsed, RowOf
  <2> QED
    BY <1>1, <1>3, <2>2, <2>3, <2>4, WriteIsRowStep DEF RowStep
<1> QED
  BY <1>4, <1>5, <1>6 DEF Claim, Submit, Fetch, Insert, Reclaim, ResolveExisting

LEMMA GuardRows ==
  ASSUME LedgerInv, NEW c \in Calls, Guard(c)
  PROVE  \A k \in Keys : RowStep(k)
<1>1. TypeOK
  BY DEF LedgerInv
<1>2. PICK row \in Row : row = RowOf(c)
  BY <1>1, RowOfType
<1>3. CASE UNCHANGED ledger
  BY <1>3 DEF RowStep, KeepsClaim
<1>4. CASE \/ Write(c, Refreshed(RowOf(c)))
           \/ Write(c, [RowOf(c) EXCEPT !.locks = c])
  <2>1. PICK new \in Row : /\ new \in {Refreshed(row), [row EXCEPT !.locks = c]}
                           /\ Write(c, new)
    BY <1>1, <1>2, <1>4, RowForms
  <2>2. /\ new.status = row.status /\ new.token = row.token
        /\ new.error = row.error
    BY <2>1 DEF Refreshed, Row
  <2> QED
    BY <1>1, <1>2, <2>1, <2>2, WriteIsRowStep DEF RowStep, KeepsClaim, RowOf
<1> QED
  BY <1>3, <1>4 DEF Guard, AcquireGuard, GuardFails, RefreshLease,
                    RefreshTimesOut, RecordLockKeys

LEMMA RunRows ==
  ASSUME LedgerInv, NEW c \in Calls, Run(c)
  PROVE  \A k \in Keys : RowStep(k)
<1>1. TypeOK
  BY DEF LedgerInv
<1>2. PICK row \in Row : row = RowOf(c)
  BY <1>1, RowOfType
<1>3. c # Operator /\ Nil # Operator
  BY LedgerAssumption
<1>4. CASE UNCHANGED ledger
  BY <1>4 DEF RowStep, KeepsClaim
<1>5. CASE Write(c, CompletedBy(c, RowOf(c))) \/ Write(c, FailedBy(c, RowOf(c)))
  <2>1. PICK new \in Row : /\ new \in {CompletedBy(c, row), FailedBy(c, row)}
                           /\ Write(c, new)
    BY <1>1, <1>2, <1>5, RowForms
  <2>2. /\ new.status # "in_progress" /\ new.token = row.token
        /\ new.error \in {Nil, c}
    <3>1. CASE new = CompletedBy(c, row)
      BY <3>1 DEF CompletedBy, Row
    <3>2. CASE new = FailedBy(c, row)
      BY <3>2 DEF FailedBy, Row
    <3> QED
      BY <2>1, <3>1, <3>2
  <2> QED
    BY <1>1, <1>2, <1>3, <2>1, <2>2, WriteIsRowStep DEF RowStep, RowOf
<1>6. CASE /\ RowOf(c).status = "absent"
           /\ Write(c, CompletedBy(c, [Absent EXCEPT !.hash = Hash(c), !.token = c]))
  <2>1. PICK new \in Row :
          new = CompletedBy(c, [Absent EXCEPT !.hash = Hash(c), !.token = c])
    BY <1>1, <1>2, RowForms
  <2>2. new.error = Nil
    BY <2>1 DEF CompletedBy, Absent
  <2>3. Write(c, new)
    BY <1>6, <2>1 DEF Write
  <2> QED
    BY <1>1, <1>3, <1>6, <2>2, <2>3, WriteIsRowStep DEF RowStep, RowOf
<1> QED
  BY <1>4, <1>5, <1>6 DEF Run, CommitClaimed, LoseClaim, ServiceFails, Finalize,
                          ExecuteAtomic, StatementFails

LEMMA RecoverRows ==
  ASSUME LedgerInv, NEW k \in Keys, Recover(k)
  PROVE  \A j \in Keys : RowStep(j)
<1>1. TypeOK
  BY DEF LedgerInv
<1>2. PICK row \in Row : row = ledger[k]
  BY <1>1 DEF TypeOK
<1>3. CASE \E b \in BOOLEAN : ledger' = [ledger EXCEPT ![k] = [row EXCEPT !.dismissed = b]]
  <2>1. PICK b \in BOOLEAN : ledger' = [ledger EXCEPT ![k] = [row EXCEPT !.dismissed = b]]
    BY <1>3
  <2>2. \A j \in Keys :
          ledger'[j] = IF j = k THEN [row EXCEPT !.dismissed = b] ELSE ledger[j]
    BY <1>1, <2>1 DEF TypeOK
  <2> QED
    BY <1>2, <2>2 DEF RowStep, KeepsClaim, Row
<1>4. CASE /\ Recoverable(ledger[k], now)
           /\ ledger' = [ledger EXCEPT ![k] = GivenUp(row)]
  <2>1. Lapsed(k)
    BY <1>4 DEF Lapsed, Recoverable, Expired
  <2>2. GivenUp(row).status = "failed_terminal"
    BY DEF GivenUp, Row
  <2> QED
    BY <1>1, <1>4, <2>1, <2>2 DEF TypeOK, RowStep, KeepsClaim
<1> QED
  BY <1>2, <1>3, <1>4 DEF Recover, RequestRetry, Dismiss, MarkTerminal

LEMMA NextRows ==
  ASSUME LedgerInv, ReadsArePast, [Next]_vars
  PROVE  \A k \in Keys : RowStep(k)
<1>1. CASE UNCHANGED ledger
  BY <1>1 DEF RowStep, KeepsClaim
<1> QED
  BY <1>1, ClaimRows, GuardRows, RunRows, RecoverRows
     DEF Next, Crash, Tick, SetClockBack, vars

\* No step makes a call's instant later than the clock that runs forward.
LEMMA ReadsStayPast ==
  ASSUME LedgerInv, ReadsArePast, ~ClockJumps, [Next]_vars
  PROVE  ReadsArePast'
<1>1. now \in Nat /\ \A c \in Calls : call[c] \in CallState
  BY DEF LedgerInv, TypeOK
<1>2. now' \in Nat /\ now' >= now
  <2>1. CASE Tick
    BY <1>1, <2>1 DEF Tick
  <2>2. CASE UNCHANGED now
    BY <1>1, <2>2
  <2> QED
    BY <2>1, <2>2 DEF Next, vars, SetClockBack, Claim, Submit, Fetch, Insert, Reclaim,
         ResolveExisting, Guard, AcquireGuard, GuardFails, RefreshLease,
         RefreshTimesOut, RecordLockKeys, Run, CommitClaimed, LoseClaim,
         ServiceFails, Finalize, ExecuteAtomic, StatementFails, Recover,
         RequestRetry, Dismiss, MarkTerminal, Crash
<1>3. \A c \in Calls : call'[c].readAt \in {call[c].readAt, now}
  <2>1. ASSUME NEW d \in Calls, Submit(d)
        PROVE  \A c \in Calls : call'[c].readAt \in {call[c].readAt, now}
    BY <1>1, <2>1 DEF Submit, LedgerInv, TypeOK, CallState
  <2>2. ASSUME NEW d \in Calls, NEW pc, Goto(d, pc)
        PROVE  \A c \in Calls : call'[c].readAt = call[c].readAt
    BY <1>1, <2>2 DEF Goto, LedgerInv, TypeOK, CallState
  <2>3. ASSUME NEW d \in Calls, NEW kind, NEW by, Answer(d, kind, by)
        PROVE  \A c \in Calls : call'[c].readAt = call[c].readAt
    BY <1>1, <2>3 DEF Answer, LedgerInv, TypeOK, CallState
  <2>4. ASSUME NEW d \in Calls, NEW f, FailWith(d, f)
        PROVE  \A c \in Calls : call'[c].readAt = call[c].readAt
    BY <1>1, <2>4 DEF FailWith, LedgerInv, TypeOK, CallState
  <2>5. CASE UNCHANGED call
    BY <2>5
  <2>6. CASE Crash
    BY <1>1, <2>6 DEF Crash, LedgerInv, TypeOK, CallState
  <2>7. ASSUME NEW d \in Calls, Claim(d), ~Submit(d)
        PROVE  \A c \in Calls : call'[c].readAt \in {call[c].readAt, now}
    BY <2>2, <2>3, <2>7 DEF Claim, Fetch, Insert, Reclaim, ResolveExisting, Resolve
  <2>8. ASSUME NEW d \in Calls, Guard(d)
        PROVE  \A c \in Calls : call'[c].readAt \in {call[c].readAt, now}
    BY <2>2, <2>4, <2>5, <2>8 DEF Guard, AcquireGuard, GuardFails, RefreshLease,
                                  RefreshTimesOut, RecordLockKeys
  <2>9. ASSUME NEW d \in Calls, Run(d)
        PROVE  \A c \in Calls : call'[c].readAt \in {call[c].readAt, now}
    BY <2>3, <2>4, <2>9 DEF Run, CommitClaimed, LoseClaim, ServiceFails, Finalize,
                            ExecuteAtomic, StatementFails, Resolve
  <2> QED
    BY <2>1, <2>5, <2>6, <2>7, <2>8, <2>9
       DEF Next, vars, Recover, RequestRetry, Dismiss, MarkTerminal, Tick, SetClockBack
<1> QED
  BY <1>1, <1>2, <1>3 DEF ReadsArePast, CallState

LEMMA RowsStayUndecided ==
  ASSUME ClaimsAreUndecided, \A k \in Keys : RowStep(k)
  PROVE  ClaimsAreUndecided'
BY DEF ClaimsAreUndecided, RowStep, KeepsClaim

LEMMA RowStepsRespectLeases ==
  ASSUME ClaimsAreUndecided, \A k \in Keys : RowStep(k)
  PROVE  \A k \in Keys :
           /\ ledger[k].status = "in_progress"
           /\ ledger'[k].token # ledger[k].token \/ ledger'[k].error = Operator
           => ledger[k].lease <= now
BY DEF ClaimsAreUndecided, RowStep, KeepsClaim, Lapsed

\* While the clock runs forward, a claim is taken over, or closed over its
\* owner's head, only after its lease has lapsed.
THEOREM LeasesAreRespected ==
  ASSUME ~ClockJumps
  PROVE  Spec => LeaseIsRespected
<1>1. Init => LeaseInv
  BY DEF Init, LeaseInv, ReadsArePast, ClaimsAreUndecided, Absent
<1>2. LedgerInv /\ LeaseInv /\ [Next]_vars => LeaseInv'
  BY NextRows, ReadsStayPast, RowsStayUndecided DEF LeaseInv
<1>3. LedgerInv /\ LeaseInv /\ [Next]_vars =>
        \A k \in Keys :
          /\ ledger[k].status = "in_progress"
          /\ ledger'[k].token # ledger[k].token \/ ledger'[k].error = Operator
          => ledger[k].lease <= now
  BY NextRows, RowStepsRespectLeases DEF LeaseInv
<1> QED
  BY <1>1, <1>2, <1>3, LedgerInvariant, PTL DEF Spec, LeaseIsRespected

(***************************************************************************)
(* Dismissals.  A step that changes a row's claim or its status writes the *)
(* row with the operator's dismissal taken away.                           *)
(***************************************************************************)
AttemptStep(k) ==
  \/ ledger'[k].token = ledger[k].token /\ ledger'[k].status = ledger[k].status
  \/ ~ledger'[k].dismissed

LEMMA WriteIsAttemptStep ==
  ASSUME TypeOK, NEW c \in Calls, NEW row \in Row, Write(c, row),
         \/ row.token = RowOf(c).token /\ row.status = RowOf(c).status
         \/ ~row.dismissed
  PROVE  \A k \in Keys : AttemptStep(k)
BY WriteEffect DEF AttemptStep, RowOf

LEMMA ClaimAttempts ==
  ASSUME LedgerInv, NEW c \in Calls, Claim(c)
  PROVE  \A k \in Keys : AttemptStep(k)
<1>1. TypeOK
  BY DEF LedgerInv
<1>2. PICK row \in Row : row = RowOf(c)
  BY <1>1, RowOfType
<1>3. CASE UNCHANGED ledger
  BY <1>3 DEF AttemptStep
<1>4. CASE Write(c, NewClaim(c)) \/ Write(c, TakenOver(c, RowOf(c)))
  <2>1. PICK new \in Row : new \in {NewClaim(c), TakenOver(c, row)} /\ Write(c, new)
    BY <1>1, <1>2, <1>4, RowForms
  <2>2. ~new.dismissed
    <3>1. CASE new = NewClaim(c)
      BY <3>1 DEF NewClaim, Absent
    <3>2. CASE new = TakenOver(c, row)
      BY <3>2 DEF TakenOver, Row
    <3> QED
      BY <2>1, <3>1, <3>2
  <2> QED
    BY <1>1, <2>1, <2>2, WriteIsAttemptStep
<1> QED
  BY <1>3, <1>4 DEF Claim, Submit, Fetch, Insert, Reclaim, ResolveExisting

LEMMA GuardAttempts ==
  ASSUME LedgerInv, NEW c \in Calls, Guard(c)
  PROVE  \A k \in Keys : AttemptStep(k)
<1>1. TypeOK
  BY DEF LedgerInv
<1>2. PICK row \in Row : row = RowOf(c)
  BY <1>1, RowOfType
<1>3. CASE UNCHANGED ledger
  BY <1>3 DEF AttemptStep
<1>4. CASE \/ Write(c, Refreshed(RowOf(c)))
           \/ Write(c, [RowOf(c) EXCEPT !.locks = c])
  <2>1. PICK new \in Row : /\ new \in {Refreshed(row), [row EXCEPT !.locks = c]}
                           /\ Write(c, new)
    BY <1>1, <1>2, <1>4, RowForms
  <2>2. new.status = row.status /\ new.token = row.token
    BY <2>1 DEF Refreshed, Row
  <2> QED
    BY <1>1, <1>2, <2>1, <2>2, WriteIsAttemptStep
<1> QED
  BY <1>3, <1>4 DEF Guard, AcquireGuard, GuardFails, RefreshLease,
                    RefreshTimesOut, RecordLockKeys

LEMMA RunAttempts ==
  ASSUME LedgerInv, NEW c \in Calls, Run(c)
  PROVE  \A k \in Keys : AttemptStep(k)
<1>1. TypeOK
  BY DEF LedgerInv
<1>2. PICK row \in Row : row = RowOf(c)
  BY <1>1, RowOfType
<1> DEFINE fresh == CompletedBy(c, [Absent EXCEPT !.hash = Hash(c), !.token = c])
<1>3. CASE UNCHANGED ledger
  BY <1>3 DEF AttemptStep
<1>4. CASE \/ Write(c, CompletedBy(c, RowOf(c))) \/ Write(c, FailedBy(c, RowOf(c)))
           \/ Write(c, fresh)
  <2>1. PICK new \in Row : /\ new \in {CompletedBy(c, row), FailedBy(c, row), fresh}
                           /\ Write(c, new)
    BY <1>1, <1>2, <1>4, RowForms
  <2>2. ~new.dismissed
    <3>1. CASE new = CompletedBy(c, row)
      BY <3>1 DEF CompletedBy, Row
    <3>2. CASE new = FailedBy(c, row)
      BY <3>2 DEF FailedBy, Row
    <3>3. CASE new = fresh
      BY <3>3 DEF CompletedBy, Absent
    <3> QED
      BY <2>1, <3>1, <3>2, <3>3
  <2> QED
    BY <1>1, <2>1, <2>2, WriteIsAttemptStep
<1> QED
  BY <1>3, <1>4 DEF Run, CommitClaimed, LoseClaim, ServiceFails, Finalize,
                    ExecuteAtomic, StatementFails

LEMMA RecoverAttempts ==
  ASSUME LedgerInv, NEW k \in Keys, Recover(k)
  PROVE  \A j \in Keys : AttemptStep(j)
<1>1. TypeOK
  BY DEF LedgerInv
<1>2. PICK row \in Row : row = ledger[k]
  BY <1>1 DEF TypeOK
<1>3. CASE \E b \in BOOLEAN : ledger' = [ledger EXCEPT ![k] = [row EXCEPT !.dismissed = b]]
  <2>1. PICK b \in BOOLEAN : ledger' = [ledger EXCEPT ![k] = [row EXCEPT !.dismissed = b]]
    BY <1>3
  <2>2. \A j \in Keys :
          ledger'[j] = IF j = k THEN [row EXCEPT !.dismissed = b] ELSE ledger[j]
    BY <1>1, <2>1 DEF TypeOK
  <2> QED
    BY <1>2, <2>2 DEF AttemptStep, Row
<1>4. CASE ledger' = [ledger EXCEPT ![k] = GivenUp(row)]
  <2>1. ~GivenUp(row).dismissed
    BY DEF GivenUp, Row
  <2> QED
    BY <1>1, <1>4, <2>1 DEF TypeOK, AttemptStep
<1> QED
  BY <1>2, <1>3, <1>4 DEF Recover, RequestRetry, Dismiss, MarkTerminal

LEMMA NextAttempts ==
  ASSUME LedgerInv, [Next]_vars
  PROVE  \A k \in Keys : AttemptStep(k)
<1>1. CASE UNCHANGED ledger
  BY <1>1 DEF AttemptStep
<1> QED
  BY <1>1, ClaimAttempts, GuardAttempts, RunAttempts, RecoverAttempts
     DEF Next, Crash, Tick, SetClockBack, vars

\* What the operator waved away was one attempt: the next claim of the key, and
\* any verdict on it, comes back into the recovery queue's view.
THEOREM DismissalsCoverOneAttempt == Spec => DismissalCoversOneAttempt
<1>1. LedgerInv /\ [Next]_vars =>
        \A k \in Keys :
          \/ ledger'[k].token # ledger[k].token
          \/ ledger'[k].status # ledger[k].status
          => ~ledger'[k].dismissed
  BY NextAttempts DEF AttemptStep
<1> QED
  BY <1>1, LedgerInvariant, PTL DEF Spec, DismissalCoversOneAttempt

(***************************************************************************)
(* The ledger implements CommandOnce: claims, leases, reclaims, guards,    *)
(* crashes and clocks are invisible, and every other step is one verdict   *)
(* or one answer.                                                          *)
(***************************************************************************)
\* What a step shows of the rows and of the answers.
SameVerdicts == \A k \in Keys : Verdict(ledger'[k]) = Verdict(ledger[k])

SameAnswers == \A c \in Calls : call'[c].reply = call[c].reply

LEMMA VerdictForm ==
  ASSUME NEW row
  PROVE  /\ Verdict(row).hash = row.hash
         /\ row.status = "completed" =>
              Verdict(row).state = "done" /\ Verdict(row).by = row.response
         /\ row.status = "failed_terminal" =>
              Verdict(row).state = "failed" /\ Verdict(row).by = row.error
         /\ row.status \notin Settled =>
              Verdict(row) = [hash |-> row.hash, state |-> "open", by |-> Nil]
BY DEF Verdict, Settled

\* A step that shows nothing.
LEMMA HiddenStep ==
  ASSUME UNCHANGED <<request, effects>>, SameVerdicts, SameAnswers
  PROVE  UNCHANGED Once!onceVars
BY DEF Once!onceVars, SameVerdicts, SameAnswers

LEMMA AnswerIsTell ==
  ASSUME LedgerInv, NEW c \in Calls, call[c].pc # "done",
         NEW kind \in Kinds, NEW by \in Authors, Answer(c, kind, by)
  PROVE  Once!Tell(c, kind, by)
<1>1. /\ call'[c].reply = [kind |-> kind, by |-> by]
      /\ \A d \in Calls : d # c => call'[d] = call[d]
  BY AnswerEffect DEF LedgerInv
<1>2. call[c].reply = [kind |-> "none", by |-> Nil]
  BY DEF LedgerInv, SilentUntilDone
<1> DEFINE answer == [d \in Calls |-> call[d].reply]
<1>3. \A d \in Calls :
        answer'[d] = [answer EXCEPT ![c] = [kind |-> kind, by |-> by]][d]
  BY <1>1
<1>4. answer' = [answer EXCEPT ![c] = [kind |-> kind, by |-> by]]
  <2>1. answer' = [d \in Calls |-> [answer EXCEPT ![c] = [kind |-> kind, by |-> by]][d]]
    BY <1>3
  <2>2. [answer EXCEPT ![c] = [kind |-> kind, by |-> by]]
          = [d \in Calls |-> [answer EXCEPT ![c] = [kind |-> kind, by |-> by]][d]]
    OBVIOUS
  <2> QED BY <2>1, <2>2
<1> QED
  BY <1>2, <1>4 DEF Once!Tell

\* An answer that commits to nothing.
LEMMA PutOffStep ==
  ASSUME LedgerInv, NEW c \in Calls, call[c].pc # "done",
         UNCHANGED <<request, effects>>, SameVerdicts,
         NEW kind \in {"hash_mismatch", "in_flight", "retryable", "unrecorded"},
         NEW by \in {Nil, c}, Answer(c, kind, by),
         kind = "hash_mismatch" => RowOf(c).hash # Hash(c)
  PROVE  Once!PutOff(c)
<1>1. Once!Tell(c, kind, by)
  BY AnswerIsTell DEF Kinds, Authors
<1>2. Key(c) \in Keys
  BY RowOfType DEF LedgerInv
<1>3. kind = "hash_mismatch" => Verdict(ledger[request[c].key]).hash # request[c].hash
  BY VerdictForm DEF RowOf, Key, Hash
<1>4. [k \in Keys |-> Verdict(ledger[k])]' = [k \in Keys |-> Verdict(ledger[k])]
  BY DEF SameVerdicts
<1> QED
  BY <1>1, <1>2, <1>3, <1>4 DEF Once!PutOff, Once!Inconclusive, Key

\* An answer read off the row.
LEMMA ResolveShows ==
  ASSUME LedgerInv, NEW c \in Calls, call[c].pc # "done", Resolve(c),
         UNCHANGED <<request, ledger, effects>>
  PROVE  Once!PutOff(c) \/ Once!Repeat(c)
<1> DEFINE row == RowOf(c)
<1>1. Key(c) \in Keys /\ Hash(c) \in Hashes /\ row \in Row
  BY RowOfType DEF LedgerInv
<1>2. SameVerdicts
  BY DEF SameVerdicts
<1>3. CASE row.hash # Hash(c)
  <2>1. Answer(c, "hash_mismatch", Nil)
    BY <1>3 DEF Resolve, Resolution
  <2> QED
    BY <1>2, <1>3, <2>1, PutOffStep
<1>4. CASE row.hash = Hash(c) /\ row.status \in Settled
  <2>1. PICK kind \in Kinds, by \in Authors :
          /\ kind = IF row.status = "completed" THEN "replayed" ELSE "terminal"
          /\ by = IF row.status = "completed" THEN row.response ELSE row.error
    BY <1>1 DEF Row, Kinds, Authors
  <2>2. Answer(c, kind, by)
    BY <1>4, <2>1 DEF Resolve, Resolution, Settled
  <2>3. Once!Tell(c, kind, by)
    BY <2>2, AnswerIsTell
  <2>4. /\ Verdict(row).hash = Hash(c) /\ Verdict(row).by = by
        /\ \/ Verdict(row).state = "done" /\ kind = "replayed"
           \/ Verdict(row).state = "failed" /\ kind = "terminal"
    BY <1>4, <2>1, VerdictForm DEF Settled
  <2>5. [k \in Keys |-> Verdict(ledger[k])][request[c].key] = Verdict(row)
    BY <1>1 DEF RowOf, Key
  <2>6. [k \in Keys |-> Verdict(ledger[k])]' = [k \in Keys |-> Verdict(ledger[k])]
    OBVIOUS
  <2> DEFINE v == [k \in Keys |-> Verdict(ledger[k])][request[c].key]
  <2>7. /\ v.hash = request[c].hash
        /\ \/ v.state = "done" /\ Once!Tell(c, "replayed", v.by)
           \/ v.state = "failed" /\ Once!Tell(c, "terminal", v.by)
    <3>1. v.hash = request[c].hash /\ v.by = by
      BY <2>4, <2>5 DEF Hash
    <3>2. CASE Verdict(row).state = "done" /\ kind = "replayed"
      <4>1. v.state = "done" BY <2>5, <3>2
      <4> HIDE DEF v
      <4> QED BY <2>3, <3>1, <3>2, <4>1 DEF Once!Tell
    <3>3. CASE Verdict(row).state = "failed" /\ kind = "terminal"
      <4>1. v.state = "failed" BY <2>5, <3>3
      <4> HIDE DEF v
      <4> QED BY <2>3, <3>1, <3>3, <4>1 DEF Once!Tell
    <3> QED BY <2>4, <3>2, <3>3
  <2> QED
    BY <2>6, <2>7 DEF Once!Repeat
<1>5. CASE row.hash = Hash(c) /\ row.status \notin Settled
  <2>1. Answer(c, "in_flight", Nil)
    BY <1>5 DEF Resolve, Resolution, Settled
  <2> QED
    BY <1>2, <2>1, PutOffStep
<1> QED
  BY <1>3, <1>4, <1>5

-----------------------------------------------------------------------------
(* Steps that write a row.                                                 *)

\* A row whose verdict stays as it was.
LEMMA SameVerdictWritten ==
  ASSUME TypeOK, NEW c \in Calls, NEW row \in Row, Write(c, row),
         Verdict(row) = Verdict(RowOf(c))
  PROVE  SameVerdicts
BY WriteEffect, RowOfType DEF SameVerdicts, RowOf

LEMMA WriteIsSettle ==
  ASSUME TypeOK, NEW c \in Calls, NEW row \in Row, Write(c, row),
         NEW state \in {"open", "done", "failed"}, NEW by \in Authors,
         Verdict(row) = [hash |-> Hash(c), state |-> state, by |-> by]
  PROVE  Once!Settle(c, state, by)
<1> DEFINE verdict == [k \in Keys |-> Verdict(ledger[k])]
           settled == [verdict EXCEPT ![request[c].key] =
                         [state |-> state, hash |-> request[c].hash, by |-> by]]
<1>1. Key(c) \in Keys
  BY RowOfType
<1>2. \A k \in Keys : verdict'[k] = settled[k]
  BY <1>1, WriteEffect DEF Key, Hash
<1>3. verdict' = [k \in Keys |-> settled[k]]
  BY <1>2
<1>4. settled = [k \in Keys |-> settled[k]]
  OBVIOUS
<1> QED
  BY <1>3, <1>4 DEF Once!Settle

\* The key is open for the call's payload.
LEMMA RowIsOpenFor ==
  ASSUME TypeOK, NEW c \in Calls, RowOf(c).status \notin Settled,
         RowOf(c).hash \in {Nil, Hash(c)}
  PROVE  Once!OpenFor(c)
<1>1. [k \in Keys |-> Verdict(ledger[k])][request[c].key] = Verdict(RowOf(c))
  BY RowOfType DEF RowOf, Key
<1>2. Verdict(RowOf(c)).state = "open" /\ Verdict(RowOf(c)).hash \in {Nil, Hash(c)}
  BY VerdictForm
<1> QED
  BY <1>1, <1>2 DEF Once!OpenFor, Hash

\* The claim of c is for the payload of c.
LEMMA OwnsItsPayload ==
  ASSUME LedgerInv, NEW c \in Calls, Owns(c)
  PROVE  RowOf(c).hash = Hash(c) /\ RowOf(c).status \notin Settled
<1>1. Key(c) \in Keys
  BY RowOfType DEF LedgerInv
<1>2. request[c] = [key |-> Key(c), hash |-> ledger[Key(c)].hash]
  BY <1>1 DEF LedgerInv, ClaimHasAnOwner, Owns, RowOf
<1> QED
  BY <1>2 DEF Owns, RowOf, Hash, Settled

\* A row that does not exist yet has no payload.
LEMMA AbsentIsOpen ==
  ASSUME LedgerInv, NEW c \in Calls, RowOf(c).status = "absent"
  PROVE  RowOf(c).hash = Nil /\ RowOf(c).status \notin Settled
<1>1. Key(c) \in Keys
  BY RowOfType DEF LedgerInv
<1>2. RowOf(c) = Absent
  BY <1>1 DEF LedgerInv, RowsHavePayloads, RowOf
<1> QED
  BY <1>2 DEF Absent, Settled

\* Writing the effect and the completed row is accepting.
LEMMA AcceptShows ==
  ASSUME LedgerInv, NEW c \in Calls, call[c].pc # "done",
         RowOf(c).status \notin Settled, RowOf(c).hash \in {Nil, Hash(c)},
         NEW row \in Row, row.hash = Hash(c), Write(c, CompletedBy(c, row)),
         effects' = effects \cup {[key |-> Key(c), hash |-> Hash(c), by |-> c]},
         Answer(c, "ok", c), UNCHANGED request
  PROVE  Once!Accept(c)
<1>1. TypeOK /\ c \in Authors /\ "ok" \in Kinds
  BY DEF LedgerInv, Authors, Kinds
<1>2. CompletedBy(c, row) \in Row
  BY <1>1, RowForms
<1>3. Verdict(CompletedBy(c, row)) = [hash |-> Hash(c), state |-> "done", by |-> c]
  BY DEF Verdict, CompletedBy, Row
<1>4. Once!Settle(c, "done", c)
  BY <1>1, <1>2, <1>3, WriteIsSettle
<1>5. Once!OpenFor(c)
  BY <1>1, RowIsOpenFor
<1>6. Once!Tell(c, "ok", c)
  BY <1>1, AnswerIsTell
<1> QED
  BY <1>4, <1>5, <1>6 DEF Once!Accept, Key, Hash

-----------------------------------------------------------------------------
(* Every step of the ledger is a step of CommandOnce or shows nothing.     *)

\* A call moves on and nothing else happens.
LEMMA GotoShows ==
  ASSUME LedgerInv, NEW c \in Calls, NEW pc \in PCs, Goto(c, pc)
  PROVE  SameAnswers
BY GotoEffect DEF LedgerInv, SameAnswers

LEMMA FailShows ==
  ASSUME LedgerInv, NEW c \in Calls, NEW f \in Failures, FailWith(c, f)
  PROVE  SameAnswers
BY FailEffect DEF LedgerInv, SameAnswers

LEMMA ClaimShows ==
  ASSUME LedgerInv, NEW c \in Calls, Claim(c)
  PROVE  Once!Next \/ UNCHANGED Once!onceVars
<1>1. TypeOK /\ UNCHANGED <<request, effects>>
  BY DEF LedgerInv, Claim, Submit, Fetch, Insert, Reclaim, ResolveExisting
<1>2. /\ "insert" \in PCs /\ "reclaim" \in PCs /\ "resolve" \in PCs
      /\ Claimed(c) \in PCs
  BY DEF PCs, InFlight, Claimed
<1>3. PICK row \in Row : row = RowOf(c)
  BY <1>1, RowOfType
<1>4. UNCHANGED ledger => SameVerdicts
  BY DEF SameVerdicts
<1>5. CASE Submit(c)
  <2>1. SameAnswers
    BY <1>1, <1>5 DEF Submit, SameAnswers, TypeOK, CallState
  <2> QED
    BY <1>1, <1>4, <1>5, <2>1, HiddenStep DEF Submit
<1>6. CASE Fetch(c) \/ ResolveExisting(c)
  <2>1. UNCHANGED ledger /\ call[c].pc # "done"
    BY <1>6 DEF Fetch, ResolveExisting
  <2>2. CASE Resolve(c)
    BY <1>1, <2>1, <2>2, ResolveShows DEF Once!Next
  <2>3. CASE Goto(c, "insert") \/ Goto(c, "reclaim")
    BY <1>1, <1>2, <1>4, <2>1, <2>3, GotoShows, HiddenStep
  <2> QED
    BY <1>6, <2>2, <2>3 DEF Fetch, ResolveExisting
<1>7. CASE Insert(c)
  <2>1. CASE RowOf(c).status = "absent" /\ Write(c, NewClaim(c)) /\ Goto(c, Claimed(c))
    <3>1. NewClaim(c) \in Row /\ Nil \in Authors
      BY <1>1, <1>3, RowForms DEF Authors
    <3>2. PICK new \in Row : new = NewClaim(c)
      BY <3>1
    <3>3. Verdict(new) = [hash |-> Hash(c), state |-> "open", by |-> Nil]
      BY <3>2 DEF Verdict, NewClaim, Absent
    <3>4. Write(c, new)
      BY <2>1, <3>2 DEF Write
    <3>5. Once!Settle(c, "open", Nil)
      BY <1>1, <3>1, <3>3, <3>4, WriteIsSettle
    <3>6. Once!OpenFor(c)
      BY <1>1, <2>1, AbsentIsOpen, RowIsOpenFor
    <3>7. SameAnswers
      BY <1>2, <2>1, GotoShows
    <3>8. UNCHANGED [d \in Calls |-> call[d].reply]
      BY <3>7 DEF SameAnswers
    <3>9. Once!Pin(c)
      BY <1>1, <3>5, <3>6, <3>8 DEF Once!Pin
    <3> QED
      BY <3>9 DEF Once!Next
  <2>2. CASE Goto(c, "resolve") /\ UNCHANGED ledger
    BY <1>1, <1>2, <1>4, <2>2, GotoShows, HiddenStep
  <2> QED
    BY <1>7, <2>1, <2>2 DEF Insert
<1>8. CASE Reclaim(c)
  <2>1. CASE /\ Reclaimable(RowOf(c), Hash(c), call[c].readAt)
             /\ Write(c, TakenOver(c, RowOf(c))) /\ Goto(c, Claimed(c))
    <3>1. PICK new \in Row : new = TakenOver(c, row)
      BY <1>1, RowForms
    <3>2. row.status \in {"in_progress", "failed_retryable"}
      BY <1>3, <2>1 DEF Reclaimable
    <3>3. Verdict(new) = Verdict(row)
      BY <3>1, <3>2 DEF Verdict, TakenOver, Row
    <3>4. Write(c, new)
      BY <1>3, <2>1, <3>1 DEF Write
    <3>5. SameVerdicts
      BY <1>1, <1>3, <3>3, <3>4, SameVerdictWritten
    <3> QED
      BY <1>1, <1>2, <2>1, <3>5, GotoShows, HiddenStep
  <2>2. CASE Goto(c, "resolve") /\ UNCHANGED ledger
    BY <1>1, <1>2, <1>4, <2>2, GotoShows, HiddenStep
  <2> QED
    BY <1>8, <2>1, <2>2 DEF Reclaim
<1> QED
  BY <1>5, <1>6, <1>7, <1>8 DEF Claim

\* An owner writes an open row over its open row.
LEMMA OwnerKeepsVerdict ==
  ASSUME LedgerInv, NEW c \in Calls, Owns(c), NEW new \in Row, Write(c, new),
         new.status \notin Settled, new.hash = RowOf(c).hash
  PROVE  SameVerdicts
<1>1. PICK row \in Row : row = RowOf(c)
  BY RowOfType DEF LedgerInv
<1>2. row.status \notin Settled
  BY <1>1, OwnsItsPayload
<1>3. Verdict(new) = Verdict(row)
  BY <1>1, <1>2, VerdictForm
<1> QED
  BY <1>1, <1>3, SameVerdictWritten DEF LedgerInv

LEMMA GuardShows ==
  ASSUME LedgerInv, NEW c \in Calls, Guard(c)
  PROVE  UNCHANGED Once!onceVars
<1>1. TypeOK /\ UNCHANGED <<request, effects>>
  BY DEF LedgerInv, Guard, AcquireGuard, GuardFails, RefreshLease,
         RefreshTimesOut, RecordLockKeys
<1>2. /\ "lock_keys" \in PCs /\ "run" \in PCs
      /\ "retryable" \in Failures /\ "terminal" \in Failures
  BY DEF PCs, InFlight, Failures
<1>3. SameAnswers
  <2>1. CASE UNCHANGED call
    BY <2>1 DEF SameAnswers
  <2>2. CASE Goto(c, "lock_keys") \/ Goto(c, "run")
    BY <1>2, <2>2, GotoShows
  <2>3. CASE \E f \in Failures : FailWith(c, f)
    BY <2>3, FailShows
  <2> QED
    BY <1>2, <2>1, <2>2, <2>3 DEF Guard, AcquireGuard, GuardFails, RefreshLease,
                                  RefreshTimesOut, RecordLockKeys
<1>4. PICK row \in Row : row = RowOf(c)
  BY <1>1, RowOfType
<1>5. SameVerdicts
  <2>1. CASE UNCHANGED ledger
    BY <2>1 DEF SameVerdicts
  <2>2. CASE Owns(c) /\ Write(c, Refreshed(RowOf(c)))
    <3>1. PICK new \in Row : new = Refreshed(row)
      BY <1>1, RowForms
    <3>2. new.status = row.status /\ new.hash = row.hash
      BY <3>1 DEF Refreshed, Row
    <3>3. Write(c, new)
      BY <1>4, <2>2, <3>1 DEF Write
    <3> QED
      BY <1>4, <2>2, <3>2, <3>3, OwnsItsPayload, OwnerKeepsVerdict
  <2>3. CASE Owns(c) /\ Write(c, [RowOf(c) EXCEPT !.locks = c])
    <3>1. PICK new \in Row : new = [row EXCEPT !.locks = c]
      BY <1>1, RowForms
    <3>2. new.status = row.status /\ new.hash = row.hash
      BY <3>1 DEF Row
    <3>3. Write(c, new)
      BY <1>4, <2>3, <3>1 DEF Write
    <3> QED
      BY <1>4, <2>3, <3>2, <3>3, OwnsItsPayload, OwnerKeepsVerdict
  <2> QED
    BY <2>1, <2>2, <2>3 DEF Guard, AcquireGuard, GuardFails, RefreshLease,
                            RefreshTimesOut, RecordLockKeys
<1> QED
  BY <1>1, <1>3, <1>5, HiddenStep

LEMMA FinalizeShows ==
  ASSUME LedgerInv, NEW c \in Calls, Finalize(c)
  PROVE  Once!PutOff(c) \/ Once!Refuse(c)
<1>1. TypeOK /\ UNCHANGED <<request, effects>> /\ call[c].pc # "done"
  BY DEF LedgerInv, Finalize
<1>2. PICK row \in Row : row = RowOf(c)
  BY <1>1, RowOfType
<1>3. CASE Answer(c, "unrecorded", Nil) /\ UNCHANGED ledger
  <2>1. SameVerdicts
    BY <1>3 DEF SameVerdicts
  <2> QED
    BY <1>1, <1>3, <2>1, PutOffStep
<1>4. CASE Owns(c) /\ Write(c, FailedBy(c, RowOf(c))) /\ Answer(c, call[c].failure, c)
  <2>1. PICK new \in Row : new = FailedBy(c, row)
    BY <1>1, RowForms
  <2>2. Write(c, new) /\ new.hash = row.hash /\ new.error = c
    BY <1>2, <1>4, <2>1 DEF Write, FailedBy, Row
  <2>3. row.hash = Hash(c) /\ row.status \notin Settled
    BY <1>2, <1>4, OwnsItsPayload
  <2>4. CASE call[c].failure = "retryable"
    <3>1. new.status \notin Settled
      BY <2>1, <2>4 DEF FailedBy, Row, Settled
    <3>2. SameVerdicts
      BY <1>2, <1>4, <2>2, <3>1, OwnerKeepsVerdict
    <3>3. Answer(c, "retryable", c)
      BY <1>4, <2>4
    <3> QED
      BY <1>1, <3>2, <3>3, PutOffStep
  <2>5. CASE call[c].failure = "terminal"
    <3>1. new.status = "failed_terminal"
      BY <2>1, <2>5 DEF FailedBy, Row
    <3>2. Verdict(new) = [hash |-> Hash(c), state |-> "failed", by |-> c]
      BY <2>2, <2>3, <3>1 DEF Verdict
    <3>3. c \in Authors /\ "terminal" \in Kinds
      BY DEF Authors, Kinds
    <3>4. Once!Settle(c, "failed", c)
      BY <1>1, <2>2, <3>2, <3>3, WriteIsSettle
    <3>5. Once!OpenFor(c)
      BY <1>1, <1>2, <2>3, RowIsOpenFor
    <3>6. Answer(c, "terminal", c)
      BY <1>4, <2>5
    <3>7. Once!Tell(c, "terminal", c)
      BY <1>1, <3>3, <3>6, AnswerIsTell
    <3> QED
      BY <1>1, <3>4, <3>5, <3>7 DEF Once!Refuse
  <2> QED
    BY <1>1, <2>4, <2>5 DEF TypeOK, CallState, Failures
<1> QED
  BY <1>3, <1>4 DEF Finalize

LEMMA RunShows ==
  ASSUME LedgerInv, NEW c \in Calls, Run(c)
  PROVE  Once!Next \/ UNCHANGED Once!onceVars
<1>1. TypeOK /\ UNCHANGED request
  BY DEF LedgerInv, Run, CommitClaimed, LoseClaim, ServiceFails, Finalize,
         ExecuteAtomic, StatementFails
<1>2. UNCHANGED ledger => SameVerdicts
  BY DEF SameVerdicts
<1>3. CASE CommitClaimed(c)
  <2>1. PICK row \in Row : row = RowOf(c)
    BY <1>1, RowOfType
  <2>2. row.hash = Hash(c) /\ row.status \notin Settled
    BY <1>3, <2>1, OwnsItsPayload DEF CommitClaimed
  <2>3. Write(c, CompletedBy(c, row))
    BY <1>3, <2>1 DEF CommitClaimed, CompletedBy, Write
  <2>4. Once!Accept(c)
    BY <1>1, <1>3, <2>1, <2>2, <2>3, AcceptShows DEF CommitClaimed
  <2> QED
    BY <2>4 DEF Once!Next
<1>4. CASE LoseClaim(c) \/ StatementFails(c)
  <2>1. /\ Answer(c, "unrecorded", Nil) /\ call[c].pc # "done"
        /\ UNCHANGED <<ledger, effects>>
    BY <1>4 DEF LoseClaim, StatementFails, InFlight
  <2>2. Once!PutOff(c)
    BY <1>1, <1>2, <2>1, PutOffStep
  <2> QED
    BY <2>2 DEF Once!Next
<1>5. CASE ServiceFails(c)
  <2>1. SameAnswers
    BY <1>5, FailShows DEF ServiceFails
  <2> QED
    BY <1>1, <1>2, <1>5, <2>1, HiddenStep DEF ServiceFails
<1>6. CASE Finalize(c)
  BY <1>6, FinalizeShows DEF Once!Next
<1>7. CASE ExecuteAtomic(c)
  <2>1. call[c].pc # "done"
    BY <1>7 DEF ExecuteAtomic
  <2>2. CASE Resolve(c) /\ UNCHANGED <<ledger, effects>>
    BY <1>1, <2>1, <2>2, ResolveShows DEF Once!Next
  <2>3. CASE RowOf(c).status = "absent" /\ ~(Resolve(c) /\ UNCHANGED <<ledger, effects>>)
    <3> DEFINE claimed == [Absent EXCEPT !.hash = Hash(c), !.token = c]
    <3>1. claimed \in Row
      BY <1>1, RowOfType DEF Row, Absent, Statuses, Leases, Authors
    <3>2. PICK row \in Row : row = claimed
      BY <3>1
    <3>3. row.hash = Hash(c)
      BY <3>2 DEF Absent
    <3>4. Write(c, CompletedBy(c, row))
      BY <1>7, <2>3, <3>2 DEF ExecuteAtomic
    <3>5. Once!Accept(c)
      BY <1>1, <1>7, <2>1, <2>3, <3>3, <3>4, AbsentIsOpen, AcceptShows DEF ExecuteAtomic
    <3> QED
      BY <3>5 DEF Once!Next
  <2> QED
    BY <1>7, <2>2, <2>3 DEF ExecuteAtomic
<1> QED
  BY <1>3, <1>4, <1>5, <1>6, <1>7 DEF Run

\* A request or a dismissal shows nothing; giving up closes the key.
LEMMA RecoverShows ==
  ASSUME LedgerInv, NEW k \in Keys, Recover(k)
  PROVE  Once!Next \/ UNCHANGED Once!onceVars
<1>1. TypeOK /\ UNCHANGED <<request, effects, call>>
  BY DEF LedgerInv, Recover, RequestRetry, Dismiss, MarkTerminal
<1>2. SameAnswers
  BY <1>1 DEF SameAnswers
<1>3. PICK row \in Row : row = ledger[k]
  BY <1>1 DEF TypeOK
<1>4. row.status \in {"in_progress", "failed_retryable"}
  BY <1>3 DEF Recover, RequestRetry, Dismiss, MarkTerminal, Recoverable, Expired
<1>5. CASE \E b \in BOOLEAN : ledger' = [ledger EXCEPT ![k] = [row EXCEPT !.dismissed = b]]
  <2>1. PICK b \in BOOLEAN : ledger' = [ledger EXCEPT ![k] = [row EXCEPT !.dismissed = b]]
    BY <1>5
  <2>2. PICK new \in Row : new = [row EXCEPT !.dismissed = b]
    BY DEF Row
  <2>3. Verdict(new) = Verdict(row)
    BY <2>2 DEF Verdict, Row
  <2>4. \A j \in Keys : ledger'[j] = IF j = k THEN new ELSE ledger[j]
    BY <1>1, <2>1, <2>2 DEF TypeOK
  <2>5. SameVerdicts
    BY <1>3, <2>3, <2>4 DEF SameVerdicts
  <2> QED
    BY <1>1, <1>2, <2>5, HiddenStep
<1>6. CASE ledger' = [ledger EXCEPT ![k] = GivenUp(row)]
  <2> DEFINE verdict == [j \in Keys |-> Verdict(ledger[j])]
             closed == [verdict EXCEPT
               ![k] = [state |-> "failed", hash |-> @.hash, by |-> Operator]]
  <2>1. PICK new \in Row : new = GivenUp(row)
    <3>1. NoLease \in Leases /\ Operator \in Authors /\ "failed_terminal" \in Statuses
      BY DEF Leases, Authors, Statuses
    <3>2. GivenUp(row) \in Row
      BY <3>1 DEF GivenUp, Row
    <3> QED
      BY <3>2
  <2>2. Verdict(new) = [hash |-> row.hash, state |-> "failed", by |-> Operator]
    BY <2>1 DEF Verdict, GivenUp, Row
  <2>3. Verdict(row) = [hash |-> row.hash, state |-> "open", by |-> Nil]
    BY <1>4, VerdictForm DEF Settled
  <2>4. verdict[k].state = "open" /\ verdict[k].hash # Nil
    <3>1. row.hash \in Hashes
      BY <1>3, <1>4 DEF LedgerInv, RowsHavePayloads
    <3> QED
      BY <1>3, <2>3, <3>1, LedgerAssumption
  <2>5. verdict' = closed
    <3>1. \A j \in Keys : ledger'[j] = IF j = k THEN new ELSE ledger[j]
      BY <1>1, <1>6, <2>1 DEF TypeOK
    <3>2. \A j \in Keys : verdict'[j] = IF j = k THEN Verdict(new) ELSE verdict[j]
      BY <3>1
    <3>3. verdict' = [j \in Keys |-> IF j = k THEN Verdict(new) ELSE verdict[j]]
      BY <3>2
    <3>4. closed = [j \in Keys |-> IF j = k THEN Verdict(new) ELSE verdict[j]]
      <4>1. verdict[k].hash = row.hash
        BY <1>3, <2>3
      <4>2. \A j \in Keys : closed[j] = IF j = k THEN Verdict(new) ELSE verdict[j]
        BY <2>2, <4>1
      <4>3. closed = [j \in Keys |-> closed[j]]
        OBVIOUS
      <4> QED
        BY <4>2, <4>3
    <3> QED
      BY <3>3, <3>4
  <2>6. UNCHANGED [c \in Calls |-> call[c].reply]
    BY <1>1
  <2>7. Once!Close(k)
    BY <1>1, <2>4, <2>5, <2>6 DEF Once!Close
  <2> QED
    BY <2>7 DEF Once!Next
<1> QED
  BY <1>3, <1>5, <1>6 DEF Recover, RequestRetry, Dismiss, MarkTerminal

LEMMA CrashShows == ASSUME LedgerInv, Crash PROVE UNCHANGED Once!onceVars
<1>1. SameAnswers
  BY DEF LedgerInv, TypeOK, CallState, Crash, SameAnswers
<1>2. SameVerdicts /\ UNCHANGED <<request, effects>>
  BY DEF Crash, SameVerdicts
<1> QED
  BY <1>1, <1>2, HiddenStep

LEMMA InitShows == Init => Once!Init
BY VerdictForm DEF Init, Once!Init, Once!Unasked, Absent, Settled

LEMMA StepShows == LedgerInv /\ [Next]_vars => [Once!Next]_Once!onceVars
<1> SUFFICES ASSUME LedgerInv, [Next]_vars
             PROVE  Once!Next \/ UNCHANGED Once!onceVars
  OBVIOUS
<1>1. CASE Tick \/ SetClockBack \/ UNCHANGED vars
  <2>1. UNCHANGED <<request, ledger, effects, call>>
    BY <1>1 DEF Tick, SetClockBack, vars
  <2> QED
    BY <2>1, HiddenStep DEF SameVerdicts, SameAnswers
<1> QED
  BY <1>1, ClaimShows, GuardShows, RunShows, RecoverShows, CrashShows DEF Next

\* The executor, its leases, its locks and its operators give each key one
\* verdict for one payload, applied once and told to everybody alike, for any
\* number of calls, crashes and clocks.
THEOREM LedgerImplementsOnce == Spec => ImplementsCommandOnce
<1> QED
  BY LedgerInvariant, InitShows, StepShows, PTL
     DEF Spec, ImplementsCommandOnce, Once!Spec

=============================================================================
