----------------------------- MODULE CommandOnce -----------------------------
(***************************************************************************)
(* What the command ledger promises its callers, without claims, leases,   *)
(* locks or clocks: each key gets at most one verdict, for one payload;    *)
(* the business write happens in the step that settles the key, and every  *)
(* conclusive answer, now or later, is that verdict.                       *)
(***************************************************************************)
CONSTANTS Calls, Keys, Hashes, Nil, Operator

VARIABLES
  request,   \* the key and the hash each call carries
  verdict,   \* verdict[k]: open, done by a call, or failed
  effects,   \* the business writes
  answer     \* what each call was told

onceVars == <<request, verdict, effects, answer>>

Inconclusive == {"hash_mismatch", "in_flight", "retryable", "unrecorded"}

Unasked == [state |-> "open", hash |-> Nil, by |-> Nil]

Init ==
  /\ request \in [Calls -> [key : Keys, hash : Hashes]]
  /\ verdict = [k \in Keys |-> Unasked]
  /\ effects = {}
  /\ answer = [c \in Calls |-> [kind |-> "none", by |-> Nil]]

\* The verdict on the key of c is open for the payload of c.
OpenFor(c) ==
  LET v == verdict[request[c].key] IN
    v.state = "open" /\ v.hash \in {Nil, request[c].hash}

Settle(c, state, by) ==
  verdict' = [verdict EXCEPT ![request[c].key] =
                [state |-> state, hash |-> request[c].hash, by |-> by]]

Tell(c, kind, by) ==
  /\ answer[c].kind = "none"
  /\ answer' = [answer EXCEPT ![c] = [kind |-> kind, by |-> by]]

\* The first payload seen under a key is the key's payload.
Pin(c) ==
  /\ OpenFor(c)
  /\ Settle(c, "open", Nil)
  /\ UNCHANGED <<request, effects, answer>>

Accept(c) ==
  /\ OpenFor(c)
  /\ Settle(c, "done", c)
  /\ effects' = effects \cup
       {[key |-> request[c].key, hash |-> request[c].hash, by |-> c]}
  /\ Tell(c, "ok", c)
  /\ UNCHANGED request

Refuse(c) ==
  /\ OpenFor(c)
  /\ Settle(c, "failed", c)
  /\ Tell(c, "terminal", c)
  /\ UNCHANGED <<request, effects>>

\* An operator gives up on a key that some call has asked for.
Close(k) ==
  /\ verdict[k].state = "open"
  /\ verdict[k].hash # Nil
  /\ verdict' = [verdict EXCEPT
       ![k] = [state |-> "failed", hash |-> @.hash, by |-> Operator]]
  /\ UNCHANGED <<request, effects, answer>>

\* Tell a call the verdict on its own payload.
Repeat(c) ==
  LET v == verdict[request[c].key] IN
  /\ v.hash = request[c].hash
  /\ \/ v.state = "done" /\ Tell(c, "replayed", v.by)
     \/ v.state = "failed" /\ Tell(c, "terminal", v.by)
  /\ UNCHANGED <<request, verdict, effects>>

\* An answer that commits to nothing; only a foreign payload is a mismatch.
PutOff(c) ==
  /\ \E kind \in Inconclusive :
       /\ kind = "hash_mismatch" => verdict[request[c].key].hash # request[c].hash
       /\ \E by \in {Nil, c} : Tell(c, kind, by)
  /\ UNCHANGED <<request, verdict, effects>>

Next ==
  \/ \E c \in Calls : Pin(c) \/ Accept(c) \/ Refuse(c) \/ Repeat(c) \/ PutOff(c)
  \/ \E k \in Keys : Close(k)

Spec == Init /\ [][Next]_onceVars

=============================================================================
