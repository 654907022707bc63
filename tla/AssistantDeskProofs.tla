------------------------- MODULE AssistantDeskProofs -------------------------
(***************************************************************************)
(* Proofs about the assistant's desk, for any staff, conversations, number *)
(* of commands and of sessions: the busy flag belongs to the session at    *)
(* hand, a card is approved by whom it was made for and carried out once,  *)
(* and what is on file is in its owner's conversation and whole.           *)
(***************************************************************************)
EXTENDS AssistantDesk, TLAPS

-----------------------------------------------------------------------------
(* The inductive invariants.                                                *)

\* Turns and approvals carry the key of the session they were sent from.
Keyed(c) == call[c].kind \in {"turn", "approve"}

\* A turn before and after its question's time to go on file.
Early == {"sent", "started", "asking"}
Past  == {"thinking", "answered", "landed"}

\* What a call carries at each stage.
Fits(r) ==
  /\ r.stage = "unused" => r = NoCall
  /\ r.kind = "approve" =>
       \/ r.stage = "sent" /\ r.result = "none"
       \/ r.stage \in {"answered", "landed"} /\ r.result \in {"ok", "error"}
  /\ r.kind = "turn" /\ r.stage \in Early =>
       r.book = NoBook /\ ~r.saved /\ ~r.persisted
  /\ r.kind = "turn" /\ r.stage \in {"started", "asking"} => r.by # Nobody
  /\ r.kind = "turn" /\ r.stage \in Early => (r.logged <=> r.stage = "asking")

Sound(r) == r \in Call /\ Fits(r)

CallsAreSound == \A c \in Calls : Sound(call[c])

TypeInv == TypeOK /\ CallsAreSound

\* Nobody is let in but from the log-in screen.
EnteringInv == entering # Nobody => screen = Nobody

\* A session is one person's, but for what is sent during a log-out: whoever sent
\* another call of the session at hand is still at the desk, and does not leave.
SessionsArePersons ==
  \A c \in Calls : Keyed(c) =>
    /\ call[c].key <= desk.key /\ call[c].who \in Staff
    /\ SameSession(c) /\ ~call[c].late => ~Leaving /\ screen = call[c].who

\* Turn k came back in that session, as the turn behind a card must have.
IsCardOf(k, key) == call[k].kind = "turn" /\ call[k].stage = "landed" /\ call[k].key = key

CardIsAtHand == desk.card # NoCard => IsCardOf(desk.card, desk.key)

Approval(a) == call[a].kind = "approve"

\* The card of an approval is a turn of the same session and, unless that was
\* late, person, and is at hand only while the approval is out, or once it came
\* back refused.
Backed(a) ==
  LET k == call[a].card
  IN  /\ k \in Calls /\ IsCardOf(k, call[a].key)
      /\ call[k].who = call[a].who \/ call[k].late
      /\ desk.card = k => Out(a) \/ call[a].result = "error"

ApprovalsHaveCards == \A a \in Calls : Approval(a) => Backed(a)

OneIsRefused(a, b) == "error" \in {call[a].result, call[b].result}

ApprovalsAreRetries ==
  \A a, b \in Calls :
    Approval(a) /\ Approval(b) /\ a # b /\ call[a].card = call[b].card => OneIsRefused(a, b)

\* The invariant of sessions and cards.
CardInv == /\ SessionsArePersons /\ BusyIsOwned /\ CardIsAtHand
           /\ ApprovalsHaveCards /\ ApprovalsAreRetries

\* A conversation that is, or was, on file.
Known(b) == b \in OldBooks \/ (b \in Calls /\ call[b].kind = "turn" /\ call[b].stage \in Past)

KnownOrNone(b) == b = NoBook \/ Known(b)

DeskIsKnown == KnownOrNone(desk.book) /\ \A b \in desk.listed : Known(b)

Refers(c) == /\ KnownOrNone(call[c].asked) /\ KnownOrNone(call[c].book)
             /\ \A b \in call[c].found : Known(b)

\* The permission found at the check still stands when question and answer go on
\* file, unless the conversation is gone.
MayAsk(c) ==
  call[c].stage = "asking" /\ Exists(call[c].asked) => MayRead(call[c].by, call[c].asked)

MayWrite(c) ==
  call[c].stage \in Past /\ call[c].logged /\ Exists(call[c].book)
    => MayRead(call[c].by, call[c].book)

OnFile(c, kind) == RowOf(call[c].book, c, kind) \in rows

\* persisted and saved tell the truth, unless the conversation is gone.
QuestionMarked(c) ==
  call[c].stage = "thinking" =>
    /\ call[c].persisted => OnFile(c, "question") \/ ~Exists(call[c].book)
    /\ OnFile(c, "question") => call[c].persisted

SavedIsKept(c) ==
  call[c].stage \in {"answered", "landed"} =>
    /\ call[c].saved => (OnFile(c, "question") /\ OnFile(c, "answer")) \/ ~Exists(call[c].book)
    /\ OnFile(c, "question") /\ OnFile(c, "answer") => call[c].saved

TurnIsFiled(c) == MayAsk(c) /\ MayWrite(c) /\ QuestionMarked(c) /\ SavedIsKept(c)

CallIsFiled(c) == Refers(c) /\ (call[c].kind = "turn" => TurnIsFiled(c))

\* A row is of a turn that runs, or ran, in the row's conversation.
RowIsOfTurn(w) ==
  /\ call[w.call].kind = "turn" /\ call[w.call].stage \in Past /\ call[w.call].logged
  /\ call[w.call].book = w.book /\ Exists(w.book)
  /\ w.kind = "answer" => call[w.call].stage # "thinking"

\* The invariant of the file.
FileInv == /\ \A b \in Books : Exists(b) => Known(b)
           /\ DeskIsKnown
           /\ \A c \in Calls : CallIsFiled(c)
           /\ \A w \in rows : RowIsOfTurn(w)

-----------------------------------------------------------------------------
(* Types.                                                                   *)

LEMMA AskedFields ==
  ASSUME NEW r, Sound(r), r.kind = "turn",
         NEW b \in Books \cup {NoBook}, NEW p \in BOOLEAN
  PROVE  Sound([r EXCEPT !.stage = "thinking", !.book = b, !.persisted = p])
<1>1. PICK s : s = [r EXCEPT !.stage = "thinking", !.book = b, !.persisted = p]
  OBVIOUS
<1>2. "thinking" \in Stages /\ r \in Call
  BY DEF Stages, Sound
<1>3. s \in Call
  BY <1>1, <1>2 DEF Call
<1>4. s.stage = "thinking" /\ s.kind = "turn"
  BY <1>1, <1>2 DEF Call
<1> QED
  BY <1>1, <1>3, <1>4 DEF Sound, Fits, Early

LEMMA PutIsSound ==
  ASSUME TypeInv, NEW c \in Calls, NEW r, Put(c, r), Sound(r)
  PROVE  call' \in [Calls -> Call] /\ CallsAreSound'
<1>1. call \in [Calls -> Call] /\ \A d \in Calls : Sound(call[d])
  BY DEF TypeInv, TypeOK, CallsAreSound
<1>2. call' = [call EXCEPT ![c] = r] /\ r \in Call
  BY DEF Put, Sound
<1>3. \A d \in Calls : call'[d] = IF d = c THEN r ELSE call[d]
  BY <1>1, <1>2
<1>4. \A d \in Calls : Sound(call'[d])
  BY <1>1, <1>3
<1> QED
  BY <1>1, <1>2, <1>4 DEF CallsAreSound

LEMMA NoCallIsSound == Sound(NoCall)
  BY DeskAssumption DEF Sound, Fits, NoCall, Call, Kinds, Stages, Results, Calls, NoCard, Early

LEMMA SentIsSound ==
  ASSUME NEW k \in Kinds, k \notin {"turn", "approve"}, NEW b \in Books \cup {NoBook}
  PROVE  Sound(SentCall(k)) /\ Sound([SentCall(k) EXCEPT !.asked = b])
  BY DeskAssumption
     DEF Sound, Fits, SentCall, NoCall, Call, Kinds, Stages, Results, Calls, NoCard, Early

LEMMA KeyedIsSound ==
  ASSUME TypeOK
  PROVE  /\ \A b \in Books \cup {NoBook} : Sound([KeyedCall("turn") EXCEPT !.asked = b])
         /\ \A k \in Calls : Sound([KeyedCall("approve") EXCEPT !.card = k])
<1>1. desk.key \in Nat /\ screen \in Staff \cup {Nobody}
  BY DEF TypeOK, Desk
<1>2. PICK n \in Call : n = NoCall
  BY NoCallIsSound DEF Sound
<1>3. /\ n.result = "none" /\ n.book = NoBook /\ n.by = Nobody
      /\ ~n.logged /\ ~n.persisted /\ ~n.saved
  BY <1>2 DEF NoCall
<1>4. ASSUME NEW kind \in {"turn", "approve"}
      PROVE  \E r \in Call : /\ r = KeyedCall(kind) /\ r.kind = kind /\ r.stage = "sent"
                             /\ r.result = "none" /\ r.book = NoBook /\ r.by = Nobody
                             /\ ~r.logged /\ ~r.persisted /\ ~r.saved
  <2>1. kind \in Kinds /\ "sent" \in Stages
    BY DEF Kinds, Stages
  <2> DEFINE m == [n EXCEPT !.kind = kind, !.stage = "sent"]
             r == [m EXCEPT !.key = desk.key, !.who = screen, !.late = Leaving]
  <2>2. m \in Call
    BY <2>1 DEF Call
  <2>3. /\ m.kind = kind /\ m.stage = "sent" /\ m.result = n.result
        /\ m.book = n.book /\ m.by = n.by /\ m.logged = n.logged
        /\ m.persisted = n.persisted /\ m.saved = n.saved
    BY DEF Call
  <2>4. r = KeyedCall(kind)
    BY <1>2 DEF KeyedCall, SentCall
  <2> HIDE DEF m
  <2>5. r \in Call
    <3>1. Leaving \in BOOLEAN
      BY DEF Leaving
    <3> HIDE DEF Leaving
    <3> QED
      BY <1>1, <2>2, <3>1 DEF Call
  <2>6. /\ r.kind = m.kind /\ r.stage = m.stage /\ r.result = m.result
        /\ r.book = m.book /\ r.by = m.by /\ r.logged = m.logged
        /\ r.persisted = m.persisted /\ r.saved = m.saved
    BY <2>2 DEF Call
  <2> HIDE DEF r
  <2> QED
    BY <1>3, <2>3, <2>4, <2>5, <2>6
<1>5. ASSUME NEW b \in Books \cup {NoBook}
      PROVE  Sound([KeyedCall("turn") EXCEPT !.asked = b])
  <2>1. PICK r \in Call : /\ r = KeyedCall("turn") /\ r.kind = "turn" /\ r.stage = "sent"
                          /\ r.book = NoBook /\ ~r.logged /\ ~r.persisted /\ ~r.saved
    BY <1>4
  <2> DEFINE t == [r EXCEPT !.asked = b]
  <2>2. t \in Call
    BY DEF Call
  <2>3. /\ t.kind = r.kind /\ t.stage = r.stage /\ t.book = r.book /\ t.logged = r.logged
        /\ t.persisted = r.persisted /\ t.saved = r.saved
    BY DEF Call
  <2> HIDE DEF t
  <2>4. Fits(t)
    BY <2>1, <2>3 DEF Fits, Early
  <2>5. Sound(t)
    BY <2>2, <2>4 DEF Sound
  <2> QED
    BY <2>1, <2>5 DEF t
<1>6. ASSUME NEW k \in Calls
      PROVE  Sound([KeyedCall("approve") EXCEPT !.card = k])
  <2>1. PICK r \in Call : /\ r = KeyedCall("approve") /\ r.kind = "approve"
                          /\ r.stage = "sent" /\ r.result = "none"
    BY <1>4
  <2> DEFINE t == [r EXCEPT !.card = k]
  <2>2. t \in Call
    BY DEF Call
  <2>3. t.kind = r.kind /\ t.stage = r.stage /\ t.result = r.result
    BY DEF Call
  <2> HIDE DEF t
  <2>4. Fits(t)
    BY <2>1, <2>3 DEF Fits
  <2>5. Sound(t)
    BY <2>2, <2>4 DEF Sound
  <2> QED
    BY <2>1, <2>5 DEF t
<1> QED
  BY <1>5, <1>6

LEMMA LandedIsSound ==
  ASSUME TypeInv, NEW c \in Calls, call[c].stage = "answered"
  PROVE  Sound(Landed(c)) 
<1>1. call[c] \in Call /\ Fits(call[c])
  BY DEF TypeInv, CallsAreSound, Sound
<1> QED
  BY <1>1 DEF Sound, Fits, Landed, Call, Stages, Early

LEMMA SpentIsSound == Sound(Spent)
  BY DeskAssumption DEF Sound, Fits, Spent, NoCall, Call, Kinds, Stages, Results, Calls, NoCard, Early

-----------------------------------------------------------------------------
(* Types, action by action.                                                 *)

LEMMA DeskFields ==
  ASSUME NEW d \in Desk
  PROVE  /\ EmptySession(d) \in Desk
         /\ [d EXCEPT !.card = NoCard, !.cardKey = 0] \in Desk
         /\ \A b \in Books \cup {NoBook} : [d EXCEPT !.book = b] \in Desk
         /\ \A x \in BOOLEAN : [d EXCEPT !.busy = x] \in Desk
         /\ [d EXCEPT !.busy = FALSE, !.card = NoCard, !.cardKey = 0] \in Desk
         /\ \A L \in SUBSET Books : [d EXCEPT !.listed = L] \in Desk
<1>1. d.key + 1 \in Nat
  BY DEF Desk
<1>2. EmptySession(d) \in Desk
  BY <1>1 DEF Desk, EmptySession, NoCard
<1>3. [d EXCEPT !.card = NoCard, !.cardKey = 0] \in Desk
  BY DEF Desk, NoCard
<1>4. \A b \in Books \cup {NoBook} : [d EXCEPT !.book = b] \in Desk
  BY DEF Desk
<1>5. \A x \in BOOLEAN : [d EXCEPT !.busy = x] \in Desk
  BY DEF Desk
<1>6. [d EXCEPT !.busy = FALSE, !.card = NoCard, !.cardKey = 0] \in Desk
  BY DEF Desk, NoCard
<1>7. \A L \in SUBSET Books : [d EXCEPT !.listed = L] \in Desk
  BY DEF Desk
<1> QED
  BY <1>2, <1>3, <1>4, <1>5, <1>6, <1>7

LEMMA TypeSend ==
  ASSUME TypeInv, NEW c \in Calls, Send(c)
  PROVE  TypeInv'
<1>1. desk.book \in Books \cup {NoBook} /\ desk \in Desk
  BY DEF TypeInv, TypeOK, Desk
<1>2. Put(c, [KeyedCall("turn") EXCEPT !.asked = desk.book])
  BY DEF Send, Issue, Put
<1>3. Sound([KeyedCall("turn") EXCEPT !.asked = desk.book])
  BY <1>1, KeyedIsSound DEF TypeInv
<1>4. call' \in [Calls -> Call] /\ CallsAreSound'
  BY <1>2, <1>3, PutIsSound
<1>5. desk' \in Desk
  BY <1>1, DeskFields DEF Send
<1> QED
  BY <1>4, <1>5 DEF TypeInv, TypeOK, Send, fileVars

LEMMA TypeApprove ==
  ASSUME TypeInv, NEW c \in Calls, Approve(c)
  PROVE  TypeInv'
<1>1. desk.card \in Calls \cup {NoCard} /\ desk \in Desk
  BY DEF TypeInv, TypeOK, Desk
<1>2. CASE desk.cardKey # desk.key
  <2>1. desk' \in Desk /\ call' = call
    BY <1>1, <1>2, DeskFields DEF Approve
  <2> QED
    BY <2>1 DEF TypeInv, TypeOK, CallsAreSound, Sound, Approve, fileVars
<1>3. CASE desk.cardKey = desk.key
  <2>1. Put(c, [KeyedCall("approve") EXCEPT !.card = desk.card])
    BY <1>3 DEF Approve, Issue, Put
  <2>2. Sound([KeyedCall("approve") EXCEPT !.card = desk.card])
    BY <1>1, KeyedIsSound DEF TypeInv, Approve
  <2>3. call' \in [Calls -> Call] /\ CallsAreSound'
    BY <2>1, <2>2, PutIsSound
  <2>4. desk' \in Desk
    BY <1>1, <1>3, DeskFields DEF Approve
  <2> QED
    BY <2>3, <2>4 DEF TypeInv, TypeOK, Approve, fileVars
<1> QED
  BY <1>2, <1>3

LEMMA TypeErrand ==
  ASSUME TypeInv, NEW c \in Calls, NEW b \in Books,
         \/ OpenConversation(c, b) \/ LoadConversations(c)
         \/ DeleteConversation(c, b) \/ DeleteAllConversations(c)
  PROVE  TypeInv'
<1>1. PICK r : Put(c, r) /\ Sound(r)
  <2>1. CASE OpenConversation(c, b)
    <3>1. Put(c, [SentCall("open") EXCEPT !.asked = b])
      BY <2>1 DEF OpenConversation, Issue, Put
    <3> QED
      BY <3>1, SentIsSound DEF Kinds
  <2>2. CASE LoadConversations(c)
    <3>1. Put(c, SentCall("list"))
      BY <2>2 DEF LoadConversations, Issue, Put
    <3> QED
      BY <3>1, SentIsSound DEF Kinds
  <2>3. CASE DeleteConversation(c, b)
    <3>1. Put(c, [SentCall("delete") EXCEPT !.asked = b])
      BY <2>3 DEF DeleteConversation, Issue, Put
    <3> QED
      BY <3>1, SentIsSound DEF Kinds
  <2>4. CASE DeleteAllConversations(c)
    <3>1. Put(c, SentCall("delete_all"))
      BY <2>4 DEF DeleteAllConversations, Issue, Put
    <3> QED
      BY <3>1, SentIsSound DEF Kinds
  <2> QED
    BY <2>1, <2>2, <2>3, <2>4
<1>2. UNCHANGED <<deskVars, fileVars>>
  BY DEF OpenConversation, LoadConversations, DeleteConversation, DeleteAllConversations
<1>3. call' \in [Calls -> Call] /\ CallsAreSound'
  BY <1>1, PutIsSound
<1> QED
  BY <1>2, <1>3 DEF TypeInv, TypeOK, deskVars, fileVars

LEMMA TypeSession ==
  ASSUME TypeInv, Session
  PROVE  TypeInv' /\ UNCHANGED <<call, fileVars>>
<1>1. desk \in Desk
  BY DEF TypeInv, TypeOK
<1>2. UNCHANGED <<call, fileVars>>
  BY DEF Session, Dismiss, StartNewChat, Logout, LogoutRuns, LogoutLands,
         LoginRuns, LoginLands
<1>3. desk' \in Desk
  <2>1. CASE Logout
    <3>1. EmptySession(desk) \in Desk
      BY <1>1, DeskFields
    <3> QED
      BY <2>1, <3>1 DEF Logout, Desk
  <2>2. CASE Dismiss \/ StartNewChat
    BY <1>1, <2>2, DeskFields DEF Dismiss, StartNewChat
  <2>3. CASE ~Logout /\ ~Dismiss /\ ~StartNewChat
    BY <1>1, <2>3 DEF Session, LogoutRuns, LogoutLands,
         LoginRuns, LoginLands
  <2> QED
    BY <2>1, <2>2, <2>3
<1>4. /\ screen' \in Staff \cup {Nobody} /\ current' \in Staff \cup {Nobody}
      /\ leaving' \in [asked : Nat, done : Nat] /\ entering' \in Staff \cup {Nobody}
  <2>1. PICK l \in [asked : Nat, done : Nat] : l = leaving
    BY DEF TypeInv, TypeOK
  <2>2. /\ [l EXCEPT !.asked = @ + 1] \in [asked : Nat, done : Nat]
        /\ l.asked > 0 => [asked |-> l.asked - 1, done |-> l.done + 1] \in [asked : Nat, done : Nat]
        /\ l.done > 0 => [l EXCEPT !.done = @ - 1] \in [asked : Nat, done : Nat]
    OBVIOUS
  <2>3. leaving' \in [asked : Nat, done : Nat]
    BY <2>1, <2>2 DEF Session, Dismiss, StartNewChat, Logout, LogoutRuns, LogoutLands,
                      LoginRuns, LoginLands
  <2> QED
    BY <2>3 DEF TypeInv, TypeOK, Session, Dismiss, StartNewChat, Logout, LogoutRuns,
                LogoutLands, LoginRuns, LoginLands
<1> QED
  BY <1>2, <1>3, <1>4 DEF TypeInv, TypeOK, CallsAreSound, Sound, fileVars

\* A back end step answers or moves on one call; the file stays well typed.
LEMMA TypeTurn ==
  ASSUME TypeInv, NEW c \in Calls, Turn(c)
  PROVE  TypeInv'
<1>1. call[c] \in Call /\ Fits(call[c])
  BY DEF TypeInv, CallsAreSound, Sound
<1>2. owner \in [Books -> Staff \cup {Nobody}] /\ rows \subseteq Row
      /\ current \in Staff \cup {Nobody}
  BY DEF TypeInv, TypeOK
<1>3. call[c].kind = "turn" /\ UNCHANGED deskVars
  BY DEF Turn, TurnStart, TurnCheck, TurnAsk, TurnClose, At
<1>4. CASE TurnStart(c)
  <2>1. PICK r : Put(c, r) /\ (\/ r = Answered(c, "error")
                               \/ /\ current # Nobody
                                  /\ r = [call[c] EXCEPT !.stage = "started", !.by = current])
    BY <1>4 DEF TurnStart
  <2>2. call[c].stage = "sent"
    BY <1>4 DEF TurnStart, At
  <2>3. Sound(r)
    <3>1. CASE r = Answered(c, "error")
      BY <1>1, <1>3, <3>1 DEF Sound, Fits, Answered, Call, Stages, Results, Early
    <3>2. CASE current # Nobody /\ r = [call[c] EXCEPT !.stage = "started", !.by = current]
      BY <1>1, <1>2, <1>3, <2>2, <3>2 DEF Sound, Fits, Call, Stages, Early
    <3> QED
      BY <2>1, <3>1, <3>2
  <2>4. call' \in [Calls -> Call] /\ CallsAreSound'
    BY <2>1, <2>3, PutIsSound
  <2>5. UNCHANGED fileVars
    BY <1>4 DEF TurnStart
  <2> QED
    BY <1>3, <2>4, <2>5 DEF TypeInv, TypeOK, deskVars, fileVars
<1>5. CASE TurnCheck(c)
  <2>1. PICK r : Put(c, r) /\ (\/ \E x \in {"error", "forbidden"} : r = Answered(c, x)
                               \/ r = [call[c] EXCEPT !.stage = "asking", !.logged = TRUE]
                               \/ r = [call[c] EXCEPT !.stage = "thinking", !.book = call[c].asked])
    BY <1>5, Zenon DEF TurnCheck
  <2>2. call[c].stage = "started"
    BY <1>5 DEF TurnCheck, At
  <2>3. Sound(r)
    <3>1. CASE \E x \in {"error", "forbidden"} : r = Answered(c, x)
      BY <1>1, <1>3, <3>1 DEF Sound, Fits, Answered, Call, Stages, Results, Early
    <3>2. CASE r = [call[c] EXCEPT !.stage = "asking", !.logged = TRUE]
      BY <1>1, <1>3, <2>2, <3>2 DEF Sound, Fits, Call, Stages, Early
    <3>3. CASE r = [call[c] EXCEPT !.stage = "thinking", !.book = call[c].asked]
      BY <1>1, <1>3, <2>2, <3>3 DEF Sound, Fits, Call, Stages, Early
    <3> QED
      BY <2>1, <3>1, <3>2, <3>3
  <2>4. call' \in [Calls -> Call] /\ CallsAreSound'
    BY <2>1, <2>3, PutIsSound
  <2>5. UNCHANGED fileVars
    BY <1>5 DEF TurnCheck
  <2> QED
    BY <1>3, <2>4, <2>5 DEF TypeInv, TypeOK, deskVars, fileVars
<1>6. CASE TurnAsk(c)
  <2>1. PICK b \in Books \cup {NoBook}, p \in BOOLEAN :
           /\ Put(c, [call[c] EXCEPT !.stage = "thinking", !.book = b, !.persisted = p])
           /\ rows' \subseteq rows \cup {RowOf(b, c, "question")}
           /\ owner' = owner \/ owner' = [owner EXCEPT ![c] = call[c].by]
           /\ b = NoBook => rows' = rows
    <3>1. call[c].asked \in Books \cup {NoBook} /\ c \in Books
      BY <1>1 DEF Call, Books
    <3>2. PICK p \in BOOLEAN :
            \/ /\ Put(c, [call[c] EXCEPT !.stage = "thinking", !.book = NoBook, !.persisted = p])
               /\ UNCHANGED fileVars
            \/ /\ Put(c, [call[c] EXCEPT !.stage = "thinking", !.book = c, !.persisted = p])
               /\ owner' = [owner EXCEPT ![c] = call[c].by]
               /\ rows' = IF p THEN rows \cup {RowOf(c, c, "question")} ELSE rows
            \/ /\ Put(c, [call[c] EXCEPT !.stage = "thinking", !.book = call[c].asked, !.persisted = p])
               /\ call[c].asked # NoBook
               /\ rows' = IF p THEN rows \cup {RowOf(call[c].asked, c, "question")} ELSE rows
               /\ UNCHANGED owner
      BY <1>6, Zenon DEF TurnAsk
    <3>3. c # NoBook
      BY <3>1, DeskAssumption
    <3>4. CASE UNCHANGED fileVars /\ Put(c, [call[c] EXCEPT !.stage = "thinking", !.book = NoBook, !.persisted = p])
      BY <3>4 DEF fileVars
    <3>5. CASE /\ Put(c, [call[c] EXCEPT !.stage = "thinking", !.book = c, !.persisted = p])
               /\ owner' = [owner EXCEPT ![c] = call[c].by]
               /\ rows' = IF p THEN rows \cup {RowOf(c, c, "question")} ELSE rows
      <4>1. rows' \subseteq rows \cup {RowOf(c, c, "question")}
        BY <3>5
      <4> c \in Books \cup {NoBook}
        BY <3>1
      <4> WITNESS c \in Books \cup {NoBook}, p \in BOOLEAN
      <4> QED
        BY <3>3, <3>5, <4>1
    <3>6. CASE /\ Put(c, [call[c] EXCEPT !.stage = "thinking", !.book = call[c].asked, !.persisted = p])
               /\ call[c].asked # NoBook
               /\ rows' = IF p THEN rows \cup {RowOf(call[c].asked, c, "question")} ELSE rows
               /\ UNCHANGED owner
      <4>1. rows' \subseteq rows \cup {RowOf(call[c].asked, c, "question")}
        BY <3>6
      <4> call[c].asked \in Books \cup {NoBook}
        BY <3>1
      <4> WITNESS call[c].asked \in Books \cup {NoBook}, p \in BOOLEAN
      <4> QED
        BY <3>6, <4>1
    <3> QED
      BY <3>2, <3>4, <3>5, <3>6
  <2>2. Sound([call[c] EXCEPT !.stage = "thinking", !.book = b, !.persisted = p])
    <3>1. Sound(call[c])
      BY <1>1 DEF Sound
    <3> QED
      BY <1>3, <3>1, AskedFields
  <2>3. call' \in [Calls -> Call] /\ CallsAreSound'
    BY <2>1, <2>2, PutIsSound
  <2>4. owner' \in [Books -> Staff \cup {Nobody}]
    BY <1>1, <1>2, <2>1 DEF Call
  <2>5. rows' \subseteq Row
    <3>1. b # NoBook => RowOf(b, c, "question") \in Row
      BY DEF RowOf, Row
    <3> QED
      BY <1>2, <2>1, <3>1
  <2> QED
    BY <1>3, <2>3, <2>4, <2>5 DEF TypeInv, TypeOK, deskVars
<1>7. CASE TurnClose(c)
  <2>1. PICK x \in Outcomes, w \in BOOLEAN :
           /\ w => call[c].logged /\ Exists(call[c].book)
           /\ rows' = IF w THEN rows \cup {RowOf(call[c].book, c, "answer")} ELSE rows
           /\ Put(c, [Answered(c, x) EXCEPT !.saved = call[c].persisted /\ w])
    BY <1>7, Zenon DEF TurnClose
  <2>2. Sound([Answered(c, x) EXCEPT !.saved = call[c].persisted /\ w])
    <3>1. (call[c].persisted /\ w) \in BOOLEAN
      BY <1>1 DEF Call
    <3>2. x \in Results
      BY DEF Outcomes, Results
    <3> QED
      BY <1>1, <1>3, <3>1, <3>2 DEF Sound, Fits, Answered, Call, Stages, Early
  <2>3. call' \in [Calls -> Call] /\ CallsAreSound'
    BY <2>1, <2>2, PutIsSound
  <2>4. rows' \subseteq Row
    BY <1>2, <2>1 DEF Exists, RowOf, Row
  <2> QED
    BY <1>3, <1>7, <2>3, <2>4 DEF TypeInv, TypeOK, deskVars, TurnClose
<1> QED
  BY <1>4, <1>5, <1>6, <1>7 DEF Turn

LEMMA TypeBackEnd ==
  ASSUME TypeInv, NEW c \in Calls,
         RunWrite(c) \/ ReadConversation(c) \/ ListConversations(c) \/ RunDelete(c)
  PROVE  TypeInv'
<1>1. call[c] \in Call /\ Fits(call[c])
  BY DEF TypeInv, CallsAreSound, Sound
<1>2. PICK r : Put(c, r) /\ Sound(r)
  <2>1. CASE RunWrite(c)
    <3>1. PICK x \in {"ok", "error"} : Put(c, Answered(c, x))
      BY <2>1 DEF RunWrite
    <3>2. call[c].kind = "approve"
      BY <2>1 DEF RunWrite, At
    <3>3. Sound(Answered(c, x))
      BY <1>1, <3>2 DEF Sound, Fits, Answered, Call, Stages, Results, Early
    <3> QED
      BY <3>1, <3>3
  <2>2. CASE ReadConversation(c) \/ RunDelete(c)
    <3>1. call[c].kind \notin {"turn", "approve"}
      BY <2>2 DEF ReadConversation, RunDelete, At
    <3>2. Put(c, Answered(c, "ok")) \/ Put(c, Spent)
      BY <2>2 DEF ReadConversation, RunDelete
    <3>3. Sound(Answered(c, "ok"))
      BY <1>1, <3>1 DEF Sound, Fits, Answered, Call, Stages, Results, Early
    <3> QED
      BY <3>2, <3>3, SpentIsSound
  <2>3. CASE ListConversations(c)
    <3>1. call[c].kind \notin {"turn", "approve"}
      BY <2>3 DEF ListConversations, At
    <3>2. DEFINE L == {b \in Books : MayRead(current, b)}
    <3>3. Put(c, [Answered(c, "ok") EXCEPT !.found = L]) \/ Put(c, Spent)
      BY <2>3 DEF ListConversations
    <3>4. L \in SUBSET Books
      OBVIOUS
    <3> HIDE DEF L
    <3>5. Sound([Answered(c, "ok") EXCEPT !.found = L])
      BY <1>1, <3>1, <3>4 DEF Sound, Fits, Answered, Call, Stages, Results, Early
    <3> QED
      BY <3>3, <3>5, SpentIsSound
  <2> QED
    BY <2>1, <2>2, <2>3
<1>3. call' \in [Calls -> Call] /\ CallsAreSound'
  BY <1>2, PutIsSound
<1>4. UNCHANGED deskVars
  BY DEF RunWrite, ReadConversation, ListConversations, RunDelete
<1>5. owner' \in [Books -> Staff \cup {Nobody}] /\ rows' \subseteq Row
  <2>1. owner \in [Books -> Staff \cup {Nobody}] /\ rows \subseteq Row
    BY DEF TypeInv, TypeOK
  <2>2. UNCHANGED fileVars \/ Remove({call[c].asked}) \/ Remove(Books)
    BY DEF RunWrite, ReadConversation, ListConversations, RunDelete
  <2> QED
    BY <2>1, <2>2 DEF Remove, fileVars
<1> QED
  BY <1>3, <1>4, <1>5 DEF TypeInv, TypeOK, deskVars

LEMMA TypeLands ==
  ASSUME TypeInv, NEW c \in Calls, NEW next \in Calls,
         \/ TurnLands(c) \/ ApproveLands(c) \/ OpenLands(c) \/ ListLands(c)
         \/ DeleteLands(c, next)
  PROVE  TypeInv'
<1>1. call[c] \in Call /\ Fits(call[c]) /\ desk \in Desk /\ call \in [Calls -> Call]
  BY DEF TypeInv, TypeOK, CallsAreSound, Sound
<1>2. UNCHANGED <<screen, current, leaving, entering, fileVars>>
  BY DEF TurnLands, ApproveLands, OpenLands, ListLands, DeleteLands
<1>3. call' \in [Calls -> Call] /\ CallsAreSound'
  <2>1. CASE TurnLands(c) \/ ApproveLands(c)
    <3>1. call[c].stage = "answered" /\ Put(c, Landed(c))
      BY <2>1 DEF TurnLands, ApproveLands, At
    <3> QED
      BY <3>1, LandedIsSound, PutIsSound
  <2>2. CASE OpenLands(c) \/ ListLands(c)
    BY <2>2, SpentIsSound, PutIsSound DEF OpenLands, ListLands
  <2>3. CASE DeleteLands(c, next)
    <3>1. call' = [call EXCEPT ![c] = Spent, ![next] = SentCall("list")]
      BY <2>3 DEF DeleteLands
    <3>2. Sound(Spent) /\ Sound(SentCall("list"))
      BY SpentIsSound, SentIsSound DEF Kinds
    <3>3. \A d \in Calls : call'[d] \in {call[d], Spent, SentCall("list")}
      BY <1>1, <3>1
    <3>4. \A d \in Calls : Sound(call'[d])
      BY <3>2, <3>3 DEF TypeInv, CallsAreSound
    <3>5. Spent \in Call /\ SentCall("list") \in Call
      BY <3>2 DEF Sound
    <3> QED
      BY <1>1, <3>1, <3>4, <3>5 DEF CallsAreSound
  <2> QED
    BY <2>1, <2>2, <2>3
<1>4. desk' \in Desk
  <2>1. CASE TurnLands(c)
    <3>1. call[c].book \in Books \cup {NoBook} /\ call[c].key \in Nat /\ c \in Calls
          /\ desk.book \in Books \cup {NoBook}
      BY <1>1 DEF Call, Desk
    <3>2. \E k \in Calls \cup {NoCard}, n \in Nat, b \in Books \cup {NoBook} :
            desk' \in {desk, [desk EXCEPT !.busy = FALSE, !.book = b],
                       [desk EXCEPT !.busy = FALSE, !.card = k, !.cardKey = n, !.book = b]}
      <4>1. CASE ~SameSession(c)
        BY <2>1, <4>1, <3>1 DEF TurnLands
      <4>2. CASE SameSession(c) /\ call[c].result \in {"reply", "card"}
        <5> DEFINE k == IF call[c].result = "card" THEN c ELSE NoCard
        <5> DEFINE n == IF call[c].result = "card" THEN call[c].key ELSE 0
        <5> DEFINE b == IF call[c].book # NoBook THEN call[c].book ELSE desk.book
        <5>1. desk' = [desk EXCEPT !.busy = FALSE, !.card = k, !.cardKey = n, !.book = b]
          BY <2>1, <4>2 DEF TurnLands
        <5>2. k \in Calls \cup {NoCard} /\ n \in Nat /\ b \in Books \cup {NoBook}
          BY <3>1
        <5> HIDE DEF k, n, b
        <5> QED
          BY <5>1, <5>2
      <4>3. CASE SameSession(c) /\ call[c].result \notin {"reply", "card"}
        <5> DEFINE b == IF call[c].result = "forbidden" THEN NoBook ELSE desk.book
        <5>1. desk' = [desk EXCEPT !.busy = FALSE, !.book = b]
          BY <2>1, <4>3 DEF TurnLands
        <5>2. b \in Books \cup {NoBook} /\ 0 \in Nat /\ NoCard \in Calls \cup {NoCard}
          BY <3>1
        <5> HIDE DEF b
        <5> QED
          BY <5>1, <5>2
      <4> QED
        BY <4>1, <4>2, <4>3
    <3> QED
      BY <1>1, <3>2 DEF Desk
  <2>2. CASE ApproveLands(c)
    BY <1>1, <2>2, DeskFields DEF ApproveLands
  <2>3. CASE OpenLands(c)
    <3>1. call[c].asked \in Books \cup {NoBook} /\ EmptySession(desk) \in Desk
      BY <1>1, DeskFields DEF Call
    <3>2. [EmptySession(desk) EXCEPT !.book = call[c].asked, !.shown = call[c].asked] \in Desk
      BY <3>1 DEF Desk
    <3> QED
      BY <1>1, <2>3, <3>2 DEF OpenLands
  <2>4. CASE ListLands(c)
    <3>1. call[c].found \in SUBSET Books
      BY <1>1 DEF Call
    <3> QED
      BY <1>1, <2>4, <3>1, DeskFields DEF ListLands
  <2>5. CASE DeleteLands(c, next)
    BY <1>1, <2>5, DeskFields DEF DeleteLands, AfterDelete
  <2> QED
    BY <2>1, <2>2, <2>3, <2>4, <2>5
<1> QED
  BY <1>2, <1>3, <1>4 DEF TypeInv, TypeOK, fileVars

LEMMA TypeStart == Init => TypeInv
<1> SUFFICES ASSUME Init PROVE TypeInv
  OBVIOUS
<1>1. NoCall \in Call /\ Sound(NoCall)
  BY NoCallIsSound DEF Sound
<1>2. call \in [Calls -> Call] /\ CallsAreSound
  BY <1>1 DEF Init, CallsAreSound
<1>3. desk \in Desk
  BY DEF Init, FreshDesk, Desk, NoCard
<1>4. owner \in [Books -> Staff \cup {Nobody}] /\ rows \subseteq Row
  BY DeskAssumption DEF Init
<1> QED
  BY <1>2, <1>3, <1>4 DEF Init, TypeInv, TypeOK

LEMMA TypeStep == TypeInv /\ [Next]_vars => TypeInv'
<1> SUFFICES ASSUME TypeInv, [Next]_vars PROVE TypeInv'
  OBVIOUS
<1>1. CASE UNCHANGED vars
  BY <1>1 DEF TypeInv, TypeOK, CallsAreSound, vars, deskVars, fileVars
<1>2. CASE Session
  BY <1>2, TypeSession
<1>3. ASSUME NEW c \in Calls, Click(c) PROVE TypeInv'
  <2>1. CASE Send(c)
    BY <2>1, TypeSend
  <2>2. CASE Approve(c)
    BY <2>2, TypeApprove
  <2>3. CASE LoadConversations(c) \/ DeleteAllConversations(c)
    <3>1. c \in Books
      BY DEF Books
    <3> QED
      BY <2>3, <3>1, TypeErrand
  <2>4. CASE \E b \in Books : OpenConversation(c, b) \/ DeleteConversation(c, b)
    BY <2>4, TypeErrand
  <2> QED
    BY <1>3, <2>1, <2>2, <2>3, <2>4 DEF Click
<1>4. ASSUME NEW c \in Calls, BackEnd(c) PROVE TypeInv'
  BY <1>4, TypeTurn, TypeBackEnd DEF BackEnd
<1>5. ASSUME NEW c \in Calls, Lands(c) PROVE TypeInv'
  BY <1>5, TypeLands DEF Lands
<1> QED
  BY <1>1, <1>2, <1>3, <1>4, <1>5 DEF Next

\* The store, the calls and the file are well typed, and a call carries what its
\* stage in useAssistantStore.ts and assistant_turn lets it carry.
THEOREM DeskTypes == Spec => []TypeInv
  BY TypeStart, TypeStep, PTL DEF Spec

-----------------------------------------------------------------------------
(* Sessions, busy and cards.  Every step is, to them, of one of six shapes:  *)
(* nothing keyed moves, a new session, other persons, a call begins, works  *)
(* or lands.                                                                *)

\* No turn or approval comes, goes or moves on.
KeyedKept ==
  \A d \in Calls : IF Keyed(d) THEN call'[d] = call[d]
                   ELSE call'[d].kind \notin {"turn", "approve"}

LEMMA KeptFacts ==
  ASSUME KeyedKept
  PROVE  /\ \A d \in Calls : Keyed(d)' <=> Keyed(d)
         /\ \A d \in Calls : Out(d)' <=> Out(d)
         /\ \A d \in Calls : Keyed(d) => call'[d] = call[d]
         /\ \A d \in Calls : call'[d].kind = "turn" <=> call[d].kind = "turn"
         /\ \A d \in Calls : call'[d].kind = "approve" <=> call[d].kind = "approve"
  BY DEF KeyedKept, Keyed, Out

LEMMA KeptRetries ==
  ASSUME KeyedKept, ApprovalsAreRetries
  PROVE  ApprovalsAreRetries'
<1> SUFFICES ASSUME NEW a \in Calls, NEW b \in Calls,
                    Approval(a)', Approval(b)', a # b, call'[a].card = call'[b].card
             PROVE  OneIsRefused(a, b)'
  BY DEF ApprovalsAreRetries
<1>1. Approval(a) /\ Approval(b) /\ call'[a] = call[a] /\ call'[b] = call[b]
  BY KeptFacts DEF Approval, Keyed
<1> QED
  BY <1>1 DEF ApprovalsAreRetries, OneIsRefused

LEMMA KeptCards ==
  ASSUME KeyedKept, ApprovalsHaveCards, desk'.card \in {desk.card, NoCard}, NoCard \notin Calls
  PROVE  ApprovalsHaveCards'
<1> SUFFICES ASSUME NEW a \in Calls, Approval(a)'
             PROVE  Backed(a)'
  BY DEF ApprovalsHaveCards
<1>1. Approval(a) /\ call'[a] = call[a] /\ (Out(a)' <=> Out(a))
  BY KeptFacts DEF Approval, Keyed
<1>2. Backed(a)
  BY <1>1 DEF ApprovalsHaveCards
<1>3. call'[call[a].card] = call[call[a].card]
  BY <1>2, KeptFacts DEF Backed, IsCardOf, Keyed
<1> QED
  BY <1>1, <1>2, <1>3 DEF Backed, IsCardOf

LEMMA NoCardIsNone == NoCard \notin Calls
  BY DeskAssumption DEF NoCard, Calls

\* An errand, a dismissal: the session, its flag and its calls stay.
LEMMA CardsQuiet ==
  ASSUME TypeInv, CardInv, KeyedKept, desk'.key = desk.key, desk'.busy = desk.busy,
         desk'.card \in {desk.card, NoCard}, UNCHANGED <<screen, leaving>>
  PROVE  CardInv'
<1>1. SessionsArePersons'
  BY KeptFacts DEF CardInv, SessionsArePersons, SameSession, Leaving
<1>2. \A d \in Calls : (Out(d) /\ SameSession(d))' <=> (Out(d) /\ SameSession(d))
  BY KeptFacts DEF SameSession, Out, Keyed
<1>3. BusyIsOwned'
  BY <1>2 DEF CardInv, BusyIsOwned
<1>4. CardIsAtHand'
  <2> SUFFICES ASSUME desk'.card # NoCard
               PROVE  IsCardOf(desk.card, desk.key)'
    BY DEF CardIsAtHand
  <2>1. desk'.card = desk.card /\ IsCardOf(desk.card, desk.key)
    BY DEF CardInv, CardIsAtHand
  <2>2. desk.card \in Calls
    BY <2>1 DEF TypeInv, TypeOK, Desk
  <2>3. call'[desk.card] = call[desk.card]
    BY <2>1, <2>2, KeptFacts DEF IsCardOf, Keyed
  <2> QED
    BY <2>1, <2>3 DEF IsCardOf
<1> QED
  BY <1>1, <1>3, <1>4, KeptCards, KeptRetries, NoCardIsNone DEF CardInv

\* A new key: nothing that is out belongs to it, and there is no card.
LEMMA CardsNewSession ==
  ASSUME TypeInv, CardInv, KeyedKept, desk'.key = desk.key + 1, ~desk'.busy,
         desk'.card = NoCard
  PROVE  CardInv'
<1>1. desk.key \in Nat /\ \A d \in Calls : call[d].key \in Nat
  BY DEF TypeInv, TypeOK, CallsAreSound, Sound, Desk, Call
<1>2. \A d \in Calls : Keyed(d)' => call'[d].key < desk'.key /\ call'[d].who \in Staff
  BY <1>1, KeptFacts DEF CardInv, SessionsArePersons
<1>3. SessionsArePersons'
  BY <1>1, <1>2, KeptFacts DEF SessionsArePersons, SameSession
<1>4. \A d \in Calls : ~(Out(d) /\ SameSession(d))'
  BY <1>1, <1>2, KeptFacts DEF SameSession, Out, Keyed
<1>5. BusyIsOwned'
  BY <1>4 DEF BusyIsOwned
<1>6. CardIsAtHand'
  BY DEF CardIsAtHand
<1> QED
  BY <1>3, <1>5, <1>6, KeptCards, KeptRetries, NoCardIsNone DEF CardInv

\* Persons change only when no call but a late one belongs to the session.
LEMMA CardsPersons ==
  ASSUME TypeInv, CardInv, UNCHANGED <<call, desk>>, Leaving \/ screen = Nobody
  PROVE  CardInv'
<1>1. \A d \in Calls : Keyed(d) /\ SameSession(d) => call[d].late
  BY DeskAssumption DEF CardInv, SessionsArePersons
<1>2. SessionsArePersons'
  BY <1>1 DEF CardInv, SessionsArePersons, SameSession, Keyed
<1>3. BusyIsOwned' /\ CardIsAtHand' /\ ApprovalsHaveCards' /\ ApprovalsAreRetries'
  BY DEF CardInv, BusyIsOwned, CardIsAtHand, ApprovalsHaveCards, ApprovalsAreRetries,
         Out, SameSession, IsCardOf, Approval, Backed, OneIsRefused
<1> QED
  BY <1>2, <1>3 DEF CardInv

\* One call is put in another's place: what it shows of the rest.
LEMMA PutFacts ==
  ASSUME TypeInv, NEW c \in Calls, NEW r, Put(c, r)
  PROVE  /\ \A d \in Calls : call'[d] = IF d = c THEN r ELSE call[d]
         /\ \A d \in Calls \ {c} : /\ call'[d] = call[d] /\ (Keyed(d)' <=> Keyed(d))
                                   /\ (Out(d)' <=> Out(d)) /\ (Approval(d)' <=> Approval(d))
<1>1. call \in [Calls -> Call] /\ call' = [call EXCEPT ![c] = r]
  BY DEF TypeInv, TypeOK, Put
<1>2. \A d \in Calls : call'[d] = IF d = c THEN r ELSE call[d]
  BY <1>1
<1>3. \A d \in Calls \ {c} : call'[d] = call[d]
  BY <1>2
<1> QED
  BY <1>2, <1>3 DEF Keyed, Out, Approval

\* A turn or an approval is sent: the flag was down, so nothing of this session
\* is out, and every earlier approval of the card came back refused.
LEMMA CardsBegin ==
  ASSUME TypeInv, CardInv, NEW c \in Calls, NEW r, Fresh(c), Put(c, r), AtDesk, ~desk.busy,
         r.kind \in {"turn", "approve"}, r.stage = "sent", r.key = desk.key, r.who = screen,
         ~r.late => ~Leaving,
         r.kind = "approve" => r.card = desk.card /\ desk.card # NoCard,
         desk' = [desk EXCEPT !.busy = TRUE], UNCHANGED <<screen, leaving>>
  PROVE  CardInv'
<1>1. desk \in Desk /\ desk'.key = desk.key /\ desk'.card = desk.card /\ desk'.busy
  BY DEF TypeInv, TypeOK, Desk
<1>2. call'[c] = r /\ Out(c)' /\ Keyed(c)' /\ SameSession(c)'
  BY <1>1, PutFacts DEF Out, Keyed, SameSession
<1>3. ~Keyed(c) /\ ~Out(c) /\ ~Approval(c) /\ call[c].kind # "turn"
  BY DEF Fresh, TypeInv, CallsAreSound, Sound, Fits, NoCall, Keyed, Out, Approval
<1>4. screen \in Staff /\ desk.key \in Nat
  BY <1>1 DEF AtDesk, TypeInv, TypeOK, Desk
<1>5. \A d \in Calls \ {c} : (SameSession(d)' <=> SameSession(d))
  BY <1>1, PutFacts DEF SameSession
<1>6. \A d \in Calls : ~(Out(d) /\ SameSession(d))
  BY DEF CardInv, BusyIsOwned
<1>7. SessionsArePersons'
  BY <1>1, <1>2, <1>4, <1>5, PutFacts DEF CardInv, SessionsArePersons, AtDesk, Leaving
<1>8. BusyIsOwned'
  BY <1>1, <1>2, <1>5, <1>6, PutFacts DEF BusyIsOwned
<1>9. \A k \in Calls, key \in Nat : IsCardOf(k, key) => k # c /\ call'[k] = call[k]
  BY <1>3, PutFacts DEF IsCardOf
<1>10. CardIsAtHand'
  <2>1. CASE desk.card = NoCard
    BY <1>1, <2>1 DEF CardIsAtHand
  <2>2. CASE desk.card # NoCard
    <3>1. desk.card \in Calls /\ IsCardOf(desk.card, desk.key)
      BY <1>1, <2>2 DEF CardInv, CardIsAtHand, Desk
    <3> QED
      BY <1>1, <1>4, <1>9, <3>1 DEF CardIsAtHand, IsCardOf
  <2> QED
    BY <2>1, <2>2
<1>11. ASSUME NEW a \in Calls \ {c}, Approval(a)'
       PROVE  Backed(a)' /\ Approval(a) /\ (call[a].card = desk.card => call[a].result = "error")
  <2>1. Approval(a) /\ call'[a] = call[a] /\ (Out(a)' <=> Out(a))
    BY <1>11, PutFacts
  <2>2. Backed(a) /\ call[a].key \in Nat
    BY <2>1 DEF CardInv, ApprovalsHaveCards, TypeInv, CallsAreSound, Sound, Call
  <2>3. call'[call[a].card] = call[call[a].card]
    BY <1>9, <2>2 DEF Backed
  <2>4. call[a].card = desk.card => call[a].result = "error"
    <3>1. SUFFICES ASSUME call[a].card = desk.card PROVE ~Out(a)
      BY <2>2 DEF Backed
    <3>2. desk.card # NoCard
      BY <2>2, <3>1, NoCardIsNone DEF Backed
    <3>3. call[a].key = desk.key
      BY <2>2, <3>1, <3>2 DEF Backed, IsCardOf, CardInv, CardIsAtHand
    <3> QED
      BY <1>6, <3>3 DEF SameSession
  <2> QED
    BY <1>1, <2>1, <2>2, <2>3, <2>4 DEF Backed, IsCardOf
<1>12. Approval(c)' => Backed(c)'
  <2> SUFFICES ASSUME Approval(c)' PROVE Backed(c)'
    OBVIOUS
  <2>1. r.kind = "approve" /\ r.card = desk.card /\ desk.card # NoCard
    BY <1>2 DEF Approval
  <2>2. desk.card \in Calls /\ IsCardOf(desk.card, desk.key)
    BY <1>1, <2>1 DEF CardInv, CardIsAtHand, Desk
  <2>3. call'[desk.card] = call[desk.card]
    BY <1>4, <1>9, <2>2
  <2>4. call[desk.card].who = screen \/ call[desk.card].late
    BY <2>2 DEF CardInv, SessionsArePersons, IsCardOf, SameSession, Keyed
  <2> QED
    BY <1>2, <2>1, <2>2, <2>3, <2>4 DEF Backed, IsCardOf
<1>13. ApprovalsHaveCards'
  BY <1>11, <1>12 DEF ApprovalsHaveCards
<1>14. ApprovalsAreRetries'
  <2> SUFFICES ASSUME NEW a \in Calls, NEW b \in Calls,
                      Approval(a)', Approval(b)', a # b, call'[a].card = call'[b].card
               PROVE  OneIsRefused(a, b)'
    BY DEF ApprovalsAreRetries
  <2>1. CASE a # c /\ b # c
    BY <1>11, <2>1, PutFacts DEF CardInv, ApprovalsAreRetries, OneIsRefused
  <2>2. CASE a = c
    <3>1. call'[c].card = desk.card /\ call'[b] = call[b]
      BY <1>2, <2>2, PutFacts DEF Approval
    <3> QED
      BY <1>11, <2>2, <3>1 DEF OneIsRefused
  <2>3. CASE b = c
    <3>1. call'[c].card = desk.card /\ call'[a] = call[a]
      BY <1>2, <2>3, PutFacts DEF Approval
    <3> QED
      BY <1>11, <2>3, <3>1 DEF OneIsRefused
  <2> QED
    BY <2>1, <2>2, <2>3
<1> QED
  BY <1>7, <1>8, <1>10, <1>13, <1>14 DEF CardInv

\* A call that is out moves on, and is still out; an approval, from its sending.
LEMMA CardsWork ==
  ASSUME TypeInv, CardInv, NEW c \in Calls, NEW r, Put(c, r), Out(c),
         r.kind = call[c].kind, r.key = call[c].key, r.who = call[c].who,
         r.card = call[c].card, r.late = call[c].late, r.stage \notin {"unused", "landed"},
         r.kind = "approve" => call[c].stage = "sent",
         UNCHANGED <<screen, leaving, desk>>
  PROVE  CardInv'
<1>1. /\ call'[c] = r /\ Out(c)' /\ Keyed(c) /\ Keyed(c)'
      /\ Approval(c)' <=> Approval(c)
  BY PutFacts DEF Out, Keyed, Approval
<1>2. \A d \in Calls : /\ call'[d].kind = call[d].kind /\ call'[d].key = call[d].key
                       /\ call'[d].who = call[d].who /\ call'[d].card = call[d].card
                       /\ call'[d].late = call[d].late
                       /\ (Keyed(d)' <=> Keyed(d)) /\ (Out(d)' <=> Out(d))
                       /\ (Approval(d)' <=> Approval(d))
  BY <1>1, PutFacts
<1>3. \A d \in Calls : SameSession(d)' <=> SameSession(d)
  BY <1>2 DEF SameSession
<1>4. SessionsArePersons'
  BY <1>2, <1>3 DEF CardInv, SessionsArePersons, Leaving
<1>5. BusyIsOwned'
  BY <1>2, <1>3 DEF CardInv, BusyIsOwned
<1>6. \A k \in Calls, key \in Nat : IsCardOf(k, key) => k # c /\ IsCardOf(k, key)'
  BY PutFacts DEF IsCardOf, Out
<1>7. CardIsAtHand'
  <2>1. desk.card # NoCard => desk.card \in Calls /\ desk.key \in Nat
    BY DEF TypeInv, TypeOK, Desk
  <2> QED
    BY <1>6, <2>1 DEF CardInv, CardIsAtHand, IsCardOf
<1>8. ApprovalsHaveCards'
  <2> SUFFICES ASSUME NEW a \in Calls, Approval(a)'
               PROVE  Backed(a)'
    BY DEF ApprovalsHaveCards
  <2>1. Backed(a) /\ call[a].key \in Nat
    BY <1>2 DEF CardInv, ApprovalsHaveCards, TypeInv, CallsAreSound, Sound, Call
  <2>2. call[a].card # c /\ call'[call[a].card] = call[call[a].card]
    BY <1>6, <2>1, PutFacts DEF Backed
  <2>3. call[a].result = "error" => Out(a)' \/ call'[a].result = "error"
    BY <1>1, PutFacts
  <2> QED
    BY <1>2, <2>1, <2>2, <2>3 DEF Backed, IsCardOf
<1>9. ApprovalsAreRetries'
  <2> SUFFICES ASSUME NEW a \in Calls, NEW b \in Calls,
                      Approval(a)', Approval(b)', a # b, call'[a].card = call'[b].card
               PROVE  OneIsRefused(a, b)'
    BY DEF ApprovalsAreRetries
  <2>1. OneIsRefused(a, b)
    BY <1>2 DEF CardInv, ApprovalsAreRetries
  <2>2. Approval(c) => call[c].result # "error"
    BY <1>1 DEF Approval, TypeInv, CallsAreSound, Sound, Fits
  <2>3. \A d \in {a, b} : call[d].result = "error" => call'[d].result = "error"
    BY <1>2, <2>2, PutFacts
  <2> QED
    BY <2>1, <2>3 DEF OneIsRefused
<1> QED
  BY <1>4, <1>5, <1>7, <1>8, <1>9 DEF CardInv

\* It lands: in its own session it lowers the flag, in a later one it changes
\* nothing.
LEMMA CardsLand ==
  ASSUME TypeInv, CardInv, NEW c \in Calls, Put(c, Landed(c)), Out(c),
         \/ ~SameSession(c) /\ UNCHANGED desk
         \/ /\ SameSession(c) /\ desk'.key = desk.key /\ ~desk'.busy
            /\ \/ desk'.card \in {desk.card, NoCard}
               \/ desk'.card = c /\ call[c].kind = "turn"
            /\ Approval(c) => desk'.card = NoCard
                                \/ (call[c].result = "error" /\ desk'.card = desk.card),
         UNCHANGED <<screen, leaving>>
  PROVE  CardInv'
<1>1. /\ call'[c] = Landed(c) /\ call'[c].stage = "landed" /\ call'[c].result = call[c].result
      /\ call'[c].kind = call[c].kind /\ call'[c].key = call[c].key
      /\ call'[c].who = call[c].who /\ call'[c].card = call[c].card
      /\ call'[c].late = call[c].late
  <2>1. call[c] \in Call
    BY DEF TypeInv, CallsAreSound, Sound
  <2>2. call'[c] = Landed(c)
    BY PutFacts
  <2> QED
    BY <2>1, <2>2 DEF Landed, Call
<1>2. ~Out(c)' /\ Keyed(c) /\ Keyed(c)' /\ (Approval(c)' <=> Approval(c)) /\ desk'.key = desk.key
  BY <1>1 DEF Out, Keyed, Approval
<1>3. \A d \in Calls : /\ call'[d].kind = call[d].kind /\ call'[d].key = call[d].key
                       /\ call'[d].who = call[d].who /\ call'[d].card = call[d].card
                       /\ call'[d].late = call[d].late
                       /\ call'[d].result = call[d].result
                       /\ (Keyed(d)' <=> Keyed(d)) /\ (Approval(d)' <=> Approval(d))
  BY <1>1, <1>2, PutFacts
<1>4. \A d \in Calls : SameSession(d)' <=> SameSession(d)
  BY <1>2, <1>3 DEF SameSession
<1>5. \A d \in Calls \ {c} : Out(d)' <=> Out(d)
  BY PutFacts
<1>6. SessionsArePersons'
  BY <1>2, <1>3, <1>4 DEF CardInv, SessionsArePersons, Leaving
<1>7. BusyIsOwned'
  <2>1. CASE SameSession(c)
    <3>1. \A d \in Calls : ~(Out(d) /\ SameSession(d))'
      BY <1>2, <1>4, <1>5, <2>1 DEF CardInv, BusyIsOwned
    <3>2. ~desk'.busy
      BY <2>1
    <3> QED
      BY <3>1, <3>2 DEF BusyIsOwned
  <2>2. CASE ~SameSession(c)
    <3>1. desk' = desk /\ \A d \in Calls : (Out(d) /\ SameSession(d))' <=> (Out(d) /\ SameSession(d))
      BY <1>4, <1>5, <2>2
    <3> QED
      BY <3>1 DEF CardInv, BusyIsOwned
  <2> QED
    BY <2>1, <2>2
<1>8. \A k \in Calls, key \in Nat : IsCardOf(k, key) => k # c /\ IsCardOf(k, key)'
  BY PutFacts DEF IsCardOf, Out
<1>9. CardIsAtHand'
  <2>1. CASE desk'.card \in {desk.card, NoCard}
    <3>1. desk.card # NoCard => desk.card \in Calls /\ desk.key \in Nat
      BY DEF TypeInv, TypeOK, Desk
    <3> QED
      BY <1>2, <1>8, <2>1, <3>1 DEF CardInv, CardIsAtHand, IsCardOf
  <2>2. CASE desk'.card = c /\ call[c].kind = "turn" /\ SameSession(c)
    BY <1>1, <1>2, <2>2 DEF CardIsAtHand, IsCardOf, SameSession
  <2> QED
    BY <2>1, <2>2
<1>10. ApprovalsHaveCards'
  <2> SUFFICES ASSUME NEW a \in Calls, Approval(a)'
               PROVE  Backed(a)'
    BY DEF ApprovalsHaveCards
  <2>1. Backed(a) /\ call[a].key \in Nat
    BY <1>3 DEF CardInv, ApprovalsHaveCards, TypeInv, CallsAreSound, Sound, Call
  <2>2. call[a].card # c /\ call'[call[a].card] = call[call[a].card]
    BY <1>8, <2>1, PutFacts DEF Backed
  <2>3. desk'.card = call[a].card => Out(a)' \/ call[a].result = "error"
    <3> SUFFICES ASSUME desk'.card = call[a].card, call[a].result # "error"
                 PROVE  Out(a)'
      OBVIOUS
    <3>1. desk'.card # NoCard /\ desk'.card # c
      BY <2>1, <2>2, NoCardIsNone DEF Backed
    <3>2. desk.card = call[a].card /\ Out(a)
      BY <2>1, <3>1 DEF Backed
    <3>3. SameSession(a)
      BY <2>1, <3>1, <3>2 DEF CardInv, CardIsAtHand, Backed, IsCardOf, SameSession
    <3>4. a # c
      BY <1>3, <3>1, <3>3
    <3> QED
      BY <1>5, <3>2, <3>4
  <2> QED
    BY <1>3, <2>1, <2>2, <2>3 DEF Backed, IsCardOf
<1>11. ApprovalsAreRetries'
  BY <1>3 DEF CardInv, ApprovalsAreRetries, OneIsRefused
<1> QED
  BY <1>6, <1>7, <1>9, <1>10, <1>11 DEF CardInv

-----------------------------------------------------------------------------
(* The steps, by shape.                                                     *)

\* A call that has not been sent is none of the keyed ones.
LEMMA FreshIsUnkeyed ==
  ASSUME TypeInv, NEW c \in Calls, Fresh(c)
  PROVE  ~Keyed(c)
  BY DEF Fresh, TypeInv, CallsAreSound, Sound, Fits, NoCall, Keyed

\* An errand's step keeps every turn and approval.
LEMMA ErrandKeeps ==
  ASSUME TypeInv, NEW c \in Calls, NEW r, Put(c, r), ~Keyed(c),
         r.kind \notin {"turn", "approve"}
  PROVE  KeyedKept
<1>1. \A d \in Calls : call'[d] = IF d = c THEN r ELSE call[d]
  BY PutFacts
<1> QED
  BY <1>1 DEF KeyedKept, Keyed

LEMMA EmptyFields ==
  ASSUME NEW d \in Desk
  PROVE  /\ EmptySession(d).key = d.key + 1 /\ EmptySession(d).busy = d.busy
         /\ EmptySession(d).card = NoCard
  BY DEF Desk, EmptySession

LEMMA EnteringHolds ==
  /\ Init => EnteringInv
  /\ EnteringInv /\ [Next]_vars => EnteringInv'
<1>1. Init => EnteringInv
  BY DEF Init, EnteringInv
<1>2. SUFFICES ASSUME EnteringInv, [Next]_vars PROVE EnteringInv'
  BY <1>1
<1>3. CASE UNCHANGED <<screen, entering>>
  BY <1>2, <1>3 DEF EnteringInv
<1>4. CASE LogoutLands \/ LoginLands \/ (\E u \in Staff : LoginRuns(u))
  BY <1>2, <1>4 DEF EnteringInv, LogoutLands, LoginLands, LoginRuns
<1>5. CASE Session
  BY <1>3, <1>4, <1>5 DEF Session, Dismiss, StartNewChat, Logout, LogoutRuns
<1>6. ASSUME NEW c \in Calls, Click(c) \/ BackEnd(c) \/ Lands(c)
      PROVE  UNCHANGED <<screen, entering>>
  BY <1>6 DEF Click, Send, Approve, OpenConversation, LoadConversations, DeleteConversation,
              DeleteAllConversations, BackEnd, Turn, TurnStart, TurnCheck, TurnAsk, TurnClose,
              RunWrite, ReadConversation, ListConversations, RunDelete, Lands, TurnLands,
              ApproveLands, OpenLands, ListLands, DeleteLands, deskVars
<1> QED
  BY <1>2, <1>3, <1>5, <1>6 DEF Next, vars, deskVars

LEMMA CardsSession ==
  ASSUME TypeInv, EnteringInv, CardInv, Session
  PROVE  CardInv'
<1>1. desk \in Desk /\ UNCHANGED call
  BY TypeSession DEF TypeInv, TypeOK
<1>2. KeyedKept
  BY <1>1 DEF KeyedKept, Keyed
<1>3. CASE Dismiss
  <2>1. desk'.key = desk.key /\ desk'.busy = desk.busy /\ desk'.card = NoCard
    BY <1>1, <1>3 DEF Dismiss, Desk
  <2> QED
    BY <1>2, <1>3, <2>1, CardsQuiet DEF Dismiss
<1>4. CASE StartNewChat \/ Logout
  <2>1. desk'.key = desk.key + 1 /\ ~desk'.busy /\ desk'.card = NoCard
    <3>1. CASE StartNewChat
      BY <1>1, <3>1, EmptyFields DEF StartNewChat
    <3>2. CASE Logout
      BY <1>1, <3>2 DEF Logout, EmptySession, Desk
    <3> QED
      BY <1>4, <3>1, <3>2
  <2> QED
    BY <1>2, <2>1, CardsNewSession
<1>5. CASE LogoutRuns \/ LogoutLands
  <2>1. UNCHANGED <<call, desk>> /\ Leaving
    BY <1>5 DEF LogoutRuns, LogoutLands, Leaving
  <2> QED
    BY <2>1, CardsPersons
<1>6. CASE LoginLands \/ \E u \in Staff : LoginRuns(u)
  <2>1. UNCHANGED <<call, desk>> /\ screen = Nobody
    BY <1>6 DEF LoginRuns, LoginLands, EnteringInv
  <2> QED
    BY <2>1, CardsPersons
<1> QED
  BY <1>3, <1>4, <1>5, <1>6 DEF Session

LEMMA CardsClick ==
  ASSUME TypeInv, CardInv, NEW c \in Calls, Click(c)
  PROVE  CardInv'
<1>1. desk \in Desk
  BY DEF TypeInv, TypeOK
<1>2. CASE Send(c)
  <2> DEFINE r == [KeyedCall("turn") EXCEPT !.asked = desk.book]
  <2>1. /\ Fresh(c) /\ Put(c, r) /\ AtDesk /\ ~desk.busy
        /\ desk' = [desk EXCEPT !.busy = TRUE] /\ UNCHANGED <<screen, leaving>>
    BY <1>2 DEF Send, Issue, Put
  <2>2. r.kind = "turn" /\ r.stage = "sent" /\ r.key = desk.key /\ r.who = screen
        /\ r.late = Leaving
    BY DEF KeyedCall, SentCall, NoCall
  <2> HIDE DEF r
  <2> QED
    BY <2>1, <2>2, CardsBegin
<1>3. CASE Approve(c) /\ desk.cardKey = desk.key
  <2> DEFINE r == [KeyedCall("approve") EXCEPT !.card = desk.card]
  <2>1. /\ Fresh(c) /\ Put(c, r) /\ AtDesk /\ ~desk.busy /\ desk.card # NoCard
        /\ desk' = [desk EXCEPT !.busy = TRUE] /\ UNCHANGED <<screen, leaving>>
    BY <1>3 DEF Approve, Issue, Put
  <2>2. /\ r.kind = "approve" /\ r.stage = "sent" /\ r.key = desk.key /\ r.who = screen
        /\ r.card = desk.card /\ r.late = Leaving
    BY DEF KeyedCall, SentCall, NoCall
  <2> HIDE DEF r
  <2> QED
    BY <2>1, <2>2, CardsBegin
<1>4. CASE Approve(c) /\ desk.cardKey # desk.key
  <2>1. call' = call /\ desk' = [desk EXCEPT !.card = NoCard, !.cardKey = 0]
        /\ UNCHANGED <<screen, leaving>>
    BY <1>4 DEF Approve
  <2>2. desk'.key = desk.key /\ desk'.busy = desk.busy /\ desk'.card = NoCard
    BY <1>1, <2>1 DEF Desk
  <2>3. KeyedKept
    BY <2>1 DEF KeyedKept, Keyed
  <2> QED
    BY <2>1, <2>2, <2>3, CardsQuiet
<1>5. ASSUME NEW b \in Books,
             \/ OpenConversation(c, b) \/ LoadConversations(c)
             \/ DeleteConversation(c, b) \/ DeleteAllConversations(c)
      PROVE  CardInv'
  <2>1. PICK r : Issue(c, r) /\ r.kind \notin {"turn", "approve"}
    <3>1. PICK k \in {"open", "list", "delete", "delete_all"} :
            Issue(c, SentCall(k)) \/ Issue(c, [SentCall(k) EXCEPT !.asked = b])
      BY <1>5 DEF OpenConversation, LoadConversations, DeleteConversation,
                  DeleteAllConversations
    <3>2. SentCall(k).kind = k /\ [SentCall(k) EXCEPT !.asked = b].kind = k
      BY DEF SentCall, NoCall
    <3> QED
      BY <3>1, <3>2
  <2>2. Fresh(c) /\ Put(c, r)
    BY <2>1 DEF Issue, Put
  <2>3. KeyedKept
    BY <2>1, <2>2, FreshIsUnkeyed, ErrandKeeps
  <2>4. UNCHANGED <<desk, screen, leaving>>
    BY <1>5 DEF OpenConversation, LoadConversations, DeleteConversation,
                DeleteAllConversations, deskVars
  <2> QED
    BY <2>3, <2>4, CardsQuiet
<1>6. c \in Books
  BY DEF Books
<1> QED
  BY <1>2, <1>3, <1>4, <1>5, <1>6 DEF Click

\* The back end answers a call, or takes it a step further, as the same call.
GoesOn(r, s) ==
  /\ s.stage \notin {"unused", "landed"} /\ s.kind = r.kind /\ s.key = r.key
  /\ s.who = r.who /\ s.card = r.card /\ s.late = r.late

LEMMA GoingOn ==
  ASSUME NEW r \in Call
  PROVE  /\ \A u : GoesOn(r, [r EXCEPT !.stage = "started", !.by = u])
         /\ \A x : GoesOn(r, [r EXCEPT !.stage = "answered", !.result = x])
         /\ \A x, p : GoesOn(r, [[r EXCEPT !.stage = "answered", !.result = x] EXCEPT !.saved = p])
         /\ GoesOn(r, [r EXCEPT !.stage = "asking", !.logged = TRUE])
         /\ \A b : GoesOn(r, [r EXCEPT !.stage = "thinking", !.book = b])
         /\ \A b, p : GoesOn(r, [r EXCEPT !.stage = "thinking", !.book = b, !.persisted = p])
  BY DEF GoesOn, Call

LEMMA CardsBackEnd ==
  ASSUME TypeInv, CardInv, NEW c \in Calls, BackEnd(c)
  PROVE  CardInv'
<1>1. call[c] \in Call
  BY DEF TypeInv, CallsAreSound, Sound
<1>2. UNCHANGED <<screen, leaving, desk>>
  BY DEF BackEnd, Turn, TurnStart, TurnCheck, TurnAsk, TurnClose, RunWrite,
         ReadConversation, ListConversations, RunDelete, deskVars
<1>3. CASE Turn(c) \/ RunWrite(c)
  <2>1. Out(c) /\ (Approval(c) => call[c].stage = "sent")
    BY <1>3 DEF Turn, TurnStart, TurnCheck, TurnAsk, TurnClose, RunWrite, At, Out, Approval
  <2>2. PICK r : Put(c, r) /\ GoesOn(call[c], r)
    <3>1. CASE TurnStart(c)
      <4>1. \/ Put(c, Answered(c, "error"))
            \/ Put(c, [call[c] EXCEPT !.stage = "started", !.by = current])
        BY <3>1 DEF TurnStart
      <4> QED
        BY <1>1, <4>1, GoingOn DEF Answered
    <3>2. CASE TurnCheck(c)
      <4>1. \/ \E x \in {"error", "forbidden"} : Put(c, Answered(c, x))
            \/ Put(c, [call[c] EXCEPT !.stage = "asking", !.logged = TRUE])
            \/ Put(c, [call[c] EXCEPT !.stage = "thinking", !.book = call[c].asked])
        BY <3>2, Zenon DEF TurnCheck
      <4> QED
        BY <1>1, <4>1, GoingOn DEF Answered
    <3>3. CASE TurnAsk(c)
      <4>1. \E b \in {NoBook, c, call[c].asked}, p \in BOOLEAN :
              Put(c, [call[c] EXCEPT !.stage = "thinking", !.book = b, !.persisted = p])
        BY <3>3 DEF TurnAsk
      <4>2. PICK b \in {NoBook, c, call[c].asked}, p \in BOOLEAN :
              Put(c, [call[c] EXCEPT !.stage = "thinking", !.book = b, !.persisted = p])
        BY <4>1
      <4>3. GoesOn(call[c], [call[c] EXCEPT !.stage = "thinking", !.book = b, !.persisted = p])
        BY <1>1, GoingOn
      <4> QED
        BY <4>2, <4>3, Zenon
    <3>4. CASE TurnClose(c)
      <4>1. \E x \in Outcomes, p \in BOOLEAN :
              Put(c, [Answered(c, x) EXCEPT !.saved = call[c].persisted /\ p])
        BY <3>4, Zenon DEF TurnClose
      <4>2. PICK x \in Outcomes, p \in BOOLEAN :
              Put(c, [Answered(c, x) EXCEPT !.saved = call[c].persisted /\ p])
        BY <4>1
      <4>3. GoesOn(call[c], [Answered(c, x) EXCEPT !.saved = call[c].persisted /\ p])
        BY <1>1, GoingOn DEF Answered
      <4> QED
        BY <4>2, <4>3, Zenon
    <3>5. CASE RunWrite(c)
      <4>1. \E x \in {"ok", "error"} : Put(c, Answered(c, x))
        BY <3>5 DEF RunWrite
      <4> QED
        BY <1>1, <4>1, GoingOn DEF Answered
    <3> QED
      BY <1>3, <3>1, <3>2, <3>3, <3>4, <3>5 DEF Turn
  <2>3. r.kind = "approve" => call[c].stage = "sent"
    BY <2>1, <2>2 DEF Approval, GoesOn
  <2> QED
    BY <1>2, <2>1, <2>2, <2>3, CardsWork DEF GoesOn
<1>4. CASE ReadConversation(c) \/ ListConversations(c) \/ RunDelete(c)
  <2>1. ~Keyed(c)
    BY <1>4 DEF ReadConversation, ListConversations, RunDelete, At, Keyed
  <2>2. PICK r : Put(c, r) /\ r.kind \in {call[c].kind, "none"}
    <3>1. \/ Put(c, Answered(c, "ok")) \/ Put(c, Spent)
          \/ Put(c, [Answered(c, "ok") EXCEPT !.found = {b \in Books : MayRead(current, b)}])
      BY <1>4 DEF ReadConversation, ListConversations, RunDelete
    <3>2. /\ Answered(c, "ok").kind = call[c].kind /\ Spent.kind = "none"
          /\ \A L : [Answered(c, "ok") EXCEPT !.found = L].kind = call[c].kind
      BY <1>1 DEF Answered, Spent, NoCall, Call
    <3> QED
      BY <3>1, <3>2
  <2>3. KeyedKept
    BY <2>1, <2>2, ErrandKeeps DEF Keyed
  <2> QED
    BY <1>2, <2>3, CardsQuiet
<1> QED
  BY <1>3, <1>4 DEF BackEnd

LEMMA CardsLands ==
  ASSUME TypeInv, CardInv, NEW c \in Calls, Lands(c)
  PROVE  CardInv'
<1>1. desk \in Desk /\ call \in [Calls -> Call]
  BY DEF TypeInv, TypeOK
<1>2. UNCHANGED <<screen, leaving>>
  BY DEF Lands, TurnLands, ApproveLands, OpenLands, ListLands, DeleteLands
<1>3. CASE TurnLands(c)
  <2>1. Put(c, Landed(c)) /\ Out(c) /\ call[c].kind = "turn" /\ ~Approval(c)
    BY <1>3 DEF TurnLands, At, Out, Approval
  <2>2. CASE ~SameSession(c)
    BY <1>2, <1>3, <2>1, <2>2, CardsLand DEF TurnLands
  <2>3. CASE SameSession(c)
    <3>1. desk'.key = desk.key /\ ~desk'.busy /\ desk'.card \in {desk.card, NoCard, c}
      BY <1>1, <1>3, <2>3 DEF TurnLands, Desk
    <3> QED
      BY <1>2, <2>1, <2>3, <3>1, CardsLand
  <2> QED
    BY <2>2, <2>3
<1>4. CASE ApproveLands(c)
  <2>1. Put(c, Landed(c)) /\ Out(c) /\ Approval(c) /\ call[c].stage = "answered"
    BY <1>4 DEF ApproveLands, At, Out, Approval
  <2>2. call[c].result \in {"ok", "error"}
    BY <2>1 DEF Approval, TypeInv, CallsAreSound, Sound, Fits
  <2>3. CASE ~SameSession(c)
    BY <1>2, <1>4, <2>1, <2>3, CardsLand DEF ApproveLands
  <2>4. CASE SameSession(c)
    <3>1. /\ desk'.key = desk.key /\ ~desk'.busy
          /\ IF call[c].result = "ok" THEN desk'.card = NoCard ELSE desk'.card = desk.card
      BY <1>1, <1>4, <2>4 DEF ApproveLands, Desk
    <3> QED
      BY <1>2, <2>1, <2>2, <2>4, <3>1, CardsLand
  <2> QED
    BY <2>3, <2>4
<1>5. CASE OpenLands(c) \/ ListLands(c)
  <2>1. ~Keyed(c) /\ Put(c, Spent) /\ Spent.kind = "none"
    BY <1>5 DEF OpenLands, ListLands, At, Keyed, Spent, NoCall
  <2>2. KeyedKept
    BY <2>1, ErrandKeeps
  <2>3. CASE OpenLands(c) /\ ~desk.busy
    <3>1. EmptySession(desk) \in Desk
      BY <1>1, DeskFields
    <3>2. desk'.key = desk.key + 1 /\ ~desk'.busy /\ desk'.card = NoCard
      BY <1>1, <2>3, <3>1, EmptyFields DEF OpenLands, Desk
    <3> QED
      BY <2>2, <3>2, CardsNewSession
  <2>4. CASE ListLands(c) \/ desk.busy
    <3>1. desk'.key = desk.key /\ desk'.busy = desk.busy /\ desk'.card = desk.card
      BY <1>1, <1>5, <2>4 DEF OpenLands, ListLands, Desk
    <3> QED
      BY <1>2, <2>2, <3>1, CardsQuiet
  <2> QED
    BY <1>5, <2>3, <2>4
<1>6. ASSUME NEW next \in Calls, DeleteLands(c, next) PROVE CardInv'
  <2>1. ~Keyed(c) /\ ~Keyed(next)
    BY <1>6, FreshIsUnkeyed DEF DeleteLands, At, Keyed
  <2>2. /\ call' = [call EXCEPT ![c] = Spent, ![next] = SentCall("list")]
        /\ Spent.kind = "none" /\ SentCall("list").kind = "list"
    BY <1>6 DEF DeleteLands, Spent, SentCall, NoCall
  <2>3. KeyedKept
    <3>1. \A d \in Calls : call'[d] = IF d = next THEN SentCall("list")
                                      ELSE IF d = c THEN Spent ELSE call[d]
      BY <1>1, <2>2
    <3> QED
      BY <2>1, <2>2, <3>1 DEF KeyedKept, Keyed
  <2>4. CASE desk' = EmptySession(desk) /\ ~desk.busy
    BY <1>1, <2>3, <2>4, EmptyFields, CardsNewSession
  <2>5. CASE desk' = desk \/ desk' = [desk EXCEPT !.book = NoBook]
    <3>1. desk'.key = desk.key /\ desk'.busy = desk.busy /\ desk'.card = desk.card
      BY <1>1, <2>5 DEF Desk
    <3> QED
      BY <1>2, <2>3, <3>1, CardsQuiet
  <2> QED
    BY <1>6, <2>4, <2>5 DEF DeleteLands, AfterDelete
<1> QED
  BY <1>3, <1>4, <1>5, <1>6 DEF Lands

LEMMA CardsStart == Init => CardInv
<1> SUFFICES ASSUME Init PROVE CardInv
  OBVIOUS
<1>1. desk.card = NoCard /\ ~desk.busy /\ \A c \in Calls : call[c] = NoCall
  BY DEF Init, FreshDesk
<1>2. \A c \in Calls : ~Keyed(c) /\ ~Out(c) /\ ~Approval(c)
  BY <1>1 DEF NoCall, Keyed, Out, Approval
<1> QED
  BY <1>1, <1>2 DEF CardInv, SessionsArePersons, BusyIsOwned, CardIsAtHand,
                    ApprovalsHaveCards, ApprovalsAreRetries

LEMMA CardsStep == TypeInv /\ EnteringInv /\ CardInv /\ [Next]_vars => CardInv'
<1> SUFFICES ASSUME TypeInv, EnteringInv, CardInv, [Next]_vars PROVE CardInv'
  OBVIOUS
<1>1. CASE UNCHANGED vars
  <2>1. UNCHANGED <<call, desk, screen, leaving>>
    BY <1>1 DEF vars, deskVars
  <2>2. KeyedKept
    BY <2>1 DEF KeyedKept, Keyed
  <2> QED
    BY <2>1, <2>2, CardsQuiet
<1>2. CASE Next
  BY <1>2, CardsSession, CardsClick, CardsBackEnd, CardsLands DEF Next
<1> QED
  BY <1>1, <1>2

\* useAssistantStore.ts: the busy flag is up exactly while a turn or an approval
\* of the session at hand is out, and there is at most one.
THEOREM FlagIsOwned == Spec => []BusyIsOwned
<1>1. CardInv => BusyIsOwned
  BY DEF CardInv
<1> QED
  BY <1>1, TypeStart, TypeStep, EnteringHolds, CardsStart, CardsStep, PTL DEF Spec

\* useAssistantStore.ts: a card is approved by the person it was made for, unless
\* that person asked for it while logging out, and of its approvals at most one
\* does not come back refused.
THEOREM CardsAreMoney == Spec => []CardsAreApprovedOnce
<1>1. CardInv => CardsAreApprovedOnce
  BY DEF CardInv, ApprovalsHaveCards, ApprovalsAreRetries, Approval, Backed, OneIsRefused,
         CardsAreApprovedOnce
<1> QED
  BY <1>1, TypeStart, TypeStep, EnteringHolds, CardsStart, CardsStep, PTL DEF Spec

-----------------------------------------------------------------------------
(* Conversations, questions and answers on file.                            *)

\* What a step leaves alone of a call it does not touch: its row stays, and so
\* do the conversations it speaks of and its questions and answers, unless they
\* are deleted together.
LeavesAlone(d) ==
  /\ call'[d] = call[d]
  /\ \A b \in {call[d].asked, call[d].book} : owner'[b] = owner[b] \/ ~Exists(b)'
  /\ \A kind \in {"question", "answer"} :
       /\ OnFile(d, kind)' => OnFile(d, kind)
       /\ OnFile(d, kind) => OnFile(d, kind)' \/ ~Exists(call[d].book)'

KnownGrows == \A b \in Books \cup {NoBook} : Known(b) => Known(b)'

LEMMA CallTypes ==
  ASSUME TypeInv, NEW c \in Calls
  PROVE  /\ call[c] \in Call /\ Fits(call[c]) /\ call[c].asked \in Books \cup {NoBook}
         /\ call[c].book \in Books \cup {NoBook} /\ call[c].found \subseteq Books
         /\ call[c].logged \in BOOLEAN /\ call[c].saved \in BOOLEAN
         /\ call[c].persisted \in BOOLEAN
  BY DEF TypeInv, CallsAreSound, Sound, Call

LEMMA AloneIsFiled ==
  ASSUME TypeInv, NEW d \in Calls, CallIsFiled(d), LeavesAlone(d), KnownGrows
  PROVE  CallIsFiled(d)'
<1>1. call'[d] = call[d]
  BY DEF LeavesAlone
<1>2. Refers(d)'
  BY <1>1, CallTypes DEF CallIsFiled, Refers, KnownOrNone, KnownGrows
<1>3. ASSUME call[d].kind = "turn"
      PROVE  TurnIsFiled(d)'
  <2>1. TurnIsFiled(d)
    BY <1>3 DEF CallIsFiled
  <2>2. /\ Exists(call[d].asked)' => owner'[call[d].asked] = owner[call[d].asked] /\ Exists(call[d].asked)
        /\ Exists(call[d].book)' => owner'[call[d].book] = owner[call[d].book] /\ Exists(call[d].book)
    BY DEF LeavesAlone, Exists
  <2>3. MayAsk(d)' /\ MayWrite(d)'
    BY <1>1, <2>1, <2>2 DEF TurnIsFiled, MayAsk, MayWrite, MayRead
  <2>4. /\ OnFile(d, "question")' => OnFile(d, "question")
        /\ OnFile(d, "answer")' => OnFile(d, "answer")
        /\ OnFile(d, "question") => OnFile(d, "question")' \/ ~Exists(call[d].book)'
        /\ OnFile(d, "answer") => OnFile(d, "answer")' \/ ~Exists(call[d].book)'
    BY DEF LeavesAlone
  <2>5. QuestionMarked(d)'
    BY <1>1, <2>1, <2>2, <2>4 DEF TurnIsFiled, QuestionMarked
  <2>6. SavedIsKept(d)'
    BY <1>1, <2>1, <2>2, <2>4 DEF TurnIsFiled, SavedIsKept
  <2> QED
    BY <2>3, <2>5, <2>6 DEF TurnIsFiled
<1> QED
  BY <1>1, <1>2, <1>3 DEF CallIsFiled

\* Every step touches the calls of a set C and leaves the others alone.
LEMMA FileStep ==
  ASSUME TypeInv, FileInv, KnownGrows, NEW C,
         \A d \in Calls \ C : LeavesAlone(d),
         \A d \in Calls \cap C : CallIsFiled(d)',
         \A b \in Books : Exists(b)' => Known(b)',
         DeskIsKnown',
         \A w \in rows' : RowIsOfTurn(w)'
  PROVE  FileInv'
  BY AloneIsFiled DEF FileInv

\* The turn on file behind a row is no other than the row's.
LEMMA RowTypes ==
  ASSUME TypeInv, NEW w \in rows
  PROVE  w \in Row /\ w.call \in Calls /\ w.book \in Books /\ w = RowOf(w.book, w.call, w.kind)
  BY DEF TypeInv, TypeOK, Row, RowOf

LEMMA RowFields ==
  ASSUME NEW b, NEW c, NEW kind
  PROVE  RowOf(b, c, kind).book = b /\ RowOf(b, c, kind).call = c /\ RowOf(b, c, kind).kind = kind
  BY DEF RowOf

\* The file as a step without a question or an answer leaves it: as it was, or
\* short of some conversations and all that is in them.
FileLoses == UNCHANGED fileVars \/ \E B \in SUBSET (Books \cup {NoBook}) : Remove(B)

LEMMA LossFacts ==
  ASSUME TypeInv, FileInv, FileLoses
  PROVE  /\ \A b \in Books \cup {NoBook} : owner'[b] = owner[b] \/ ~Exists(b)'
         /\ rows' \subseteq rows
         /\ \A w \in rows : w \in rows' <=> Exists(w.book)'
<1>1. /\ owner \in [Books -> Staff \cup {Nobody}] /\ NoBook \notin Books
      /\ \A w \in rows : w.book \in Books /\ Exists(w.book)
  BY RowTypes, DeskAssumption DEF TypeInv, TypeOK, FileInv, RowIsOfTurn
<1>2. CASE UNCHANGED fileVars
  BY <1>1, <1>2 DEF fileVars, Exists
<1>3. ASSUME NEW B \in SUBSET (Books \cup {NoBook}), Remove(B)
      PROVE  /\ \A b \in Books \cup {NoBook} : owner'[b] = owner[b] \/ ~Exists(b)'
             /\ rows' \subseteq rows
             /\ \A w \in rows : w \in rows' <=> Exists(w.book)'
  <2>1. /\ \A b \in Books : owner'[b] = IF b \in B THEN Nobody ELSE owner[b]
        /\ rows' = {w \in rows : w.book \notin B}
    BY <1>3 DEF Remove
  <2> QED
    BY <1>1, <2>1 DEF Exists
<1> QED
  BY <1>2, <1>3 DEF FileLoses

\* What the touched calls of such a step show of the others, and of the rows.
LEMMA LossIsFiled ==
  ASSUME TypeInv, FileInv, FileLoses, KnownGrows, NEW C,
         \A d \in Calls \ C : call'[d] = call[d],
         \A d \in Calls \cap C : CallIsFiled(d)',
         DeskIsKnown',
         \A w \in rows : RowIsOfTurn(w) /\ Exists(w.book)' /\ w.call \in C => RowIsOfTurn(w)'
  PROVE  FileInv'
<1>1. ASSUME NEW d \in Calls \ C PROVE LeavesAlone(d)
  <2>1. \A b \in {call[d].asked, call[d].book} : owner'[b] = owner[b] \/ ~Exists(b)'
    BY CallTypes, LossFacts
  <2>2. ASSUME NEW kind \in {"question", "answer"}
        PROVE  /\ OnFile(d, kind)' => OnFile(d, kind)
               /\ OnFile(d, kind) => OnFile(d, kind)' \/ ~Exists(call[d].book)'
    BY LossFacts, RowFields DEF OnFile
  <2> QED
    BY <1>1, <2>1, <2>2 DEF LeavesAlone
<1>2. \A b \in Books : Exists(b)' => Known(b)'
  <2> SUFFICES ASSUME NEW b \in Books, Exists(b)' PROVE Known(b)'
    OBVIOUS
  <2>1. Exists(b)
    BY LossFacts DEF Exists
  <2> QED
    BY <2>1 DEF FileInv, KnownGrows
<1>3. ASSUME NEW w \in rows' PROVE RowIsOfTurn(w)'
  <2>1. w \in rows /\ Exists(w.book)' /\ RowIsOfTurn(w) /\ w.call \in Calls
    BY LossFacts, RowTypes DEF FileInv
  <2>2. CASE w.call \in C
    BY <2>1, <2>2
  <2>3. CASE w.call \notin C
    BY <2>1, <2>3 DEF RowIsOfTurn
  <2> QED
    BY <2>2, <2>3
<1> QED
  BY <1>1, <1>2, <1>3, FileStep

LEMMA OneIsFiled ==
  ASSUME TypeInv, FileInv, FileLoses, KnownGrows, NEW c \in Calls,
         \A d \in Calls \ {c} : call'[d] = call[d],
         CallIsFiled(c)', DeskIsKnown',
         \A w \in rows : RowIsOfTurn(w) /\ Exists(w.book)' /\ w.call = c => RowIsOfTurn(w)'
  PROVE  FileInv'
<1>1. \A d \in Calls \cap {c} : CallIsFiled(d)'
  OBVIOUS
<1>2. \A w \in rows : RowIsOfTurn(w) /\ Exists(w.book)' /\ w.call \in {c} => RowIsOfTurn(w)'
  OBVIOUS
<1> DEFINE C == {c}
<1>3. /\ \A d \in Calls \ C : call'[d] = call[d]
      /\ \A d \in Calls \cap C : CallIsFiled(d)'
      /\ \A w \in rows : RowIsOfTurn(w) /\ Exists(w.book)' /\ w.call \in C => RowIsOfTurn(w)'
  BY <1>1, <1>2
<1> HIDE DEF C
<1> QED
  BY <1>3, LossIsFiled

LEMMA NoneIsFiled ==
  ASSUME TypeInv, FileInv, FileLoses, KnownGrows, call' = call, DeskIsKnown'
  PROVE  FileInv'
<1> DEFINE C == {}
<1>1. /\ \A d \in Calls \ C : call'[d] = call[d]
      /\ \A d \in Calls \cap C : CallIsFiled(d)'
      /\ \A w \in rows : RowIsOfTurn(w) /\ Exists(w.book)' /\ w.call \in C => RowIsOfTurn(w)'
  OBVIOUS
<1> HIDE DEF C
<1> QED
  BY <1>1, LossIsFiled

LEMMA KnownStays ==
  ASSUME TypeInv, NEW c \in Calls, NEW r, Put(c, r),
         call[c].kind = "turn" /\ call[c].stage \in Past => r.kind = "turn" /\ r.stage \in Past
  PROVE  KnownGrows
<1>1. \A d \in Calls : call'[d] = IF d = c THEN r ELSE call[d]
  BY PutFacts
<1> QED
  BY <1>1 DEF KnownGrows, Known

\* A call that is no turn is sent, answered or spent.
LEMMA FileErrand ==
  ASSUME TypeInv, FileInv, FileLoses, NEW c \in Calls, NEW r, Put(c, r),
         call[c].kind # "turn", r.kind # "turn",
         KnownOrNone(r.asked), KnownOrNone(r.book), \A b \in r.found : Known(b),
         r \in Call, DeskIsKnown'
  PROVE  FileInv'
<1>1. KnownGrows
  BY KnownStays
<1>2. call'[c] = r /\ \A d \in Calls \ {c} : call'[d] = call[d]
  BY PutFacts
<1>3. r.asked \in Books \cup {NoBook} /\ r.book \in Books \cup {NoBook} /\ r.found \subseteq Books
  BY DEF Call
<1>4. CallIsFiled(c)'
  BY <1>1, <1>2, <1>3 DEF CallIsFiled, Refers, KnownOrNone, KnownGrows
<1>5. \A w \in rows : RowIsOfTurn(w) => w.call # c
  BY DEF RowIsOfTurn
<1> QED
  BY <1>1, <1>2, <1>4, <1>5, OneIsFiled

LEMMA DeskStaysKnown ==
  ASSUME TypeInv, FileInv, KnownGrows, UNCHANGED desk
  PROVE  DeskIsKnown'
<1>1. desk.book \in Books \cup {NoBook} /\ desk.listed \subseteq Books
  BY DEF TypeInv, TypeOK, Desk
<1> QED
  BY <1>1 DEF FileInv, DeskIsKnown, KnownOrNone, KnownGrows

LEMMA FileSession ==
  ASSUME TypeInv, FileInv, Session
  PROVE  FileInv'
<1>1. desk \in Desk /\ UNCHANGED call /\ FileLoses
  BY TypeSession DEF TypeInv, TypeOK, FileLoses
<1>2. KnownGrows
  BY <1>1 DEF KnownGrows, Known
<1>3. desk'.book \in {desk.book, NoBook} /\ desk'.listed \in {desk.listed, {}}
  BY <1>1 DEF Session, Dismiss, StartNewChat, Logout, LogoutRuns, LogoutLands,
              LoginRuns, LoginLands, EmptySession, Desk
<1>4. DeskIsKnown'
  BY <1>1, <1>2, <1>3 DEF FileInv, DeskIsKnown, KnownOrNone, KnownGrows, Desk
<1> QED
  BY <1>1, <1>2, <1>4, NoneIsFiled

LEMMA FileClick ==
  ASSUME TypeInv, FileInv, NEW c \in Calls, Click(c)
  PROVE  FileInv'
<1>1. desk \in Desk /\ DeskIsKnown /\ FileLoses
  <2>1. UNCHANGED fileVars
    BY DEF Click, Send, Approve, OpenConversation, LoadConversations, DeleteConversation,
           DeleteAllConversations
  <2> QED
    BY <2>1 DEF TypeInv, TypeOK, FileInv, FileLoses
<1>2. CASE Send(c)
  <2> DEFINE r == [KeyedCall("turn") EXCEPT !.asked = desk.book]
  <2>1. Fresh(c) /\ Put(c, r) /\ desk' = [desk EXCEPT !.busy = TRUE]
    BY <1>2 DEF Send, Issue, Put
  <2>2. /\ r.stage = "sent" /\ r.kind = "turn" /\ r.asked = desk.book /\ r.book = NoBook
        /\ r.found = {} /\ call[c].kind # "turn"
    BY <2>1, FreshIsUnkeyed DEF KeyedCall, SentCall, NoCall, Keyed
  <2> HIDE DEF r
  <2>3. KnownGrows
    BY <2>1, <2>2, KnownStays
  <2>4. desk'.book = desk.book /\ desk'.listed = desk.listed
        /\ desk.book \in Books \cup {NoBook} /\ desk.listed \subseteq Books
    BY <1>1, <2>1 DEF Desk
  <2>5. DeskIsKnown'
    BY <1>1, <2>3, <2>4 DEF DeskIsKnown, KnownOrNone, KnownGrows
  <2>6. call'[c] = r /\ \A d \in Calls \ {c} : call'[d] = call[d]
    BY <2>1, PutFacts
  <2>7. CallIsFiled(c)'
    <3>1. Refers(c)'
      BY <1>1, <2>2, <2>3, <2>4, <2>6 DEF Refers, DeskIsKnown, KnownOrNone, KnownGrows
    <3>2. TurnIsFiled(c)'
      BY <2>2, <2>6 DEF TurnIsFiled, MayAsk, MayWrite, QuestionMarked, SavedIsKept, Past
    <3> QED
      BY <3>1, <3>2 DEF CallIsFiled
  <2>8. \A w \in rows : RowIsOfTurn(w) => w.call # c
    BY <2>2 DEF RowIsOfTurn
  <2> QED
    BY <1>1, <2>3, <2>5, <2>6, <2>7, <2>8, OneIsFiled
<1>3. ASSUME NEW r, Fresh(c), Put(c, r), Sound(r), r.kind # "turn",
             r.asked \in desk.listed \cup {NoBook}, r.book = NoBook, r.found = {},
             desk'.book = desk.book, desk'.listed = desk.listed
      PROVE  FileInv'
  <2>1. call[c].kind # "turn"
    BY <1>3, FreshIsUnkeyed DEF Keyed
  <2>2. KnownGrows
    BY <1>3, <2>1, KnownStays
  <2>3. DeskIsKnown'
    BY <1>1, <1>3, <2>2 DEF DeskIsKnown, KnownOrNone, KnownGrows, Desk
  <2>4. KnownOrNone(r.asked) /\ KnownOrNone(r.book)
    BY <1>1, <1>3 DEF DeskIsKnown, KnownOrNone
  <2> QED
    BY <1>1, <1>3, <2>1, <2>3, <2>4, FileErrand DEF Sound
<1>4. CASE Approve(c) /\ desk.cardKey = desk.key
  <2> DEFINE r == [KeyedCall("approve") EXCEPT !.card = desk.card]
  <2>1. Fresh(c) /\ Put(c, r) /\ desk' = [desk EXCEPT !.busy = TRUE] /\ desk.card # NoCard
    BY <1>4 DEF Approve, Issue, Put
  <2>2. r.kind = "approve" /\ r.asked = NoBook /\ r.book = NoBook /\ r.found = {}
    BY DEF KeyedCall, SentCall, NoCall
  <2>3. Sound(r)
    BY <1>1, <2>1, KeyedIsSound DEF TypeInv, Desk
  <2> HIDE DEF r
  <2>4. desk'.book = desk.book /\ desk'.listed = desk.listed
    BY <1>1, <2>1 DEF Desk
  <2> QED
    BY <1>3, <2>1, <2>2, <2>3, <2>4
<1>5. CASE Approve(c) /\ desk.cardKey # desk.key
  <2>1. call' = call /\ desk' = [desk EXCEPT !.card = NoCard, !.cardKey = 0]
    BY <1>5 DEF Approve
  <2>2. desk'.book = desk.book /\ desk'.listed = desk.listed /\ KnownGrows
    BY <1>1, <2>1 DEF Desk, KnownGrows, Known
  <2>3. DeskIsKnown'
    BY <1>1, <2>1, <2>2 DEF DeskIsKnown, KnownOrNone, Known
  <2> QED
    BY <1>1, <2>1, <2>2, <2>3, NoneIsFiled
<1>6. ASSUME NEW b \in Books,
             \/ OpenConversation(c, b) \/ LoadConversations(c)
             \/ DeleteConversation(c, b) \/ DeleteAllConversations(c)
      PROVE  FileInv'
  <2>1. PICK r : /\ Issue(c, r) /\ Sound(r) /\ r.kind # "turn" /\ r.book = NoBook /\ r.found = {}
                 /\ r.asked \in desk.listed \cup {NoBook}
    <3>1. PICK k \in {"open", "list", "delete", "delete_all"} :
            \/ Issue(c, SentCall(k))
            \/ b \in desk.listed /\ Issue(c, [SentCall(k) EXCEPT !.asked = b])
      BY <1>6 DEF OpenConversation, LoadConversations, DeleteConversation,
                  DeleteAllConversations
    <3>2. /\ SentCall(k).kind = k /\ [SentCall(k) EXCEPT !.asked = b].kind = k
          /\ SentCall(k).asked = NoBook /\ [SentCall(k) EXCEPT !.asked = b].asked = b
          /\ SentCall(k).book = NoBook /\ [SentCall(k) EXCEPT !.asked = b].book = NoBook
          /\ SentCall(k).found = {} /\ [SentCall(k) EXCEPT !.asked = b].found = {}
      BY DEF SentCall, NoCall
    <3>3. Sound(SentCall(k)) /\ Sound([SentCall(k) EXCEPT !.asked = b])
      BY SentIsSound DEF Kinds
    <3> QED
      BY <3>1, <3>2, <3>3
  <2>2. Fresh(c) /\ Put(c, r)
    BY <2>1 DEF Issue, Put
  <2>3. desk' = desk
    BY <1>6 DEF OpenConversation, LoadConversations, DeleteConversation,
                DeleteAllConversations, deskVars
  <2> QED
    BY <1>3, <2>1, <2>2, <2>3
<1>7. c \in Books
  BY DEF Books
<1> QED
  BY <1>2, <1>4, <1>5, <1>6, <1>7 DEF Click

\* A turn that is not yet on file has no row.
LEMMA EarlyHasNoRow ==
  ASSUME TypeInv, FileInv, NEW c \in Calls, call[c].stage \notin Past
  PROVE  \A w \in rows : w.call # c
  BY DEF FileInv, RowIsOfTurn

\* A turn moves on, or is refused, before its question goes on file.
LEMMA FileBefore ==
  ASSUME TypeInv, FileInv, NEW c \in Calls, NEW r, Put(c, r), call[c].kind = "turn",
         call[c].stage \in Early, UNCHANGED <<deskVars, fileVars>>, r \in Call,
         r.kind = "turn", r.asked = call[c].asked, r.found = call[c].found,
         r.book \in {NoBook, call[c].asked}, ~r.saved, ~r.persisted,
         r.stage = "asking" /\ Exists(r.asked) => MayRead(r.by, r.asked),
         r.stage \in Past /\ r.logged => r.book = NoBook
  PROVE  FileInv'
<1>1. call'[c] = r /\ \A d \in Calls \ {c} : call'[d] = call[d]
  BY PutFacts
<1>2. KnownGrows
  BY KnownStays DEF Early, Past
<1>3. DeskIsKnown'
  BY <1>2, DeskStaysKnown DEF deskVars
<1>4. \A w \in rows : w.call # c
  BY EarlyHasNoRow DEF Early, Past
<1>5. /\ \A b \in Books \cup {NoBook} : (Exists(b)' <=> Exists(b))
      /\ \A u, b : MayRead(u, b)' <=> MayRead(u, b)
      /\ \A kind : ~OnFile(c, kind)'
  BY <1>4, RowFields DEF Exists, MayRead, OnFile, fileVars
<1>6. Refers(c)'
  BY <1>1, <1>2, CallTypes DEF FileInv, CallIsFiled, Refers, KnownOrNone, KnownGrows
<1>7. TurnIsFiled(c)'
  <2>1. r.asked \in Books \cup {NoBook} /\ r.book \in Books \cup {NoBook} /\ ~Exists(NoBook)
    BY DeskAssumption DEF Call, Exists
  <2>2. MayAsk(c)'
    BY <1>1, <1>5, <2>1 DEF MayAsk
  <2>3. MayWrite(c)'
    BY <1>1, <1>5, <2>1 DEF MayWrite
  <2>4. QuestionMarked(c)' /\ SavedIsKept(c)'
    BY <1>1, <1>5 DEF QuestionMarked, SavedIsKept
  <2> QED
    BY <2>2, <2>3, <2>4 DEF TurnIsFiled
<1>8. FileLoses
  BY DEF FileLoses
<1> QED
  BY <1>1, <1>2, <1>3, <1>4, <1>6, <1>7, <1>8, OneIsFiled DEF CallIsFiled

LEMMA FileStart ==
  ASSUME TypeInv, FileInv, NEW c \in Calls, TurnStart(c)
  PROVE  FileInv'
<1>1. call[c] \in Call /\ call[c].kind = "turn" /\ call[c].stage = "sent" /\ Fits(call[c])
  BY CallTypes DEF TurnStart, At
<1>2. UNCHANGED <<deskVars, fileVars>>
  BY DEF TurnStart
<1>3. PICK r : Put(c, r) /\ (\/ r = Answered(c, "error")
                             \/ r = [call[c] EXCEPT !.stage = "started", !.by = current])
  BY DEF TurnStart
<1>4. call[c].book = NoBook /\ ~call[c].saved /\ ~call[c].persisted /\ current \in Staff \cup {Nobody}
  BY <1>1 DEF Fits, Early, TypeInv, TypeOK
<1>5. /\ r.kind = "turn" /\ r.asked = call[c].asked /\ r.found = call[c].found
      /\ r.book = NoBook /\ ~r.saved /\ ~r.persisted /\ r.stage \in {"started", "answered"}
  BY <1>1, <1>3, <1>4 DEF Answered, Call
<1>6. r \in Call
  <2>1. CASE r = Answered(c, "error")
    BY <1>1, <2>1 DEF Answered, Call, Stages, Results
  <2>2. CASE r = [call[c] EXCEPT !.stage = "started", !.by = current]
    BY <1>1, <1>4, <2>2 DEF Call, Stages
  <2> QED
    BY <1>3, <2>1, <2>2
<1> QED
  BY <1>1, <1>2, <1>3, <1>5, <1>6, FileBefore DEF Early

LEMMA FileCheck ==
  ASSUME TypeInv, FileInv, NEW c \in Calls, TurnCheck(c)
  PROVE  FileInv'
<1>1. call[c] \in Call /\ call[c].kind = "turn" /\ call[c].stage = "started" /\ Fits(call[c])
  BY CallTypes DEF TurnCheck, At
<1>2. UNCHANGED <<deskVars, fileVars>>
  BY DEF TurnCheck
<1>3. PICK r : Put(c, r) /\ (\/ \E x \in {"error", "forbidden"} : r = Answered(c, x)
                             \/ /\ call[c].asked # NoBook => MayRead(call[c].by, call[c].asked)
                                /\ r = [call[c] EXCEPT !.stage = "asking", !.logged = TRUE]
                             \/ r = [call[c] EXCEPT !.stage = "thinking", !.book = call[c].asked])
  BY Zenon DEF TurnCheck
<1>4. call[c].book = NoBook /\ ~call[c].saved /\ ~call[c].persisted
  BY <1>1 DEF Fits, Early
<1>5. CASE \E x \in {"error", "forbidden"} : r = Answered(c, x)
  <2>1. /\ r.kind = "turn" /\ r.asked = call[c].asked /\ r.found = call[c].found
        /\ r.book = NoBook /\ ~r.saved /\ ~r.persisted /\ r.stage = "answered"
    BY <1>1, <1>4, <1>5 DEF Answered, Call
  <2>2. r \in Call
    BY <1>1, <1>5 DEF Answered, Call, Stages, Results
  <2> QED
    BY <1>1, <1>2, <1>3, <2>1, <2>2, FileBefore DEF Early
<1>6. CASE /\ call[c].asked # NoBook => MayRead(call[c].by, call[c].asked)
           /\ r = [call[c] EXCEPT !.stage = "asking", !.logged = TRUE]
  <2>1. /\ r.kind = "turn" /\ r.asked = call[c].asked /\ r.found = call[c].found
        /\ r.book = NoBook /\ ~r.saved /\ ~r.persisted /\ r.stage = "asking" /\ r.by = call[c].by
    BY <1>1, <1>4, <1>6 DEF Call
  <2>2. r \in Call
    BY <1>1, <1>6 DEF Call, Stages
  <2>3. Exists(r.asked) => MayRead(r.by, r.asked)
    BY <1>6, <2>1, DeskAssumption DEF Exists
  <2>4. r.stage \notin Past
    BY <2>1 DEF Past
  <2> QED
    BY <1>1, <1>2, <1>3, <2>1, <2>2, <2>3, <2>4, FileBefore DEF Early
<1>7. CASE r = [call[c] EXCEPT !.stage = "thinking", !.book = call[c].asked]
  <2>1. /\ r.kind = "turn" /\ r.asked = call[c].asked /\ r.found = call[c].found
        /\ r.book = call[c].asked /\ ~r.saved /\ ~r.persisted /\ r.stage = "thinking"
        /\ r.logged = call[c].logged
    BY <1>1, <1>4, <1>7 DEF Call
  <2>2. r \in Call
    BY <1>1, <1>7, CallTypes DEF Call, Stages
  <2>3. ~call[c].logged
    BY <1>1 DEF Fits, Early
  <2> QED
    BY <1>1, <1>2, <1>3, <2>1, <2>2, <2>3, FileBefore DEF Early
<1> QED
  BY <1>3, <1>5, <1>6, <1>7

\* The question goes on file, or fails to.
LEMMA FileAsk ==
  ASSUME TypeInv, FileInv, NEW c \in Calls, TurnAsk(c)
  PROVE  FileInv'
<1>1. /\ call[c] \in Call /\ call[c].kind = "turn" /\ call[c].stage = "asking"
      /\ call[c].asked \in Books \cup {NoBook} /\ call[c].by \in Staff /\ call[c].logged
  <2>1. call[c] \in Call /\ call[c].kind = "turn" /\ call[c].stage = "asking" /\ Fits(call[c])
    BY CallTypes DEF TurnAsk, At
  <2> QED
    BY <2>1 DEF Fits, Early, Call
<1>2. UNCHANGED deskVars
  BY DEF TurnAsk
<1>3. PICK b \in Books \cup {NoBook}, p \in BOOLEAN :
         /\ Put(c, [call[c] EXCEPT !.stage = "thinking", !.book = b, !.persisted = p])
         /\ rows' = IF p THEN rows \cup {RowOf(b, c, "question")} ELSE rows
         /\ \/ b = NoBook /\ ~p /\ owner' = owner
            \/ b = c /\ owner' = [owner EXCEPT ![c] = call[c].by]
            \/ b = call[c].asked /\ b # NoBook /\ owner' = owner /\ (p => MayRead(call[c].by, b))
  <2>1. PICK p \in BOOLEAN :
          \/ /\ call[c].asked = NoBook /\ ~p
             /\ Put(c, [call[c] EXCEPT !.stage = "thinking", !.book = NoBook, !.persisted = p])
             /\ UNCHANGED fileVars
          \/ /\ call[c].asked = NoBook
             /\ owner' = [owner EXCEPT ![c] = call[c].by]
             /\ Put(c, [call[c] EXCEPT !.stage = "thinking", !.book = c, !.persisted = p])
             /\ rows' = IF p THEN rows \cup {RowOf(c, c, "question")} ELSE rows
          \/ /\ call[c].asked # NoBook
             /\ p => MayRead(call[c].by, call[c].asked)
             /\ Put(c, [call[c] EXCEPT !.stage = "thinking", !.book = call[c].asked, !.persisted = p])
             /\ rows' = IF p THEN rows \cup {RowOf(call[c].asked, c, "question")} ELSE rows
             /\ UNCHANGED owner
    BY Zenon DEF TurnAsk
  <2>2. NoBook \in Books \cup {NoBook} /\ c \in Books \cup {NoBook}
    BY DEF Books
  <2> QED
    BY <1>1, <2>1, <2>2 DEF fileVars
<1> DEFINE r == [call[c] EXCEPT !.stage = "thinking", !.book = b, !.persisted = p]
<1>4. /\ r.kind = "turn" /\ r.stage = "thinking" /\ r.book = b /\ r.persisted = p
      /\ r.asked = call[c].asked /\ r.found = call[c].found /\ r.by = call[c].by /\ r.logged
  BY <1>1 DEF Call
<1>5. Put(c, r)
  BY <1>3
<1> HIDE DEF r
<1>6. call'[c] = r /\ \A d \in Calls \ {c} : call'[d] = call[d]
  BY <1>5, PutFacts
<1>7. KnownGrows
  BY <1>4, <1>5, KnownStays DEF Past
<1>8. DeskIsKnown'
  BY <1>2, <1>7, DeskStaysKnown DEF deskVars
<1>9. Known(c)' /\ ~Known(c) /\ c \in Books /\ c # NoBook /\ ~Exists(c) /\ ~Exists(NoBook)
  <2>1. Known(c)' /\ ~Known(c) /\ c \in Books
    BY <1>1, <1>4, <1>6, DeskAssumption DEF Known, Past, Books
  <2> QED
    BY <2>1, DeskAssumption DEF FileInv, Exists
<1>10. owner \in [Books -> Staff \cup {Nobody}] /\ Nobody \notin Staff
  BY DeskAssumption DEF TypeInv, TypeOK
<1>11. /\ \A x \in Books : x # c => owner'[x] = owner[x]
       /\ \A x : x # c => (Exists(x)' <=> Exists(x))
  <2>1. \A x \in Books : x # c => owner'[x] = owner[x]
    BY <1>3, <1>10
  <2> QED
    BY <2>1 DEF Exists
<1>12. \A w \in rows : w.call # c
  BY <1>1, EarlyHasNoRow DEF Past
<1>13. ASSUME NEW d \in Calls \ {c} PROVE LeavesAlone(d)
  <2>1. KnownOrNone(call[d].asked) /\ KnownOrNone(call[d].book)
    BY DEF FileInv, CallIsFiled, Refers
  <2>2. call[d].asked # c /\ call[d].book # c
    BY <1>9, <2>1 DEF KnownOrNone
  <2>3. ASSUME NEW kind \in {"question", "answer"}
        PROVE  OnFile(d, kind)' <=> OnFile(d, kind)
    <3>1. RowOf(call[d].book, d, kind) # RowOf(b, c, "question")
      BY RowFields
    <3> QED
      BY <1>3, <1>6, <3>1 DEF OnFile
  <2> QED
    BY <1>6, <1>9, <1>11, <2>2, <2>3, CallTypes DEF LeavesAlone
<1>14. p => Exists(b)'
  <2>1. CASE b = c /\ owner' = [owner EXCEPT ![c] = call[c].by]
    BY <1>1, <1>9, <1>10, <2>1 DEF Exists
  <2>2. CASE owner' = owner /\ (p => MayRead(call[c].by, b))
    BY <2>2 DEF MayRead, Exists
  <2> QED
    BY <1>3, <2>1, <2>2
<1>15. Exists(b)' => owner'[b] = call[c].by \/ call[c].by \in Admins
  <2>1. CASE b = c /\ owner' = [owner EXCEPT ![c] = call[c].by]
    BY <1>1, <1>9, <1>10, <2>1 DEF Exists, MayRead
  <2>2. CASE b = call[c].asked /\ owner' = owner
    <3>1. Exists(b) => MayRead(call[c].by, b)
      BY <1>1, <2>2 DEF FileInv, CallIsFiled, TurnIsFiled, MayAsk
    <3> QED
      BY <2>2, <3>1 DEF Exists, MayRead
  <2>3. CASE b = NoBook
    BY <1>9, <1>11, <2>3
  <2> QED
    BY <1>3, <2>1, <2>2, <2>3
<1>16. CallIsFiled(c)'
  <2>1. KnownOrNone(b)'
    <3>1. KnownOrNone(call[c].asked)
      BY DEF FileInv, CallIsFiled, Refers
    <3> QED
      BY <1>1, <1>3, <1>7, <1>9, <3>1 DEF KnownOrNone, KnownGrows
  <2>2. Refers(c)'
    BY <1>4, <1>6, <1>7, <2>1, CallTypes
       DEF FileInv, CallIsFiled, Refers, KnownOrNone, KnownGrows
  <2>3. MayAsk(c)' /\ MayWrite(c)' /\ SavedIsKept(c)'
    BY <1>4, <1>6, <1>15 DEF MayAsk, MayWrite, MayRead, SavedIsKept
  <2>4. OnFile(c, "question")' <=> p
    BY <1>3, <1>4, <1>6, <1>12, RowFields DEF OnFile
  <2>5. QuestionMarked(c)'
    BY <1>4, <1>6, <2>4 DEF QuestionMarked
  <2> QED
    BY <2>2, <2>3, <2>5 DEF CallIsFiled, TurnIsFiled
<1>17. ASSUME NEW x \in Books, Exists(x)' PROVE Known(x)'
  BY <1>7, <1>9, <1>11, <1>17 DEF FileInv, KnownGrows
<1>18. ASSUME NEW w \in rows' PROVE RowIsOfTurn(w)'
  <2>1. CASE w \in rows
    <3>1. RowIsOfTurn(w) /\ w.call \in Calls \ {c} /\ w.book # c
      BY <1>9, <1>12, <2>1, RowTypes DEF FileInv, RowIsOfTurn
    <3> QED
      BY <1>6, <1>11, <3>1 DEF RowIsOfTurn
  <2>2. CASE w = RowOf(b, c, "question") /\ p
    BY <1>4, <1>6, <1>14, <2>2, RowFields DEF RowIsOfTurn, Past
  <2> QED
    BY <1>3, <2>1, <2>2
<1>19. \A d \in Calls \cap {c} : CallIsFiled(d)'
  BY <1>16
<1> DEFINE C == {c}
<1>20. (\A d \in Calls \ C : LeavesAlone(d)) /\ (\A d \in Calls \cap C : CallIsFiled(d)')
  BY <1>13, <1>19
<1> HIDE DEF C
<1> QED
  BY <1>7, <1>8, <1>17, <1>18, <1>20, FileStep

\* The outcome goes on file, or fails to.
LEMMA FileClose ==
  ASSUME TypeInv, FileInv, NEW c \in Calls, TurnClose(c)
  PROVE  FileInv'
<1>1. call[c] \in Call /\ call[c].kind = "turn" /\ call[c].stage = "thinking"
  BY CallTypes DEF TurnClose, At
<1>2. UNCHANGED <<deskVars, owner>>
  BY DEF TurnClose
<1>3. PICK x \in Outcomes, p \in BOOLEAN :
         /\ p => call[c].logged /\ Exists(call[c].book)
         /\ rows' = IF p THEN rows \cup {RowOf(call[c].book, c, "answer")} ELSE rows
         /\ Put(c, [Answered(c, x) EXCEPT !.saved = call[c].persisted /\ p])
  BY Zenon DEF TurnClose
<1> DEFINE r == [Answered(c, x) EXCEPT !.saved = call[c].persisted /\ p]
<1>4. /\ r.kind = "turn" /\ r.stage = "answered" /\ r.book = call[c].book
      /\ r.asked = call[c].asked /\ r.found = call[c].found /\ r.by = call[c].by
      /\ r.logged = call[c].logged /\ r.saved = (call[c].persisted /\ p)
  BY <1>1 DEF Answered, Call
<1>5. Put(c, r)
  BY <1>3
<1> HIDE DEF r
<1>6. call'[c] = r /\ \A d \in Calls \ {c} : call'[d] = call[d]
  BY <1>5, PutFacts
<1>7. KnownGrows
  BY <1>4, <1>5, KnownStays DEF Past
<1>8. DeskIsKnown'
  BY <1>2, <1>7, DeskStaysKnown DEF deskVars
<1>9. /\ \A b : owner'[b] = owner[b] /\ (Exists(b)' <=> Exists(b))
      /\ \A u, b : MayRead(u, b)' <=> MayRead(u, b)
  BY <1>2 DEF Exists, MayRead
<1>10. ASSUME NEW d \in Calls \ {c} PROVE LeavesAlone(d)
  <2>1. ASSUME NEW kind \in {"question", "answer"}
        PROVE  OnFile(d, kind)' <=> OnFile(d, kind)
    <3>1. RowOf(call[d].book, d, kind) # RowOf(call[c].book, c, "answer")
      BY RowFields
    <3> QED
      BY <1>3, <1>6, <3>1 DEF OnFile
  <2> QED
    BY <1>6, <1>9, <2>1 DEF LeavesAlone
<1>11. CallIsFiled(c) /\ CallIsFiled(c)'
  <2>1. CallIsFiled(c) /\ TurnIsFiled(c)
    BY <1>1 DEF FileInv, CallIsFiled
  <2>2. Refers(c)'
    BY <1>4, <1>6, <1>7, <2>1, CallTypes DEF CallIsFiled, Refers, KnownOrNone, KnownGrows
  <2>3. MayAsk(c)' /\ MayWrite(c)' /\ QuestionMarked(c)'
    BY <1>1, <1>4, <1>6, <1>9, <2>1
       DEF TurnIsFiled, MayAsk, MayWrite, QuestionMarked, Past
  <2>4. ~OnFile(c, "answer")
    BY <1>1, RowFields DEF OnFile, FileInv, RowIsOfTurn
  <2>5. OnFile(c, "answer")' <=> p
    BY <1>3, <1>4, <1>6, <2>4, RowFields DEF OnFile
  <2>6. OnFile(c, "question")' <=> OnFile(c, "question")
    <3>1. RowOf(call[c].book, c, "question") # RowOf(call[c].book, c, "answer")
      BY RowFields
    <3> QED
      BY <1>3, <1>4, <1>6, <3>1 DEF OnFile
  <2>7. SavedIsKept(c)'
    <3>1. /\ call[c].persisted => OnFile(c, "question") \/ ~Exists(call[c].book)
          /\ OnFile(c, "question") => call[c].persisted
      BY <1>1, <2>1 DEF TurnIsFiled, QuestionMarked
    <3> QED
      BY <1>4, <1>6, <1>9, <2>5, <2>6, <3>1 DEF SavedIsKept
  <2> QED
    BY <2>1, <2>2, <2>3, <2>7 DEF CallIsFiled, TurnIsFiled
<1>12. ASSUME NEW b \in Books, Exists(b)' PROVE Known(b)'
  BY <1>7, <1>9, <1>12 DEF FileInv, KnownGrows
<1>13. ASSUME NEW w \in rows' PROVE RowIsOfTurn(w)'
  <2>1. CASE w \in rows
    <3>1. RowIsOfTurn(w) /\ w.call \in Calls
      BY <2>1, RowTypes DEF FileInv
    <3> QED
      BY <1>4, <1>6, <1>9, <3>1 DEF RowIsOfTurn, Past
  <2>2. CASE w = RowOf(call[c].book, c, "answer") /\ p
    BY <1>3, <1>4, <1>6, <1>9, <2>2, RowFields DEF RowIsOfTurn, Past
  <2> QED
    BY <1>3, <2>1, <2>2
<1> DEFINE C == {c}
<1>14. (\A d \in Calls \ C : LeavesAlone(d)) /\ (\A d \in Calls \cap C : CallIsFiled(d)')
  BY <1>10, <1>11
<1> HIDE DEF C
<1> QED
  BY <1>7, <1>8, <1>12, <1>13, <1>14, FileStep

\* The back end's other steps: an answer to an approval or an errand, and what a
\* deletion takes with it.
LEMMA FileOthers ==
  ASSUME TypeInv, FileInv, NEW c \in Calls,
         RunWrite(c) \/ ReadConversation(c) \/ ListConversations(c) \/ RunDelete(c)
  PROVE  FileInv'
<1>1. call[c] \in Call /\ call[c].kind # "turn" /\ UNCHANGED deskVars
  BY CallTypes DEF RunWrite, ReadConversation, ListConversations, RunDelete, At
<1>2. FileLoses
  <2>1. UNCHANGED fileVars \/ Remove({call[c].asked}) \/ Remove(Books)
    BY DEF RunWrite, ReadConversation, ListConversations, RunDelete
  <2>2. {call[c].asked} \in SUBSET (Books \cup {NoBook}) /\ Books \in SUBSET (Books \cup {NoBook})
    BY CallTypes
  <2> QED
    BY <2>1, <2>2 DEF FileLoses
<1>3. KnownOrNone(call[c].asked) /\ KnownOrNone(call[c].book) /\ \A b \in call[c].found : Known(b)
  BY DEF FileInv, CallIsFiled, Refers
<1> DEFINE L == {b \in Books : MayRead(current, b)}
<1>4. L \in SUBSET Books /\ \A b \in L : Known(b)
  BY DEF FileInv, MayRead
<1>5. \/ \E x \in {"ok", "error"} : Put(c, Answered(c, x))
      \/ Put(c, [Answered(c, "ok") EXCEPT !.found = L])
      \/ Put(c, Spent)
  BY DEF RunWrite, ReadConversation, ListConversations, RunDelete
<1> HIDE DEF L
<1>6. PICK r : /\ Put(c, r) /\ r \in Call /\ r.kind # "turn"
               /\ KnownOrNone(r.asked) /\ KnownOrNone(r.book) /\ \A b \in r.found : Known(b)
  <2>1. ASSUME NEW x \in {"ok", "error"}, Put(c, Answered(c, x))
        PROVE  /\ Answered(c, x) \in Call /\ Answered(c, x).kind = call[c].kind
               /\ Answered(c, x).asked = call[c].asked /\ Answered(c, x).book = call[c].book
               /\ Answered(c, x).found = call[c].found
    BY <1>1 DEF Answered, Call, Stages, Results
  <2>2. /\ [Answered(c, "ok") EXCEPT !.found = L] \in Call
        /\ [Answered(c, "ok") EXCEPT !.found = L].kind = call[c].kind
        /\ [Answered(c, "ok") EXCEPT !.found = L].asked = call[c].asked
        /\ [Answered(c, "ok") EXCEPT !.found = L].book = call[c].book
        /\ [Answered(c, "ok") EXCEPT !.found = L].found = L
    BY <1>1, <1>4 DEF Answered, Call, Stages, Results
  <2>3. /\ Spent \in Call /\ Spent.kind = "none" /\ Spent.asked = NoBook /\ Spent.book = NoBook
        /\ Spent.found = {}
    BY SpentIsSound DEF Sound, Spent, NoCall
  <2>4. KnownOrNone(NoBook)
    BY DEF KnownOrNone
  <2>5. CASE \E x \in {"ok", "error"} : Put(c, Answered(c, x))
    BY <1>1, <1>3, <2>1, <2>5
  <2>6. CASE Put(c, [Answered(c, "ok") EXCEPT !.found = L])
    BY <1>1, <1>3, <1>4, <2>2, <2>6
  <2>7. CASE Put(c, Spent)
    BY <2>3, <2>4, <2>7
  <2> QED
    BY <1>5, <2>5, <2>6, <2>7
<1>7. DeskIsKnown'
  BY <1>1, <1>6, KnownStays, DeskStaysKnown DEF deskVars
<1> QED
  BY <1>1, <1>2, <1>6, <1>7, FileErrand

LEMMA FileLands ==
  ASSUME TypeInv, FileInv, NEW c \in Calls, Lands(c)
  PROVE  FileInv'
<1>1. desk \in Desk /\ call \in [Calls -> Call] /\ DeskIsKnown /\ CallIsFiled(c) /\ Refers(c)
  BY DEF TypeInv, TypeOK, FileInv, CallIsFiled
<1>2. UNCHANGED fileVars /\ FileLoses
  <2>1. UNCHANGED fileVars
    BY DEF Lands, TurnLands, ApproveLands, OpenLands, ListLands, DeleteLands
  <2> QED
    BY <2>1 DEF FileLoses
<1>3. desk.book \in Books \cup {NoBook} /\ desk.listed \subseteq Books
  BY <1>1 DEF Desk
<1>4. ASSUME KnownGrows, desk'.book \in {desk.book, NoBook, call[c].book, call[c].asked},
             desk'.listed \in {desk.listed, call[c].found}
      PROVE  DeskIsKnown'
  BY <1>1, <1>3, <1>4, CallTypes DEF DeskIsKnown, Refers, KnownOrNone, KnownGrows
<1>5. CASE TurnLands(c)
  <2>1. Put(c, Landed(c)) /\ call[c].kind = "turn" /\ call[c].stage = "answered"
    BY <1>5 DEF TurnLands, At
  <2> DEFINE r == Landed(c)
  <2>2. /\ r.kind = "turn" /\ r.stage = "landed" /\ r.book = call[c].book
        /\ r.asked = call[c].asked /\ r.found = call[c].found /\ r.by = call[c].by
        /\ r.logged = call[c].logged /\ r.saved = call[c].saved
    BY <2>1, CallTypes DEF Landed, Call
  <2>3. Put(c, r)
    BY <2>1
  <2> HIDE DEF r
  <2>4. call'[c] = r /\ \A d \in Calls \ {c} : call'[d] = call[d]
    BY <2>3, PutFacts
  <2>5. KnownGrows
    BY <2>2, <2>3, KnownStays DEF Past
  <2>6. desk'.book \in {desk.book, NoBook, call[c].book} /\ desk'.listed = desk.listed
    BY <1>1, <1>5 DEF TurnLands, Desk
  <2>7. DeskIsKnown'
    BY <1>4, <2>5, <2>6
  <2>8. /\ \A b : Exists(b)' <=> Exists(b)
        /\ \A u, b : MayRead(u, b)' <=> MayRead(u, b)
        /\ \A kind : OnFile(c, kind)' <=> OnFile(c, kind)
    BY <1>2, <2>2, <2>4 DEF Exists, MayRead, OnFile, fileVars
  <2>9. CallIsFiled(c)'
    <3>1. Refers(c)'
      BY <1>1, <2>2, <2>4, <2>5, CallTypes DEF Refers, KnownOrNone, KnownGrows
    <3>2. TurnIsFiled(c)
      BY <1>1, <2>1 DEF CallIsFiled
    <3>3. MayAsk(c)' /\ MayWrite(c)' /\ QuestionMarked(c)' /\ SavedIsKept(c)'
      BY <2>1, <2>2, <2>4, <2>8, <3>2
         DEF TurnIsFiled, MayAsk, MayWrite, QuestionMarked, SavedIsKept, Past
    <3> QED
      BY <3>1, <3>3 DEF CallIsFiled, TurnIsFiled
  <2>10. \A w \in rows : RowIsOfTurn(w) /\ Exists(w.book)' /\ w.call = c => RowIsOfTurn(w)'
    BY <2>2, <2>4, <2>8 DEF RowIsOfTurn, Past
  <2> QED
    BY <1>2, <2>4, <2>5, <2>7, <2>9, <2>10, OneIsFiled
<1>6. CASE ApproveLands(c)
  <2>1. Put(c, Landed(c)) /\ call[c].kind = "approve"
    BY <1>6 DEF ApproveLands, At
  <2>2. /\ Landed(c).kind = "approve" /\ Landed(c).book = call[c].book /\ Landed(c) \in Call
        /\ Landed(c).asked = call[c].asked /\ Landed(c).found = call[c].found
    BY <2>1, CallTypes DEF Landed, Call, Stages
  <2>3. desk'.book = desk.book /\ desk'.listed = desk.listed
    BY <1>1, <1>6 DEF ApproveLands, Desk
  <2>4. DeskIsKnown'
    BY <1>4, <2>1, <2>3, KnownStays
  <2> QED
    BY <1>1, <1>2, <2>1, <2>2, <2>4, FileErrand DEF Refers
<1>7. Spent \in Call /\ Spent.kind = "none" /\ Spent.asked = NoBook /\ Spent.book = NoBook
      /\ Spent.found = {} /\ KnownOrNone(NoBook)
  BY SpentIsSound DEF Sound, Spent, NoCall, KnownOrNone
<1>8. CASE OpenLands(c) \/ ListLands(c)
  <2>1. Put(c, Spent) /\ call[c].kind \in {"open", "list"}
    BY <1>8 DEF OpenLands, ListLands, At
  <2>2. /\ desk'.book \in {desk.book, call[c].asked}
        /\ desk'.listed \in {desk.listed, call[c].found}
    <3>1. EmptySession(desk) \in Desk /\ EmptySession(desk).listed = desk.listed
      BY <1>1, DeskFields DEF EmptySession, Desk
    <3>2. CASE OpenLands(c) /\ ~desk.busy
      BY <3>1, <3>2 DEF OpenLands, Desk
    <3>3. CASE ListLands(c) \/ (OpenLands(c) /\ desk.busy)
      BY <1>1, <3>3 DEF OpenLands, ListLands, Desk
    <3> QED
      BY <1>8, <3>2, <3>3
  <2>3. DeskIsKnown'
    BY <1>4, <2>1, <2>2, KnownStays
  <2> QED
    BY <1>2, <1>7, <2>1, <2>3, FileErrand
<1>9. ASSUME NEW next \in Calls, DeleteLands(c, next) PROVE FileInv'
  <2>1. call[c].kind # "turn" /\ call[next].kind # "turn"
    BY <1>9, FreshIsUnkeyed DEF DeleteLands, At, Keyed
  <2>2. /\ SentCall("list").kind = "list" /\ SentCall("list").asked = NoBook
        /\ SentCall("list").book = NoBook /\ SentCall("list").found = {}
    BY DEF SentCall, NoCall
  <2>3. \A d \in Calls : call'[d] = IF d = next THEN SentCall("list")
                                    ELSE IF d = c THEN Spent ELSE call[d]
    BY <1>1, <1>9 DEF DeleteLands
  <2>4. KnownGrows
    BY <2>1, <2>3 DEF KnownGrows, Known
  <2>5. desk'.book \in {desk.book, NoBook} /\ desk'.listed = desk.listed
    BY <1>1, <1>9 DEF DeleteLands, AfterDelete, EmptySession, Desk
  <2>6. DeskIsKnown'
    BY <1>4, <2>4, <2>5
  <2>7. \A d \in {c, next} : CallIsFiled(d)'
    BY <1>7, <2>2, <2>3 DEF CallIsFiled, Refers, KnownOrNone
  <2> DEFINE C == {c, next}
  <2>8. /\ \A d \in Calls \ C : call'[d] = call[d]
        /\ \A d \in Calls \cap C : CallIsFiled(d)'
        /\ \A w \in rows : RowIsOfTurn(w) /\ Exists(w.book)' /\ w.call \in C => RowIsOfTurn(w)'
    <3>1. \A d \in Calls \ C : call'[d] = call[d]
      BY <2>3
    <3>2. \A w \in rows : RowIsOfTurn(w) => w.call \notin C
      BY <2>1 DEF RowIsOfTurn
    <3> QED
      BY <2>7, <3>1, <3>2
  <2> HIDE DEF C
  <2> QED
    BY <1>2, <2>4, <2>6, <2>8, LossIsFiled
<1> QED
  BY <1>5, <1>6, <1>8, <1>9 DEF Lands

LEMMA FileStarts == Init => FileInv
<1> SUFFICES ASSUME Init PROVE FileInv
  OBVIOUS
<1>1. rows = {} /\ DeskIsKnown
  BY DEF Init, FreshDesk, DeskIsKnown, KnownOrNone
<1>2. \A b \in Books : Exists(b) => Known(b)
  BY DEF Init, Exists, Known
<1>3. ASSUME NEW c \in Calls PROVE CallIsFiled(c)
  <2>1. call[c] = NoCall
    BY DEF Init
  <2> QED
    BY <2>1 DEF NoCall, CallIsFiled, Refers, KnownOrNone
<1> QED
  BY <1>1, <1>2, <1>3 DEF FileInv

LEMMA FileSteps == TypeInv /\ FileInv /\ [Next]_vars => FileInv'
<1> SUFFICES ASSUME TypeInv, FileInv, [Next]_vars PROVE FileInv'
  OBVIOUS
<1>1. CASE UNCHANGED vars
  <2>1. call' = call /\ desk' = desk /\ FileLoses
    BY <1>1 DEF vars, deskVars, FileLoses
  <2>2. KnownGrows
    BY <2>1 DEF KnownGrows, Known
  <2> QED
    BY <2>1, <2>2, DeskStaysKnown, NoneIsFiled
<1>2. ASSUME NEW c \in Calls, BackEnd(c) PROVE FileInv'
  BY <1>2, FileStart, FileCheck, FileAsk, FileClose, FileOthers DEF BackEnd, Turn
<1>3. CASE Next
  BY <1>2, <1>3, FileSession, FileClick, FileLands DEF Next
<1> QED
  BY <1>1, <1>3

\* assistant_turn: what is on file was put there by somebody who may read the
\* conversation, whatever happened between check and writing.
THEOREM FileIsOwn == Spec => []BooksAreOwn
<1>1. TypeInv /\ FileInv => BooksAreOwn
  <2> SUFFICES ASSUME TypeInv, FileInv, NEW w \in rows
               PROVE  MayRead(call[w.call].by, w.book)
    BY DEF BooksAreOwn
  <2>1. RowIsOfTurn(w) /\ w.call \in Calls
    BY RowTypes DEF FileInv
  <2>2. MayWrite(w.call)
    BY <2>1 DEF FileInv, CallIsFiled, TurnIsFiled, RowIsOfTurn
  <2> QED
    BY <2>1, <2>2 DEF MayWrite, RowIsOfTurn
<1> QED
  BY <1>1, TypeStart, TypeStep, FileStarts, FileSteps, PTL DEF Spec

\* close_turn_record: a turn said to be saved is on file as long as its
\* conversation is, and one that is on file whole is said to be saved.
THEOREM TurnsAreKept == Spec => []SavedTurnsAreKept
<1>1. FileInv => SavedTurnsAreKept
  <2> SUFFICES ASSUME FileInv, NEW c \in Calls,
                      call[c].kind = "turn", call[c].stage \in {"answered", "landed"}
               PROVE  LET whole == \A kind \in {"question", "answer"} :
                                     RowOf(call[c].book, c, kind) \in rows
                      IN  /\ call[c].saved => whole \/ ~Exists(call[c].book)
                          /\ whole => call[c].saved
    BY DEF SavedTurnsAreKept
  <2>1. SavedIsKept(c)
    BY DEF FileInv, CallIsFiled, TurnIsFiled
  <2> QED
    BY <2>1 DEF SavedIsKept, OnFile
<1> QED
  BY <1>1, TypeStart, TypeStep, FileStarts, FileSteps, PTL DEF Spec

=============================================================================
