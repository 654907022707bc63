---------------------------- MODULE AssistantDesk ----------------------------
(***************************************************************************)
(* The front desk's assistant: the panel's store in the web view           *)
(* (useAssistantStore.ts), the commands it sends to the back end, and the  *)
(* conversations the back end keeps on file (commands/assistant.rs,        *)
(* commands/assistant_conversations.rs, conversation_service.rs).          *)
(*                                                                         *)
(* A command is a promise: between its click and its landing anything may  *)
(* happen to the store, another command's landing, a log-out and the next  *)
(* person's log-in included.  The store guards itself with a session key,  *)
(* minted anew for every conversation opened, and one busy flag.           *)
(*                                                                         *)
(* A turn runs in four steps: who asks (TurnStart), may they (TurnCheck),  *)
(* the question goes on file (TurnAsk), and, however long the model takes, *)
(* its outcome goes on file (TurnClose).  Texts, notices, prices, the      *)
(* order of the list and the five minutes a card is good for are left out; *)
(* an expired card is one nobody approves.                                 *)
(***************************************************************************)
EXTENDS Integers

CONSTANTS
  Staff, Admins, Nobody,
  OldBooks,      \* the conversations on file at the start
  NoBook,        \* no conversation id
  FirstOwner,    \* whose the old conversations are
  MaxCalls,      \* bound: commands sent by the panel
  MaxSessions    \* bound: sessions begun by hand

Calls  == 1 .. MaxCalls
NoCard == 0

\* A new conversation is named for the turn that began it.
Books == OldBooks \cup Calls

ASSUME DeskAssumption ==
  /\ Admins \subseteq Staff /\ Nobody \notin Staff
  /\ MaxCalls \in Nat /\ MaxSessions \in Nat
  /\ NoBook \notin Books /\ OldBooks \cap Calls = {}
  /\ FirstOwner \in [OldBooks -> Staff]

VARIABLES
  screen,    \* useAuthStore.user, or the log-in screen
  current,   \* AppState.current_user
  leaving,   \* the log-outs under way, by how far they have come
  entering,  \* who has been let in by the back end and not yet by the screen
  desk,      \* the assistant store
  call,      \* the commands sent, each with what it carries and brought back
  owner,     \* assistant_conversations: the user of each row
  rows       \* assistant_messages

deskVars == <<screen, current, leaving, entering, desk>>
fileVars == <<owner, rows>>
vars == <<deskVars, call, fileVars>>

Desk == [key : Nat, book : Books \cup {NoBook}, shown : Books \cup {NoBook},
         listed : SUBSET Books, card : Calls \cup {NoCard}, cardKey : Nat,
         busy : BOOLEAN]

Kinds   == {"none", "turn", "approve", "open", "list", "delete", "delete_all"}
Stages  == {"unused", "sent", "started", "asking", "thinking", "answered", "landed"}
Results == {"none", "reply", "card", "ok", "forbidden", "error"}

\* asked is the conversation id sent, book the one the turn is recorded in; who
\* is the person at the desk and by the one the back end took it for; late says
\* that a log-out was under way when it was sent.
Call == [kind : Kinds, stage : Stages, result : Results, key : Nat,
         asked : Books \cup {NoBook}, book : Books \cup {NoBook},
         card : Calls \cup {NoCard},
         who : Staff \cup {Nobody}, by : Staff \cup {Nobody}, late : BOOLEAN,
         logged : BOOLEAN, persisted : BOOLEAN, saved : BOOLEAN,
         found : SUBSET Books]

NoCall == [kind |-> "none", stage |-> "unused", result |-> "none", key |-> 0,
           asked |-> NoBook, book |-> NoBook, card |-> NoCard,
           who |-> Nobody, by |-> Nobody, late |-> FALSE, logged |-> FALSE,
           persisted |-> FALSE, saved |-> FALSE, found |-> {}]

Row == [book : Books, call : Calls, kind : {"question", "answer"}]

RowOf(b, c, kind) == [book |-> b, call |-> c, kind |-> kind]

-----------------------------------------------------------------------------
(* The store.                                                               *)

FreshDesk == [key |-> 1, book |-> NoBook, shown |-> NoBook, listed |-> {},
              card |-> NoCard, cardKey |-> 0, busy |-> FALSE]

\* emptySession: a new key, and everything of the last conversation gone.
EmptySession(d) ==
  [d EXCEPT !.key = @ + 1, !.book = NoBook, !.shown = NoBook, !.card = NoCard,
            !.cardKey = 0]

\* Somebody works with the panel.  A log-out closes it, and it can be opened
\* again until the log-in screen is there.
AtDesk == screen # Nobody

Leaving == leaving.asked > 0 \/ leaving.done > 0

Fresh(c) ==
  call[c].stage = "unused" /\ \A d \in Calls : d < c => call[d].stage # "unused"

SentCall(kind) == [NoCall EXCEPT !.kind = kind, !.stage = "sent"]

\* A turn or an approval: it keeps the session's key across its await.
KeyedCall(kind) ==
  [SentCall(kind) EXCEPT !.key = desk.key, !.who = screen, !.late = Leaving]

\* invokeCommand: a command goes out.
Issue(c, r) == Fresh(c) /\ call' = [call EXCEPT ![c] = r]

\* send, up to its await.
Send(c) ==
  /\ AtDesk /\ ~desk.busy
  /\ Issue(c, [KeyedCall("turn") EXCEPT !.asked = desk.book])
  /\ desk' = [desk EXCEPT !.busy = TRUE]
  /\ UNCHANGED <<screen, current, leaving, entering, fileVars>>

\* approve: the card's write command, unless it is another session's card.
Approve(c) ==
  /\ AtDesk /\ ~desk.busy /\ desk.card # NoCard
  /\ IF desk.cardKey # desk.key
     THEN /\ desk' = [desk EXCEPT !.card = NoCard, !.cardKey = 0]
          /\ UNCHANGED call
     ELSE /\ Issue(c, [KeyedCall("approve") EXCEPT !.card = desk.card])
          /\ desk' = [desk EXCEPT !.busy = TRUE]
  /\ UNCHANGED <<screen, current, leaving, entering, fileVars>>

\* dismissAction; the store does not look at busy here.
Dismiss ==
  /\ AtDesk /\ desk.card # NoCard
  /\ desk' = [desk EXCEPT !.card = NoCard, !.cardKey = 0]
  /\ UNCHANGED <<screen, current, leaving, entering, call, fileVars>>

\* startNewChat, refused while busy.
StartNewChat ==
  /\ AtDesk /\ ~desk.busy /\ desk.key < MaxSessions
  /\ desk' = EmptySession(desk)
  /\ UNCHANGED <<screen, current, leaving, entering, call, fileVars>>

\* openConversation, up to its await.
OpenConversation(c, b) ==
  /\ AtDesk /\ ~desk.busy /\ b \in desk.listed
  /\ Issue(c, [SentCall("open") EXCEPT !.asked = b])
  /\ UNCHANGED <<deskVars, fileVars>>

\* loadConversations, up to its await.
LoadConversations(c) ==
  /\ AtDesk
  /\ Issue(c, SentCall("list"))
  /\ UNCHANGED <<deskVars, fileVars>>

\* deleteConversation, up to its await.
DeleteConversation(c, b) ==
  /\ AtDesk /\ ~desk.busy /\ b \in desk.listed
  /\ Issue(c, [SentCall("delete") EXCEPT !.asked = b])
  /\ UNCHANGED <<deskVars, fileVars>>

\* deleteAllConversations, up to its await.
DeleteAllConversations(c) ==
  /\ AtDesk /\ ~desk.busy
  /\ Issue(c, SentCall("delete_all"))
  /\ UNCHANGED <<deskVars, fileVars>>

-----------------------------------------------------------------------------
(* Logging in and out (useAuthStore.ts).                                    *)

\* Mutant: the reset empties the session and keeps its key.
Logout_M ==
  /\ AtDesk /\ desk.key < MaxSessions
  /\ desk' = [EmptySession(desk) EXCEPT !.key = desk.key, !.listed = {}, !.busy = FALSE]
  /\ leaving' = [leaving EXCEPT !.asked = @ + 1]
  /\ UNCHANGED <<screen, current, entering, call, fileVars>>

\* logout: the assistant is reset before the back end is told.  The button
\* stays where it is and may be clicked again.
Logout ==
  /\ AtDesk /\ desk.key < MaxSessions
  /\ desk' = [EmptySession(desk) EXCEPT !.listed = {}, !.busy = FALSE]
  /\ leaving' = [leaving EXCEPT !.asked = @ + 1]
  /\ UNCHANGED <<screen, current, entering, call, fileVars>>

LogoutRuns ==
  /\ leaving.asked > 0
  /\ leaving' = [asked |-> leaving.asked - 1, done |-> leaving.done + 1]
  /\ current' = Nobody
  /\ UNCHANGED <<screen, entering, desk, call, fileVars>>

LogoutLands ==
  /\ leaving.done > 0
  /\ leaving' = [leaving EXCEPT !.done = @ - 1]
  /\ screen' = Nobody
  /\ UNCHANGED <<current, entering, desk, call, fileVars>>

\* login, from the log-in screen; one at a time, and no session is begun by it.
LoginRuns(u) ==
  /\ screen = Nobody /\ entering = Nobody
  /\ current' = u /\ entering' = u
  /\ UNCHANGED <<screen, leaving, desk, call, fileVars>>

LoginLands ==
  /\ entering # Nobody
  /\ screen' = entering /\ entering' = Nobody
  /\ UNCHANGED <<current, leaving, desk, call, fileVars>>

-----------------------------------------------------------------------------
(* The back end.                                                            *)

At(c, kind, stage) == call[c].kind = kind /\ call[c].stage = stage

Put(c, r) == call' = [call EXCEPT ![c] = r]

Answered(c, result) == [call[c] EXCEPT !.stage = "answered", !.result = result]

Exists(b) == b \in Books /\ owner[b] # Nobody

\* assert_can_read: the same refusal for "gone" and for "somebody else's".
MayRead(u, b) == Exists(b) /\ (owner[b] = u \/ u \in Admins)

\* assistant_turn takes down who asks, before everything it awaits; nobody
\* logged in ends it.
TurnStart(c) ==
  /\ At(c, "turn", "sent")
  /\ Put(c, IF current = Nobody THEN Answered(c, "error")
            ELSE [call[c] EXCEPT !.stage = "started", !.by = current])
  /\ UNCHANGED <<deskVars, fileVars>>

\* Mutant: the conversation id that comes with a turn is trusted.
TurnCheck_M(c) ==
  /\ At(c, "turn", "started")
  /\ Put(c, [call[c] EXCEPT !.stage = "asking", !.logged = TRUE])
  /\ UNCHANGED <<deskVars, fileVars>>

\* assistant_turn on to open_turn_record's permission check.  A closed gate or a
\* bad question ends it; when the owner cannot be read the turn goes on and
\* stays off the file.
TurnCheck(c) ==
  /\ At(c, "turn", "started")
  /\ LET r == call[c]
     IN  \/ Put(c, Answered(c, "error"))
         \/ /\ r.asked # NoBook /\ ~MayRead(r.by, r.asked)
            /\ Put(c, Answered(c, "forbidden"))
         \/ /\ r.asked # NoBook => MayRead(r.by, r.asked)
            /\ Put(c, [r EXCEPT !.stage = "asking", !.logged = TRUE])
         \/ /\ r.asked # NoBook
            /\ Put(c, [r EXCEPT !.stage = "thinking", !.book = r.asked])
  /\ UNCHANGED <<deskVars, fileVars>>

\* record_turn_question.  No conversation can be made (3a), or the row does not
\* go in (3b), or it does; a turn that named a conversation keeps its id.
TurnAsk(c) ==
  /\ At(c, "turn", "asking")
  /\ LET r == call[c]
         Recorded(b, p) == Put(c, [r EXCEPT !.stage = "thinking", !.book = b,
                                            !.persisted = p])
     IN  \E p \in BOOLEAN :
           \/ /\ r.asked = NoBook /\ ~p
              /\ Recorded(NoBook, p)
              /\ UNCHANGED fileVars
           \/ /\ r.asked = NoBook
              /\ owner' = [owner EXCEPT ![c] = r.by]
              /\ Recorded(c, p)
              /\ rows' = IF p THEN rows \cup {RowOf(c, c, "question")} ELSE rows
           \/ /\ r.asked # NoBook
              /\ p => MayRead(r.by, r.asked)
              /\ Recorded(r.asked, p)
              /\ rows' = IF p THEN rows \cup {RowOf(r.asked, c, "question")} ELSE rows
              /\ UNCHANGED owner
  /\ UNCHANGED deskVars

\* run_assistant_turn: a reply, a card to approve, or an error.  It writes
\* nothing.
Outcomes == {"reply", "card", "error"}

\* Mutant: turn_saved speaks of the answer only.
TurnClose_M(c) ==
  /\ At(c, "turn", "thinking")
  /\ LET r == call[c]
     IN  \E result \in Outcomes, wrote \in BOOLEAN :
           /\ wrote => r.logged /\ Exists(r.book)
           /\ rows' = IF wrote THEN rows \cup {RowOf(r.book, c, "answer")} ELSE rows
           /\ Put(c, [Answered(c, result) EXCEPT !.saved = wrote])
  /\ UNCHANGED <<deskVars, owner>>

\* close_turn_record: whatever came out is one row, which fails to go in when
\* the conversation is gone.
TurnClose(c) ==
  /\ At(c, "turn", "thinking")
  /\ LET r == call[c]
     IN  \E result \in Outcomes, wrote \in BOOLEAN :
           /\ wrote => r.logged /\ Exists(r.book)
           /\ rows' = IF wrote THEN rows \cup {RowOf(r.book, c, "answer")} ELSE rows
           /\ Put(c, [Answered(c, result) EXCEPT !.saved = r.persisted /\ wrote])
  /\ UNCHANGED <<deskVars, owner>>

\* The card's command, check_in, create_reservation or backfill_stay: carried
\* out or refused.  Every click has an idempotency key of its own.
RunWrite(c) ==
  /\ At(c, "approve", "sent")
  /\ \E result \in {"ok", "error"} : Put(c, Answered(c, result))
  /\ UNCHANGED <<deskVars, fileVars>>

\* An errand that fails is a notice in the panel and nothing else.
Spent == [NoCall EXCEPT !.stage = "landed"]

\* get_assistant_conversation.
ReadConversation(c) ==
  /\ At(c, "open", "sent")
  /\ \/ MayRead(current, call[c].asked) /\ Put(c, Answered(c, "ok"))
     \/ Put(c, Spent)
  /\ UNCHANGED <<deskVars, fileVars>>

\* list_assistant_conversations: one's own, or everybody's for an admin.
ListConversations(c) ==
  /\ At(c, "list", "sent")
  /\ \/ /\ current # Nobody
        /\ Put(c, [Answered(c, "ok") EXCEPT !.found = {b \in Books : MayRead(current, b)}])
     \/ Put(c, Spent)
  /\ UNCHANGED <<deskVars, fileVars>>

\* The messages go with their conversation (ON DELETE CASCADE).
Remove(B) ==
  /\ owner' = [b \in Books |-> IF b \in B THEN Nobody ELSE owner[b]]
  /\ rows' = {w \in rows : w.book \notin B}

\* delete_assistant_conversation and delete_all_assistant_conversations, for
\* admins only.
RunDelete(c) ==
  /\ \/ /\ At(c, "delete", "sent") /\ current \in Admins
        /\ Remove({call[c].asked})
        /\ Put(c, Answered(c, "ok"))
     \/ /\ At(c, "delete_all", "sent") /\ current \in Admins
        /\ Remove(Books)
        /\ Put(c, Answered(c, "ok"))
     \/ /\ At(c, "delete", "sent") \/ At(c, "delete_all", "sent")
        /\ Put(c, Spent)
        /\ UNCHANGED fileVars
  /\ UNCHANGED deskVars

-----------------------------------------------------------------------------
(* The landings: what the store does with an answer.                        *)

Landed(c) == [call[c] EXCEPT !.stage = "landed"]


\* The session the turn or the approval belongs to is still open.
SameSession(c) == call[c].key = desk.key

\* Mutant: an answer that comes too late still lowers busy.
TurnLands_M(c) ==
  /\ At(c, "turn", "answered")
  /\ Put(c, Landed(c))
  /\ LET r == call[c]
     IN  desk' =
           IF ~SameSession(c) THEN [desk EXCEPT !.busy = FALSE]
           ELSE IF r.result \in {"reply", "card"}
           THEN [desk EXCEPT !.busy = FALSE,
                   !.card = IF r.result = "card" THEN c ELSE NoCard,
                   !.cardKey = IF r.result = "card" THEN r.key ELSE 0,
                   !.book = IF r.book # NoBook THEN r.book ELSE @]
           ELSE [desk EXCEPT !.busy = FALSE,
                   !.book = IF r.result = "forbidden" THEN NoBook ELSE @]
  /\ UNCHANGED <<screen, current, leaving, entering, fileVars>>

\* send, after its await.  A refused conversation id is dropped, a missing one
\* does not replace the one at hand.
TurnLands(c) ==
  /\ At(c, "turn", "answered")
  /\ Put(c, Landed(c))
  /\ LET r == call[c]
     IN  desk' =
           IF ~SameSession(c) THEN desk
           ELSE IF r.result \in {"reply", "card"}
           THEN [desk EXCEPT !.busy = FALSE,
                   !.card = IF r.result = "card" THEN c ELSE NoCard,
                   !.cardKey = IF r.result = "card" THEN r.key ELSE 0,
                   !.book = IF r.book # NoBook THEN r.book ELSE @]
           ELSE [desk EXCEPT !.busy = FALSE,
                   !.book = IF r.result = "forbidden" THEN NoBook ELSE @]
  /\ UNCHANGED <<screen, current, leaving, entering, fileVars>>

\* approve, after its await.  A card that failed stays.
ApproveLands(c) ==
  /\ At(c, "approve", "answered")
  /\ Put(c, Landed(c))
  /\ desk' =
       IF ~SameSession(c) THEN desk
       ELSE IF call[c].result = "ok"
       THEN [desk EXCEPT !.busy = FALSE, !.card = NoCard, !.cardKey = 0]
       ELSE [desk EXCEPT !.busy = FALSE]
  /\ UNCHANGED <<screen, current, leaving, entering, fileVars>>

\* openConversation, after its await: busy is looked at again, the session is
\* not.
OpenLands(c) ==
  /\ At(c, "open", "answered")
  /\ Put(c, Spent)
  /\ desk' =
       IF ~desk.busy
       THEN [EmptySession(desk) EXCEPT !.book = call[c].asked, !.shown = call[c].asked]
       ELSE desk
  /\ UNCHANGED <<screen, current, leaving, entering, fileVars>>

\* loadConversations, after its await.
ListLands(c) ==
  /\ At(c, "list", "answered")
  /\ Put(c, Spent)
  /\ desk' = [desk EXCEPT !.listed = call[c].found]
  /\ UNCHANGED <<screen, current, leaving, entering, fileVars>>

\* A deletion's answer: a new chat in place of the conversation that is gone,
\* or, while busy, only its id dropped.
AfterDelete(d) ==
  IF d.busy THEN [d EXCEPT !.book = NoBook] ELSE EmptySession(d)

\* deleteConversation and deleteAllConversations, after their await; then the
\* list is loaded anew.
DeleteLands(c, next) ==
  /\ At(c, "delete", "answered") \/ At(c, "delete_all", "answered")
  /\ Fresh(next)
  /\ call' = [call EXCEPT ![c] = Spent, ![next] = SentCall("list")]
  /\ desk' = IF At(c, "delete_all", "answered") \/ desk.book = call[c].asked
             THEN AfterDelete(desk) ELSE desk
  /\ UNCHANGED <<screen, current, leaving, entering, fileVars>>

-----------------------------------------------------------------------------
Init ==
  /\ screen = Nobody /\ current = Nobody /\ entering = Nobody
  /\ leaving = [asked |-> 0, done |-> 0]
  /\ desk = FreshDesk
  /\ call = [c \in Calls |-> NoCall]
  /\ owner = [b \in Books |-> IF b \in OldBooks THEN FirstOwner[b] ELSE Nobody]
  /\ rows = {}

Click(c) ==
  \/ Send(c) \/ Approve(c) \/ LoadConversations(c) \/ DeleteAllConversations(c)
  \/ \E b \in Books : OpenConversation(c, b) \/ DeleteConversation(c, b)

Turn(c) == TurnStart(c) \/ TurnCheck(c) \/ TurnAsk(c) \/ TurnClose(c)

BackEnd(c) ==
  Turn(c) \/ RunWrite(c) \/ ReadConversation(c) \/ ListConversations(c) \/ RunDelete(c)

Lands(c) ==
  \/ TurnLands(c) \/ ApproveLands(c) \/ OpenLands(c) \/ ListLands(c)
  \/ \E next \in Calls : DeleteLands(c, next)

Session ==
  \/ Dismiss \/ StartNewChat \/ Logout \/ LogoutRuns \/ LogoutLands \/ LoginLands
  \/ \E u \in Staff : LoginRuns(u)

Next == Session \/ \E c \in Calls : Click(c) \/ BackEnd(c) \/ Lands(c)

Spec == Init /\ [][Next]_vars

-----------------------------------------------------------------------------
(* Properties.                                                              *)

TypeOK ==
  /\ screen \in Staff \cup {Nobody} /\ current \in Staff \cup {Nobody}
  /\ leaving \in [asked : Nat, done : Nat] /\ entering \in Staff \cup {Nobody}
  /\ desk \in Desk
  /\ call \in [Calls -> Call]
  /\ owner \in [Books -> Staff \cup {Nobody}]
  /\ rows \subseteq Row

\* The busy invariant of the store: the flag belongs to the session that is
\* open and is up exactly while one turn or approval of that session is out;
\* what comes back from an earlier session leaves it alone.
Out(c) == call[c].kind \in {"turn", "approve"} /\ call[c].stage \notin {"unused", "landed"}

BusyIsOwned ==
  /\ desk.busy <=> \E c \in Calls : Out(c) /\ SameSession(c)
  /\ \A c, d \in Calls :
       Out(c) /\ Out(d) /\ SameSession(c) /\ SameSession(d) => c = d

\* A card is money: its write command is out at most once at a time and
\* succeeds at most once, whatever lands late from whichever session, and it
\* is sent by the person who asked for the card, unless that was asked for
\* between the click on the log-out and its end.
CardsAreApprovedOnce ==
  \A a \in Calls : call[a].kind = "approve" =>
    /\ call[a].who = call[call[a].card].who \/ call[call[a].card].late
    /\ \A b \in Calls \ {a} :
         call[b].kind = "approve" /\ call[b].card = call[a].card
           => "error" \in {call[a].result, call[b].result}

\* Nothing is put on file in somebody else's conversation, or in none, however
\* the conversation and the person change while the turn is out.
BooksAreOwn == \A w \in rows : MayRead(call[w.call].by, w.book)

\* turn_saved is the truth: a turn reported as saved has its question and its
\* answer on file until an admin deletes the conversation, and one that has
\* both is reported as saved.
SavedTurnsAreKept ==
  \A c \in Calls :
    call[c].kind = "turn" /\ call[c].stage \in {"answered", "landed"} =>
      LET whole == \A kind \in {"question", "answer"} : RowOf(call[c].book, c, kind) \in rows
      IN  /\ call[c].saved => whole \/ ~Exists(call[c].book)
          /\ whole => call[c].saved

=============================================================================
