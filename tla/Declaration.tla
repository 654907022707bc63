----------------------------- MODULE Declaration -----------------------------
\* The declaration of guests to the police portal: identities read from
\* documents, their links to stays, and the batches of links that are exported
\* to a file, uploaded by hand and counted against what the portal shows
\* (declaration/repo.rs, commands/declaration.rs and the Declaration page).
\*
\* A command is a future of the back end: each of its statements is a step, and
\* its locals are in task[t]. What a document or a form says is a version. The
\* files are those of one kind of guest, named by the minute of their export.
\* redact_old_identities is called by tests alone, so no row is masked.
EXTENDS Naturals, FiniteSets

CONSTANTS
  Tasks,        \* bound: commands under way together
  Documents,    \* document numbers, with NoDocument if one may be missing
  NoDocument,   \* the number of an identity typed without one
  Stays,        \* bookings.id, each of another day of arrival, with NoStay if
  NoStay,       \* a link may be made before the room is known
  Versions,     \* bound: what a scan, or the form of a link, may say
  MaxIdentities, MaxLinks, MaxBatches, MaxMinute,  \* bounds
  None

VARIABLES
  identity,  \* declaration_identity; ids in the order of created_at
  link,      \* declaration_link
  batch,     \* declaration_batch
  entry,     \* declaration_entry: pairs of a batch and a link
  made,      \* the ids handed out; a uuid comes once
  file,      \* the export directory: the rows under a minute's name
  minute,    \* Local::now(), as the file names tell it
  panel,     \* the batch whose checklist the page shows
  portal,    \* the rows the portal took when that batch was uploaded last
  task,      \* the commands under way
  wrote,     \* history: the rows a batch was made of
  counted,   \* history: the rows on the portal when the batch was verified
  reused     \* history: the names under which a file was written again

tables == <<identity, link, batch, entry, made>>
filingVars == <<tables, file, minute, panel, portal, task, wrote, counted, reused>>

Identities == 1 .. MaxIdentities
Links == 1 .. MaxLinks
Batches == 1 .. MaxBatches
Minutes == 1 .. MaxMinute

IdentityRow == [doc : Documents, data : Versions]
LinkRow == [who : Identities, stay : Stays, reason : Versions]
BatchRow == [path : Minutes, count : Nat, status : {"exported", "verified", "failed"}]

\* A row of a file, and what a file may hold.
FileRow == [link : Links, doc : Documents, stay : Stays, data : Versions,
            reason : Versions]
Files == {rows \in SUBSET FileRow : IsFiniteSet(rows)}

ASSUME DeclarationAssumption ==
  /\ {MaxIdentities, MaxLinks, MaxBatches, MaxMinute} \subseteq Nat \ {0}
  /\ None \notin Nat \cup IdentityRow \cup LinkRow \cup BatchRow

\* A command under way, and its locals.
Idle == [pc |-> "idle"]
Task ==
  {Idle}
  \cup [pc : {"update"}, id : Identities, data : Versions]
  \cup [pc : {"insert"}, doc : Documents, data : Versions]
  \cup [pc : {"unlink"}, link : Links]
  \cup [pc : {"write"}, ids : SUBSET Links, rows : Files]
  \cup [pc : {"batch"}, ids : SUBSET Links, rows : Files, path : Minutes]
  \cup [pc : {"entries"}, ids : SUBSET Links, batch : Batches]

At(t, pc) == task[t].pc = pc
Goto(t, s) == task' = [task EXCEPT ![t] = s]

EntriesOf(b) == {l \in Links : <<b, l>> \in entry}
Verified(b) == batch[b] # None /\ batch[b].status = "verified"

\* The link is in a batch the portal was seen to have taken.
Declared(l) == \E b \in Batches : Verified(b) /\ l \in EntriesOf(b)
AlreadyDeclared(i) == \E l \in Links : link[l] # None /\ link[l].who = i /\ Declared(l)

FilingTypeOK ==
  /\ identity \in [Identities -> IdentityRow \cup {None}]
  /\ link \in [Links -> LinkRow \cup {None}]
  /\ batch \in [Batches -> BatchRow \cup {None}]
  /\ made \in [identity : 0 .. MaxIdentities, link : 0 .. MaxLinks,
               batch : 0 .. MaxBatches]
  /\ \A l \in Links : link[l] # None => identity[link[l].who] # None
  /\ entry \subseteq Batches \X Links
  /\ \A b \in Batches : \A l \in EntriesOf(b) : batch[b] # None /\ link[l] # None
  /\ file \in [Minutes -> Files] /\ minute \in Minutes
  /\ panel \in Batches \cup {None} /\ portal \in Files
  /\ task \in [Tasks -> Task]
  /\ wrote \in [Batches -> Files] /\ counted \in [Batches -> Files]
  /\ reused \subseteq Minutes

FilingInit ==
  /\ identity = [i \in Identities |-> None]
  /\ link = [l \in Links |-> None]
  /\ batch = [b \in Batches |-> None]
  /\ entry = {}
  /\ made = [identity |-> 0, link |-> 0, batch |-> 0]
  /\ file = [m \in Minutes |-> {}]
  /\ minute = 1
  /\ panel = None
  /\ portal = {}
  /\ task = [t \in Tasks |-> Idle]
  /\ wrote = [b \in Batches |-> {}]
  /\ counted = [b \in Batches |-> {}]
  /\ reused = {}

-----------------------------------------------------------------------------
\* kbtt_save_identity: a look for the document, then an update or an insert.

WithDocument(d) == {i \in Identities : identity[i] # None /\ identity[i].doc = d}
Oldest(S) == CHOOSE i \in S : \A j \in S : i <= j

SaveLooks(t, d, v) ==
  /\ At(t, "idle")
  /\ LET known == WithDocument(d) IN
       \/ /\ d # NoDocument /\ known # {} /\ AlreadyDeclared(Oldest(known))
          /\ UNCHANGED task
       \/ /\ d # NoDocument /\ known # {} /\ ~AlreadyDeclared(Oldest(known))
          /\ Goto(t, [pc |-> "update", id |-> Oldest(known), data |-> v])
       \/ /\ d = NoDocument \/ known = {}
          /\ made.identity < MaxIdentities
          /\ Goto(t, [pc |-> "insert", doc |-> d, data |-> v])
  /\ UNCHANGED <<tables, file, minute, panel, portal, wrote, counted, reused>>

\* An identity that was discarded in between is updated in no row, silently.
SaveUpdates(t) ==
  /\ At(t, "update")
  /\ identity' = [i \in Identities |->
       IF i = task[t].id /\ identity[i] # None
         THEN [identity[i] EXCEPT !.data = task[t].data] ELSE identity[i]]
  /\ Goto(t, Idle)
  /\ UNCHANGED <<link, batch, entry, made, file, minute, panel, portal, wrote, counted, reused>>

SaveInserts(t) ==
  /\ At(t, "insert")
  /\ made.identity < MaxIdentities
  /\ made' = [made EXCEPT !.identity = @ + 1]
  /\ identity' = [identity EXCEPT ![made'.identity] =
                    [doc |-> task[t].doc, data |-> task[t].data]]
  /\ Goto(t, Idle)
  /\ UNCHANGED <<link, batch, entry, file, minute, panel, portal, wrote, counted, reused>>

\* kbtt_discard_identity: one statement, refused while a link points at it.
Discard(i) ==
  /\ identity[i] # None
  /\ \A l \in Links : link[l] # None => link[l].who # i
  /\ identity' = [identity EXCEPT ![i] = None]
  /\ UNCHANGED <<link, batch, entry, made, file, minute, panel, portal, task,
                 wrote, counted, reused>>

-----------------------------------------------------------------------------
\* kbtt_link: the upsert. A stay that is NULL is in conflict with nothing.
InsertLink(i, s, r) ==
  /\ identity[i] # None
  /\ LET same == {l \in Links : link[l] # None /\ link[l].who = i /\ link[l].stay = s} IN
       \/ /\ s # NoStay
          /\ \E l \in same : link' = [link EXCEPT ![l].reason = r]
          /\ UNCHANGED made
       \/ /\ s = NoStay \/ same = {}
          /\ made.link < MaxLinks
          /\ made' = [made EXCEPT !.link = @ + 1]
          /\ link' = [link EXCEPT ![made'.link] = [who |-> i, stay |-> s, reason |-> r]]
  /\ UNCHANGED <<identity, batch, entry, file, minute, panel, portal, task,
                 wrote, counted, reused>>

\* kbtt_unlink: the count of verified batches is read before the transaction.
UnlinkLooks(t, l) ==
  /\ At(t, "idle")
  /\ link[l] # None /\ ~Declared(l)
  /\ Goto(t, [pc |-> "unlink", link |-> l])
  /\ UNCHANGED <<tables, file, minute, panel, portal, wrote, counted, reused>>

UnlinkDeletes(t) ==
  /\ At(t, "unlink")
  /\ entry' = {e \in entry : e[2] # task[t].link}
  /\ link' = [link EXCEPT ![task[t].link] = None]
  /\ Goto(t, Idle)
  /\ UNCHANGED <<identity, batch, made, file, minute, panel, portal, wrote, counted, reused>>

-----------------------------------------------------------------------------
\* kbtt_export.

\* A row of load_rows_by_link_ids.
RowOf(l) == [link |-> l, doc |-> identity[link[l].who].doc, stay |-> link[l].stay,
           data |-> identity[link[l].who].data, reason |-> link[l].reason]

\* validate: E01 wants a document and a day of arrival, E14 no two rows with
\* both the same. What else blocks depends on the data alone.
SameGuestTwice(rows) ==
  \E r, q \in rows : r # q /\ r.doc = q.doc /\ r.stay = q.stay
HasBlocking(rows) ==
  \/ \E r \in rows : r.doc = NoDocument \/ r.stay = NoStay
  \/ SameGuestTwice(rows)

\* The page exports the rows that are ticked in a list it read some time ago.
ExportLoads(t, ids) ==
  /\ At(t, "idle")
  /\ made.batch < MaxBatches
  /\ LET rows == {RowOf(l) : l \in {k \in ids : link[k] # None}} IN
       /\ rows # {} /\ ~HasBlocking(rows)
       /\ Goto(t, [pc |-> "write", ids |-> ids, rows |-> rows])
  /\ UNCHANGED <<tables, file, minute, panel, portal, wrote, counted, reused>>

ExportWrites(t) ==
  /\ At(t, "write")
  /\ file' = [file EXCEPT ![minute] = task[t].rows]
  /\ reused' = IF file[minute] # {} THEN reused \cup {minute} ELSE reused
  /\ Goto(t, [pc |-> "batch", ids |-> task[t].ids, rows |-> task[t].rows, path |-> minute])
  /\ UNCHANGED <<tables, minute, panel, portal, wrote, counted>>

\* write_batch deletes the file when it reads back other rows than it wrote,
\* or fails before it has touched it.
ExportFails(t) ==
  /\ At(t, "write")
  /\ \/ UNCHANGED <<file, reused>>
     \/ /\ file' = [file EXCEPT ![minute] = {}]
        /\ reused' = reused \cup {minute}
  /\ Goto(t, Idle)
  /\ UNCHANGED <<tables, minute, panel, portal, wrote, counted>>

InsertBatch(t) ==
  /\ At(t, "batch")
  /\ made.batch < MaxBatches
  /\ made' = [made EXCEPT !.batch = @ + 1]
  /\ batch' = [batch EXCEPT ![made'.batch] =
       [path |-> task[t].path, count |-> Cardinality(task[t].rows), status |-> "exported"]]
  /\ wrote' = [wrote EXCEPT ![made'.batch] = task[t].rows]
  /\ Goto(t, [pc |-> "entries", ids |-> task[t].ids, batch |-> made'.batch])
  /\ UNCHANGED <<identity, link, entry, file, minute, panel, portal, counted, reused>>

Show(b) == panel' = b /\ portal' = {}

\* Mutant: the failure of the entries is swallowed, and the batch is shown.
InsertEntries_M(t) ==
  /\ At(t, "entries")
  /\ entry' = entry \cup {e \in {task[t].batch} \X task[t].ids :
                            \A l \in task[t].ids : link[l] # None}
  /\ Show(task[t].batch)
  /\ Goto(t, Idle)
  /\ UNCHANGED <<identity, link, batch, made, file, minute, wrote, counted, reused>>

\* One transaction over every id that was asked for: a link that is gone fails
\* its foreign key, and the whole of it. Only an export that succeeds is shown.
InsertEntries(t) ==
  /\ At(t, "entries")
  /\ \/ /\ \A l \in task[t].ids : link[l] # None
        /\ entry' = entry \cup ({task[t].batch} \X task[t].ids)
        /\ Show(task[t].batch)
     \/ /\ \E l \in task[t].ids : link[l] = None
        /\ UNCHANGED <<entry, panel, portal>>
  /\ Goto(t, Idle)
  /\ UNCHANGED <<identity, link, batch, made, file, minute, wrote, counted, reused>>

-----------------------------------------------------------------------------
\* The operator uploads the file of the batch on the page. The portal reports
\* success whatever part of it it takes, even none.
Upload(b) ==
  /\ panel = b /\ ~Verified(b)
  /\ \E taken \in SUBSET file[batch[b].path] : portal' = taken
  /\ UNCHANGED <<tables, file, minute, panel, task, wrote, counted, reused>>

\* Mutant: any answer of the portal's is taken for success.
Reconcile_M(b) ==
  /\ panel = b
  /\ batch' = [batch EXCEPT ![b].status = IF portal # {} THEN "verified" ELSE "failed"]
  /\ counted' = [counted EXCEPT ![b] = portal]
  /\ UNCHANGED <<identity, link, entry, made, file, minute, panel, portal, task,
                 wrote, reused>>

\* kbtt_reconcile, with the number the operator sees on the portal. A batch's
\* row_count never changes, so reading it is no step of its own.
Reconcile(b) ==
  /\ panel = b
  /\ LET seen == Cardinality(portal) IN
       \/ /\ seen = batch[b].count
          /\ batch' = [batch EXCEPT ![b].status = "verified"]
          /\ counted' = [counted EXCEPT ![b] = portal]
       \/ /\ seen # batch[b].count
          /\ batch' = [batch EXCEPT ![b].status = "failed"]
          /\ counted' = [counted EXCEPT ![b] = {}]
  /\ UNCHANGED <<identity, link, entry, made, file, minute, panel, portal, task,
                 wrote, reused>>

ClosePage ==
  /\ panel # None
  /\ Show(None)
  /\ UNCHANGED <<tables, file, minute, task, wrote, counted, reused>>

MinutePasses ==
  /\ minute < MaxMinute
  /\ minute' = minute + 1
  /\ UNCHANGED <<tables, file, panel, portal, task, wrote, counted, reused>>

Crash ==
  /\ \E t \in Tasks : task[t] # Idle
  /\ task' = [t \in Tasks |-> Idle]
  /\ Show(None)
  /\ UNCHANGED <<tables, file, minute, wrote, counted, reused>>

FilingNext ==
  \/ \E t \in Tasks :
       \/ \E d \in Documents, v \in Versions : SaveLooks(t, d, v)
       \/ SaveUpdates(t) \/ SaveInserts(t)
       \/ \E l \in Links : UnlinkLooks(t, l)
       \/ UnlinkDeletes(t)
       \/ \E ids \in SUBSET (1 .. made.link) : ExportLoads(t, ids)
       \/ ExportWrites(t) \/ ExportFails(t) \/ InsertBatch(t) \/ InsertEntries(t)
  \/ \E i \in Identities :
       \/ Discard(i)
       \/ \E s \in Stays, r \in Versions : InsertLink(i, s, r)
  \/ \E b \in Batches : Upload(b) \/ Reconcile(b)
  \/ ClosePage \/ MinutePasses \/ Crash

FilingSpec == FilingInit /\ [][FilingNext]_filingVars

-----------------------------------------------------------------------------
\* The guests a verified batch declares are exactly those the portal took with
\* it whose links are still there, through exports that crash or lose a link
\* between file, batch and entries.  Where another export of the same minute
\* took the file's name the portal may have as many rows of other guests, and
\* only the rows the batch was made of can be promised.
DeclaredIsWhatWasFiled ==
  \A b \in Batches : Verified(b) =>
    LET filed == IF batch[b].path \in reused THEN wrote[b] ELSE counted[b]
    IN EntriesOf(b) = {l \in {r.link : r \in filed} : link[l] # None}

\* Once it is with the police, an identity is the evidence of what was filed
\* and is not rewritten behind their back (the comment on insert_identity).
EvidenceIsWhatWasFiled ==
  \A b \in Batches : Verified(b) =>
    \A r \in wrote[b] : r.link \in EntriesOf(b) => r.data = RowOf(r.link).data

=============================================================================
