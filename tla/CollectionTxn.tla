--------------------------- MODULE CollectionTxn ---------------------------
(***************************************************************************)
(* The collection handlers as PostgreSQL runs them: READ COMMITTED         *)
(* transactions that lock rows (SELECT ... FOR UPDATE), tables (LOCK TABLE *)
(* ... IN SHARE ROW EXCLUSIVE MODE) and, with their first write to a       *)
(* table, that table in ROW EXCLUSIVE mode.                                *)
(*                                                                         *)
(* A lock is <<"row", id>> or <<"table", name>>.  A request goes through   *)
(* the stages of its Plan, one locking statement each, and ends with its   *)
(* writes.  A writer waits only for a table lock of somebody else and for  *)
(* nothing after that, so its writes and its commit are one step.  An      *)
(* insert that meets a committed row of the same tuple raises              *)
(* IntegrityError.                                                         *)
(***************************************************************************)
EXTENDS Collection, Sequences

CONSTANTS
  Txns,  \* database connections, each serving one request at a time
  Ops    \* the handlers that requests may ask for

ASSUME LockOrderAssumption == Ids \subseteq Nat   \* rows are locked in this order

VARIABLE txn

txnVars == <<row, preview, used, txn>>

EditOps == {"update_item", "price_item", "delete_item"}
AllOps == EditOps \cup {"create_item", "create_preview", "confirm_preview", "cancel_preview"}

ASSUME OpsAssumption == Ops \subseteq AllOps

NoRequest == [op |-> "idle"]
Idle == [req |-> NoRequest, stage |-> 0, todo |-> {}, held |-> {}, saw |-> NoneOf,
         retried |-> FALSE]

Busy(t) == txn[t].req # NoRequest

TxnInit == Init /\ txn = [t \in Txns |-> Idle]

-----------------------------------------------------------------------------
(* Requests and their statements.                                          *)

Request(op, key, rev, want, n) == [op |-> op, key |-> key, rev |-> rev, want |-> want, qty |-> n]

\* What clients may ask for now: they name rows they have seen, with the revision
\* that the row had then.  The time of an upload is the time it arrived, so it knows
\* the previews that had expired by then.
Requests ==
  LET Naming(op) == {Request(op, i, row[i].rev, row[i].tuple, 0) : i \in Live}
      Editable == {i \in Live : row[i].rev < MaxRevision}
      OnPreview(op) == {Request(op, p, 0, NoValue, 0) : p \in OpenPreviews}
  IN {q \in {Request("create_item", 0, 0, t, n) : t \in Tuples, n \in Amounts}
            \cup (UNION {{Request("update_item", i, row[i].rev, <<row[i].tuple[1], v>>, n) :
                            v \in Variants, n \in Amounts \cup {row[i].qty}} : i \in Editable})
            \cup {q \in Naming("price_item") : q.key \in Editable}
            \cup Naming("delete_item")
            \cup {Request("create_preview", s, 0, ExpiredPreviews, 0) : s \in Sources}
            \cup OnPreview("confirm_preview") \cup OnPreview("cancel_preview") : q.op \in Ops}

\* Mutant: the confirmation does not lock the table.
ConfirmPlanUnlocked == <<"named_preview", "all_rows">>

ConfirmPlan == <<"named_preview", "lock_items", "all_rows">>

\* Mutant: the preview does not lock its table.
CreatePreviewPlanUnlocked == <<"expired_previews", "open_preview", "lock_items">>

CreatePreviewPlan == <<"lock_previews", "expired_previews", "open_preview", "lock_items">>

\* The statements of a handler that lock.
Plan(op) ==
  CASE op = "create_item" -> <<"tuple_rows">>
    [] op = "update_item" -> <<"printing_rows">>
    [] op \in {"price_item", "delete_item"} -> <<"named_row">>
    [] op = "create_preview" -> CreatePreviewPlan
    [] op = "confirm_preview" -> ConfirmPlan
    [] op = "cancel_preview" -> <<"named_preview">>
    [] OTHER -> << >>

\* The tables it writes when the statements are done.
Written(op) ==
  CASE op \in EditOps \cup {"create_item"} -> {"items"}
    [] op \in {"create_preview", "cancel_preview"} -> {"previews"}
    [] op = "confirm_preview" -> {"items", "previews"}
    [] OTHER -> {}

Rows(S) == {<<"row", i>> : i \in S}

\* The locks a statement asks for, given the rows that match it now.
Wanted(q, statement) ==
  CASE statement = "tuple_rows" -> Rows(Having(row, q.want))
    [] statement = "printing_rows" -> Rows({i \in Live : row[i].tuple[1] = q.want[1]})
    [] statement = "named_row" -> Rows({q.key} \cap Live)
    [] statement = "all_rows" -> Rows(Live)
    [] statement = "named_preview" -> Rows({q.key} \cap DOMAIN preview)
    [] statement = "expired_previews" -> Rows(q.want \cap ExpiredPreviews)
    [] statement = "open_preview" -> Rows(Superseded(q.key))
    [] statement = "lock_items" -> {<<"table", "items">>}
    [] statement = "lock_previews" -> {<<"table", "previews">>}

HeldBy(S) == UNION {txn[u].held : u \in S}
LockedByOther(t, lock) == lock \in HeldBy(Txns \ {t})

\* Mutant: the statements that lock several rows have no ORDER BY.
FirstUnordered(locks) == locks

\* Item rows are locked in the order of their ids.
First(locks) ==
  {l \in locks : l[1] = "row" /\ l[2] \in Ids => \A k \in locks : l[2] <= k[2]}

-----------------------------------------------------------------------------
(* Checks, on what a transaction x has read so far.                        *)

Saw(x) == DOMAIN x.saw
SawRows(x) == Restrict(x.saw, Saw(x) \cap Ids)
SawPreview(x) == x.saw[x.req.key]
Done(x) == x.req # NoRequest /\ x.stage > Len(Plan(x.req.op))

\* Mutant: the revision the client quotes is not compared.
EditAllowedUnread(x) ==
  /\ x.req.key \in Saw(x)
  /\ x.req.op = "update_item" => Having(SawRows(x), x.req.want) \subseteq {x.req.key}

EditAllowed(x) ==
  /\ x.req.key \in Saw(x)
  /\ x.saw[x.req.key].rev = x.req.rev
  /\ x.req.op = "update_item" => Having(SawRows(x), x.req.want) \subseteq {x.req.key}

\* A second attempt to add copies only increments.
CreateAllowed(x) ==
  /\ \A i \in Saw(x) : x.saw[i].qty + x.req.qty <= MaxQuantity /\ x.saw[i].rev < MaxRevision
  /\ x.retried => Saw(x) # {}

PreviewAllowed(x) ==
  /\ x.req.key \in Saw(x)
  /\ SawPreview(x).status # "confirmed"
  /\ x.req.op = "confirm_preview" =>
       SawPreview(x).status = "open" /\ ~HasErrors(SawPreview(x).entries)

DigestAllowed(x) ==
  /\ Digest(SawRows(x)) = SawPreview(x).digest
  /\ CanApply(SawRows(x), Csv[SawPreview(x).source])

\* The checks of a handler, each made as soon as the statement it reads from is done.
Allowed(x) ==
  /\ x.stage > 1 /\ x.req.op \in EditOps => EditAllowed(x)
  /\ x.stage > 1 /\ x.req.op = "create_item" => CreateAllowed(x)
  /\ x.stage > 1 /\ x.req.op \in {"confirm_preview", "cancel_preview"} => PreviewAllowed(x)
  /\ Done(x) /\ x.req.op = "confirm_preview" => DigestAllowed(x)

\* The rows that the unique index holds against the write.
Duplicates(x) ==
  IF x.req.op \in {"create_item", "update_item"} THEN Having(row, x.req.want) \ Saw(x) ELSE {}

-----------------------------------------------------------------------------
(* The life of a transaction before its commit.                            *)

Begin(t) ==
  /\ ~Busy(t)
  /\ \E q \in Requests : txn' = [txn EXCEPT ![t] = [Idle EXCEPT !.req = q, !.stage = 1]]
  /\ UNCHANGED collectionVars

Statement(x) == Plan(x.req.op)[x.stage]

\* A statement that names its row or table waits for that one; any other finds the
\* rows that match when it starts, and waits for these.
Targets(x) ==
  IF Done(x) THEN {<<"table", name>> : name \in Written(x.req.op)}
  ELSE IF Statement(x) \in {"tuple_rows", "printing_rows", "all_rows", "expired_previews"}
  THEN x.todo ELSE Wanted(x.req, Statement(x))

\* A handler goes on, or answers 404, 409, 410 or 422 and rolls back.
Proceed(t, x) ==
  /\ txn' = [txn EXCEPT ![t] = IF Allowed(x) THEN x ELSE Idle]
  /\ UNCHANGED collectionVars

\* A statement starts that matches several rows, or none.
Look(t) ==
  LET x == txn[t] IN
  /\ Busy(t) /\ ~Done(x)
  /\ Targets(x) = {}
  /\ LET wanted == Wanted(x.req, Statement(x)) IN
     Proceed(t, [x EXCEPT !.todo = wanted, !.stage = IF wanted = {} THEN @ + 1 ELSE @])

Exists(l) == l[1] # "row" \/ l[2] \in Live \cup DOMAIN preview
Current(i) == IF i \in Live THEN row[i] ELSE preview[i]

\* A row that was locked after a wait is matched again as it is now: a row deleted
\* meanwhile is skipped, one that no longer matches stays locked and is not returned.
Take(t) ==
  LET x == txn[t] IN
  /\ Busy(t) /\ ~Done(x)
  /\ \E l \in First(Targets(x)) :
       LET rest == Targets(x) \ {l}
           returned == l[1] = "row" /\ l \in Wanted(x.req, Statement(x))
       IN /\ ~LockedByOther(t, l)
          /\ Proceed(t, [x EXCEPT
               !.todo = rest,
               !.stage = IF rest = {} THEN @ + 1 ELSE @,
               !.held = IF Exists(l) THEN @ \cup {l} ELSE @,
               !.saw = IF returned
                       THEN [i \in DOMAIN @ \cup {l[2]} |-> IF i = l[2] THEN Current(i) ELSE @[i]]
                       ELSE @])

\* An insert of copies that meets a new row of the same tuple rolls back and is
\* tried once more, now as an increment.
Retry(t) ==
  LET x == txn[t] IN
  /\ Done(x) /\ x.req.op = "create_item"
  /\ Saw(x) = {} /\ Duplicates(x) # {}
  /\ txn' = [txn EXCEPT ![t] = [Idle EXCEPT !.req = x.req, !.stage = 1, !.retried = TRUE]]
  /\ UNCHANGED collectionVars

\* The variant was taken meanwhile, the catalog refuses the printing, the worker dies
\* or the connection drops.
Abandon(t) ==
  /\ Busy(t)
  /\ txn' = [txn EXCEPT ![t] = Idle]
  /\ UNCHANGED collectionVars

\* What a request waits for.
Needs(t) == IF ~Busy(t) THEN {} ELSE IF Done(txn[t]) THEN Targets(txn[t]) ELSE First(Targets(txn[t]))

Deadlocked(S) == S # {} /\ \A t \in S : Needs(t) \cap HeldBy(S \ {t}) # {}

\* The deadlock detector aborts one transaction of a cycle; the request ends in a 500.
AbortVictim(t) ==
  /\ \E S \in SUBSET Txns : t \in S /\ Deadlocked(S)
  /\ txn' = [txn EXCEPT ![t] = Idle]
  /\ UNCHANGED collectionVars

-----------------------------------------------------------------------------
(* Commits, written from what the transaction saw.                         *)

Ready(t, op) ==
  /\ txn[t].req.op = op /\ Done(txn[t])
  /\ \A lock \in Needs(t) : ~LockedByOther(t, lock)

Finish(t) == txn' = [txn EXCEPT ![t] = Idle]

Rewritten(changed) ==
  [i \in Live \cup DOMAIN changed |-> IF i \in DOMAIN changed THEN changed[i] ELSE row[i]]

CommitIncrement(t) ==
  LET q == txn[t].req IN
  /\ Ready(t, "create_item")
  /\ \E i \in Saw(txn[t]) : row' = Rewritten([j \in {i} |-> Revised(txn[t].saw[i], txn[t].saw[i].qty + q.qty)])
  /\ Finish(t)
  /\ UNCHANGED <<preview, used>>

CommitInsert(t) ==
  LET q == txn[t].req IN
  /\ Ready(t, "create_item")
  /\ Saw(txn[t]) = {} /\ Duplicates(txn[t]) = {}
  /\ \E i \in Ids \ used : /\ row' = Rewritten([j \in {i} |-> NewRow(q.want, q.qty)])
                           /\ used' = used \cup {i}
  /\ Finish(t)
  /\ UNCHANGED preview

CommitUpdateItem(t) ==
  LET q == txn[t].req IN
  /\ Ready(t, "update_item")
  /\ Duplicates(txn[t]) = {}
  /\ row' = Rewritten([i \in {q.key} |-> [Revised(txn[t].saw[i], q.qty) EXCEPT !.tuple = q.want]])
  /\ Finish(t)
  /\ UNCHANGED <<preview, used>>

CommitPriceItem(t) ==
  /\ Ready(t, "price_item")
  /\ row' = Rewritten([i \in {txn[t].req.key} |-> Revised(txn[t].saw[i], txn[t].saw[i].qty)])
  /\ Finish(t)
  /\ UNCHANGED <<preview, used>>

CommitDeleteItem(t) ==
  /\ Ready(t, "delete_item")
  /\ row' = Restrict(row, Live \ {txn[t].req.key})
  /\ Finish(t)
  /\ UNCHANGED <<preview, used>>

CommitCreatePreview(t) ==
  LET s == txn[t].req.key IN
  /\ Ready(t, "create_preview")
  /\ \E p \in PreviewIds \ used, unavailable \in SUBSET Unlisted :
       /\ preview' = [q \in (DOMAIN preview \ Saw(txn[t])) \cup {p} |->
                        IF q = p THEN [status |-> "open", source |-> s, digest |-> Digest(row),
                                       entries |-> Classified(row, s, unavailable)]
                        ELSE preview[q]]
       /\ used' = used \cup {p}
  /\ Finish(t)
  /\ UNCHANGED row

CommitConfirmPreview(t) ==
  LET csv == Csv[SawPreview(txn[t]).source] IN
  /\ Ready(t, "confirm_preview")
  /\ \E new \in Injection(Additions(SawRows(txn[t]), csv), Ids \ used) :
       /\ row' = Rewritten(Applied(SawRows(txn[t]), csv, new))
       /\ used' = used \cup Range(new)
  /\ preview' = [preview EXCEPT ![txn[t].req.key] = Settled(@)]
  /\ Finish(t)

CommitCancelPreview(t) ==
  /\ Ready(t, "cancel_preview")
  /\ preview' = Restrict(preview, DOMAIN preview \ {txn[t].req.key})
  /\ Finish(t)
  /\ UNCHANGED <<row, used>>

Commit(t) ==
  \/ CommitIncrement(t)
  \/ CommitInsert(t)
  \/ CommitUpdateItem(t)
  \/ CommitPriceItem(t)
  \/ CommitDeleteItem(t)
  \/ CommitCreatePreview(t)
  \/ CommitConfirmPreview(t)
  \/ CommitCancelPreview(t)

Time == \E p \in PreviewIds : Expire(p) /\ UNCHANGED txn

TxnNext ==
  \/ \E t \in Txns : \/ Begin(t) \/ Look(t) \/ Take(t)
                     \/ Retry(t) \/ Abandon(t) \/ AbortVictim(t)
                     \/ Commit(t)
  \/ Time

TxnSpec == TxnInit /\ [][TxnNext]_txnVars

-----------------------------------------------------------------------------
(* Properties.                                                             *)

\* A request names what its handler expects.
RequestOK(q) ==
  /\ q.op \in AllOps
  /\ q.op \in EditOps => q.key \in used \cap Ids /\ q.rev \in 1 .. MaxRevision
  /\ q.op \in {"update_item", "price_item"} => q.rev < MaxRevision
  /\ q.op \in {"create_item", "update_item"} => q.want \in Tuples
  /\ q.op = "create_item" => q.qty \in Amounts
  /\ q.op = "create_preview" => q.key \in Sources
  /\ q.op \in {"confirm_preview", "cancel_preview"} => q.key \in PreviewIds

Formed(x) ==
  /\ x = [req |-> x.req, stage |-> x.stage, todo |-> x.todo, held |-> x.held, saw |-> x.saw,
          retried |-> x.retried]
  /\ RequestOK(x.req)
  /\ x.stage \in 1 .. Len(Plan(x.req.op)) + 1
  /\ x.saw = [i \in Saw(x) |-> x.saw[i]]

\* What a request has read of a row it holds is what the table has, but for the time.
ReadsCurrent(x) ==
  \A i \in Saw(x) :
    /\ <<"row", i>> \in x.held
    /\ i \in Live \/ i \in DOMAIN preview
    /\ i \in Live => x.saw[i] = row[i]
    /\ i \in DOMAIN preview =>
         \/ x.saw[i] = preview[i]
         \/ preview[i].status = "expired" /\ x.saw[i] = [preview[i] EXCEPT !.status = "open"]

\* A request on items locks item rows, upwards, and returns those of its card or of
\* its printing.
ItemReads(x) ==
  LET q == x.req IN
  /\ x.held \cup x.todo \subseteq Rows(Ids)
  /\ \A h \in x.held, l \in x.todo : h[2] < l[2]
  /\ x.stage = 1 /\ x.todo = {} => x.held = {}
  /\ q.op \in {"price_item", "delete_item"} => x.todo = {}
  /\ q.op = "create_item" => \A i \in Saw(x) : x.saw[i].tuple = q.want
  /\ q.op = "update_item" => \A i \in Saw(x) : x.saw[i].tuple[1] = q.want[1]

\* A revision stands for one quantity of a row.
QuotedQuantity(q) ==
  q.key \in Live =>
    /\ q.rev <= row[q.key].rev
    /\ q.rev = row[q.key].rev => q.qty \in Amounts \cup {row[q.key].qty}

\* A preview holds its table before it reads: it has returned previews that are
\* expired or of its document, and all of its document when it goes on.
PreviewReads(x) ==
  /\ x.held \subseteq Rows(PreviewIds) \cup {<<"table", "previews">>, <<"table", "items">>}
  /\ IF x.stage = 1 THEN x.held = {} ELSE <<"table", "previews">> \in x.held
  /\ x.stage >= 5 <=> <<"table", "items">> \in x.held
  /\ x.todo \subseteq Rows(PreviewIds)
  /\ Saw(x) \subseteq ExpiredPreviews \cup Superseded(x.req.key)
  /\ x.stage >= 4 => Superseded(x.req.key) \subseteq Saw(x)

\* A confirmation holds the table before it reads the items, and then reads all.
ConfirmReads(x) ==
  /\ x.held \subseteq Rows(Ids \cup {x.req.key}) \cup {<<"table", "items">>}
  /\ x.stage = 1 => x.held = {}
  /\ x.stage >= 3 <=> <<"table", "items">> \in x.held
  /\ x.todo \subseteq Rows(Ids) /\ (x.stage <= 2 => x.todo = {})
  /\ x.todo # {} => Rows(Live) \subseteq Rows(Saw(x)) \cup x.todo
  /\ x.stage >= 4 => Live \subseteq Saw(x)

CancelReads(x) ==
  /\ x.held \subseteq Rows({x.req.key})
  /\ x.stage = 1 => x.held = {}

Sound(x) ==
  LET op == x.req.op IN
  /\ Formed(x) /\ Allowed(x) /\ ReadsCurrent(x)
  /\ op \in EditOps \cup {"create_item"} => ItemReads(x)
  /\ op = "update_item" => QuotedQuantity(x.req)
  /\ op = "create_preview" => PreviewReads(x)
  /\ op = "confirm_preview" => ConfirmReads(x)
  /\ op = "cancel_preview" => CancelReads(x)

\* What a request has read and checked still holds when it writes: two requests never
\* hold the same lock, what a request has read of a row is what the table has, an
\* import that has read its table has read all of it, and rows are locked upwards.
TxnInv ==
  /\ TypeOK
  /\ txn = [t \in Txns |-> txn[t]]
  /\ \A t, u \in Txns : t # u => txn[t].held \cap txn[u].held = {}
  /\ \A t \in Txns : IF Busy(t) THEN Sound(txn[t]) ELSE txn[t] = Idle

\* The refinement mapping: the committed rows, whatever the transactions hold.
Rules == INSTANCE Collection WITH
  Ids <- Ids, Printings <- Printings, Variants <- Variants, PreviewIds <- PreviewIds, Sources <- Sources,
  Csv <- Csv, Unlisted <- Unlisted, Amounts <- Amounts, MaxQuantity <- MaxQuantity, MaxRevision <- MaxRevision,
  row <- row, preview <- preview, used <- used

\* The handlers, interleaved statement by statement, do only what the rules of
\* Collection allow as single steps: a confirmation applies its rows to exactly
\* the collection it compared with the digest, two requests never add the same
\* card twice, and a second preview of a document replaces the first.
\* It is Rules!Spec, with the stuttering steps told apart first.
ImplementsCollection == Rules!Init /\ [][collectionVars' # collectionVars => Rules!Next]_txnVars

\* An edit overwrites the very revision its client has seen, however long it waited
\* for the locks of the row.
NoLostEdit ==
  [][\A t \in Txns :
       txn[t].req.op \in EditOps /\ txn'[t] = Idle /\ row' # row =>
         row[txn[t].req.key].rev = txn[t].req.rev]_txnVars

\* Two requests of a deadlock: a preview that has the previews and waits for the items,
\* and a confirmation that has the items and waits for the previews.
TablesCrossed(t, u) ==
  /\ <<"table", "previews">> \in txn[t].held /\ <<"table", "items">> \in Needs(t)
  /\ <<"table", "items">> \in txn[u].held /\ <<"table", "previews">> \in Needs(u)

\* Edits of a collection never deadlock among themselves ("inverse tuple changes
\* serialize instead of deadlocking", routers/collection.py:516): in every cycle an
\* import holds a whole table and waits for a row of a request that has yet to write,
\* or a preview and a confirmation hold the two tables crosswise.
DeadlockNeedsTableLock ==
  \A S \in SUBSET Txns : Deadlocked(S) =>
    \/ \E t \in S : \E table \in txn[t].held, r \in Needs(t) \cap HeldBy(S \ {t}) :
         table[1] = "table" /\ r[1] = "row"
    \/ \E t, u \in S : TablesCrossed(t, u)

=============================================================================
