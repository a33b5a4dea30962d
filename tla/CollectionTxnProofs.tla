------------------------ MODULE CollectionTxnProofs ------------------------
(***************************************************************************)
(* Proofs about the collection handlers as interleaved transactions, for   *)
(* any number of connections and any collection: they implement the rules  *)
(* of Collection, lose no edit, and deadlock only around the table locks   *)
(* of imports.                                                             *)
(***************************************************************************)
EXTENDS CollectionTxn, CollectionProofs, FiniteSetTheorems

ItemRequests == EditOps \cup {"create_item"}

-----------------------------------------------------------------------------
(* Plans.                                                                  *)

\* The locking statements of each handler.
LEMMA Plans ==
  /\ Plan("create_item") = <<"tuple_rows">>
  /\ Plan("update_item") = <<"printing_rows">>
  /\ Plan("price_item") = <<"named_row">>
  /\ Plan("delete_item") = <<"named_row">>
  /\ Plan("create_preview") = <<"lock_previews", "expired_previews", "open_preview", "lock_items">>
  /\ Plan("confirm_preview") = <<"named_preview", "lock_items", "all_rows">>
  /\ Plan("cancel_preview") = <<"named_preview">>
BY DEF Plan, EditOps, ConfirmPlan, CreatePreviewPlan

\* How many statements they are.
LEMMA PlanLength ==
  ASSUME NEW op \in AllOps
  PROVE  /\ op = "create_preview" => Len(Plan(op)) = 4
         /\ op = "confirm_preview" => Len(Plan(op)) = 3
         /\ op \notin {"create_preview", "confirm_preview"} => Len(Plan(op)) = 1
         /\ Len(Plan(op)) \in 1 .. 4
<1>1. Len(<<"tuple_rows">>) = 1 /\ Len(<<"printing_rows">>) = 1 /\ Len(<<"named_row">>) = 1
      /\ Len(<<"named_preview">>) = 1
  OBVIOUS
<1>2. Len(<<"lock_previews", "expired_previews", "open_preview", "lock_items">>) = 4
  OBVIOUS
<1>3. Len(<<"named_preview", "lock_items", "all_rows">>) = 3
  OBVIOUS
<1>4. CASE op = "create_preview"
  BY <1>2, <1>4, Plans
<1>5. CASE op = "confirm_preview"
  BY <1>3, <1>5, Plans
<1>6. CASE op \notin {"create_preview", "confirm_preview"}
  BY <1>1, <1>6, Plans DEF AllOps, EditOps
<1>7. QED
  BY <1>4, <1>5, <1>6

-----------------------------------------------------------------------------
(* Sound requests.                                                         *)

\* Nobody disturbs a sound request by leaving the tables alone.
LEMMA SoundUnchanged ==
  ASSUME UNCHANGED collectionVars, NEW x, Sound(x)
  PROVE  Sound(x)'
BY DEF Sound, Formed, RequestOK, ReadsCurrent, ItemReads, QuotedQuantity, PreviewReads, ConfirmReads,
       CancelReads, collectionVars, Live, ExpiredPreviews, Superseded, OpenPreviews

\* A request takes its next step, or starts: what it locks is free.
LEMMA MoveKeepsInv ==
  ASSUME TxnInv, UNCHANGED collectionVars, NEW t \in Txns, NEW x, Sound(x),
         txn' = [txn EXCEPT ![t] = x], \A l \in x.held \ txn[t].held : ~LockedByOther(t, l)
  PROVE  TxnInv'
<1>1. txn' = [u \in Txns |-> IF u = t THEN x ELSE txn[u]]
  BY DEF TxnInv
<1>2. TypeOK'
  BY DEF TxnInv, TypeOK, collectionVars, Live
<1>3. ASSUME NEW u \in Txns, NEW v \in Txns, u # v PROVE txn'[u].held \cap txn'[v].held = {}
  <2>1. ASSUME NEW w \in Txns, w # t PROVE x.held \cap txn[w].held = {}
    <3>1. txn[t].held \cap txn[w].held = {}
      BY <2>1 DEF TxnInv
    <3>2. QED
      BY <2>1, <3>1 DEF LockedByOther, HeldBy
  <2>2. QED
    BY <1>1, <1>3, <2>1 DEF TxnInv
<1>4. ASSUME NEW u \in Txns PROVE IF Busy(u)' THEN Sound(txn[u])' ELSE txn'[u] = Idle
  <2>1. CASE u = t
    <3>1. Sound(txn[u])'
      BY <1>1, <2>1, SoundUnchanged
    <3>2. Busy(u)'
      BY <1>1, <2>1 DEF Busy, Sound, Formed, RequestOK, NoRequest, AllOps, EditOps
    <3>3. QED
      BY <3>1, <3>2
  <2>2. CASE u # t
    <3>1. txn'[u] = txn[u]
      BY <1>1, <2>2
    <3>2. Sound(txn[u]) => Sound(txn[u])'
      BY <3>1, SoundUnchanged
    <3>3. QED
      BY <3>1, <3>2 DEF TxnInv, Busy
  <2>3. QED
    BY <2>1, <2>2
<1>5. QED
  BY <1>1, <1>2, <1>3, <1>4 DEF TxnInv

\* A request that is over gives up its locks.
LEMMA EndKeepsInv ==
  ASSUME TxnInv, UNCHANGED collectionVars, NEW t \in Txns, txn' = [txn EXCEPT ![t] = Idle]
  PROVE  TxnInv'
<1>1. txn' = [u \in Txns |-> IF u = t THEN Idle ELSE txn[u]]
  BY DEF TxnInv
<1>2. TypeOK'
  BY DEF TxnInv, TypeOK, collectionVars, Live
<1>3. ASSUME NEW u \in Txns, NEW v \in Txns, u # v PROVE txn'[u].held \cap txn'[v].held = {}
  BY <1>1, <1>3 DEF TxnInv, Idle
<1>4. ASSUME NEW u \in Txns PROVE IF Busy(u)' THEN Sound(txn[u])' ELSE txn'[u] = Idle
  <2>1. CASE u = t
    BY <1>1, <2>1 DEF Busy, Idle
  <2>2. CASE u # t
    <3>1. txn'[u] = txn[u]
      BY <1>1, <2>2
    <3>2. Sound(txn[u]) => Sound(txn[u])'
      BY <3>1, SoundUnchanged
    <3>3. QED
      BY <3>1, <3>2 DEF TxnInv, Busy
  <2>3. QED
    BY <2>1, <2>2
<1>5. QED
  BY <1>1, <1>2, <1>3, <1>4 DEF TxnInv

\* Where a request is in its plan, by its handler.
LEMMA Statements ==
  ASSUME NEW x, Formed(x)
  PROVE  LET op == x.req.op IN
         /\ x.req # NoRequest
         /\ Done(x) <=> x.stage = Len(Plan(op)) + 1
         /\ ~Done(x) =>
              /\ x.stage \in 1 .. Len(Plan(op))
              /\ op = "create_item" => Statement(x) = "tuple_rows" /\ x.stage = 1
              /\ op = "update_item" => Statement(x) = "printing_rows" /\ x.stage = 1
              /\ op \in {"price_item", "delete_item"} => Statement(x) = "named_row" /\ x.stage = 1
              /\ op = "create_preview" =>
                   <<x.stage, Statement(x)>> \in {<<1, "lock_previews">>, <<2, "expired_previews">>,
                                                  <<3, "open_preview">>, <<4, "lock_items">>}
              /\ op = "confirm_preview" =>
                   <<x.stage, Statement(x)>> \in {<<1, "named_preview">>, <<2, "lock_items">>, <<3, "all_rows">>}
              /\ op = "cancel_preview" => Statement(x) = "named_preview" /\ x.stage = 1
<1> DEFINE op == x.req.op
<1>1. op \in AllOps /\ x.stage \in 1 .. Len(Plan(op)) + 1
  BY DEF Formed, RequestOK
<1>2. x.req # NoRequest
  BY <1>1 DEF NoRequest, AllOps, EditOps
<1>3. Done(x) <=> x.stage = Len(Plan(op)) + 1
  BY <1>1, <1>2, PlanLength DEF Done
<1>4. ASSUME ~Done(x) PROVE x.stage \in 1 .. Len(Plan(op))
  BY <1>1, <1>3, <1>4, PlanLength
<1>5. ASSUME ~Done(x), op \notin {"create_preview", "confirm_preview"} PROVE x.stage = 1
  <2>1. Len(Plan(op)) = 1
    BY <1>1, <1>5, PlanLength
  <2>2. QED
    BY <1>4, <1>5, <2>1
<1>6. ASSUME ~Done(x), op = "create_preview" PROVE x.stage \in 1 .. 4
  <2>1. Len(Plan(op)) = 4
    BY <1>1, <1>6, PlanLength
  <2>2. QED
    BY <1>4, <1>6, <2>1
<1>7. ASSUME ~Done(x), op = "confirm_preview" PROVE x.stage \in 1 .. 3
  <2>1. Len(Plan(op)) = 3
    BY <1>1, <1>7, PlanLength
  <2>2. QED
    BY <1>4, <1>7, <2>1
<1>8. ASSUME ~Done(x), op \notin {"create_preview", "confirm_preview"}
      PROVE  /\ op = "create_item" => Statement(x) = "tuple_rows"
             /\ op = "update_item" => Statement(x) = "printing_rows"
             /\ op \in {"price_item", "delete_item"} => Statement(x) = "named_row"
             /\ op = "cancel_preview" => Statement(x) = "named_preview"
  BY <1>5, <1>8, Plans DEF Statement
<1>9. ASSUME ~Done(x), op = "create_preview"
      PROVE  <<x.stage, Statement(x)>> \in {<<1, "lock_previews">>, <<2, "expired_previews">>,
                                            <<3, "open_preview">>, <<4, "lock_items">>}
  <2>1. Statement(x) = <<"lock_previews", "expired_previews", "open_preview", "lock_items">>[x.stage]
    BY <1>9, Plans DEF Statement
  <2>2. QED
    BY <1>6, <1>9, <2>1
<1>10. ASSUME ~Done(x), op = "confirm_preview"
       PROVE  <<x.stage, Statement(x)>> \in {<<1, "named_preview">>, <<2, "lock_items">>, <<3, "all_rows">>}
  <2>1. Statement(x) = <<"named_preview", "lock_items", "all_rows">>[x.stage]
    BY <1>10, Plans DEF Statement
  <2>2. QED
    BY <1>7, <1>10, <2>1
<1>11. QED
  BY <1>2, <1>3, <1>4, <1>5, <1>8, <1>9, <1>10

-----------------------------------------------------------------------------
(* Requests start and end.                                                 *)

\* A client names what it has seen.
LEMMA RequestFacts ==
  ASSUME TypeOK, NEW q \in Requests
  PROVE  RequestOK(q) /\ (q.op = "update_item" => QuotedQuantity(q))
<1>1. \A i \in Live : /\ i \in used \cap Ids /\ row[i].rev \in 1 .. MaxRevision /\ row[i].qty \in Quantity
                      /\ row[i].tuple \in Tuples
  BY DEF TypeOK, Row
<1>2. \A p \in OpenPreviews : p \in PreviewIds
  BY DEF TypeOK, OpenPreviews
<1>3. ASSUME NEW t \in Tuples, NEW n \in Amounts, q = Request("create_item", 0, 0, t, n)
      PROVE  RequestOK(q) /\ q.op # "update_item"
  BY <1>3 DEF Request, RequestOK, AllOps, EditOps
<1>4. ASSUME NEW i \in Live, row[i].rev < MaxRevision, NEW v \in Variants, NEW n \in Amounts \cup {row[i].qty},
             q = Request("update_item", i, row[i].rev, <<row[i].tuple[1], v>>, n)
      PROVE  RequestOK(q) /\ QuotedQuantity(q)
  <2>1. <<row[i].tuple[1], v>> \in Tuples
    BY <1>1 DEF Tuples
  <2>2. row[i].rev <= row[i].rev
    BY <1>1, BoundsAssumption
  <2>3. QED
    BY <1>1, <1>4, <2>1, <2>2 DEF Request, RequestOK, QuotedQuantity, AllOps, EditOps
<1>5. ASSUME NEW op \in {"price_item", "delete_item"}, NEW i \in Live,
             q = Request(op, i, row[i].rev, row[i].tuple, 0), op = "price_item" => row[i].rev < MaxRevision
      PROVE  RequestOK(q) /\ q.op # "update_item"
  BY <1>1, <1>5 DEF Request, RequestOK, AllOps, EditOps
<1>6. ASSUME NEW s \in Sources, q = Request("create_preview", s, 0, ExpiredPreviews, 0)
      PROVE  RequestOK(q) /\ q.op # "update_item"
  BY <1>6 DEF Request, RequestOK, AllOps, EditOps
<1>7. ASSUME NEW op \in {"confirm_preview", "cancel_preview"}, NEW p \in OpenPreviews,
             q = Request(op, p, 0, NoValue, 0)
      PROVE  RequestOK(q) /\ q.op # "update_item"
  BY <1>2, <1>7 DEF Request, RequestOK, AllOps, EditOps
<1>8. \/ \E t \in Tuples, n \in Amounts : q = Request("create_item", 0, 0, t, n)
      \/ \E i \in Live : /\ row[i].rev < MaxRevision
                         /\ \E v \in Variants, n \in Amounts \cup {row[i].qty} :
                              q = Request("update_item", i, row[i].rev, <<row[i].tuple[1], v>>, n)
      \/ \E op \in {"price_item", "delete_item"}, i \in Live :
           q = Request(op, i, row[i].rev, row[i].tuple, 0) /\ (op = "price_item" => row[i].rev < MaxRevision)
      \/ \E s \in Sources : q = Request("create_preview", s, 0, ExpiredPreviews, 0)
      \/ \E op \in {"confirm_preview", "cancel_preview"}, p \in OpenPreviews : q = Request(op, p, 0, NoValue, 0)
  <2> DEFINE Naming(op) == {Request(op, i, row[i].rev, row[i].tuple, 0) : i \in Live}
             Editable == {i \in Live : row[i].rev < MaxRevision}
             OnPreview(op) == {Request(op, p, 0, NoValue, 0) : p \in OpenPreviews}
             Updates(i) == {Request("update_item", i, row[i].rev, <<row[i].tuple[1], v>>, n) :
                              v \in Variants, n \in Amounts \cup {row[i].qty}}
  <2>1. \/ q \in {Request("create_item", 0, 0, t, n) : t \in Tuples, n \in Amounts}
        \/ q \in UNION {Updates(i) : i \in Editable}
        \/ q \in Naming("price_item") /\ q.key \in Editable
        \/ q \in Naming("delete_item")
        \/ q \in {Request("create_preview", s, 0, ExpiredPreviews, 0) : s \in Sources}
        \/ q \in OnPreview("confirm_preview")
        \/ q \in OnPreview("cancel_preview")
    BY DEF Requests
  <2>2. CASE q \in UNION {Updates(i) : i \in Editable}
    <3>1. PICK i \in Editable : q \in Updates(i)
      BY <2>2
    <3>2. QED
      BY <3>1
  <2>3. CASE q \in Naming("price_item") /\ q.key \in Editable
    <3>1. PICK i \in Live : q = Request("price_item", i, row[i].rev, row[i].tuple, 0)
      BY <2>3
    <3>2. q.key = i
      BY <3>1 DEF Request
    <3>3. QED
      BY <2>3, <3>1, <3>2
  <2>4. CASE q \in Naming("delete_item")
    <3>1. PICK i \in Live : q = Request("delete_item", i, row[i].rev, row[i].tuple, 0)
      BY <2>4
    <3>2. QED
      BY <3>1
  <2>5. CASE q \in OnPreview("confirm_preview") \cup OnPreview("cancel_preview")
    BY <2>5
  <2>6. QED
    BY <2>1, <2>2, <2>3, <2>4, <2>5
<1>9. QED
  BY <1>3, <1>4, <1>5, <1>6, <1>7, <1>8

\* A request at its first statement.
Starting(x, q) ==
  /\ x = [req |-> x.req, stage |-> x.stage, todo |-> x.todo, held |-> x.held, saw |-> x.saw,
          retried |-> x.retried]
  /\ x.req = q /\ x.stage = 1 /\ x.todo = {} /\ x.held = {} /\ x.saw = NoneOf

\* A request starts from the idle transaction, for the first or for the second time.
LEMMA SetStart ==
  ASSUME NEW i, i = [req |-> i.req, stage |-> i.stage, todo |-> i.todo, held |-> i.held, saw |-> i.saw,
                     retried |-> i.retried],
         i.todo = {}, i.held = {}, i.saw = NoneOf,
         NEW q, NEW x,
         \/ x = [i EXCEPT !.req = q, !.stage = 1]
         \/ x = [i EXCEPT !.req = q, !.stage = 1, !.retried = TRUE]
  PROVE  Starting(x, q)
<1>1. CASE x = [i EXCEPT !.req = q, !.stage = 1]
  BY <1>1 DEF Starting
<1>2. CASE x = [i EXCEPT !.req = q, !.stage = 1, !.retried = TRUE]
  BY <1>2 DEF Starting
<1>3. QED
  BY <1>1, <1>2

\* How a request starts.
LEMMA Started ==
  ASSUME NEW q, NEW x,
         \/ x = [Idle EXCEPT !.req = q, !.stage = 1]
         \/ x = [Idle EXCEPT !.req = q, !.stage = 1, !.retried = TRUE]
  PROVE  Starting(x, q)
<1>1. /\ Idle = [req |-> Idle.req, stage |-> Idle.stage, todo |-> Idle.todo, held |-> Idle.held,
                 saw |-> Idle.saw, retried |-> Idle.retried]
      /\ Idle.todo = {} /\ Idle.held = {} /\ Idle.saw = NoneOf
  BY DEF Idle
<1>2. QED
  BY <1>1, SetStart

\* A request that has only started is sound.
LEMMA StartSound ==
  ASSUME NEW q, RequestOK(q), q.op = "update_item" => QuotedQuantity(q), NEW x, Starting(x, q)
  PROVE  Sound(x) /\ x.held = {}
<1>1. /\ x = [req |-> x.req, stage |-> x.stage, todo |-> x.todo, held |-> x.held, saw |-> x.saw,
              retried |-> x.retried]
      /\ x.req = q /\ x.stage = 1 /\ x.todo = {} /\ x.held = {} /\ x.saw = NoneOf
  BY DEF Starting
<1>2. Saw(x) = {} /\ x.saw = [i \in Saw(x) |-> x.saw[i]]
  BY <1>1 DEF Saw, NoneOf
<1>3. 1 \in 1 .. Len(Plan(q.op)) + 1 /\ Len(Plan(q.op)) >= 1
  <2>1. q.op \in AllOps
    BY DEF RequestOK
  <2>2. PICK n \in 1 .. 4 : n = Len(Plan(q.op))
    BY <2>1, PlanLength
  <2>3. 1 \in 1 .. n + 1 /\ n >= 1
    OBVIOUS
  <2>4. QED
    BY <2>2, <2>3
<1>4. Formed(x)
  BY <1>1, <1>2, <1>3 DEF Formed
<1>5. Allowed(x)
  BY <1>1, <1>3 DEF Allowed, Done
<1>6. ReadsCurrent(x)
  BY <1>2 DEF ReadsCurrent
<1>7. ItemReads(x) /\ CancelReads(x)
  BY <1>1, <1>2 DEF ItemReads, CancelReads
<1>8. PreviewReads(x) /\ ConfirmReads(x)
  BY <1>1, <1>2 DEF PreviewReads, ConfirmReads
<1>9. QED
  BY <1>1, <1>4, <1>5, <1>6, <1>7, <1>8 DEF Sound

\* A request begins.
LEMMA BeginKeepsInv ==
  ASSUME TxnInv, NEW t \in Txns, Begin(t)
  PROVE  TxnInv'
<1>1. PICK q \in Requests : txn' = [txn EXCEPT ![t] = [Idle EXCEPT !.req = q, !.stage = 1]]
  BY DEF Begin
<1>2. RequestOK(q) /\ (q.op = "update_item" => QuotedQuantity(q))
  BY RequestFacts DEF TxnInv
<1>3. PICK x : x = [Idle EXCEPT !.req = q, !.stage = 1]
  OBVIOUS
<1>4. Sound(x) /\ x.held = {}
  BY <1>2, <1>3, Started, StartSound
<1>5. txn' = [txn EXCEPT ![t] = x]
  BY <1>1, <1>3
<1>6. QED
  BY <1>4, <1>5, MoveKeepsInv DEF Begin

\* An insert that lost the race starts again.
LEMMA RetryKeepsInv ==
  ASSUME TxnInv, NEW t \in Txns, Retry(t)
  PROVE  TxnInv'
<1>1. PICK x : x = [Idle EXCEPT !.req = txn[t].req, !.stage = 1, !.retried = TRUE]
  OBVIOUS
<1>2. RequestOK(txn[t].req) /\ (txn[t].req.op = "update_item" => QuotedQuantity(txn[t].req))
  BY DEF TxnInv, Retry, Done, Busy, Sound, Formed
<1>3. Sound(x) /\ x.held = {}
  BY <1>1, <1>2, Started, StartSound
<1>4. txn' = [txn EXCEPT ![t] = [Idle EXCEPT !.req = txn[t].req, !.stage = 1, !.retried = TRUE]]
  BY DEF Retry
<1>5. txn' = [txn EXCEPT ![t] = x]
  BY <1>1, <1>4
<1>6. QED
  BY <1>3, <1>5, MoveKeepsInv DEF Retry

\* A request is given up.
LEMMA GivenUpKeepsInv ==
  ASSUME TxnInv, NEW t \in Txns, Abandon(t) \/ AbortVictim(t)
  PROVE  TxnInv'
BY EndKeepsInv DEF Abandon, AbortVictim

-----------------------------------------------------------------------------
(* Statements.                                                             *)

\* Row locks are row numbers.
LEMMA RowsOf ==
  ASSUME NEW S
  PROVE  /\ \A l \in Rows(S) : l = <<"row", l[2]>> /\ l[1] = "row" /\ l[2] \in S
         /\ \A i : <<"row", i>> \in Rows(S) <=> i \in S
         /\ Rows(S) = {} <=> S = {}
<1>1. ASSUME NEW l \in Rows(S) PROVE l = <<"row", l[2]>> /\ l[1] = "row" /\ l[2] \in S
  <2>1. PICK i \in S : l = <<"row", i>>
    BY DEF Rows
  <2>2. QED
    BY <2>1
<1>2. ASSUME NEW i, <<"row", i>> \in Rows(S) PROVE i \in S
  <2>1. PICK j \in S : <<"row", i>> = <<"row", j>>
    BY <1>2 DEF Rows
  <2>2. QED
    BY <2>1
<1>3. \A i \in S : <<"row", i>> \in Rows(S)
  BY DEF Rows
<1>4. QED
  BY <1>1, <1>2, <1>3

\* The locks of some rows are among the locks of more rows.
LEMMA RowsWithin ==
  ASSUME NEW S, NEW T, S \subseteq T
  PROVE  Rows(S) \subseteq Rows(T)
BY DEF Rows

\* What each statement asks for.
LEMMA WantedBy ==
  ASSUME NEW q
  PROVE  /\ Wanted(q, "tuple_rows") = Rows(Having(row, q.want))
         /\ Wanted(q, "printing_rows") = Rows({i \in Live : row[i].tuple[1] = q.want[1]})
         /\ Wanted(q, "named_row") = Rows({q.key} \cap Live)
         /\ Wanted(q, "all_rows") = Rows(Live)
         /\ Wanted(q, "named_preview") = Rows({q.key} \cap DOMAIN preview)
         /\ Wanted(q, "expired_previews") = Rows(q.want \cap ExpiredPreviews)
         /\ Wanted(q, "open_preview") = Rows(Superseded(q.key))
         /\ Wanted(q, "lock_items") = {<<"table", "items">>}
         /\ Wanted(q, "lock_previews") = {<<"table", "previews">>}
BY DEF Wanted

\* Which ids the rows of a statement have.
LEMMA RowIds ==
  ASSUME TypeOK
  PROVE  /\ Live \subseteq Ids /\ DOMAIN preview \subseteq PreviewIds
         /\ \A t : Having(row, t) \subseteq Live
         /\ ExpiredPreviews \subseteq DOMAIN preview
         /\ \A s : Superseded(s) \subseteq DOMAIN preview
BY DEF Having, Live, TypeOK, ExpiredPreviews, Superseded, OpenPreviews

\* What a request waits for before it is done.
LEMMA TargetsOf ==
  ASSUME NEW x, ~Done(x)
  PROVE  Targets(x) = IF Statement(x) \in {"tuple_rows", "printing_rows", "all_rows", "expired_previews"}
                      THEN x.todo ELSE Wanted(x.req, Statement(x))
BY DEF Targets

\* What the statements of a preview wait for, one after the other.
LEMMA PreviewAsks ==
  ASSUME NEW x, Formed(x), ~Done(x), x.req.op = "create_preview"
  PROVE  LET q == x.req
             wanted == Wanted(q, Statement(x))
         IN \/ x.stage = 1 /\ Targets(x) = {<<"table", "previews">>}
            \/ x.stage = 2 /\ Targets(x) = x.todo /\ wanted = Rows(q.want \cap ExpiredPreviews)
            \/ x.stage = 3 /\ Targets(x) = Rows(Superseded(q.key)) /\ wanted = Rows(Superseded(q.key))
            \/ x.stage = 4 /\ Targets(x) = {<<"table", "items">>}
<1>1. <<x.stage, Statement(x)>> \in {<<1, "lock_previews">>, <<2, "expired_previews">>,
                                    <<3, "open_preview">>, <<4, "lock_items">>}
  BY Statements
<1>2. CASE x.stage = 1 /\ Statement(x) = "lock_previews"
  BY <1>2, TargetsOf, WantedBy
<1>3. CASE x.stage = 2 /\ Statement(x) = "expired_previews"
  BY <1>3, TargetsOf, WantedBy
<1>4. CASE x.stage = 3 /\ Statement(x) = "open_preview"
  BY <1>4, TargetsOf, WantedBy
<1>5. CASE x.stage = 4 /\ Statement(x) = "lock_items"
  BY <1>5, TargetsOf, WantedBy
<1>6. QED
  BY <1>1, <1>2, <1>3, <1>4, <1>5

\* Those of a confirmation.
LEMMA ConfirmAsks ==
  ASSUME NEW x, Formed(x), ~Done(x), x.req.op = "confirm_preview"
  PROVE  LET q == x.req
             wanted == Wanted(q, Statement(x))
         IN \/ x.stage = 1 /\ Targets(x) = Rows({q.key} \cap DOMAIN preview) /\ wanted = Targets(x)
            \/ x.stage = 2 /\ Targets(x) = {<<"table", "items">>}
            \/ x.stage = 3 /\ Targets(x) = x.todo /\ wanted = Rows(Live)
<1>1. <<x.stage, Statement(x)>> \in {<<1, "named_preview">>, <<2, "lock_items">>, <<3, "all_rows">>}
  BY Statements
<1>2. CASE x.stage = 1 /\ Statement(x) = "named_preview"
  <2>1. Targets(x) = Wanted(x.req, Statement(x))
    BY <1>2, TargetsOf
  <2>2. Wanted(x.req, Statement(x)) = Rows({x.req.key} \cap DOMAIN preview)
    BY <1>2, WantedBy
  <2>3. QED
    BY <1>2, <2>1, <2>2
<1>3. CASE x.stage = 2 /\ Statement(x) = "lock_items"
  BY <1>3, TargetsOf, WantedBy
<1>4. CASE x.stage = 3 /\ Statement(x) = "all_rows"
  BY <1>4, TargetsOf, WantedBy
<1>5. QED
  BY <1>1, <1>2, <1>3, <1>4

\* A request with a new stage and list of locks to take.
Looked(x, y, w, s) ==
  /\ y = [req |-> y.req, stage |-> y.stage, todo |-> y.todo, held |-> y.held, saw |-> y.saw,
          retried |-> y.retried]
  /\ y.req = x.req /\ y.held = x.held /\ y.saw = x.saw /\ y.todo = w /\ y.stage = s

\* The step of a statement that begins.
LEMMA SetLooked ==
  ASSUME NEW x, x = [req |-> x.req, stage |-> x.stage, todo |-> x.todo, held |-> x.held, saw |-> x.saw,
                     retried |-> x.retried],
         NEW w, NEW s, NEW y, y = [x EXCEPT !.todo = w, !.stage = s]
  PROVE  Looked(x, y, w, s)
BY DEF Looked

\* A statement begins: every part of what the request knew still stands.
LEMMA LookSound ==
  ASSUME TypeOK, NEW x, Sound(x), ~Done(x), Targets(x) = {},
         NEW wanted, wanted = Wanted(x.req, Statement(x)), NEW s,
         s = IF wanted = {} THEN x.stage + 1 ELSE x.stage,
         NEW y, Looked(x, y, wanted, s), Allowed(y)
  PROVE  Sound(y)
<1> DEFINE op == x.req.op
<1>1. Formed(x) /\ ReadsCurrent(x)
  BY DEF Sound
<1>2. y.req = x.req /\ y.held = x.held /\ y.saw = x.saw /\ y.todo = wanted /\ y.stage = s /\ Saw(y) = Saw(x)
  BY DEF Looked, Saw
<1>3. op \in AllOps /\ x.stage \in 1 .. Len(Plan(op)) /\ Len(Plan(op)) \in 1 .. 4
  BY <1>1, Statements, PlanLength DEF Formed, RequestOK
<1>4. s \in 1 .. Len(Plan(op)) + 1 /\ s >= x.stage
  BY <1>3
<1>5. Formed(y)
  BY <1>1, <1>2, <1>4 DEF Formed, Looked
<1>6. ReadsCurrent(y)
  BY <1>1, <1>2 DEF ReadsCurrent
<1>7. ASSUME op \in ItemRequests PROVE ItemReads(y)
  <2>1. ItemReads(x) /\ x.stage = 1
    BY <1>1, <1>7, Statements DEF Sound, ItemRequests, EditOps
  <2>2. CASE op \in {"create_item", "update_item"}
    <3>1. x.todo = {}
      BY <1>1, <2>2, TargetsOf, Statements
    <3>2. x.held = {}
      BY <2>1, <3>1 DEF ItemReads
    <3>3. \/ wanted = Rows(Having(row, x.req.want))
          \/ wanted = Rows({i \in Live : row[i].tuple[1] = x.req.want[1]})
      BY <1>1, <2>2, Statements, WantedBy
    <3>4. wanted \subseteq Rows(Ids)
      <4>1. /\ Having(row, x.req.want) \subseteq Ids
            /\ {i \in Live : row[i].tuple[1] = x.req.want[1]} \subseteq Ids
        BY RowIds
      <4>2. QED
        BY <3>3, <4>1, RowsWithin
    <3>5. QED
      BY <1>2, <2>1, <2>2, <3>2, <3>4 DEF ItemReads
  <2>3. CASE op \in {"price_item", "delete_item"}
    <3>1. wanted = {}
      BY <1>1, <2>3, TargetsOf, Statements
    <3>2. QED
      BY <1>2, <1>3, <2>1, <2>3, <3>1 DEF ItemReads
  <2>4. QED
    BY <1>7, <2>2, <2>3 DEF ItemRequests, EditOps
<1>8. ASSUME op = "create_preview" PROVE PreviewReads(y)
  <2>1. PreviewReads(x)
    BY <1>8 DEF Sound
  <2>2. \/ x.stage = 2 /\ wanted = Rows(x.req.want \cap ExpiredPreviews)
        \/ x.stage = 3 /\ wanted = Rows(Superseded(x.req.key)) /\ wanted = {}
    BY <1>1, <1>8, PreviewAsks
  <2>3. CASE x.stage = 2 /\ wanted = Rows(x.req.want \cap ExpiredPreviews)
    <3>1. wanted \subseteq Rows(PreviewIds)
      BY <2>3, RowsOf, RowIds
    <3>2. s \in {2, 3}
      BY <2>3
    <3>3. <<"table", "previews">> \in x.held /\ <<"table", "items">> \notin x.held /\ y.stage \in {2, 3}
      BY <1>2, <2>1, <2>3, <3>2 DEF PreviewReads
    <3>4. QED
      BY <1>2, <2>1, <3>1, <3>3 DEF PreviewReads
  <2>4. CASE x.stage = 3 /\ wanted = Rows(Superseded(x.req.key)) /\ wanted = {}
    <3>1. Superseded(x.req.key) = {}
      BY <2>4, RowsOf
    <3>2. s = 4
      BY <2>4
    <3>3. QED
      BY <1>2, <2>1, <2>4, <3>1, <3>2 DEF PreviewReads
  <2>5. QED
    BY <2>2, <2>3, <2>4
<1>9. ASSUME op = "confirm_preview" PROVE ConfirmReads(y)
  <2>1. ConfirmReads(x)
    BY <1>9 DEF Sound
  <2>2. \/ x.stage = 1 /\ wanted = {}
        \/ x.stage = 3 /\ wanted = Rows(Live)
    BY <1>1, <1>9, ConfirmAsks
  <2>3. CASE x.stage = 1 /\ wanted = {}
    <3>1. s = 2
      BY <2>3
    <3>2. QED
      BY <1>2, <2>1, <2>3, <3>1 DEF ConfirmReads
  <2>4. CASE x.stage = 3 /\ wanted = Rows(Live)
    <3>1. wanted \subseteq Rows(Ids) /\ (wanted = {} => Live = {}) /\ s \in {3, 4} /\ (s = 4 => wanted = {})
      BY <2>4, RowsOf, RowIds
    <3>2. QED
      BY <1>2, <2>1, <2>4, <3>1 DEF ConfirmReads
  <2>5. QED
    BY <2>2, <2>3, <2>4
<1>10. ASSUME op = "cancel_preview" PROVE CancelReads(y)
  <2>1. x.held = {} /\ CancelReads(x)
    BY <1>1, <1>10, Statements DEF Sound, CancelReads
  <2>2. QED
    BY <1>2, <2>1 DEF CancelReads
<1>11. op = "update_item" => QuotedQuantity(y.req)
  BY <1>2 DEF Sound
<1>12. QED
  BY <1>2, <1>5, <1>6, <1>7, <1>8, <1>9, <1>10, <1>11 DEF Sound, ItemRequests

\* What a statement returns is a row of the tables.
LEMMA WantedRow ==
  ASSUME TypeOK, NEW x, Formed(x), ~Done(x), NEW l \in Wanted(x.req, Statement(x)), l[1] = "row"
  PROVE  l = <<"row", l[2]>> /\ l[2] \in Live \cup DOMAIN preview
<1> DEFINE q == x.req
           statement == Statement(x)
           printed == {i \in Live : row[i].tuple[1] = q.want[1]}
<1>1. statement \in {"tuple_rows", "printing_rows", "named_row", "all_rows", "named_preview",
                     "expired_previews", "open_preview", "lock_items", "lock_previews"}
  <2>1. q.op \in AllOps
    BY DEF Formed, RequestOK
  <2>2. CASE q.op = "create_preview"
    BY <2>2, Statements
  <2>3. CASE q.op = "confirm_preview"
    BY <2>3, Statements
  <2>4. CASE q.op \notin {"create_preview", "confirm_preview"}
    BY <2>1, <2>4, Statements DEF AllOps, EditOps
  <2>5. QED
    BY <2>2, <2>3, <2>4
<1>2. l \in Wanted(q, statement)
  OBVIOUS
<1> HIDE DEF statement
<1>3. CASE statement \in {"lock_items", "lock_previews"}
  <2>1. Wanted(q, "lock_items") = {<<"table", "items">>} /\ Wanted(q, "lock_previews") = {<<"table", "previews">>}
    BY WantedBy
  <2>2. l = <<"table", "items">> \/ l = <<"table", "previews">>
    BY <1>2, <1>3, <2>1
  <2>3. l[1] = "table"
    BY <2>2
  <2>4. QED
    BY <2>3
<1>4. CASE statement \in {"tuple_rows", "printing_rows", "named_row", "all_rows"}
  <2>1. Having(row, q.want) \subseteq Live /\ printed \subseteq Live /\ {q.key} \cap Live \subseteq Live
    BY RowIds
  <2>2. \/ l \in Rows(Having(row, q.want))
        \/ l \in Rows(printed)
        \/ l \in Rows({q.key} \cap Live)
        \/ l \in Rows(Live)
    BY <1>2, <1>4, WantedBy
  <2> HIDE DEF printed
  <2>3. l \in Rows(Live)
    BY <2>1, <2>2, RowsWithin
  <2>4. QED
    BY <2>3, RowsOf
<1>5. CASE statement \in {"named_preview", "expired_previews", "open_preview"}
  <2>1. /\ {q.key} \cap DOMAIN preview \subseteq DOMAIN preview
        /\ q.want \cap ExpiredPreviews \subseteq DOMAIN preview /\ Superseded(q.key) \subseteq DOMAIN preview
    BY RowIds
  <2>2. \/ l \in Rows({q.key} \cap DOMAIN preview)
        \/ l \in Rows(q.want \cap ExpiredPreviews)
        \/ l \in Rows(Superseded(q.key))
    BY <1>2, <1>5, WantedBy
  <2>3. l \in Rows(DOMAIN preview)
    BY <2>1, <2>2, RowsWithin
  <2>4. QED
    BY <2>3, RowsOf
<1>6. QED
  BY <1>1, <1>3, <1>4, <1>5

\* A request that has taken a lock: rest is left to take and s its stage.
Taken(x, y, l, rest, s) ==
  LET returned == l[1] = "row" /\ l \in Wanted(x.req, Statement(x)) IN
  /\ y = [req |-> y.req, stage |-> y.stage, todo |-> y.todo, held |-> y.held, saw |-> y.saw,
          retried |-> y.retried]
  /\ y.req = x.req /\ y.todo = rest /\ y.stage = s
  /\ y.held = IF Exists(l) THEN x.held \cup {l} ELSE x.held
  /\ y.saw = [i \in Saw(y) |-> y.saw[i]]
  /\ Saw(y) = IF returned THEN Saw(x) \cup {l[2]} ELSE Saw(x)
  /\ \A i \in Saw(y) : y.saw[i] = IF returned /\ i = l[2] THEN Current(i) ELSE x.saw[i]

\* What it read of the row it locked is what the table has.
LEMMA TakenCurrent ==
  ASSUME TypeOK, NEW x, Formed(x), ReadsCurrent(x), ~Done(x), NEW l, NEW rest, NEW s, NEW y,
         Taken(x, y, l, rest, s)
  PROVE  ReadsCurrent(y) /\ x.held \subseteq y.held /\ y.held \subseteq x.held \cup {l}
<1> DEFINE returned == l[1] = "row" /\ l \in Wanted(x.req, Statement(x))
<1>1. x.held \subseteq y.held /\ y.held \subseteq x.held \cup {l}
  BY DEF Taken
<1>2. Live \cap DOMAIN preview = {}
  BY RowIds, IdsAssumption
<1>3. ASSUME NEW i \in Saw(y), returned /\ i = l[2]
      PROVE  /\ <<"row", i>> \in y.held /\ i \in Live \cup DOMAIN preview /\ y.saw[i] = Current(i)
  <2>1. l = <<"row", l[2]>> /\ l[2] \in Live \cup DOMAIN preview
    BY <1>3, WantedRow
  <2>2. Exists(l)
    BY <2>1 DEF Exists
  <2>3. QED
    BY <1>3, <2>1, <2>2 DEF Taken
<1>4. ASSUME NEW i \in Saw(y), ~(returned /\ i = l[2]) PROVE i \in Saw(x) /\ y.saw[i] = x.saw[i]
  BY <1>4 DEF Taken
<1>5. QED
  BY <1>1, <1>2, <1>3, <1>4 DEF ReadsCurrent, Current

\* A request on items takes rows upwards.
LEMMA TakenItems ==
  ASSUME TypeOK, NEW x, Formed(x), ItemReads(x), x.req.op \in ItemRequests, ~Done(x),
         NEW l \in First(Targets(x)), NEW rest, rest = Targets(x) \ {l}, NEW s, s # 1 \/ rest # {},
         NEW y, Taken(x, y, l, rest, s)
  PROVE  ItemReads(y)
<1> DEFINE q == x.req
           returned == l[1] = "row" /\ l \in Wanted(x.req, Statement(x))
<1>1. /\ y.req = q /\ y.todo = rest /\ y.stage = s /\ y.held \subseteq x.held \cup {l}
      /\ Saw(y) = IF returned THEN Saw(x) \cup {l[2]} ELSE Saw(x)
      /\ \A i \in Saw(y) : y.saw[i] = IF returned /\ i = l[2] THEN Current(i) ELSE x.saw[i]
  BY DEF Taken
<1>2. /\ x.stage = 1 /\ x.held \cup x.todo \subseteq Rows(Ids)
      /\ \A h \in x.held, k \in x.todo : h[2] < k[2]
      /\ x.stage = 1 /\ x.todo = {} => x.held = {}
      /\ q.op \in {"price_item", "delete_item"} => x.todo = {}
      /\ q.op = "create_item" => \A i \in Saw(x) : x.saw[i].tuple = q.want
      /\ q.op = "update_item" => \A i \in Saw(x) : x.saw[i].tuple[1] = q.want[1]
  BY Statements DEF ItemReads, ItemRequests, EditOps
<1>3. CASE q.op \in {"create_item", "update_item"}
  <2>1. Targets(x) = x.todo
    BY <1>3, TargetsOf, Statements
  <2>2. l \in x.todo /\ l \in Rows(Ids)
    BY <1>2, <2>1 DEF First
  <2>3. l = <<"row", l[2]>> /\ l[1] = "row" /\ l[2] \in Ids
    BY <2>2, RowsOf
  <2>4. \A k \in x.todo : l[2] <= k[2]
    BY <2>1, <2>3 DEF First
  <2>5. \A k \in rest : l[2] < k[2]
    <3>1. TAKE k \in rest
    <3>2. k \in Rows(Ids) /\ k # l /\ l[2] <= k[2]
      BY <1>2, <2>1, <2>4
    <3>3. k = <<"row", k[2]>> /\ k[2] \in Ids
      BY <3>2, RowsOf
    <3>4. k[2] # l[2]
      BY <2>3, <3>2, <3>3
    <3>5. k[2] \in Nat /\ l[2] \in Nat
      BY <2>3, <3>3, LockOrderAssumption
    <3>6. QED
      BY <3>2, <3>4, <3>5
  <2>6. y.held \cup y.todo \subseteq Rows(Ids)
    BY <1>1, <1>2, <2>1, <2>2
  <2>7. \A h \in y.held, k \in y.todo : h[2] < k[2]
    BY <1>1, <1>2, <2>1, <2>5
  <2>8. returned => l[2] \in Live
    <3>1. HAVE returned
    <3>2. l \in Rows(Having(row, q.want)) \/ l \in Rows({i \in Live : row[i].tuple[1] = q.want[1]})
      BY <1>3, <3>1, Statements, WantedBy
    <3>3. l[2] \in Having(row, q.want) \/ l[2] \in {i \in Live : row[i].tuple[1] = q.want[1]}
      BY <3>2, RowsOf
    <3>4. QED
      BY <3>3, RowIds
  <2>9. ASSUME q.op = "create_item" PROVE \A i \in Saw(y) : y.saw[i].tuple = q.want
    <3>1. returned => l \in Rows(Having(row, q.want))
      BY <2>9, Statements, WantedBy
    <3>2. returned => l[2] \in Having(row, q.want)
      BY <3>1, RowsOf
    <3>3. returned => Current(l[2]).tuple = q.want
      BY <2>8, <3>2 DEF Having, Current
    <3>4. QED
      BY <1>1, <1>2, <2>9, <3>3
  <2>10. ASSUME q.op = "update_item" PROVE \A i \in Saw(y) : y.saw[i].tuple[1] = q.want[1]
    <3> DEFINE printed == {i \in Live : row[i].tuple[1] = q.want[1]}
    <3>1. returned => l \in Rows(printed)
      BY <2>10, Statements, WantedBy
    <3>2. returned => l[2] \in printed
      <4> HIDE DEF printed
      <4>1. QED
        BY <3>1, RowsOf
    <3>3. returned => Current(l[2]).tuple[1] = q.want[1]
      BY <2>8, <3>2 DEF Current
    <3>4. QED
      BY <1>1, <1>2, <2>10, <3>3
  <2>11. y.stage = 1 /\ y.todo = {} => y.held = {}
    BY <1>1
  <2>12. QED
    BY <1>1, <1>3, <2>6, <2>7, <2>9, <2>10, <2>11 DEF ItemReads
<1>4. CASE q.op \in {"price_item", "delete_item"}
  <2>1. x.held = {} /\ Targets(x) = Rows({q.key} \cap Live)
    <3>1. Statement(x) = "named_row" /\ x.stage = 1
      BY <1>4, Statements
    <3>2. Targets(x) = Wanted(q, "named_row")
      BY <3>1, TargetsOf
    <3>3. x.held = {}
      BY <1>2, <1>4, <3>1
    <3>4. QED
      BY <3>2, <3>3, WantedBy
  <2>2. l \in Rows({q.key} \cap Live)
    BY <2>1 DEF First
  <2>3. Targets(x) = {<<"row", q.key>>} /\ l = <<"row", q.key>> /\ q.key \in Live
    BY <2>1, <2>2 DEF Rows
  <2>4. rest = {} /\ l \in Rows(Ids)
    BY <2>3, RowIds DEF Rows
  <2>5. QED
    BY <1>1, <1>4, <2>1, <2>4 DEF ItemReads
<1>5. QED
  BY <1>3, <1>4 DEF ItemRequests, EditOps

\* A preview takes its table, then previews of its document or expired ones, then
\* the items.
LEMMA TakenPreview ==
  ASSUME TypeOK, NEW x, Formed(x), PreviewReads(x), x.req.op = "create_preview", ~Done(x),
         NEW l \in First(Targets(x)), NEW rest, rest = Targets(x) \ {l},
         NEW s, s = IF rest = {} THEN x.stage + 1 ELSE x.stage,
         NEW y, Taken(x, y, l, rest, s)
  PROVE  PreviewReads(y)
<1> DEFINE q == x.req
           returned == l[1] = "row" /\ l \in Wanted(x.req, Statement(x))
<1>1. /\ y.req = q /\ y.todo = rest /\ y.stage = s
      /\ y.held = IF Exists(l) THEN x.held \cup {l} ELSE x.held
      /\ Saw(y) = IF returned THEN Saw(x) \cup {l[2]} ELSE Saw(x)
  BY DEF Taken
<1>2. /\ x.held \subseteq Rows(PreviewIds) \cup {<<"table", "previews">>, <<"table", "items">>}
      /\ IF x.stage = 1 THEN x.held = {} ELSE <<"table", "previews">> \in x.held
      /\ x.stage >= 5 <=> <<"table", "items">> \in x.held
      /\ x.todo \subseteq Rows(PreviewIds)
      /\ Saw(x) \subseteq ExpiredPreviews \cup Superseded(q.key)
      /\ x.stage >= 4 => Superseded(q.key) \subseteq Saw(x)
  BY DEF PreviewReads
<1>3. l \in Targets(x)
  BY DEF First
<1>4. \/ x.stage = 1 /\ Targets(x) = {<<"table", "previews">>}
      \/ x.stage = 2 /\ Targets(x) = x.todo /\ Wanted(q, Statement(x)) = Rows(q.want \cap ExpiredPreviews)
      \/ x.stage = 3 /\ Targets(x) = Rows(Superseded(q.key)) /\ Wanted(q, Statement(x)) = Rows(Superseded(q.key))
      \/ x.stage = 4 /\ Targets(x) = {<<"table", "items">>}
  BY PreviewAsks
<1>5. ASSUME x.stage = 1, Targets(x) = {<<"table", "previews">>} PROVE PreviewReads(y)
  <2>1. l = <<"table", "previews">> /\ l[1] = "table" /\ rest = {} /\ s = 2
    BY <1>3, <1>5
  <2>2. Exists(l) /\ ~returned
    BY <2>1 DEF Exists
  <2>3. y.held = {<<"table", "previews">>} /\ <<"table", "previews">> # <<"table", "items">>
    BY <1>1, <1>2, <1>5, <2>1, <2>2
  <2>4. QED
    BY <1>1, <1>2, <2>1, <2>2, <2>3 DEF PreviewReads
<1>6. ASSUME x.stage = 2, Targets(x) = x.todo, Wanted(q, Statement(x)) = Rows(q.want \cap ExpiredPreviews)
      PROVE  PreviewReads(y)
  <2>1. l \in Rows(PreviewIds) /\ l # <<"table", "items">>
    BY <1>2, <1>3, <1>6, RowsOf
  <2>2. returned => l[2] \in ExpiredPreviews
    BY <1>6, RowsOf
  <2>3. s \in {2, 3} /\ rest \subseteq Rows(PreviewIds)
    BY <1>2, <1>6
  <2>4. <<"table", "items">> \in y.held <=> <<"table", "items">> \in x.held
    BY <1>1, <2>1
  <2>5. y.held \subseteq Rows(PreviewIds) \cup {<<"table", "previews">>, <<"table", "items">>}
        /\ <<"table", "previews">> \in y.held
    BY <1>1, <1>2, <1>6, <2>1
  <2>6. Saw(y) \subseteq ExpiredPreviews \cup Superseded(q.key)
    BY <1>1, <1>2, <2>2
  <2>7. y.stage \in {2, 3} /\ y.todo \subseteq Rows(PreviewIds) /\ <<"table", "items">> \notin y.held
    BY <1>1, <1>2, <1>6, <2>3, <2>4
  <2>8. QED
    BY <1>1, <2>5, <2>6, <2>7 DEF PreviewReads
<1>7. ASSUME x.stage = 3, Targets(x) = Rows(Superseded(q.key)),
             Wanted(q, Statement(x)) = Rows(Superseded(q.key))
      PROVE  PreviewReads(y)
  <2>1. l = <<"row", l[2]>> /\ l[1] = "row" /\ l[2] \in Superseded(q.key) /\ l # <<"table", "items">>
    BY <1>3, <1>7, RowsOf
  <2>2. rest \subseteq Rows(PreviewIds) /\ l \in Rows(PreviewIds)
    BY <1>3, <1>7, RowIds, RowsWithin
  <2>3. returned
    BY <1>3, <1>7, <2>1
  <2>4. s \in {3, 4} /\ (s = 4 => rest = {})
    BY <1>7
  <2>5. rest = {} => Superseded(q.key) \subseteq {l[2]}
    <3>1. SUFFICES ASSUME rest = {}, NEW p \in Superseded(q.key) PROVE p = l[2]
      OBVIOUS
    <3>2. <<"row", p>> \in Targets(x)
      BY <1>7, RowsOf
    <3>3. <<"row", p>> = l
      BY <3>1, <3>2
    <3>4. QED
      BY <3>3
  <2>6. <<"table", "items">> \in y.held <=> <<"table", "items">> \in x.held
    BY <1>1, <2>1
  <2>7. y.held \subseteq Rows(PreviewIds) \cup {<<"table", "previews">>, <<"table", "items">>}
        /\ <<"table", "previews">> \in y.held
    BY <1>1, <1>2, <1>7, <2>2
  <2>8. Saw(y) \subseteq ExpiredPreviews \cup Superseded(q.key) /\ (s = 4 => Superseded(q.key) \subseteq Saw(y))
    BY <1>1, <1>2, <2>1, <2>3, <2>4, <2>5
  <2>9. QED
    BY <1>1, <1>2, <1>7, <2>2, <2>4, <2>6, <2>7, <2>8 DEF PreviewReads
<1>8. ASSUME x.stage = 4, Targets(x) = {<<"table", "items">>} PROVE PreviewReads(y)
  <2>1. l = <<"table", "items">> /\ l[1] = "table" /\ rest = {} /\ s = 5
    BY <1>3, <1>8
  <2>2. Exists(l) /\ ~returned
    BY <2>1 DEF Exists
  <2>3. QED
    BY <1>1, <1>2, <1>8, <2>1, <2>2 DEF PreviewReads
<1>9. QED
  BY <1>4, <1>5, <1>6, <1>7, <1>8

\* A confirmation takes its preview, the table of items, and then every item.
LEMMA TakenConfirm ==
  ASSUME TypeOK, NEW x, Formed(x), ConfirmReads(x), x.req.op = "confirm_preview", ~Done(x),
         NEW l \in First(Targets(x)), NEW rest, rest = Targets(x) \ {l},
         NEW s, s = IF rest = {} THEN x.stage + 1 ELSE x.stage,
         NEW y, Taken(x, y, l, rest, s)
  PROVE  ConfirmReads(y)
<1> DEFINE q == x.req
           returned == l[1] = "row" /\ l \in Wanted(x.req, Statement(x))
<1>1. /\ y.req = q /\ y.todo = rest /\ y.stage = s
      /\ y.held = IF Exists(l) THEN x.held \cup {l} ELSE x.held
      /\ Saw(y) = IF returned THEN Saw(x) \cup {l[2]} ELSE Saw(x)
  BY DEF Taken
<1>2. /\ x.held \subseteq Rows(Ids \cup {q.key}) \cup {<<"table", "items">>}
      /\ x.stage = 1 => x.held = {}
      /\ x.stage >= 3 <=> <<"table", "items">> \in x.held
      /\ x.todo \subseteq Rows(Ids) /\ (x.stage <= 2 => x.todo = {})
      /\ x.todo # {} => Rows(Live) \subseteq Rows(Saw(x)) \cup x.todo
      /\ x.stage >= 4 => Live \subseteq Saw(x)
  BY DEF ConfirmReads
<1>3. l \in Targets(x)
  BY DEF First
<1>4. \/ x.stage = 1 /\ Targets(x) = Rows({q.key} \cap DOMAIN preview)
      \/ x.stage = 2 /\ Targets(x) = {<<"table", "items">>}
      \/ x.stage = 3 /\ Targets(x) = x.todo /\ Wanted(q, Statement(x)) = Rows(Live)
  BY ConfirmAsks
<1>5. ASSUME x.stage = 1, Targets(x) = Rows({q.key} \cap DOMAIN preview) PROVE ConfirmReads(y)
  <2>1. Targets(x) = {<<"row", q.key>>} /\ l = <<"row", q.key>>
    BY <1>3, <1>5 DEF Rows
  <2>2. rest = {} /\ s = 2 /\ l \in Rows(Ids \cup {q.key}) /\ l # <<"table", "items">>
    BY <1>5, <2>1, RowsOf
  <2>3. y.stage = 2 /\ y.todo = {} /\ y.req = q
    BY <1>1, <2>2
  <2>4. y.held \subseteq Rows(Ids \cup {q.key}) /\ <<"table", "items">> \notin y.held
    BY <1>1, <1>2, <1>5, <2>2
  <2>5. QED
    BY <2>3, <2>4 DEF ConfirmReads
<1>6. ASSUME x.stage = 2, Targets(x) = {<<"table", "items">>} PROVE ConfirmReads(y)
  <2>1. l = <<"table", "items">> /\ l[1] = "table" /\ rest = {} /\ s = 3
    BY <1>3, <1>6
  <2>2. Exists(l)
    BY <2>1 DEF Exists
  <2>3. y.stage = 3 /\ y.todo = {}
    BY <1>1, <2>1
  <2>4. y.held \subseteq Rows(Ids \cup {q.key}) \cup {<<"table", "items">>} /\ <<"table", "items">> \in y.held
    BY <1>1, <1>2, <2>1, <2>2
  <2>5. QED
    BY <1>1, <2>3, <2>4 DEF ConfirmReads
<1>7. ASSUME x.stage = 3, Targets(x) = x.todo, Wanted(q, Statement(x)) = Rows(Live) PROVE ConfirmReads(y)
  <2>1. l = <<"row", l[2]>> /\ l[1] = "row" /\ l \in Rows(Ids \cup {q.key}) /\ l # <<"table", "items">>
    <3>1. l \in Rows(Ids)
      BY <1>2, <1>3, <1>7
    <3>2. Rows(Ids) \subseteq Rows(Ids \cup {q.key})
      BY RowsWithin
    <3>3. QED
      BY <3>1, <3>2, RowsOf
  <2>2. \A i \in Live : i \in Saw(y) \/ <<"row", i>> \in rest
    <3>1. TAKE i \in Live
    <3>2. <<"row", i>> \in Rows(Live)
      BY RowsOf
    <3>3. <<"row", i>> \in Rows(Saw(x)) \/ <<"row", i>> \in x.todo
      BY <1>2, <1>3, <1>7, <3>2
    <3>4. CASE <<"row", i>> = l
      BY <1>1, <1>7, <2>1, <3>2, <3>4
    <3>5. CASE <<"row", i>> # l
      BY <1>1, <1>7, <3>3, <3>5, RowsOf
    <3>6. QED
      BY <3>4, <3>5
  <2>3. Rows(Live) \subseteq Rows(Saw(y)) \cup rest
    BY <2>2 DEF Rows
  <2>4. s \in {3, 4} /\ (s = 4 => rest = {}) /\ rest \subseteq Rows(Ids)
    BY <1>2, <1>7
  <2>5. y.held \subseteq Rows(Ids \cup {q.key}) \cup {<<"table", "items">>} /\ <<"table", "items">> \in y.held
    <3>1. x.held \subseteq y.held /\ y.held \subseteq x.held \cup {l} /\ l \in Rows(Ids)
      BY <1>1, <1>2, <1>3, <1>7
    <3>2. Rows(Ids) \subseteq Rows(Ids \cup {q.key}) /\ <<"table", "items">> \in x.held
      BY <1>2, <1>7, RowsWithin
    <3>3. QED
      BY <1>2, <3>1, <3>2
  <2>6. y.stage \in {3, 4} /\ y.todo \subseteq Rows(Ids) /\ (y.stage = 4 => Live \subseteq Saw(y))
    BY <1>1, <2>2, <2>4
  <2>7. Rows(Live) \subseteq Rows(Saw(y)) \cup y.todo
    BY <1>1, <2>3
  <2>8. /\ y.stage # 1 /\ y.stage >= 3 /\ ~(y.stage <= 2)
        /\ y.stage >= 4 => Live \subseteq Saw(y)
    BY <2>6
  <2>9. QED
    BY <1>1, <2>5, <2>6, <2>7, <2>8 DEF ConfirmReads
<1>8. QED
  BY <1>4, <1>5, <1>6, <1>7

\* A cancellation takes its preview.
LEMMA TakenCancel ==
  ASSUME TypeOK, NEW x, Formed(x), CancelReads(x), x.req.op = "cancel_preview", ~Done(x),
         NEW l \in First(Targets(x)), NEW rest, rest = Targets(x) \ {l},
         NEW s, s = IF rest = {} THEN x.stage + 1 ELSE x.stage,
         NEW y, Taken(x, y, l, rest, s)
  PROVE  CancelReads(y)
<1> DEFINE q == x.req
<1>1. x.stage = 1 /\ x.held = {} /\ Targets(x) = Rows({q.key} \cap DOMAIN preview)
  BY TargetsOf, Statements, WantedBy DEF CancelReads
<1>2. l \in Targets(x)
  BY DEF First
<1>3. Targets(x) = {<<"row", q.key>>} /\ l = <<"row", q.key>>
  BY <1>1, <1>2 DEF Rows
<1>4. s = 2 /\ l \in Rows({q.key})
  BY <1>1, <1>3, RowsOf
<1>5. y.req = q /\ y.stage = s /\ y.held \subseteq {l}
  BY <1>1 DEF Taken
<1>6. QED
  BY <1>4, <1>5 DEF CancelReads

\* A request that has taken a lock is sound if its checks pass.
LEMMA TakeSound ==
  ASSUME TypeOK, NEW x, Sound(x), ~Done(x), NEW l \in First(Targets(x)),
         NEW rest, rest = Targets(x) \ {l}, NEW s, s = IF rest = {} THEN x.stage + 1 ELSE x.stage,
         NEW y, Taken(x, y, l, rest, s), Allowed(y)
  PROVE  Sound(y) /\ y.held \subseteq x.held \cup {l}
<1> DEFINE op == x.req.op
<1>1. Formed(x) /\ ReadsCurrent(x) /\ y.req = x.req
  BY DEF Sound, Taken
<1>2. op \in AllOps /\ x.stage \in 1 .. Len(Plan(op)) /\ Len(Plan(op)) \in 1 .. 4
  BY <1>1, Statements, PlanLength DEF Formed, RequestOK
<1>3. s \in 1 .. Len(Plan(op)) + 1 /\ (s # 1 \/ rest # {})
  BY <1>2
<1>4. Formed(y)
  BY <1>1, <1>3 DEF Formed, Taken
<1>5. ReadsCurrent(y) /\ y.held \subseteq x.held \cup {l}
  BY <1>1, TakenCurrent
<1>6. op \in ItemRequests => ItemReads(y)
  BY <1>1, <1>3, TakenItems DEF Sound, ItemRequests
<1>7. op = "create_preview" => PreviewReads(y)
  BY <1>1, TakenPreview DEF Sound
<1>8. op = "confirm_preview" => ConfirmReads(y)
  BY <1>1, TakenConfirm DEF Sound
<1>9. op = "cancel_preview" => CancelReads(y)
  BY <1>1, TakenCancel DEF Sound
<1>10. op = "update_item" => QuotedQuantity(y.req)
  BY <1>1 DEF Sound
<1>11. QED
  BY <1>1, <1>4, <1>5, <1>6, <1>7, <1>8, <1>9, <1>10 DEF Sound, ItemRequests

\* A handler that goes on or answers keeps the invariant, if what it locks is free.
LEMMA ProceedKeepsInv ==
  ASSUME TxnInv, NEW t \in Txns, NEW y, Proceed(t, y), Allowed(y) => Sound(y),
         \A l \in y.held \ txn[t].held : ~LockedByOther(t, l)
  PROVE  TxnInv'
<1>1. UNCHANGED collectionVars
  BY DEF Proceed
<1>2. CASE Allowed(y)
  <2>1. txn' = [txn EXCEPT ![t] = y]
    BY <1>2 DEF Proceed
  <2>2. QED
    BY <1>1, <1>2, <2>1, MoveKeepsInv
<1>3. CASE ~Allowed(y)
  <2>1. txn' = [txn EXCEPT ![t] = Idle]
    BY <1>3 DEF Proceed
  <2>2. QED
    BY <1>1, <2>1, EndKeepsInv
<1>4. QED
  BY <1>2, <1>3

\* A busy request is sound.
LEMMA BusySound ==
  ASSUME TxnInv, NEW t \in Txns, Busy(t)
  PROVE  /\ Sound(txn[t])
         /\ txn[t] = [req |-> txn[t].req, stage |-> txn[t].stage, todo |-> txn[t].todo,
                      held |-> txn[t].held, saw |-> txn[t].saw, retried |-> txn[t].retried]
BY DEF TxnInv, Sound, Formed

\* A statement begins.
LEMMA LookKeepsInv ==
  ASSUME TxnInv, NEW t \in Txns, Look(t)
  PROVE  TxnInv'
<1>1. PICK x : x = txn[t]
  OBVIOUS
<1>2. PICK wanted : wanted = Wanted(x.req, Statement(x))
  OBVIOUS
<1>3. PICK s : s = IF wanted = {} THEN x.stage + 1 ELSE x.stage
  OBVIOUS
<1>4. PICK y : y = [x EXCEPT !.todo = wanted, !.stage = s]
  OBVIOUS
<1>5. Sound(x) /\ x = [req |-> x.req, stage |-> x.stage, todo |-> x.todo, held |-> x.held, saw |-> x.saw,
                       retried |-> x.retried]
  BY <1>1, BusySound DEF Look
<1>6. Looked(x, y, wanted, s)
  BY <1>4, <1>5, SetLooked
<1>7. TypeOK /\ ~Done(x) /\ Targets(x) = {}
  BY <1>1 DEF TxnInv, Look
<1>8. Allowed(y) => Sound(y)
  BY <1>2, <1>3, <1>5, <1>6, <1>7, LookSound
<1>9. Proceed(t, y)
  BY <1>1, <1>2, <1>3, <1>4 DEF Look
<1>10. y.held = txn[t].held
  BY <1>1, <1>6 DEF Looked
<1>11. QED
  BY <1>8, <1>9, <1>10, ProceedKeepsInv

\* How a request takes a lock.
LEMMA SetTaking ==
  ASSUME NEW x, x = [req |-> x.req, stage |-> x.stage, todo |-> x.todo, held |-> x.held, saw |-> x.saw,
                     retried |-> x.retried],
         NEW rest, NEW s, NEW h, NEW w, NEW y, y = [x EXCEPT !.todo = rest, !.stage = s, !.held = h, !.saw = w]
  PROVE  /\ y = [req |-> y.req, stage |-> y.stage, todo |-> y.todo, held |-> y.held, saw |-> y.saw,
                 retried |-> y.retried]
         /\ y.req = x.req /\ y.todo = rest /\ y.stage = s /\ y.held = h /\ y.saw = w
OBVIOUS

\* The step of a statement that has got a lock: it holds the row if there is one, and
\* has read it if it still matches.
LEMMA SetTaken ==
  ASSUME NEW x, Formed(x), NEW l, NEW rest, NEW s, NEW h, NEW w, NEW y,
         h = IF Exists(l) THEN x.held \cup {l} ELSE x.held,
         w = IF l[1] = "row" /\ l \in Wanted(x.req, Statement(x))
             THEN [i \in DOMAIN x.saw \cup {l[2]} |-> IF i = l[2] THEN Current(i) ELSE x.saw[i]]
             ELSE x.saw,
         y = [x EXCEPT !.todo = rest, !.stage = s, !.held = h, !.saw = w]
  PROVE  Taken(x, y, l, rest, s)
<1> DEFINE returned == l[1] = "row" /\ l \in Wanted(x.req, Statement(x))
<1>1. /\ y = [req |-> y.req, stage |-> y.stage, todo |-> y.todo, held |-> y.held, saw |-> y.saw,
              retried |-> y.retried]
      /\ y.req = x.req /\ y.todo = rest /\ y.stage = s /\ y.held = h /\ y.saw = w
  BY SetTaking DEF Formed
<1>2. x.saw = [i \in DOMAIN x.saw |-> x.saw[i]]
  BY DEF Formed, Saw
<1>3. /\ DOMAIN w = IF returned THEN DOMAIN x.saw \cup {l[2]} ELSE DOMAIN x.saw
      /\ w = [i \in DOMAIN w |-> w[i]]
      /\ \A i \in DOMAIN w : w[i] = IF returned /\ i = l[2] THEN Current(i) ELSE x.saw[i]
  <2>1. CASE returned
    BY <2>1
  <2>2. CASE ~returned
    BY <1>2, <2>2
  <2>3. QED
    BY <2>1, <2>2
<1>4. QED
  BY <1>1, <1>3 DEF Taken, Saw

\* A lock is taken.
LEMMA TakeKeepsInv ==
  ASSUME TxnInv, NEW t \in Txns, Take(t)
  PROVE  TxnInv'
<1> DEFINE x == txn[t]
<1>2. PICK l \in First(Targets(x)) :
        LET rest == Targets(x) \ {l}
            returned == l[1] = "row" /\ l \in Wanted(x.req, Statement(x))
        IN /\ ~LockedByOther(t, l)
           /\ Proceed(t, [x EXCEPT
                !.todo = rest,
                !.stage = IF rest = {} THEN @ + 1 ELSE @,
                !.held = IF Exists(l) THEN @ \cup {l} ELSE @,
                !.saw = IF returned
                        THEN [i \in DOMAIN @ \cup {l[2]} |-> IF i = l[2] THEN Current(i) ELSE @[i]]
                        ELSE @])
  BY DEF Take
<1>3. PICK rest : rest = Targets(x) \ {l}
  OBVIOUS
<1>4. PICK s : s = IF rest = {} THEN x.stage + 1 ELSE x.stage
  OBVIOUS
<1>5. PICK h : h = IF Exists(l) THEN x.held \cup {l} ELSE x.held
  OBVIOUS
<1>6. PICK w : w = IF l[1] = "row" /\ l \in Wanted(x.req, Statement(x))
                   THEN [i \in DOMAIN x.saw \cup {l[2]} |-> IF i = l[2] THEN Current(i) ELSE x.saw[i]]
                   ELSE x.saw
  OBVIOUS
<1>7. PICK y : y = [x EXCEPT !.todo = rest, !.stage = s, !.held = h, !.saw = w]
  OBVIOUS
<1>8. TypeOK /\ Sound(x) /\ Formed(x) /\ ~Done(x)
  BY BusySound DEF TxnInv, Take, Sound
<1>9. Taken(x, y, l, rest, s)
  BY <1>5, <1>6, <1>7, <1>8, SetTaken
<1>10. Allowed(y) => Sound(y) /\ y.held \subseteq x.held \cup {l}
  <2>1. PICK z : z = x
    OBVIOUS
  <2>2. TypeOK /\ Sound(z) /\ ~Done(z)
    BY <1>8, <2>1
  <2>3. l \in First(Targets(z)) /\ rest = Targets(z) \ {l}
    BY <1>2, <1>3, <2>1
  <2>4. s = IF rest = {} THEN z.stage + 1 ELSE z.stage
    BY <1>4, <2>1
  <2>5. Taken(z, y, l, rest, s)
    BY <1>9, <2>1
  <2>6. Allowed(y) => Sound(y) /\ y.held \subseteq z.held \cup {l}
    BY <2>2, <2>3, <2>4, <2>5, TakeSound
  <2>7. QED
    BY <1>9, <2>6 DEF Taken
<1>11. y.held \subseteq x.held \cup {l}
  BY <1>9 DEF Taken
<1>12. Proceed(t, y)
  BY <1>2, <1>3, <1>4, <1>5, <1>6, <1>7
<1>13. QED
  BY <1>2, <1>10, <1>11, <1>12, ProceedKeepsInv

-----------------------------------------------------------------------------
(* What a commit may touch.                                                *)

\* A commit of t changes and removes only rows that t has locked, adds ids that were
\* never used, changes no table that another request has locked, and raises the
\* revision of an item that it changes.
Footprint(t) ==
  LET held == txn[t].held IN
  /\ used \subseteq used'
  /\ \A i \in Live' : i \in Live \/ i \notin used
  /\ \A p \in DOMAIN preview' : p \in DOMAIN preview \/ p \notin used
  /\ \A i \in Live : <<"row", i>> \in held \/ (i \in Live' /\ row'[i] = row[i])
  /\ \A p \in DOMAIN preview : <<"row", p>> \in held \/ (p \in DOMAIN preview' /\ preview'[p] = preview[p])
  /\ \A i \in Live \cap Live' : row'[i] = row[i] \/ row'[i].rev > row[i].rev
  /\ row' = row \/ \A u \in Txns \ {t} : <<"table", "items">> \notin txn[u].held
  /\ preview' = preview \/ \A u \in Txns \ {t} : <<"table", "previews">> \notin txn[u].held

\* The other requests stay sound.
LEMMA OthersKeep ==
  ASSUME TxnInv, TypeOK', NEW t \in Txns, Footprint(t), NEW x, NEW u \in Txns \ {t}, x = txn[u], Sound(x)
  PROVE  Sound(x)'
<1> DEFINE q == x.req
<1>1. /\ used \subseteq used'
      /\ \A i \in Live' : i \in Live \/ i \notin used
      /\ \A p \in DOMAIN preview' : p \in DOMAIN preview \/ p \notin used
      /\ \A i \in Live \cap Live' : row'[i] = row[i] \/ row'[i].rev > row[i].rev
      /\ row' = row \/ <<"table", "items">> \notin x.held
      /\ preview' = preview \/ <<"table", "previews">> \notin x.held
  BY DEF Footprint
<1>2. \A i : <<"row", i>> \in x.held =>
        /\ i \in Live => i \in Live' /\ row'[i] = row[i]
        /\ i \in DOMAIN preview => i \in DOMAIN preview' /\ preview'[i] = preview[i]
  BY DEF Footprint, TxnInv
<1>3. Formed(x) /\ Allowed(x) /\ ReadsCurrent(x)
  BY DEF Sound
<1>4. Live \subseteq used /\ DOMAIN preview \subseteq used
  BY DEF TxnInv, TypeOK
<1>5. Formed(x)'
  <2>1. RequestOK(q)'
    BY <1>1, <1>3 DEF Formed, RequestOK
  <2>2. QED
    BY <1>3, <2>1 DEF Formed
<1>6. Allowed(x)'
  BY <1>3 DEF Allowed
<1>7. ReadsCurrent(x)'
  <2>1. ASSUME NEW i \in Saw(x)
        PROVE  /\ <<"row", i>> \in x.held
               /\ i \in Live' \/ i \in DOMAIN preview'
               /\ i \in Live' => x.saw[i] = row'[i]
               /\ i \in DOMAIN preview' =>
                    \/ x.saw[i] = preview'[i]
                    \/ preview'[i].status = "expired" /\ x.saw[i] = [preview'[i] EXCEPT !.status = "open"]
    <3>1. /\ <<"row", i>> \in x.held
          /\ i \in Live \/ i \in DOMAIN preview
          /\ i \in Live => x.saw[i] = row[i]
          /\ i \in DOMAIN preview =>
               \/ x.saw[i] = preview[i]
               \/ preview[i].status = "expired" /\ x.saw[i] = [preview[i] EXCEPT !.status = "open"]
      BY <1>3, <2>1 DEF ReadsCurrent
    <3>2. (i \in Live' => i \in Live) /\ (i \in DOMAIN preview' => i \in DOMAIN preview)
      BY <1>1, <1>4, <3>1
    <3>3. QED
      BY <1>2, <3>1, <3>2
  <2>2. QED
    BY <2>1 DEF ReadsCurrent
<1>8. q.op \in ItemRequests => ItemReads(x)'
  BY DEF Sound, ItemRequests, ItemReads
<1>9. ASSUME q.op = "update_item" PROVE QuotedQuantity(q)'
  <2>1. q.key \in used /\ q.rev \in Nat /\ QuotedQuantity(q)
    BY <1>3, <1>9, BoundsAssumption DEF Sound, Formed, RequestOK, EditOps
  <2>2. SUFFICES ASSUME q.key \in Live'
                 PROVE  /\ q.rev <= row'[q.key].rev
                        /\ q.rev = row'[q.key].rev => q.qty \in Amounts \cup {row'[q.key].qty}
    BY DEF QuotedQuantity
  <2>3. q.key \in Live
    BY <1>1, <2>1, <2>2
  <2>4. row[q.key].rev \in Nat /\ row'[q.key].rev \in Nat
    BY <2>2, <2>3, BoundsAssumption DEF TxnInv, TypeOK, Row, Live
  <2>5. CASE row'[q.key] = row[q.key]
    BY <2>1, <2>3, <2>5 DEF QuotedQuantity
  <2>6. CASE row'[q.key].rev > row[q.key].rev
    <3>1. q.rev <= row[q.key].rev
      BY <2>1, <2>3 DEF QuotedQuantity
    <3>2. QED
      BY <2>1, <2>4, <2>6, <3>1
  <2>7. QED
    BY <1>1, <2>2, <2>3, <2>5, <2>6
<1>10. ASSUME q.op = "create_preview" PROVE PreviewReads(x)'
  <2>1. PreviewReads(x)
    BY <1>10 DEF Sound
  <2>2. CASE x.stage = 1
    <3>1. x.held = {} /\ Saw(x) = {}
      BY <1>3, <2>1, <2>2 DEF PreviewReads, ReadsCurrent
    <3>2. QED
      BY <2>1, <2>2, <3>1 DEF PreviewReads, Saw
  <2>3. CASE x.stage # 1
    <3>1. preview' = preview
      BY <1>1, <2>1, <2>3 DEF PreviewReads
    <3>2. QED
      BY <2>1, <3>1 DEF PreviewReads, Saw, ExpiredPreviews, Superseded, OpenPreviews
  <2>4. QED
    BY <2>2, <2>3
<1>11. ASSUME q.op = "confirm_preview" PROVE ConfirmReads(x)'
  <2>1. ConfirmReads(x) /\ x.stage \in Nat
    BY <1>3, <1>11, PlanLength DEF Sound, Formed, RequestOK
  <2>2. CASE x.stage >= 3
    <3>1. row' = row
      BY <1>1, <2>1, <2>2 DEF ConfirmReads
    <3>2. QED
      BY <2>1, <3>1 DEF ConfirmReads, Saw, Live
  <2>3. CASE ~(x.stage >= 3)
    <3>1. x.stage <= 2 /\ ~(x.stage >= 4) /\ x.todo = {}
      BY <2>1, <2>3 DEF ConfirmReads
    <3>2. QED
      BY <2>1, <3>1 DEF ConfirmReads
  <2>4. QED
    BY <2>2, <2>3
<1>12. q.op = "cancel_preview" => CancelReads(x)'
  BY DEF Sound, CancelReads
<1>13. QED
  BY <1>5, <1>6, <1>7, <1>8, <1>9, <1>10, <1>11, <1>12 DEF Sound, ItemRequests

\* A commit within its footprint keeps the invariant.
LEMMA FootprintKeepsInv ==
  ASSUME TxnInv, TypeOK', NEW t \in Txns, Footprint(t), Finish(t)
  PROVE  TxnInv'
<1>1. txn' = [u \in Txns |-> IF u = t THEN Idle ELSE txn[u]]
  BY DEF TxnInv, Finish
<1>2. ASSUME NEW u \in Txns, NEW v \in Txns, u # v PROVE txn'[u].held \cap txn'[v].held = {}
  BY <1>1, <1>2 DEF TxnInv, Idle
<1>3. ASSUME NEW u \in Txns PROVE IF Busy(u)' THEN Sound(txn[u])' ELSE txn'[u] = Idle
  <2>1. CASE u = t
    BY <1>1, <2>1 DEF Busy, Idle
  <2>2. CASE u # t
    <3>1. txn'[u] = txn[u]
      BY <1>1, <2>2
    <3>2. Sound(txn[u]) => Sound(txn[u])'
      BY <2>2, <3>1, OthersKeep
    <3>3. QED
      BY <3>1, <3>2 DEF TxnInv, Busy
  <2>3. QED
    BY <2>1, <2>2
<1>4. QED
  BY <1>1, <1>2, <1>3 DEF TxnInv

-----------------------------------------------------------------------------
(* Commits of item requests.                                               *)

\* A request that writes is sound, at the end of its plan, and nobody else has locked
\* the tables it writes.
LEMMA ReadyFacts ==
  ASSUME TxnInv, NEW t \in Txns, NEW op \in AllOps, Ready(t, op)
  PROVE  LET x == txn[t] IN
         /\ TypeOK /\ Sound(x) /\ Formed(x) /\ Allowed(x) /\ ReadsCurrent(x) /\ RequestOK(x.req)
         /\ Done(x) /\ x.req.op = op /\ x.stage > 1
         /\ (op = "create_preview" => x.stage = 5) /\ (op = "confirm_preview" => x.stage = 4)
         /\ \A name \in Written(op), u \in Txns \ {t} : <<"table", name>> \notin txn[u].held
<1> DEFINE x == txn[t]
<1>1. x.req.op = op /\ Done(x) /\ Busy(t)
  BY DEF Ready, Done, Busy
<1>2. Sound(x) /\ Formed(x) /\ Allowed(x) /\ ReadsCurrent(x) /\ RequestOK(x.req) /\ TypeOK
  BY <1>1, BusySound DEF TxnInv, Sound, Formed
<1>3. /\ x.stage > 1
      /\ (op = "create_preview" => x.stage = 5) /\ (op = "confirm_preview" => x.stage = 4)
  <2>1. Done(x) <=> x.stage = Len(Plan(x.req.op)) + 1
    BY <1>2, Statements
  <2>2. /\ Len(Plan(op)) \in 1 .. 4
        /\ op = "create_preview" => Len(Plan(op)) = 4
        /\ op = "confirm_preview" => Len(Plan(op)) = 3
    BY PlanLength
  <2>3. x.stage = Len(Plan(op)) + 1
    BY <1>1, <2>1
  <2>4. x.stage > 1
    BY <2>2, <2>3
  <2>5. ASSUME op = "create_preview" PROVE x.stage = 5
    <3>1. Len(Plan(op)) = 4
      BY <2>2, <2>5
    <3>2. QED
      BY <2>3, <3>1
  <2>6. ASSUME op = "confirm_preview" PROVE x.stage = 4
    <3>1. Len(Plan(op)) = 3
      BY <2>2, <2>6
    <3>2. QED
      BY <2>3, <3>1
  <2>7. QED
    BY <2>4, <2>5, <2>6
<1>4. Needs(t) = {<<"table", name>> : name \in Written(op)}
  BY <1>1 DEF Needs, Targets
<1>5. ASSUME NEW name \in Written(op), NEW u \in Txns \ {t} PROVE <<"table", name>> \notin txn[u].held
  <2>1. ~LockedByOther(t, <<"table", name>>)
    BY <1>4 DEF Ready
  <2>2. QED
    BY <2>1 DEF LockedByOther, HeldBy
<1>6. QED
  BY <1>1, <1>2, <1>3, <1>5

\* What an item request has read is the present state of items that it has locked.
LEMMA ItemsRead ==
  ASSUME TypeOK, NEW x, ReadsCurrent(x), ItemReads(x), NEW i \in Saw(x)
  PROVE  i \in Live /\ i \in Ids /\ x.saw[i] = row[i] /\ row[i] \in Row /\ <<"row", i>> \in x.held
<1>1. <<"row", i>> \in x.held /\ (i \in Live \/ i \in DOMAIN preview) /\ (i \in Live => x.saw[i] = row[i])
  BY DEF ReadsCurrent
<1>2. i \in Ids
  BY <1>1, RowsOf DEF ItemReads
<1>3. i \in Live
  BY <1>1, <1>2, RowIds, IdsAssumption
<1>4. QED
  BY <1>1, <1>2, <1>3 DEF TypeOK

\* What a function is made of.
Graph(f) == [i \in DOMAIN f |-> f[i]]

\* One row rewritten.
LEMMA RewrittenRow ==
  ASSUME TypeOK, NEW i, NEW f, DOMAIN f = {i}, NEW after, after = Rewritten(f)
  PROVE  /\ after = Graph(after) /\ DOMAIN after = Live \cup {i}
         /\ after[i] = f[i] /\ \A j \in Live \ {i} : after[j] = row[j]
         /\ row = Graph(row)
BY DEF Rewritten, TypeOK, Graph, Live

\* The same for the step that rewrites it.
LEMMA RowRewritten ==
  ASSUME TypeOK, NEW i, NEW f, DOMAIN f = {i}, row' = Rewritten(f)
  PROVE  /\ row' = Graph(row') /\ DOMAIN row' = Live \cup {i}
         /\ row'[i] = f[i] /\ \A j \in Live \ {i} : row'[j] = row[j]
         /\ row = Graph(row)
<1>1. PICK g : g = row'
  OBVIOUS
<1>2. g = Rewritten(f)
  BY <1>1
<1>3. DOMAIN g = Live \cup {i} /\ g[i] = f[i] /\ \A j \in Live \ {i} : g[j] = row[j]
  BY <1>2, RewrittenRow
<1>4. g = Graph(g) /\ row = Graph(row)
  BY <1>2, RewrittenRow, Zenon
<1>5. QED
  BY <1>1, <1>3, <1>4

\* A step that rewrites one locked item, with a higher revision, is within the footprint.
LEMMA RevisionFootprint ==
  ASSUME TypeOK, NEW t \in Txns, NEW i \in Live, <<"row", i>> \in txn[t].held, NEW r, r.rev > row[i].rev,
         row' = [row EXCEPT ![i] = r], UNCHANGED <<preview, used>>,
         \A u \in Txns \ {t} : <<"table", "items">> \notin txn[u].held
  PROVE  Footprint(t)
<1>1. Live' = Live /\ \A j \in Live : row'[j] = IF j = i THEN r ELSE row[j]
  BY DEF Live
<1>2. QED
  BY <1>1 DEF Footprint

\* A second request for a card adds its copies to the row it read.
LEMMA IncrementCommits ==
  ASSUME TxnInv, NEW t \in Txns, CommitIncrement(t)
  PROVE  Next /\ Footprint(t)
<1> DEFINE x == txn[t]
           q == txn[t].req
<1>1. /\ TypeOK /\ Sound(x) /\ Allowed(x) /\ ReadsCurrent(x) /\ RequestOK(q) /\ q.op = "create_item"
      /\ x.stage > 1 /\ \A u \in Txns \ {t} : <<"table", "items">> \notin txn[u].held
  BY ReadyFacts DEF CommitIncrement, AllOps, Written
<1>2. ItemReads(x) /\ CreateAllowed(x) /\ q.want \in Tuples /\ q.qty \in Amounts
  BY <1>1 DEF Sound, Allowed, RequestOK
<1>3. PICK i \in Saw(x) : row' = Rewritten([j \in {i} |-> Revised(x.saw[i], x.saw[i].qty + q.qty)])
  BY DEF CommitIncrement
<1>4. i \in Live /\ i \in Ids /\ x.saw[i] = row[i] /\ row[i] \in Row /\ <<"row", i>> \in x.held
  BY <1>1, <1>2, ItemsRead
<1>5. row[i].tuple = q.want /\ row[i].qty + q.qty <= MaxQuantity /\ row[i].rev < MaxRevision
  BY <1>1, <1>2, <1>4 DEF ItemReads, CreateAllowed
<1>6. row' = [row EXCEPT ![i] = Revised(row[i], row[i].qty + q.qty)] /\ UNCHANGED <<preview, used>>
  <2>1. PICK f : f = [j \in {i} |-> Revised(x.saw[i], x.saw[i].qty + q.qty)]
    OBVIOUS
  <2>2. DOMAIN f = {i} /\ f[i] = Revised(row[i], row[i].qty + q.qty) /\ row' = Rewritten(f)
    BY <1>3, <1>4, <2>1
  <2>3. /\ row' = Graph(row') /\ DOMAIN row' = Live \cup {i}
        /\ row'[i] = f[i] /\ \A j \in Live \ {i} : row'[j] = row[j]
        /\ row = Graph(row)
    BY <1>1, <2>2, RowRewritten
  <2>4. QED
    BY <1>4, <2>2, <2>3 DEF CommitIncrement, Live, Graph
<1>7. AddToRow(i, q.want, q.qty)
  BY <1>4, <1>5, <1>6 DEF AddToRow, Having, Live
<1>8. Revised(row[i], row[i].qty + q.qty).rev > row[i].rev
  BY <1>4, BoundsAssumption DEF Revised, Row
<1>9. QED
  BY <1>1, <1>2, <1>4, <1>6, <1>7, <1>8, RevisionFootprint DEF Next, ItemNext

\* A request for a card that nobody has adds a row.
LEMMA InsertCommits ==
  ASSUME TxnInv, NEW t \in Txns, CommitInsert(t)
  PROVE  Next /\ Footprint(t)
<1> DEFINE x == txn[t]
           q == txn[t].req
<1>1. /\ TypeOK /\ RequestOK(q) /\ q.op = "create_item"
      /\ \A u \in Txns \ {t} : <<"table", "items">> \notin txn[u].held
  BY ReadyFacts DEF CommitInsert, AllOps, Written
<1>2. PICK i \in Ids \ used : /\ row' = Rewritten([j \in {i} |-> NewRow(q.want, q.qty)])
                              /\ used' = used \cup {i}
  BY DEF CommitInsert
<1>3. row' = [j \in Live \cup {i} |-> IF j = i THEN NewRow(q.want, q.qty) ELSE row[j]]
  <2>1. PICK f : f = [j \in {i} |-> NewRow(q.want, q.qty)]
    OBVIOUS
  <2>2. DOMAIN f = {i} /\ f[i] = NewRow(q.want, q.qty) /\ row' = Rewritten(f)
    BY <1>2, <2>1
  <2>3. /\ row' = Graph(row') /\ DOMAIN row' = Live \cup {i}
        /\ row'[i] = f[i] /\ \A j \in Live \ {i} : row'[j] = row[j]
    BY <1>1, <2>2, RowRewritten
  <2>4. QED
    BY <2>2, <2>3 DEF Graph
<1>4. Having(row, q.want) = {}
  BY <1>1 DEF CommitInsert, Duplicates
<1>5. q.want \in Tuples /\ q.qty \in Amounts /\ UNCHANGED preview
  BY <1>1 DEF RequestOK, CommitInsert
<1>6. AddRow(i, q.want, q.qty)
  BY <1>2, <1>3, <1>4, <1>5 DEF AddRow
<1>7. Live' = Live \cup {i} /\ (\A j \in Live : row'[j] = row[j]) /\ i \notin Live
  BY <1>1, <1>2, <1>3 DEF Live, TypeOK
<1>8. Footprint(t)
  BY <1>1, <1>2, <1>5, <1>7 DEF Footprint
<1>9. QED
  BY <1>2, <1>5, <1>6, <1>8 DEF Next, ItemNext

\* An edit changes the row whose revision it has compared.
LEMMA UpdateCommits ==
  ASSUME TxnInv, NEW t \in Txns, CommitUpdateItem(t)
  PROVE  Next /\ Footprint(t)
<1> DEFINE x == txn[t]
           q == txn[t].req
           i == txn[t].req.key
<1>1. /\ TypeOK /\ Sound(x) /\ Allowed(x) /\ ReadsCurrent(x) /\ RequestOK(q) /\ q.op = "update_item"
      /\ x.stage > 1 /\ \A u \in Txns \ {t} : <<"table", "items">> \notin txn[u].held
  BY ReadyFacts DEF CommitUpdateItem, AllOps, EditOps, Written
<1>2. ItemReads(x) /\ EditAllowed(x) /\ QuotedQuantity(q) /\ q.want \in Tuples /\ q.rev < MaxRevision
  BY <1>1 DEF Sound, Allowed, RequestOK, EditOps
<1>3. i \in Saw(x) /\ x.saw[i].rev = q.rev /\ Having(SawRows(x), q.want) \subseteq {i}
  BY <1>1, <1>2 DEF EditAllowed
<1>4. i \in Live /\ i \in Ids /\ x.saw[i] = row[i] /\ row[i] \in Row /\ <<"row", i>> \in x.held
  BY <1>1, <1>2, <1>3, ItemsRead
<1>5. row[i].rev = q.rev /\ q.qty \in Amounts \cup {row[i].qty} /\ row[i].tuple[1] = q.want[1]
  BY <1>1, <1>2, <1>3, <1>4 DEF QuotedQuantity, ItemReads
<1>6. q.want = <<row[i].tuple[1], q.want[2]>> /\ q.want[2] \in Variants
  BY <1>2, <1>5 DEF Tuples
<1>7. Having(row, q.want) \subseteq {i}
  <2>1. SUFFICES ASSUME NEW j \in Having(row, q.want) PROVE j = i
    OBVIOUS
  <2>2. j \in Saw(x)
    BY <1>1 DEF CommitUpdateItem, Duplicates
  <2>3. j \in Ids /\ x.saw[j] = row[j]
    BY <1>1, <1>2, <2>2, ItemsRead
  <2>4. j \in DOMAIN SawRows(x) /\ SawRows(x)[j] = row[j]
    BY <2>2, <2>3 DEF SawRows, Restrict, Saw
  <2>5. j \in Having(SawRows(x), q.want)
    BY <2>1, <2>4 DEF Having
  <2>6. QED
    BY <1>3, <2>5
<1> DEFINE r == [Revised(row[i], q.qty) EXCEPT !.tuple = q.want]
<1>8. row' = [row EXCEPT ![i] = r] /\ UNCHANGED <<preview, used>>
  <2>1. PICK f : f = [j \in {i} |-> [Revised(x.saw[j], q.qty) EXCEPT !.tuple = q.want]]
    OBVIOUS
  <2>2. DOMAIN f = {i} /\ f[i] = r
    BY <1>4, <2>1
  <2>3. row' = Rewritten(f)
    BY <2>1 DEF CommitUpdateItem
  <2>4. /\ row' = Graph(row') /\ DOMAIN row' = Live \cup {i}
        /\ row'[i] = f[i] /\ \A j \in Live \ {i} : row'[j] = row[j]
        /\ row = Graph(row)
    BY <1>1, <2>2, <2>3, RowRewritten
  <2> HIDE DEF r
  <2>5. QED
    BY <1>4, <2>2, <2>4 DEF CommitUpdateItem, Live, Graph
<1>9. UpdateItem(i, q.want[2], q.qty)
  BY <1>2, <1>4, <1>5, <1>6, <1>7, <1>8 DEF UpdateItem
<1>10. r.rev > row[i].rev
  BY <1>4, BoundsAssumption DEF Revised, Row
<1>11. QED
  <2>1. Next
    BY <1>4, <1>5, <1>6, <1>9 DEF Next, ItemNext
  <2>2. Footprint(t)
    BY <1>1, <1>4, <1>8, <1>10, RevisionFootprint
  <2>3. QED
    BY <2>1, <2>2

\* A price is set on the row whose revision was compared.
LEMMA PriceCommits ==
  ASSUME TxnInv, NEW t \in Txns, CommitPriceItem(t)
  PROVE  Next /\ Footprint(t)
<1> DEFINE x == txn[t]
           q == txn[t].req
           i == txn[t].req.key
<1>1. /\ TypeOK /\ Sound(x) /\ Allowed(x) /\ ReadsCurrent(x) /\ RequestOK(q) /\ q.op = "price_item"
      /\ x.stage > 1 /\ \A u \in Txns \ {t} : <<"table", "items">> \notin txn[u].held
  BY ReadyFacts DEF CommitPriceItem, AllOps, EditOps, Written
<1>2. ItemReads(x) /\ EditAllowed(x) /\ q.rev < MaxRevision
  BY <1>1 DEF Sound, Allowed, RequestOK, EditOps
<1>3. i \in Saw(x) /\ x.saw[i].rev = q.rev
  BY <1>2 DEF EditAllowed
<1>4. i \in Live /\ i \in Ids /\ x.saw[i] = row[i] /\ row[i] \in Row /\ <<"row", i>> \in x.held
  BY <1>1, <1>2, <1>3, ItemsRead
<1> DEFINE r == Revised(row[i], row[i].qty)
<1>5. row' = [row EXCEPT ![i] = r] /\ UNCHANGED <<preview, used>>
  <2>1. PICK f : f = [j \in {i} |-> Revised(x.saw[j], x.saw[j].qty)]
    OBVIOUS
  <2>2. DOMAIN f = {i} /\ f[i] = r
    BY <1>4, <2>1
  <2>3. row' = Rewritten(f)
    BY <2>1 DEF CommitPriceItem
  <2>4. /\ row' = Graph(row') /\ DOMAIN row' = Live \cup {i}
        /\ row'[i] = f[i] /\ \A j \in Live \ {i} : row'[j] = row[j]
        /\ row = Graph(row)
    BY <1>1, <2>2, <2>3, RowRewritten
  <2> HIDE DEF r
  <2>5. QED
    BY <1>4, <2>2, <2>4 DEF CommitPriceItem, Live, Graph
<1>6. SetPrice(i)
  BY <1>2, <1>3, <1>4, <1>5 DEF SetPrice
<1>7. r.rev > row[i].rev
  BY <1>4, BoundsAssumption DEF Revised, Row
<1>8. QED
  <2>1. Next
    BY <1>4, <1>6 DEF Next, ItemNext
  <2>2. Footprint(t)
    BY <1>1, <1>4, <1>5, <1>7, RevisionFootprint
  <2>3. QED
    BY <2>1, <2>2

\* A deletion removes the row whose revision was compared.
LEMMA DeleteCommits ==
  ASSUME TxnInv, NEW t \in Txns, CommitDeleteItem(t)
  PROVE  Next /\ Footprint(t)
<1> DEFINE x == txn[t]
           q == txn[t].req
           i == txn[t].req.key
<1>1. /\ TypeOK /\ Sound(x) /\ Allowed(x) /\ ReadsCurrent(x) /\ q.op = "delete_item"
      /\ x.stage > 1 /\ \A u \in Txns \ {t} : <<"table", "items">> \notin txn[u].held
  BY ReadyFacts DEF CommitDeleteItem, AllOps, EditOps, Written
<1>2. ItemReads(x) /\ EditAllowed(x)
  BY <1>1 DEF Sound, Allowed, EditOps
<1>3. i \in Live /\ <<"row", i>> \in x.held
  BY <1>1, <1>2, ItemsRead DEF EditAllowed
<1>4. row' = [j \in Live \ {i} |-> row[j]] /\ UNCHANGED <<preview, used>>
  BY DEF CommitDeleteItem, Restrict
<1>5. DeleteItem(i)
  BY <1>3, <1>4 DEF DeleteItem
<1>6. Live' = Live \ {i} /\ \A j \in Live \ {i} : row'[j] = row[j]
  BY <1>4 DEF Live
<1>7. Footprint(t)
  BY <1>1, <1>3, <1>4, <1>6 DEF Footprint
<1>8. QED
  BY <1>3, <1>5, <1>7 DEF Next, ItemNext

-----------------------------------------------------------------------------
(* Commits of import requests.                                             *)

\* A preview replaces those of its document, which it has locked, and the expired
\* ones that it has locked.
LEMMA CreatePreviewCommits ==
  ASSUME TxnInv, NEW t \in Txns, CommitCreatePreview(t)
  PROVE  Next /\ Footprint(t)
<1> DEFINE x == txn[t]
           s == txn[t].req.key
<1>1. /\ TypeOK /\ Sound(x) /\ ReadsCurrent(x) /\ RequestOK(x.req) /\ x.req.op = "create_preview"
      /\ \A u \in Txns \ {t} : <<"table", "previews">> \notin txn[u].held
  BY ReadyFacts DEF CommitCreatePreview, AllOps, EditOps, Written
<1>2. PreviewReads(x) /\ s \in Sources
  BY <1>1 DEF Sound, RequestOK
<1>3. x.stage = 5
  BY ReadyFacts DEF CommitCreatePreview, AllOps
<1>4. Superseded(s) \subseteq Saw(x) /\ Saw(x) \subseteq ExpiredPreviews \cup Superseded(s)
  BY <1>2, <1>3 DEF PreviewReads
<1>5. PICK p \in PreviewIds \ used, unavailable \in SUBSET Unlisted :
        /\ preview' = [q \in (DOMAIN preview \ Saw(x)) \cup {p} |->
                         IF q = p THEN [status |-> "open", source |-> s, digest |-> Digest(row),
                                        entries |-> Classified(row, s, unavailable)]
                         ELSE preview[q]]
        /\ used' = used \cup {p}
  BY DEF CommitCreatePreview
<1> DEFINE expired == Saw(x) \cap ExpiredPreviews
<1>6. expired \subseteq ExpiredPreviews /\ expired \in SUBSET PreviewIds
  BY <1>1, RowIds
<1>7. DOMAIN preview \ Saw(x) = DOMAIN preview \ (Superseded(s) \cup expired)
  BY <1>4
<1>8. CreatePreview(p, s, unavailable, expired)
  BY <1>5, <1>6, <1>7 DEF CreatePreview, CommitCreatePreview
<1>9. ASSUME NEW i \in DOMAIN preview
      PROVE  <<"row", i>> \in x.held \/ (i \in DOMAIN preview' /\ preview'[i] = preview[i])
  <2>1. CASE i \in Saw(x)
    BY <1>1, <2>1 DEF ReadsCurrent
  <2>2. CASE i \notin Saw(x)
    <3>1. i # p
      BY <1>1, <1>5 DEF TypeOK
    <3>2. QED
      BY <1>5, <2>2, <3>1
  <2>3. QED
    BY <2>1, <2>2
<1>10. Footprint(t)
  <2>1. row' = row /\ Live' = Live
    BY DEF CommitCreatePreview, Live
  <2>2. used \subseteq used' /\ \A i \in DOMAIN preview' : i \in DOMAIN preview \/ i \notin used
    BY <1>5
  <2>3. QED
    BY <1>1, <1>9, <2>1, <2>2 DEF Footprint
<1>11. Next
  BY <1>2, <1>6, <1>8 DEF Next, ImportNext
<1>12. QED
  BY <1>10, <1>11

\* A cancellation removes the preview that it has locked.
LEMMA CancelCommits ==
  ASSUME TxnInv, NEW t \in Txns, CommitCancelPreview(t)
  PROVE  Next /\ Footprint(t)
<1> DEFINE x == txn[t]
           p == txn[t].req.key
<1>1. /\ TypeOK /\ Sound(x) /\ Allowed(x) /\ ReadsCurrent(x) /\ RequestOK(x.req) /\ x.req.op = "cancel_preview"
      /\ x.stage > 1 /\ \A u \in Txns \ {t} : <<"table", "previews">> \notin txn[u].held
  BY ReadyFacts DEF CommitCancelPreview, AllOps, EditOps, Written
<1>2. p \in PreviewIds /\ p \in Saw(x) /\ x.saw[p].status # "confirmed"
  BY <1>1 DEF RequestOK, Allowed, PreviewAllowed, SawPreview
<1>3. p \notin Live
  BY <1>1, <1>2, RowIds, IdsAssumption
<1>4. p \in DOMAIN preview /\ preview[p].status # "confirmed" /\ <<"row", p>> \in x.held
  BY <1>1, <1>2, <1>3 DEF ReadsCurrent
<1>5. preview' = [q \in DOMAIN preview \ {p} |-> preview[q]] /\ UNCHANGED <<row, used>>
  BY DEF CommitCancelPreview, Restrict
<1>6. CancelPreview(p)
  BY <1>4, <1>5 DEF CancelPreview, OpenPreviews
<1>7. Footprint(t)
  BY <1>1, <1>4, <1>5 DEF Footprint, Live
<1>8. QED
  BY <1>2, <1>6, <1>7 DEF Next, ImportNext

\* What a confirmation has read is the whole collection.
LEMMA ConfirmSawAll ==
  ASSUME TypeOK, NEW x, x.saw = [i \in Saw(x) |-> x.saw[i]], ReadsCurrent(x), Live \subseteq Saw(x)
  PROVE  SawRows(x) = row
<1>1. Saw(x) \cap Ids = Live
  <2>1. ASSUME NEW i \in Saw(x) \cap Ids PROVE i \in Live
    BY RowIds, IdsAssumption DEF ReadsCurrent
  <2>2. Live \subseteq Ids
    BY RowIds
  <2>3. QED
    BY <2>1, <2>2
<1>2. \A i \in Live : x.saw[i] = row[i]
  BY DEF ReadsCurrent
<1>3. row = [i \in Live |-> row[i]]
  BY DEF TypeOK
<1>4. SawRows(x) = [i \in Live |-> x.saw[i]]
  BY <1>1 DEF SawRows, Restrict
<1>5. QED
  BY <1>2, <1>3, <1>4

\* A preview that was read and checked is the same when it is confirmed, or has
\* expired since.
LEMMA ConfirmSawPreview ==
  ASSUME TypeOK, NEW x, ReadsCurrent(x), NEW p, p = x.req.key, p \in PreviewIds, p \in Saw(x),
         SawPreview(x).status = "open"
  PROVE  /\ p \in OpenPreviews /\ <<"row", p>> \in x.held
         /\ SawPreview(x).source = preview[p].source
         /\ SawPreview(x).digest = preview[p].digest
         /\ SawPreview(x).entries = preview[p].entries
<1>1. p \notin Live
  BY RowIds, IdsAssumption
<1>2. /\ p \in DOMAIN preview /\ <<"row", p>> \in x.held
      /\ \/ x.saw[p] = preview[p]
         \/ preview[p].status = "expired" /\ x.saw[p] = [preview[p] EXCEPT !.status = "open"]
  BY <1>1 DEF ReadsCurrent
<1>3. preview[p] \in PreviewRow
  BY <1>2 DEF TypeOK
<1>4. /\ x.saw[p].source = preview[p].source
      /\ x.saw[p].digest = preview[p].digest
      /\ x.saw[p].entries = preview[p].entries
  BY <1>2, <1>3 DEF PreviewRow
<1>5. preview[p].status \in {"open", "expired"}
  BY <1>2 DEF SawPreview
<1>6. QED
  BY <1>2, <1>4, <1>5 DEF SawPreview, OpenPreviews

\* What an import writes is a function on item ids.
LEMMA AppliedGraph ==
  ASSUME NEW rows, NEW csv, NEW new
  PROVE  Applied(rows, csv, new) = Graph(Applied(rows, csv, new))
BY DEF Applied, Graph

\* A confirmation applies its document to the collection that it compared.
LEMMA ConfirmCommits ==
  ASSUME TxnInv, NEW t \in Txns, CommitConfirmPreview(t)
  PROVE  Next /\ Footprint(t)
<1> DEFINE x == txn[t]
           p == txn[t].req.key
           csv == Csv[preview[p].source]
<1>1. /\ TypeOK /\ Sound(x) /\ Formed(x) /\ Allowed(x) /\ ReadsCurrent(x) /\ RequestOK(x.req) /\ Done(x)
      /\ x.req.op = "confirm_preview" /\ x.stage > 1
      /\ \A u \in Txns \ {t} : /\ <<"table", "previews">> \notin txn[u].held
                               /\ <<"table", "items">> \notin txn[u].held
  BY ReadyFacts DEF CommitConfirmPreview, AllOps, EditOps, Written
<1>2. x.stage = 4
  BY ReadyFacts DEF CommitConfirmPreview, AllOps
<1>3. Live \subseteq Saw(x)
  BY <1>1, <1>2 DEF Sound, ConfirmReads
<1>4. SawRows(x) = row
  BY <1>1, <1>3, ConfirmSawAll DEF Formed
<1>5. /\ p \in Saw(x) /\ SawPreview(x).status = "open" /\ ~HasErrors(SawPreview(x).entries)
      /\ Digest(SawRows(x)) = SawPreview(x).digest /\ CanApply(SawRows(x), Csv[SawPreview(x).source])
  BY <1>1 DEF Allowed, PreviewAllowed, DigestAllowed
<1>6. p \in PreviewIds
  BY <1>1 DEF RequestOK
<1>7. /\ p \in OpenPreviews /\ <<"row", p>> \in x.held
      /\ SawPreview(x).source = preview[p].source /\ SawPreview(x).digest = preview[p].digest
      /\ SawPreview(x).entries = preview[p].entries
  BY <1>1, <1>5, <1>6, ConfirmSawPreview
<1>8. PICK new \in Injection(Additions(row, csv), Ids \ used) :
        /\ row' = Rewritten(Applied(row, csv, new))
        /\ used' = used \cup Range(new)
  BY <1>4, <1>7 DEF CommitConfirmPreview
<1>9. row' = Applied(row, csv, new)
  <2>1. PICK after : after = Applied(row, csv, new)
    OBVIOUS
  <2>2. Live \subseteq DOMAIN after
    BY <2>1 DEF Applied, Live
  <2>3. after = Graph(after)
    BY <2>1, AppliedGraph
  <2>4. Rewritten(after) = after
    BY <2>2, <2>3 DEF Rewritten, Graph
  <2>5. QED
    BY <1>8, <2>1, <2>4
<1>10. preview' = [preview EXCEPT ![p] = Settled(@)]
  BY DEF CommitConfirmPreview
<1>11. ConfirmPreview(p, new)
  BY <1>4, <1>5, <1>7, <1>8, <1>9, <1>10 DEF ConfirmPreview
<1>12. Additions(row, csv) \in SUBSET Tuples /\ new \in [Additions(row, csv) -> Ids]
  <2>1. preview[p].source \in Sources
    BY <1>1, <1>7 DEF TypeOK, OpenPreviews, PreviewRow
  <2>2. DOMAIN csv \subseteq Tuples
    BY <2>1, CsvRows
  <2>3. QED
    BY <1>8, <2>2 DEF Additions, Injection
<1>13. Next
  BY <1>6, <1>11, <1>12 DEF Next, ImportNext
<1>14. /\ row' = [i \in DOMAIN row' |-> row'[i]]
       /\ DOMAIN row' = Live \cup Range(new) /\ Range(new) \subseteq Ids \ used
       /\ \A i \in Live : row'[i] = row[i] \/ row'[i].rev > row[i].rev
  <2>1. Importing(Live, row, csv, Ids \ used, new) /\ Imported(Live, row, csv, new, row')
    BY <1>1, <1>6, <1>11, ConfirmImports
  <2>2. Range(new) \subseteq Ids \ used
    BY <1>8 DEF Injection, Range
  <2>3. ASSUME NEW i \in Live PROVE row'[i] = row[i] \/ row'[i].rev > row[i].rev
    <3>1. row[i] \in Row
      BY <1>1 DEF TypeOK
    <3>2. CASE row[i].tuple \in DOMAIN csv
      <4>1. row'[i] = Revised(row[i], row[i].qty + csv[row[i].tuple])
        BY <2>1, <3>2 DEF Imported
      <4>2. QED
        BY <3>1, <4>1, BoundsAssumption DEF Revised, Row
    <3>3. CASE row[i].tuple \notin DOMAIN csv
      BY <2>1, <3>3 DEF Imported
    <3>4. QED
      BY <3>2, <3>3
  <2>4. QED
    BY <2>1, <2>2, <2>3 DEF Imported
<1>15. Footprint(t)
  <2>1. \A i \in Live : <<"row", i>> \in x.held
    BY <1>1, <1>3 DEF ReadsCurrent
  <2>2. \A q \in DOMAIN preview : q # p => preview'[q] = preview[q]
    BY <1>10
  <2>3. DOMAIN preview' = DOMAIN preview
    BY <1>10
  <2>4. used \subseteq used' /\ \A i \in Live' : i \in Live \/ i \notin used
    BY <1>8, <1>14 DEF Live
  <2>5. QED
    BY <1>1, <1>7, <1>14, <2>1, <2>2, <2>3, <2>4 DEF Footprint
<1>16. QED
  BY <1>13, <1>15

-----------------------------------------------------------------------------
(* The theorems.                                                           *)

\* Every commit is a step of the rules, within its footprint.
LEMMA CommitImplements ==
  ASSUME TxnInv, NEW t \in Txns, Commit(t)
  PROVE  Next /\ Footprint(t)
BY IncrementCommits, InsertCommits, UpdateCommits, PriceCommits, DeleteCommits, CreatePreviewCommits,
   ConfirmCommits, CancelCommits DEF Commit

\* A commit keeps the invariant.
LEMMA CommitKeepsInv ==
  ASSUME TxnInv, NEW t \in Txns, Commit(t)
  PROVE  TxnInv'
<1>1. Next /\ Footprint(t)
  BY CommitImplements
<1>2. TypeOK'
  BY <1>1, ItemType, ImportType DEF Next, TxnInv
<1>3. Finish(t)
  BY DEF Commit, CommitIncrement, CommitInsert, CommitUpdateItem, CommitPriceItem, CommitDeleteItem,
         CommitCreatePreview, CommitConfirmPreview, CommitCancelPreview
<1>4. QED
  BY <1>1, <1>2, <1>3, FootprintKeepsInv

\* Time keeps the invariant: an expired preview still stands for the open one that
\* was read.
LEMMA TimeKeepsInv ==
  ASSUME TxnInv, NEW p \in PreviewIds, Expire(p), UNCHANGED txn
  PROVE  TxnInv'
<1>1. /\ p \in DOMAIN preview /\ preview[p].status = "open" /\ preview[p] \in PreviewRow
      /\ preview' = [preview EXCEPT ![p].status = "expired"] /\ UNCHANGED <<row, used>>
  BY DEF Expire, TxnInv, TypeOK
<1>2. /\ DOMAIN preview' = DOMAIN preview
      /\ \A i \in DOMAIN preview : i # p => preview'[i] = preview[i]
      /\ preview'[p].status = "expired" /\ preview'[p].source = preview[p].source
      /\ preview[p] = [preview'[p] EXCEPT !.status = "open"]
  BY <1>1 DEF PreviewRow
<1>3. ExpiredPreviews \subseteq ExpiredPreviews' /\ \A s : Superseded(s)' = Superseded(s)
  <2>1. \A i \in DOMAIN preview :
          /\ preview[i].status = "expired" => preview'[i].status = "expired"
          /\ preview'[i].status = "confirmed" <=> preview[i].status = "confirmed"
          /\ preview'[i].source = preview[i].source
    BY <1>1, <1>2
  <2>2. ExpiredPreviews \subseteq ExpiredPreviews'
    BY <1>2, <2>1 DEF ExpiredPreviews
  <2>3. \A s : Superseded(s)' = Superseded(s)
    BY <1>2, <2>1 DEF Superseded, OpenPreviews
  <2>4. QED
    BY <2>2, <2>3
<1>4. TypeOK'
  BY ImportType DEF TxnInv, ImportNext
<1>5. ASSUME NEW x, Sound(x) PROVE Sound(x)'
  <2>1. Formed(x)' /\ Allowed(x)' /\ (x.req.op \in ItemRequests => ItemReads(x)')
        /\ (x.req.op = "cancel_preview" => CancelReads(x)')
    BY <1>1, <1>5 DEF Sound, Formed, RequestOK, Allowed, ItemReads, CancelReads, ItemRequests, Live
  <2>2. ReadsCurrent(x)'
    <3>1. ASSUME NEW i \in Saw(x), i \in DOMAIN preview
          PROVE  \/ x.saw[i] = preview'[i]
                 \/ preview'[i].status = "expired" /\ x.saw[i] = [preview'[i] EXCEPT !.status = "open"]
      <4>1. \/ x.saw[i] = preview[i]
            \/ preview[i].status = "expired" /\ x.saw[i] = [preview[i] EXCEPT !.status = "open"]
        BY <1>5, <3>1 DEF Sound, ReadsCurrent
      <4>2. CASE i = p
        BY <1>1, <1>2, <4>1, <4>2
      <4>3. CASE i # p
        BY <1>2, <3>1, <4>1, <4>3
      <4>4. QED
        BY <4>2, <4>3
    <3>2. QED
      BY <1>1, <1>2, <1>5, <3>1 DEF Sound, ReadsCurrent, Saw, Live
  <2>3. x.req.op = "update_item" => QuotedQuantity(x.req)'
    BY <1>1, <1>5 DEF Sound, QuotedQuantity, Live
  <2>4. x.req.op = "create_preview" => PreviewReads(x)'
    BY <1>3, <1>5 DEF Sound, PreviewReads
  <2>5. x.req.op = "confirm_preview" => ConfirmReads(x)'
    BY <1>1, <1>5 DEF Sound, ConfirmReads, Live
  <2>6. QED
    BY <2>1, <2>2, <2>3, <2>4, <2>5 DEF Sound, ItemRequests
<1>6. ASSUME NEW t \in Txns PROVE IF Busy(t)' THEN Sound(txn[t])' ELSE txn'[t] = Idle
  <2>1. txn'[t] = txn[t]
    OBVIOUS
  <2>2. Sound(txn[t]) => Sound(txn[t])'
    BY <1>5, <2>1
  <2>3. QED
    BY <2>1, <2>2 DEF TxnInv, Busy
<1>7. QED
  BY <1>4, <1>6 DEF TxnInv

\* The invariant starts out true.
LEMMA InitTxnInv == TxnInit => TxnInv
BY InitType DEF TxnInit, TxnInv, Busy, Idle

\* Every step keeps it.
LEMMA NextTxnInv == TxnInv /\ [TxnNext]_txnVars => TxnInv'
<1> SUFFICES ASSUME TxnInv, [TxnNext]_txnVars PROVE TxnInv'
  OBVIOUS
<1>1. ASSUME NEW t \in Txns,
             \/ Begin(t) \/ Look(t) \/ Take(t) \/ Retry(t) \/ Abandon(t) \/ AbortVictim(t) \/ Commit(t)
      PROVE  TxnInv'
  BY <1>1, BeginKeepsInv, LookKeepsInv, TakeKeepsInv, RetryKeepsInv, GivenUpKeepsInv, CommitKeepsInv
<1>2. CASE Time
  BY <1>2, TimeKeepsInv DEF Time
<1>3. CASE UNCHANGED txnVars
  <2>1. UNCHANGED collectionVars /\ UNCHANGED txn
    BY <1>3 DEF txnVars, collectionVars
  <2>2. ASSUME NEW t \in Txns PROVE IF Busy(t)' THEN Sound(txn[t])' ELSE txn'[t] = Idle
    <3>1. txn'[t] = txn[t]
      BY <2>1
    <3>2. Sound(txn[t]) => Sound(txn[t])'
      BY <2>1, <3>1, SoundUnchanged
    <3>3. QED
      BY <3>1, <3>2 DEF TxnInv, Busy
  <2>3. TypeOK'
    BY <2>1 DEF TxnInv, TypeOK, collectionVars, Live
  <2>4. QED
    BY <2>1, <2>2, <2>3 DEF TxnInv
<1>4. QED
  BY <1>1, <1>2, <1>3 DEF TxnNext

\* What a request has read and checked still holds when it writes.
THEOREM ReadsStayCurrent == TxnSpec => []TxnInv
BY InitTxnInv, NextTxnInv, PTL DEF TxnSpec

\* The rules that the mapping names are those of Collection.
LEMMA SameRules == Next => Rules!Next
<1>1. Rules!Tuples = Tuples /\ Rules!Live = Live /\ Rules!NoneOf = NoneOf
      /\ Rules!OpenPreviews = OpenPreviews /\ Rules!ExpiredPreviews = ExpiredPreviews
  BY Zenon DEF Rules!Tuples, Tuples, Rules!Live, Live, Rules!OpenPreviews, OpenPreviews,
               Rules!ExpiredPreviews, ExpiredPreviews, Rules!NoneOf, NoneOf, Rules!NoValue, NoValue
<1>2. /\ \A rows, t : Rules!Having(rows, t) = Having(rows, t)
      /\ \A rows : Rules!Digest(rows) = Digest(rows)
      /\ \A r, n : Rules!Revised(r, n) = Revised(r, n)
      /\ \A t, n : Rules!NewRow(t, n) = NewRow(t, n)
      /\ \A f : Rules!Range(f) = Range(f)
      /\ \A S, T : Rules!Injection(S, T) = Injection(S, T)
  BY Zenon DEF Rules!Having, Having, Rules!Digest, Digest, Rules!Revised, Revised, Rules!NewRow, NewRow,
               Rules!Range, Range, Rules!Injection, Injection, Rules!IsInjective, IsInjective
<1>3. \A rows, t : Rules!Owned(rows, t) = Owned(rows, t)
  BY <1>2, Zenon DEF Rules!Owned, Owned, Rules!Having, Having
<1>4. \A rows, t, n, unavailable : Rules!Entry1(rows, t, n, unavailable) = Entry1(rows, t, n, unavailable)
  BY <1>3 DEF Rules!Entry1, Entry1
<1>5. /\ \A entries : Rules!HasErrors(entries) <=> HasErrors(entries)
      /\ \A s : Rules!Superseded(s) = Superseded(s)
      /\ \A rows, csv : Rules!Additions(rows, csv) = Additions(rows, csv)
      /\ \A rows, csv : Rules!CanApply(rows, csv) <=> CanApply(rows, csv)
      /\ \A r : Rules!Settled(r) = Settled(r)
  BY Zenon DEF Rules!HasErrors, HasErrors, Rules!Superseded, Superseded, Rules!OpenPreviews, OpenPreviews,
               Rules!Additions, Additions, Rules!Having, Having, Rules!CanApply, CanApply,
               Rules!Settled, Settled, Rules!NoneOf, NoneOf, Rules!NoValue, NoValue
<1>6. /\ \A rows, s, unavailable : Rules!Classified(rows, s, unavailable) = Classified(rows, s, unavailable)
      /\ \A rows, csv, new : Rules!Applied(rows, csv, new) = Applied(rows, csv, new)
  <2>1. \A rows, s, unavailable : Rules!Classified(rows, s, unavailable) = Classified(rows, s, unavailable)
    BY <1>4 DEF Rules!Classified, Classified
  <2>2. \A rows, csv, new : Rules!Applied(rows, csv, new) = Applied(rows, csv, new)
    BY <1>2 DEF Rules!Applied, Applied
  <2>3. QED
    BY <2>1, <2>2
<1>7. ItemNext => Rules!ItemNext
  <2>1. \A i, t, n : AddToRow(i, t, n) => Rules!AddToRow(i, t, n)
    BY <1>1, <1>2, Zenon DEF AddToRow, Rules!AddToRow
  <2>2. \A i, t, n : AddRow(i, t, n) => Rules!AddRow(i, t, n)
    BY <1>1, <1>2, Zenon DEF AddRow, Rules!AddRow, NewRow, Rules!NewRow, Live, Rules!Live
  <2>3. \A i, v, n : UpdateItem(i, v, n) => Rules!UpdateItem(i, v, n)
    BY <1>1, <1>2, Zenon DEF UpdateItem, Rules!UpdateItem
  <2>4. \A i : (SetPrice(i) => Rules!SetPrice(i)) /\ (DeleteItem(i) => Rules!DeleteItem(i))
    BY <1>1, <1>2, Zenon DEF SetPrice, Rules!SetPrice, DeleteItem, Rules!DeleteItem, Live, Rules!Live
  <2>5. QED
    BY <1>1, <2>1, <2>2, <2>3, <2>4 DEF ItemNext, Rules!ItemNext
<1>8. ImportNext => Rules!ImportNext
  <2>1. \A p, s, unavailable, expired :
          CreatePreview(p, s, unavailable, expired) => Rules!CreatePreview(p, s, unavailable, expired)
    BY <1>1, <1>2, <1>5, <1>6 DEF CreatePreview, Rules!CreatePreview
  <2>2. \A p : (Expire(p) => Rules!Expire(p)) /\ (CancelPreview(p) => Rules!CancelPreview(p))
    BY <1>1, Zenon DEF Expire, Rules!Expire, CancelPreview, Rules!CancelPreview
  <2>3. \A p, new : ConfirmPreview(p, new) => Rules!ConfirmPreview(p, new)
    BY <1>1, <1>2, <1>5, <1>6 DEF ConfirmPreview, Rules!ConfirmPreview
  <2>4. QED
    BY <1>1, <2>1, <2>2, <2>3 DEF ImportNext, Rules!ImportNext
<1>9. QED
  BY <1>7, <1>8 DEF Next, Rules!Next

\* Every step is a step of the rules, or leaves the tables alone.
LEMMA StepImplements == TxnInv /\ [TxnNext]_txnVars => [Next]_collectionVars
<1> SUFFICES ASSUME TxnInv, [TxnNext]_txnVars, collectionVars' # collectionVars PROVE Next
  OBVIOUS
<1>1. ASSUME NEW t \in Txns,
             Begin(t) \/ Look(t) \/ Take(t) \/ Retry(t) \/ Abandon(t) \/ AbortVictim(t)
      PROVE  FALSE
  BY <1>1 DEF Begin, Look, Take, Proceed, Retry, Abandon, AbortVictim
<1>2. ASSUME NEW t \in Txns, Commit(t) PROVE Next
  BY <1>2, CommitImplements
<1>3. Time => Next
  BY DEF Time, Next, ImportNext
<1>4. QED
  BY <1>1, <1>2, <1>3 DEF TxnNext, txnVars, collectionVars

\* The handlers, interleaved statement by statement, do only what the rules allow.
THEOREM TxnsImplementRules == TxnSpec => ImplementsCollection
<1>1. TxnInit => Rules!Init
  BY DEF TxnInit, Init, Rules!Init, NoneOf, NoValue, Rules!NoneOf, Rules!NoValue
<1>2. TxnInv /\ [TxnNext]_txnVars => [collectionVars' # collectionVars => Rules!Next]_txnVars
  BY StepImplements, SameRules
<1>3. QED
  BY <1>1, <1>2, ReadsStayCurrent, PTL DEF TxnSpec, ImplementsCollection

\* So whatever the rules guarantee, the interleaved handlers guarantee: a card has one
\* row, a document one open preview, and a confirmation applies what was reviewed.
THEOREM TxnsKeepGuarantees ==
  TxnSpec => [](UniqueTuples /\ OneOpenPreview /\ PreviewExact) /\ ReviewedIsApplied
<1>1. TxnInit => Init
  BY DEF TxnInit
<1>2. TxnSpec => Spec
  BY <1>1, StepImplements, ReadsStayCurrent, PTL DEF TxnSpec, Spec
<1>3. QED
  BY <1>2, RowsStayUnique, OnePreviewStaysOpen, PreviewStaysExact, ConfirmsWhatWasReviewed, PTL

\* An edit overwrites the very revision that its client has seen.
THEOREM EditsAreNotLost == TxnSpec => NoLostEdit
<1>1. ASSUME TxnInv, TxnNext, NEW t \in Txns, txn[t].req.op \in EditOps, txn'[t] = Idle, row' # row
      PROVE  row[txn[t].req.key].rev = txn[t].req.rev
  <2>1. ASSUME NEW u \in Txns,
               Begin(u) \/ Look(u) \/ Take(u) \/ Retry(u) \/ Abandon(u) \/ AbortVictim(u)
        PROVE  FALSE
    BY <1>1, <2>1 DEF Begin, Look, Take, Proceed, Retry, Abandon, AbortVictim, collectionVars
  <2>2. ~Time
    BY <1>1 DEF Time, Expire
  <2>3. PICK u \in Txns : Commit(u)
    BY <1>1, <2>1, <2>2 DEF TxnNext
  <2>4. Finish(u)
    BY <2>3 DEF Commit, CommitIncrement, CommitInsert, CommitUpdateItem, CommitPriceItem,
                CommitDeleteItem, CommitCreatePreview, CommitConfirmPreview, CommitCancelPreview
  <2>5. u = t
    <3>1. txn[t] # Idle
      BY <1>1 DEF Idle, NoRequest, EditOps
    <3>2. u # t => txn'[t] = txn[t]
      BY <2>4 DEF Finish, TxnInv
    <3>3. QED
      BY <1>1, <3>1, <3>2
  <2>6. Ready(t, txn[t].req.op)
    BY <2>3, <2>5 DEF Commit, CommitIncrement, CommitInsert, CommitUpdateItem, CommitPriceItem,
                      CommitDeleteItem, CommitCreatePreview, CommitConfirmPreview,
                      CommitCancelPreview, Ready
  <2>7. PICK x : x = txn[t]
    OBVIOUS
  <2>8. TypeOK /\ Sound(x) /\ Allowed(x) /\ ReadsCurrent(x) /\ x.stage > 1 /\ x.req.op \in EditOps
    BY <1>1, <2>6, <2>7, ReadyFacts DEF AllOps
  <2>9. EditAllowed(x) /\ ItemReads(x)
    BY <2>8 DEF Allowed, Sound
  <2>10. x.req.key \in Saw(x) /\ x.saw[x.req.key].rev = x.req.rev
    BY <2>9 DEF EditAllowed
  <2>11. x.saw[x.req.key] = row[x.req.key]
    <3>1. PICK i : i = x.req.key
      OBVIOUS
    <3>2. i \in Saw(x)
      BY <2>10, <3>1
    <3>3. x.saw[i] = row[i]
      BY <2>8, <2>9, <3>2, ItemsRead
    <3>4. QED
      BY <3>1, <3>3
  <2>12. QED
    BY <2>7, <2>10, <2>11
<1>2. TxnInv /\ [TxnNext]_txnVars =>
        [\A t \in Txns : txn[t].req.op \in EditOps /\ txn'[t] = Idle /\ row' # row =>
           row[txn[t].req.key].rev = txn[t].req.rev]_txnVars
  BY <1>1
<1>3. QED
  BY <1>2, ReadsStayCurrent, PTL DEF TxnSpec, NoLostEdit

-----------------------------------------------------------------------------
(* Deadlocks.                                                              *)

\* A set of item ids that is not empty has a greatest one.
LEMMA GreatestId ==
  ASSUME NEW M \in SUBSET Ids, M # {}
  PROVE  \E m \in M : \A i \in M : ~(m < i)
<1> DEFINE above(i) == {j \in M : i < j}
           sets == {above(i) : i \in M}
<1>1. IsFiniteSet(M)
  BY IdsAssumption, FS_Subset
<1>2. IsWellFoundedOn(StrictSubsetOrdering(M), SUBSET M)
  BY <1>1, FS_StrictSubsetOrderingWellFounded, FS_FiniteSubsetsOfFinite
<1>3. sets \subseteq SUBSET M /\ sets # {}
  OBVIOUS
<1>4. PICK least \in sets : \A other \in sets : <<other, least>> \notin StrictSubsetOrdering(M)
  <2> HIDE DEF sets
  <2>1. QED
    BY <1>2, <1>3, WFMin
<1>5. PICK m \in M : least = above(m)
  BY <1>4
<1>6. ASSUME NEW i \in M, m < i PROVE FALSE
  <2>1. i \in Nat /\ m \in Nat /\ \A j \in M : j \in Nat
    BY LockOrderAssumption
  <2>2. above(i) \subseteq above(m)
    <3>1. \A j \in M : i < j => m < j
      BY <1>6, <2>1
    <3>2. QED
      BY <3>1
  <2>3. i \in above(m) /\ i \notin above(i)
    BY <1>6, <2>1
  <2>4. <<above(i), above(m)>> \in StrictSubsetOrdering(M)
    <3> HIDE DEF above
    <3>1. above(i) \in SUBSET M /\ above(m) \in SUBSET M
      BY DEF above
    <3>2. QED
      BY <2>2, <2>3, <3>1 DEF StrictSubsetOrdering
  <2>5. QED
    BY <1>4, <1>5, <2>4
<1>7. QED
  BY <1>6

\* What the requests of each kind may take next.
LEMMA TargetsBy ==
  ASSUME NEW x, Formed(x), ~Done(x)
  PROVE  LET q == x.req IN
         /\ q.op \in {"create_item", "update_item"} => Targets(x) = x.todo
         /\ q.op \in {"price_item", "delete_item"} => x.stage = 1 /\ Targets(x) = Rows({q.key} \cap Live)
         /\ q.op = "create_preview" =>
              \/ x.stage = 1 /\ Targets(x) = {<<"table", "previews">>}
              \/ x.stage = 2 /\ Targets(x) = x.todo
              \/ x.stage = 3 /\ Targets(x) = Rows(Superseded(q.key))
              \/ x.stage = 4 /\ Targets(x) = {<<"table", "items">>}
         /\ q.op = "confirm_preview" =>
              \/ x.stage = 1 /\ Targets(x) = Rows({q.key} \cap DOMAIN preview)
              \/ x.stage = 2 /\ Targets(x) = {<<"table", "items">>}
              \/ x.stage = 3 /\ Targets(x) = x.todo
         /\ q.op = "cancel_preview" => x.stage = 1 /\ Targets(x) = Rows({q.key} \cap DOMAIN preview)
<1> DEFINE q == x.req
<1>1. q.op \in {"create_item", "update_item"} => Targets(x) = x.todo
  BY TargetsOf, Statements
<1>2. q.op \in {"price_item", "delete_item"} => x.stage = 1 /\ Targets(x) = Rows({q.key} \cap Live)
  BY TargetsOf, Statements, WantedBy
<1>3. q.op = "create_preview" =>
        \/ x.stage = 1 /\ Targets(x) = {<<"table", "previews">>}
        \/ x.stage = 2 /\ Targets(x) = x.todo
        \/ x.stage = 3 /\ Targets(x) = Rows(Superseded(q.key))
        \/ x.stage = 4 /\ Targets(x) = {<<"table", "items">>}
  BY PreviewAsks
<1>4. q.op = "confirm_preview" =>
        \/ x.stage = 1 /\ Targets(x) = Rows({q.key} \cap DOMAIN preview)
        \/ x.stage = 2 /\ Targets(x) = {<<"table", "items">>}
        \/ x.stage = 3 /\ Targets(x) = x.todo
  BY ConfirmAsks
<1>5. q.op = "cancel_preview" => x.stage = 1 /\ Targets(x) = Rows({q.key} \cap DOMAIN preview)
  BY TargetsOf, Statements, WantedBy
<1>6. QED
  BY <1>1, <1>2, <1>3, <1>4, <1>5

\* What a request that writes waits for, and what one that reads waits for.
LEMMA NeedsOf ==
  ASSUME TxnInv, NEW t \in Txns, Busy(t)
  PROVE  LET x == txn[t] IN
         /\ Sound(x) /\ Formed(x)
         /\ Done(x) => Needs(t) = {<<"table", name>> : name \in Written(x.req.op)}
         /\ ~Done(x) => Needs(t) = First(Targets(x)) /\ Needs(t) \subseteq Targets(x)
BY BusySound DEF Needs, Targets, First, Sound

\* A request on items waits for a row above all it holds, or for the table.
LEMMA ItemNeeds ==
  ASSUME TxnInv, NEW t \in Txns, Busy(t), txn[t].req.op \in ItemRequests, NEW l \in Needs(t)
  PROVE  /\ txn[t].held \subseteq Rows(Ids)
         /\ \/ l = <<"table", "items">>
            \/ l \in Rows(Ids) /\ \A h \in txn[t].held : h[2] < l[2]
<1> DEFINE x == txn[t]
           q == txn[t].req
<1>1. Sound(x) /\ Formed(x) /\ ItemReads(x)
  BY NeedsOf DEF Sound, ItemRequests
<1>2. x.held \subseteq Rows(Ids)
  BY <1>1 DEF ItemReads
<1>3. CASE Done(x)
  <2>1. Written(q.op) = {"items"}
    <3>1. PICK op : op = q.op
      OBVIOUS
    <3>2. op \in EditOps \cup {"create_item"}
      BY <3>1 DEF ItemRequests, EditOps
    <3>3. Written(op) = {"items"}
      BY <3>2 DEF Written, EditOps
    <3>4. QED
      BY <3>1, <3>3
  <2>2. l \in {<<"table", name>> : name \in {"items"}}
    BY <1>3, <2>1, NeedsOf
  <2>3. QED
    BY <1>2, <2>2
<1>4. CASE ~Done(x) /\ q.op \in {"create_item", "update_item"}
  <2>1. l \in x.todo
    BY <1>1, <1>4, NeedsOf, TargetsBy
  <2>2. QED
    BY <1>1, <1>2, <2>1 DEF ItemReads
<1>5. CASE ~Done(x) /\ q.op \in {"price_item", "delete_item"}
  <2>1. l \in Rows({q.key} \cap Live) /\ x.stage = 1
    BY <1>1, <1>5, NeedsOf, TargetsBy
  <2>2. x.held = {}
    BY <1>1, <1>5, <2>1 DEF ItemReads
  <2>3. {q.key} \cap Live \subseteq Ids
    BY RowIds DEF TxnInv
  <2>4. l \in Rows(Ids)
    BY <2>1, <2>3, RowsWithin
  <2>5. QED
    BY <1>2, <2>2, <2>4
<1>6. QED
  BY <1>3, <1>4, <1>5 DEF ItemRequests, EditOps

\* A preview has nothing while it waits for its table; then it has the table, and waits
\* for previews, for the table of items, or again for its own table.
LEMMA PreviewNeeds ==
  ASSUME TxnInv, NEW t \in Txns, Busy(t), txn[t].req.op = "create_preview", NEW l \in Needs(t)
  PROVE  \/ txn[t].held = {} /\ l = <<"table", "previews">>
         \/ <<"table", "previews">> \in txn[t].held /\ l[1] = "row"
         \/ /\ <<"table", "previews">> \in txn[t].held /\ <<"table", "items">> \notin txn[t].held
            /\ l = <<"table", "items">>
         \/ <<"table", "previews">> \in txn[t].held /\ l = <<"table", "previews">>
<1> DEFINE x == txn[t]
           q == txn[t].req
<1>1. Sound(x) /\ Formed(x) /\ PreviewReads(x)
  BY NeedsOf DEF Sound
<1>2. /\ IF x.stage = 1 THEN x.held = {} ELSE <<"table", "previews">> \in x.held
      /\ x.stage >= 5 <=> <<"table", "items">> \in x.held
      /\ x.todo \subseteq Rows(PreviewIds)
  BY <1>1 DEF PreviewReads
<1>3. CASE Done(x)
  <2>1. Needs(t) = {<<"table", name>> : name \in {"previews"}}
    BY <1>3, NeedsOf DEF Written, EditOps
  <2>2. x.held = {} \/ <<"table", "previews">> \in x.held
    BY <1>2
  <2>3. QED
    BY <2>1, <2>2
<1>4. CASE ~Done(x)
  <2>1. l \in Targets(x)
    BY <1>4, NeedsOf
  <2>2. \/ x.stage = 1 /\ Targets(x) = {<<"table", "previews">>}
        \/ x.stage = 2 /\ Targets(x) = x.todo
        \/ x.stage = 3 /\ Targets(x) = Rows(Superseded(q.key))
        \/ x.stage = 4 /\ Targets(x) = {<<"table", "items">>}
    BY <1>1, <1>4, TargetsBy
  <2>3. CASE x.stage = 1 /\ Targets(x) = {<<"table", "previews">>}
    BY <1>2, <2>1, <2>3
  <2>4. CASE x.stage = 2 /\ Targets(x) = x.todo
    BY <1>2, <2>1, <2>4, RowsOf
  <2>5. CASE x.stage = 3 /\ Targets(x) = Rows(Superseded(q.key))
    BY <1>2, <2>1, <2>5, RowsOf
  <2>6. CASE x.stage = 4 /\ Targets(x) = {<<"table", "items">>}
    BY <1>2, <2>1, <2>6
  <2>7. QED
    BY <2>2, <2>3, <2>4, <2>5, <2>6
<1>5. QED
  BY <1>3, <1>4

\* A confirmation has nothing while it waits for its preview, and no table while it
\* waits for the table of items; when it has that it waits for rows, or writes.
LEMMA ConfirmNeeds ==
  ASSUME TxnInv, NEW t \in Txns, Busy(t), txn[t].req.op = "confirm_preview", NEW l \in Needs(t)
  PROVE  \/ txn[t].held = {} /\ l[1] = "row"
         \/ <<"table", "items">> \notin txn[t].held /\ l = <<"table", "items">>
         \/ <<"table", "items">> \in txn[t].held /\ l[1] = "row"
         \/ /\ <<"table", "items">> \in txn[t].held
            /\ l = <<"table", "items">> \/ l = <<"table", "previews">>
            /\ <<"table", "previews">> \in Needs(t)
<1> DEFINE x == txn[t]
           q == txn[t].req
<1>1. Sound(x) /\ Formed(x) /\ ConfirmReads(x)
  BY NeedsOf DEF Sound
<1>2. /\ x.stage = 1 => x.held = {}
      /\ x.stage >= 3 <=> <<"table", "items">> \in x.held
      /\ x.todo \subseteq Rows(Ids)
  BY <1>1 DEF ConfirmReads
<1>3. CASE Done(x)
  <2>1. Needs(t) = {<<"table", name>> : name \in {"items", "previews"}}
    BY <1>3, NeedsOf DEF Written, EditOps
  <2>2. x.stage >= 3
    <3>1. PICK op : op = q.op
      OBVIOUS
    <3>2. op = "confirm_preview" /\ op \in AllOps
      BY <3>1 DEF AllOps
    <3>3. Len(Plan(op)) = 3
      BY <3>2, PlanLength
    <3>4. x.stage = Len(Plan(op)) + 1
      BY <1>1, <1>3, <3>1, Statements
    <3>5. QED
      BY <3>3, <3>4
  <2>3. QED
    BY <1>2, <2>1, <2>2
<1>4. CASE ~Done(x)
  <2>1. l \in Targets(x)
    BY <1>4, NeedsOf
  <2>2. \/ x.stage = 1 /\ Targets(x) = Rows({q.key} \cap DOMAIN preview)
        \/ x.stage = 2 /\ Targets(x) = {<<"table", "items">>}
        \/ x.stage = 3 /\ Targets(x) = x.todo
    BY <1>1, <1>4, TargetsBy
  <2>3. CASE x.stage = 1 /\ Targets(x) = Rows({q.key} \cap DOMAIN preview)
    BY <1>2, <2>1, <2>3, RowsOf
  <2>4. CASE x.stage = 2 /\ Targets(x) = {<<"table", "items">>}
    BY <1>2, <2>1, <2>4
  <2>5. CASE x.stage = 3 /\ Targets(x) = x.todo
    BY <1>2, <2>1, <2>5, RowsOf
  <2>6. QED
    BY <2>2, <2>3, <2>4, <2>5
<1>5. QED
  BY <1>3, <1>4

\* A cancellation has nothing while it waits for its preview; then it only writes.
LEMMA CancelNeeds ==
  ASSUME TxnInv, NEW t \in Txns, Busy(t), txn[t].req.op = "cancel_preview", NEW l \in Needs(t)
  PROVE  /\ \A h \in txn[t].held : h[1] = "row"
         /\ \/ txn[t].held = {} /\ l[1] = "row"
            \/ l = <<"table", "previews">>
<1> DEFINE x == txn[t]
           q == txn[t].req
<1>1. Sound(x) /\ Formed(x) /\ CancelReads(x)
  BY NeedsOf DEF Sound
<1>2. x.held \subseteq Rows({q.key}) /\ (x.stage = 1 => x.held = {})
  BY <1>1 DEF CancelReads
<1>3. \A h \in x.held : h[1] = "row"
  BY <1>2, RowsOf
<1>4. CASE Done(x)
  <2>1. Needs(t) = {<<"table", name>> : name \in {"previews"}}
    BY <1>4, NeedsOf DEF Written, EditOps
  <2>2. QED
    BY <1>3, <2>1
<1>5. CASE ~Done(x)
  <2>1. l \in Rows({q.key} \cap DOMAIN preview) /\ x.stage = 1
    BY <1>1, <1>5, NeedsOf, TargetsBy
  <2>2. QED
    BY <1>2, <1>3, <2>1, RowsOf
<1>6. QED
  BY <1>4, <1>5

\* Only a preview holds the table of previews, and only a preview or a confirmation
\* holds the table of items.
LEMMA TableHolders ==
  ASSUME TxnInv, NEW t \in Txns, Busy(t)
  PROVE  /\ txn[t].req.op \in ItemRequests \cup {"create_preview", "confirm_preview", "cancel_preview"}
         /\ \A h \in txn[t].held :
              h[1] = "row" \/ h = <<"table", "items">> \/ h = <<"table", "previews">>
         /\ <<"table", "previews">> \in txn[t].held => txn[t].req.op = "create_preview"
         /\ <<"table", "items">> \in txn[t].held =>
              \/ txn[t].req.op = "confirm_preview"
              \/ <<"table", "previews">> \in txn[t].held
<1> DEFINE x == txn[t]
           op == txn[t].req.op
<1>1. Sound(x) /\ op \in AllOps
  BY BusySound DEF Sound, Formed, RequestOK
<1>2. op \in ItemRequests \cup {"create_preview", "confirm_preview", "cancel_preview"}
  BY <1>1 DEF AllOps, ItemRequests
<1>3. CASE op \in ItemRequests
  <2>1. x.held \subseteq Rows(Ids)
    BY <1>1, <1>3 DEF Sound, ItemRequests, ItemReads
  <2>2. \A h \in x.held : h[1] = "row"
    BY <2>1, RowsOf
  <2>3. QED
    BY <1>2, <2>2
<1>4. CASE op = "create_preview"
  <2>1. x.held \subseteq Rows(PreviewIds) \cup {<<"table", "previews">>, <<"table", "items">>}
    BY <1>1, <1>4 DEF Sound, PreviewReads
  <2>2. x.held = {} \/ <<"table", "previews">> \in x.held
    BY <1>1, <1>4 DEF Sound, PreviewReads
  <2>3. \A h \in x.held : h[1] = "row" \/ h = <<"table", "items">> \/ h = <<"table", "previews">>
    BY <2>1, RowsOf
  <2>4. QED
    BY <1>2, <1>4, <2>2, <2>3
<1>5. CASE op = "confirm_preview"
  <2>1. x.held \subseteq Rows(Ids \cup {x.req.key}) \cup {<<"table", "items">>}
    BY <1>1, <1>5 DEF Sound, ConfirmReads
  <2>2. \A h \in x.held : h[1] = "row" \/ h = <<"table", "items">>
    BY <2>1, RowsOf
  <2>3. QED
    BY <1>2, <1>5, <2>2
<1>6. CASE op = "cancel_preview"
  <2>1. x.held \subseteq Rows({x.req.key})
    BY <1>1, <1>6 DEF Sound, CancelReads
  <2>2. \A h \in x.held : h[1] = "row"
    BY <2>1, RowsOf
  <2>3. QED
    BY <1>2, <2>2
<1>7. QED
  BY <1>2, <1>3, <1>4, <1>5, <1>6

\* Each request of a deadlock waits for a lock of another one.
LEMMA Waits ==
  ASSUME NEW S \in SUBSET Txns, Deadlocked(S), NEW t \in S
  PROVE  Busy(t) /\ \E l \in Needs(t), u \in S \ {t} : l \in txn[u].held /\ l \in HeldBy(S \ {t})
<1>1. PICK l \in Needs(t) : l \in HeldBy(S \ {t})
  BY DEF Deadlocked
<1>2. Busy(t)
  BY <1>1 DEF Needs
<1>3. PICK u \in S \ {t} : l \in txn[u].held
  BY <1>1 DEF HeldBy
<1>4. QED
  BY <1>1, <1>2, <1>3

\* A deadlock of a request that holds a table is one of the two of DeadlockNeedsTableLock.
LEMMA TablesDeadlock ==
  ASSUME TxnInv, NEW S \in SUBSET Txns, Deadlocked(S),
         NEW t \in S, <<"table", "previews">> \in txn[t].held \/ <<"table", "items">> \in txn[t].held
  PROVE  \/ \E u \in S : \E table \in txn[u].held, r \in Needs(u) \cap HeldBy(S \ {u}) :
              table[1] = "table" /\ r[1] = "row"
         \/ \E u, v \in S : TablesCrossed(u, v)
<1> DEFINE RowWaited == \E u \in S : \E table \in txn[u].held, r \in Needs(u) \cap HeldBy(S \ {u}) :
                    table[1] = "table" /\ r[1] = "row"
           Crossed == \E u, v \in S : TablesCrossed(u, v)
<1> SUFFICES ASSUME ~RowWaited, ~Crossed PROVE FALSE
  OBVIOUS
<1>1. ASSUME NEW u \in S, NEW v \in S, u # v, NEW l \in txn[u].held, l \in txn[v].held PROVE FALSE
  BY <1>1 DEF TxnInv
<1>2. \A u \in S : \A table \in txn[u].held, r \in Needs(u) :
        table[1] = "table" /\ r \in HeldBy(S \ {u}) => r[1] # "row"
  OBVIOUS
<1>3. \A u, v \in S : ~TablesCrossed(u, v)
  OBVIOUS
<1> HIDE DEF RowWaited, Crossed
\* the previews are not held
<1>4. ASSUME NEW u \in S, <<"table", "previews">> \in txn[u].held PROVE FALSE
  <2>1. Busy(u) /\ u \in Txns
    BY Waits
  <2>2. txn[u].req.op = "create_preview"
    BY <1>4, <2>1, TableHolders
  <2>3. PICK l \in Needs(u), v \in S \ {u} : l \in txn[v].held /\ l \in HeldBy(S \ {u})
    BY Waits
  <2>4. l[1] # "row"
    <3>1. PICK table : table = <<"table", "previews">>
      OBVIOUS
    <3>2. table \in txn[u].held /\ table[1] = "table"
      BY <1>4, <3>1
    <3>3. QED
      BY <1>2, <2>3, <3>2
  <2>5. l # <<"table", "previews">>
    BY <1>1, <1>4, <2>3
  <2>6. l = <<"table", "items">>
    BY <1>4, <2>1, <2>2, <2>4, <2>5, PreviewNeeds
  <2>7. Busy(v) /\ v \in Txns
    BY Waits
  <2>8. <<"table", "previews">> \notin txn[v].held
    BY <1>1, <1>4, <2>3
  <2>9. txn[v].req.op = "confirm_preview"
    BY <2>3, <2>6, <2>7, <2>8, TableHolders
  <2>10. PICK k \in Needs(v), w \in S \ {v} : k \in txn[w].held /\ k \in HeldBy(S \ {v})
    BY Waits
  <2>11. k[1] # "row"
    BY <1>2, <2>3, <2>6, <2>10
  <2>12. <<"table", "previews">> \in Needs(v)
    BY <2>3, <2>6, <2>7, <2>9, <2>11, ConfirmNeeds
  <2>13. TablesCrossed(u, v)
    BY <1>4, <2>3, <2>6, <2>12 DEF TablesCrossed
  <2>14. QED
    BY <1>3, <2>13
<1>5. <<"table", "items">> \in txn[t].held
  BY <1>4
<1>6. Busy(t) /\ t \in Txns
  BY Waits
<1>7. txn[t].req.op = "confirm_preview"
  BY <1>4, <1>5, <1>6, TableHolders
<1>8. PICK l \in Needs(t), u \in S \ {t} : l \in txn[u].held /\ l \in HeldBy(S \ {t})
  BY Waits
<1>9. l[1] # "row"
  <2>1. PICK table : table = <<"table", "items">>
    OBVIOUS
  <2>2. table \in txn[t].held /\ table[1] = "table"
    BY <1>5, <2>1
  <2>3. QED
    BY <1>2, <1>8, <2>2
<1>10. l = <<"table", "items">> \/ l = <<"table", "previews">>
  BY <1>5, <1>6, <1>7, <1>8, <1>9, ConfirmNeeds
<1>11. CASE l = <<"table", "items">>
  BY <1>1, <1>5, <1>8, <1>11
<1>12. CASE l = <<"table", "previews">>
  BY <1>4, <1>8, <1>12
<1>13. QED
  BY <1>10, <1>11, <1>12

\* Requests that hold only rows do not deadlock: the one that holds the greatest of
\* them would wait for a greater one.
LEMMA RowsDoNotDeadlock ==
  ASSUME TxnInv, NEW S \in SUBSET Txns, Deadlocked(S),
         \A t \in S : \A h \in txn[t].held : h[1] = "row"
  PROVE  FALSE
<1>1. \A l : l[1] = "row" => l # <<"table", "items">> /\ l # <<"table", "previews">>
  <2>1. ASSUME NEW l, l[1] = "row", l = <<"table", "items">> \/ l = <<"table", "previews">> PROVE FALSE
    BY <2>1
  <2>2. QED
    BY <2>1
<1>2. ASSUME NEW t \in S, NEW l \in Needs(t), l[1] = "row", txn[t].held # {}
      PROVE  txn[t].held \subseteq Rows(Ids) /\ l \in Rows(Ids) /\ \A h \in txn[t].held : h[2] < l[2]
  <2>1. Busy(t) /\ t \in Txns
    BY Waits
  <2>2. l # <<"table", "items">> /\ l # <<"table", "previews">>
    BY <1>1, <1>2
  <2>3. <<"table", "items">> \notin txn[t].held /\ <<"table", "previews">> \notin txn[t].held
    BY <1>1
  <2>4. txn[t].req.op \in ItemRequests
    <3>1. txn[t].req.op # "create_preview"
      BY <1>2, <2>1, <2>2, <2>3, PreviewNeeds
    <3>2. txn[t].req.op # "confirm_preview"
      BY <1>2, <2>1, <2>2, <2>3, ConfirmNeeds
    <3>3. txn[t].req.op # "cancel_preview"
      BY <1>2, <2>1, <2>2, CancelNeeds
    <3>4. QED
      BY <2>1, <3>1, <3>2, <3>3, TableHolders
  <2>5. QED
    BY <2>1, <2>2, <2>4, ItemNeeds
<1> DEFINE M == {i \in Ids : \E u \in S : <<"row", i>> \in txn[u].held}
\* what somebody of S waits for is in M
<1>3. ASSUME NEW t \in S, NEW l, l \in txn[t].held
      PROVE  l = <<"row", l[2]>> /\ l[2] \in M
  <2>1. Busy(t) /\ txn[t].held # {}
    BY <1>3, Waits
  <2>2. PICK k \in Needs(t), v \in S \ {t} : k \in txn[v].held
    BY Waits
  <2>3. k[1] = "row"
    BY <2>2
  <2>4. l \in Rows(Ids)
    BY <1>2, <1>3, <2>1, <2>3
  <2>5. l = <<"row", l[2]>> /\ l[2] \in Ids
    BY <2>4, RowsOf
  <2>6. QED
    BY <1>3, <2>5
<1>4. M # {}
  <2>1. PICK t \in S : TRUE
    BY DEF Deadlocked
  <2>2. PICK l \in Needs(t), u \in S \ {t} : l \in txn[u].held
    BY Waits
  <2>3. l[2] \in M
    BY <1>3, <2>2
  <2>4. QED
    BY <2>3
<1>5. PICK m \in M : \A i \in M : ~(m < i)
  BY <1>4, GreatestId
<1>6. PICK t \in S : <<"row", m>> \in txn[t].held
  BY <1>5
<1>7. PICK l \in Needs(t), u \in S \ {t} : l \in txn[u].held
  BY Waits
<1>8. l[1] = "row" /\ l[2] \in M
  BY <1>3, <1>7
<1>9. m < l[2]
  <2>1. PICK h : h = <<"row", m>>
    OBVIOUS
  <2>2. h \in txn[t].held /\ h[2] = m
    BY <1>6, <2>1
  <2>3. h[2] < l[2]
    BY <1>2, <1>7, <1>8, <2>2
  <2>4. QED
    BY <2>2, <2>3
<1>10. QED
  BY <1>5, <1>8, <1>9

\* Edits of items never deadlock among themselves, whatever the collection and however
\* many clients: a cycle has an import that holds a whole table and waits for a row, or
\* a preview and a confirmation that hold the two tables crosswise.
THEOREM EditsDoNotDeadlock == TxnSpec => []DeadlockNeedsTableLock
<1>1. TxnInv => DeadlockNeedsTableLock
  <2> SUFFICES ASSUME TxnInv, NEW S \in SUBSET Txns, Deadlocked(S)
               PROVE  \/ \E t \in S : \E table \in txn[t].held, r \in Needs(t) \cap HeldBy(S \ {t}) :
                           table[1] = "table" /\ r[1] = "row"
                      \/ \E t, u \in S : TablesCrossed(t, u)
    BY DEF DeadlockNeedsTableLock
  <2>1. PICK t \in S : \E h \in txn[t].held : h[1] # "row"
    BY RowsDoNotDeadlock
  <2>2. Busy(t) /\ t \in Txns
    BY Waits
  <2>3. <<"table", "previews">> \in txn[t].held \/ <<"table", "items">> \in txn[t].held
    BY <2>1, <2>2, TableHolders
  <2>4. QED
    BY <2>3, TablesDeadlock
<1>2. QED
  BY <1>1, ReadsStayCurrent, PTL

=============================================================================
