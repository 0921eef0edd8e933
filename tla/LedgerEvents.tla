---------------------------- MODULE LedgerEvents ----------------------------
(***************************************************************************)
(* The append-only contract of ledger/v1: what the triggers and the unique *)
(* indexes of traust_ledger.layers and traust_ledger.events make of the    *)
(* transactions of concurrent writers.  The writers are ledger runtimes,   *)
(* which are not part of this repository: they may send any INSERT, UPDATE *)
(* or DELETE (SQLite's INSERT OR REPLACE, which deletes without firing the *)
(* DELETE triggers, is left out).                                          *)
(***************************************************************************)
EXTENDS Integers

CONSTANTS Writer, Layer, Event, Repo, Nil,
          MaxSeq,    \* the largest value of the INTEGER column seq
          Dialect

ASSUME SeqAssumption == MaxSeq \in Nat
ASSUME DialectAssumption == Dialect \in {"postgres", "sqlite"}
ASSUME NilAssumption == Nil \notin Repo

VARIABLES events,  \* committed rows of events
          layers,  \* committed rows of layers
          inTx,    \* writers that are inside a transaction
          pend,    \* writer -> the event row that passed the trigger, or none
          tx,      \* writer -> the event rows its transaction inserted
          lay      \* writer -> the layer row versions its transaction wrote

vars == <<events, layers, inTx, pend, tx, lay>>

EventRow == [layer : Layer, seq : 0 .. MaxSeq, event : Event]
LayerRow == [layer : Layer, repo : Repo \cup {Nil}]

-----------------------------------------------------------------------------
Init ==
    /\ events = {} /\ layers = {}
    /\ inTx = {}
    /\ pend = [w \in Writer |-> {}]
    /\ tx = [w \in Writer |-> {}]
    /\ lay = [w \in Writer |-> {}]

\* READ COMMITTED, and the transaction's own rows.
Visible(w) == events \cup tx[w]

\* Layer rows rs with the versions own in place of those they update.
Merged(rs, own) == {r \in rs : \A s \in own : s.layer # r.layer} \cup own

\* SQLite has one writer at a time.
Begin(w) ==
    /\ w \notin inTx
    /\ Dialect = "sqlite" => inTx = {}
    /\ inTx' = inTx \cup {w}
    /\ UNCHANGED <<events, layers, pend, tx, lay>>

\* Nothing of the transaction is left.
End(w) ==
    /\ inTx' = inTx \ {w}
    /\ pend' = [pend EXCEPT ![w] = {}]
    /\ tx' = [tx EXCEPT ![w] = {}]
    /\ lay' = [lay EXCEPT ![w] = {}]

\* A statement raises: PostgreSQL aborts the transaction, SQLite undoes the
\* statement and leaves the transaction to go on.
Raise(w) ==
    /\ IF Dialect = "sqlite"
       THEN pend' = [pend EXCEPT ![w] = {}] /\ UNCHANGED <<inTx, tx, lay>>
       ELSE End(w)
    /\ UNCHANGED <<events, layers>>

\* The writer can send its next statement.
Ready(w) == w \in inTx /\ pend[w] = {}

-----------------------------------------------------------------------------
(* Events. *)

\* Mutant: the trigger only asks for a number that is not below the stream.
Expected_Loose(w, l, n) == \A r \in Visible(w) : r.layer = l => r.seq < n

\* n is COALESCE(MAX(seq) + 1, 0) over the rows of layer l.
Expected(w, l, n) ==
    LET stream == {r \in Visible(w) : r.layer = l}
    IN  /\ \A r \in stream : r.seq < n
        /\ IF stream = {} THEN n = 0 ELSE \E r \in stream : n = r.seq + 1

\* INSERT, up to the BEFORE INSERT trigger.
Append(w, row) ==
    /\ Ready(w)
    /\ Expected(w, row.layer, row.seq)
    /\ pend' = [pend EXCEPT ![w] = {row}]
    /\ UNCHANGED <<events, layers, inTx, tx, lay>>

AppendRejected(w, row) ==
    /\ Ready(w)
    /\ ~ Expected(w, row.layer, row.seq)
    /\ Raise(w)

\* Mutant: there is no unique index on (layer_id, seq).
Clash_EventId(r, s) == r.layer = s.layer /\ r.event = s.event

\* The unique indexes on (layer_id, seq) and (layer_id, event_id).
Clash(r, s) == r.layer = s.layer /\ (r.seq = s.seq \/ r.event = s.event)

\* A row that a rival's open transaction inserted makes the INSERT wait.
Blocks(o, row) == \E s \in tx[o] : Clash(row, s)

NotBlocked(w, row) == \A o \in Writer \ {w} : ~ Blocks(o, row)

\* The rows are in the indexes, and the foreign key finds the layer.
Fits(w, row) ==
    /\ \A s \in Visible(w) : ~ Clash(row, s)
    /\ \E r \in Merged(layers, lay[w]) : r.layer = row.layer

Insert(w, row) ==
    /\ pend[w] = {row}
    /\ NotBlocked(w, row)
    /\ Fits(w, row)
    /\ tx' = [tx EXCEPT ![w] = @ \cup {row}]
    /\ pend' = [pend EXCEPT ![w] = {}]
    /\ UNCHANGED <<events, layers, inTx, lay>>

InsertViolates(w, row) ==
    /\ pend[w] = {row}
    /\ NotBlocked(w, row)
    /\ ~ Fits(w, row)
    /\ Raise(w)

\* Mutant: events has no trigger against DELETE.
ChangeEvents_NoTrigger(w) ==
    /\ Ready(w)
    /\ \E r \in events : events' = events \ {r}
    /\ UNCHANGED <<layers, inTx, pend, tx, lay>>

\* UPDATE, DELETE and TRUNCATE of events meet reject_authoritative_mutation.
ChangeEvents(w) == Ready(w) /\ Visible(w) # {} /\ Raise(w)

-----------------------------------------------------------------------------
(* Layers. *)

\* Two layers of one product_repo clash in the partial unique index.
SameRepo(r, s) == r.repo # Nil /\ r.repo = s.repo

\* No rival's open transaction holds the row, or an index entry it needs:
\* the new one of a version it wrote or the old one of a row it updated.
LayerFree(w, row) ==
    \A o \in Writer \ {w} : \A s \in lay[o] :
        /\ s.layer # row.layer
        /\ ~ SameRepo(row, s)
        /\ \A r \in layers : r.layer = s.layer => ~ SameRepo(row, r)

Unlinked(w, row) ==
    \A r \in Merged(layers, lay[w]) : r.layer # row.layer => ~ SameRepo(row, r)

Has(rs, l) == \E r \in rs : r.layer = l

WriteLayer(w, row) == lay' = [lay EXCEPT ![w] = Merged(@, {row})]

InsertLayer(w, row) ==
    /\ Ready(w)
    /\ LayerFree(w, row)
    /\ ~ Has(Merged(layers, lay[w]), row.layer)
    /\ Unlinked(w, row)
    /\ WriteLayer(w, row)
    /\ UNCHANGED <<events, layers, inTx, pend, tx>>

\* Mutant: the index on product_repo_id is not unique.
RelinkLayer_NoIndex(w, row) ==
    /\ Ready(w)
    /\ Has(Merged(layers, lay[w]), row.layer)
    /\ \A o \in Writer \ {w} : ~ Has(lay[o], row.layer)
    /\ WriteLayer(w, row)
    /\ UNCHANGED <<events, layers, inTx, pend, tx>>

\* UPDATE layers: nothing forbids pointing a layer at another product_repo.
RelinkLayer(w, row) ==
    /\ Ready(w)
    /\ LayerFree(w, row)
    /\ Has(Merged(layers, lay[w]), row.layer)
    /\ Unlinked(w, row)
    /\ WriteLayer(w, row)
    /\ UNCHANGED <<events, layers, inTx, pend, tx>>

\* INSERT of a layer that exists, or a second layer for a product_repo.
LayerViolates(w, row) ==
    /\ Ready(w)
    /\ LayerFree(w, row)
    /\ Has(Merged(layers, lay[w]), row.layer) \/ ~ Unlinked(w, row)
    /\ Raise(w)

\* DELETE (and TRUNCATE on PostgreSQL) of layers is rejected.
DeleteLayer(w) == Ready(w) /\ Merged(layers, lay[w]) # {} /\ Raise(w)

-----------------------------------------------------------------------------
Commit(w) ==
    /\ Ready(w)
    /\ events' = events \cup tx[w]
    /\ layers' = Merged(layers, lay[w])
    /\ End(w)

\* The writer rolls back or dies, or PostgreSQL breaks a wait cycle.
Rollback(w) ==
    /\ w \in inTx
    /\ End(w)
    /\ UNCHANGED <<events, layers>>

Step(w) ==
    \/ Begin(w)
    \/ \E row \in EventRow : Append(w, row) \/ AppendRejected(w, row)
    \/ \E row \in pend[w] : Insert(w, row) \/ InsertViolates(w, row)
    \/ ChangeEvents(w)
    \/ \E row \in LayerRow : InsertLayer(w, row) \/ RelinkLayer(w, row)
                             \/ LayerViolates(w, row)
    \/ DeleteLayer(w)
    \/ Commit(w) \/ Rollback(w)

Next == \E w \in Writer : Step(w)
Spec == Init /\ [][Next]_vars

-----------------------------------------------------------------------------
(* Properties. *)

(* Rows have the types of their columns, and only a writer inside a           *)
(* transaction has something uncommitted.                                     *)
TypeOK ==
    /\ events \subseteq EventRow
    /\ layers \subseteq LayerRow
    /\ inTx \subseteq Writer
    /\ pend \in [Writer -> SUBSET EventRow]
    /\ tx \in [Writer -> SUBSET EventRow]
    /\ lay \in [Writer -> SUBSET LayerRow]
    /\ \A w \in Writer : w \notin inTx => pend[w] = {} /\ tx[w] = {} /\ lay[w] = {}

\* Every sequence number below one that rs uses in a layer is used there.
Contiguous(rs) ==
    \A r \in rs : \A n \in 0 .. r.seq : \E s \in rs : s.layer = r.layer /\ s.seq = n

\* A layer uses neither a number nor an event identifier twice.
Distinct(rs) ==
    \A r, s \in rs : r.layer = s.layer /\ (r.seq = s.seq \/ r.event = s.event) => r = s

(* Every committed stream starts at 0, has no gap, uses no number twice and   *)
(* holds no event twice (a writer that repeats a batch whose COMMIT it never  *)
(* heard of is refused), although the trigger cannot see the rows that rival  *)
(* transactions have inserted and not committed.                              *)
StreamsAreLogs == Contiguous(events) /\ Distinct(events)

(* No step removes or changes an event, and what it adds to a stream comes    *)
(* after everything that was committed there: a reader that consumed a stream *)
(* up to some number never has to look back.                                  *)
AppendStep ==
    /\ events \subseteq events'
    /\ \A r \in events : \A s \in events' \ events : r.layer = s.layer => r.seq < s.seq
AppendOnly == [][AppendStep]_vars

(* Of the open transactions at most one has rows in a stream: the first row   *)
(* a writer gets in makes it the only appender of the layer until it ends.    *)
OneAppender ==
    \A v, w \in Writer : \A r \in tx[v], s \in tx[w] : r.layer = s.layer => v = w

(* A writer that has a row in a stream never waits again to append to it, so  *)
(* a batch for one layer waits for rivals at its first row only, and writers  *)
(* that append to one layer per transaction cannot deadlock.                  *)
BatchNeverWaits ==
    \A w \in Writer : \A row \in pend[w] :
        (\E s \in tx[w] : s.layer = row.layer) => NotBlocked(w, row)

(* A product_repo has at most one layer, however layers are inserted and      *)
(* relinked at the same time, and every event belongs to a layer that exists. *)
LayersAgree ==
    /\ \A r, s \in layers : r.layer = s.layer \/ SameRepo(r, s) => r = s
    /\ \A e \in events : \E r \in layers : r.layer = e.layer
=============================================================================
