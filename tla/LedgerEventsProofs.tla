------------------------- MODULE LedgerEventsProofs -------------------------
(***************************************************************************)
(* The ledger's streams are logs, for any number of writers, layers and    *)
(* events.  The trigger alone does not give this (it cannot see rivals'    *)
(* rows) and neither does the unique index alone (it allows gaps): the     *)
(* inductive invariant says that every transaction sees contiguous         *)
(* streams, so that two appenders of one layer would have to use the same  *)
(* first number, and the index lets only one of them in.                   *)
(***************************************************************************)
EXTENDS LedgerEvents, TLAPS

\* The stream is contiguous below a row that passed the trigger, and the
\* writer's own rows of the layer are below it.
Follows(w, row) ==
    /\ \A n \in Nat : n < row.seq => \E s \in Visible(w) : s.layer = row.layer /\ s.seq = n
    /\ \A s \in tx[w] : s.layer = row.layer => s.seq < row.seq

SeesLogs(w) ==
    /\ Contiguous(Visible(w))
    /\ Distinct(Visible(w))
    /\ \A r \in tx[w] : r \notin events
    /\ \A row \in pend[w] : Follows(w, row)

StreamInv ==
    /\ StreamsAreLogs
    /\ OneAppender
    /\ \A w \in Writer : SeesLogs(w)

\* A layer has one row, a product_repo one layer.
Unique(rs) == \A r, s \in rs : r.layer = s.layer \/ SameRepo(r, s) => r = s

LayerInv ==
    /\ Unique(layers)
    /\ \A w \in Writer : Unique(Merged(layers, lay[w]))
    /\ \A v, w \in Writer : \A r \in lay[v], s \in lay[w] :
          r.layer = s.layer \/ SameRepo(r, s) => v = w
    /\ \A e \in events : Has(layers, e.layer)
    /\ \A w \in Writer : \A e \in tx[w] : Has(Merged(layers, lay[w]), e.layer)

Inv == TypeOK /\ StreamInv /\ LayerInv

-----------------------------------------------------------------------------
(* Types. *)

LEMMA InitInv == Init => Inv
  BY SeqAssumption DEF Init, Inv, TypeOK, StreamInv, LayerInv, StreamsAreLogs, OneAppender,
     SeesLogs, Visible, Contiguous, Distinct, Unique, Merged, Has, Follows, EventRow, LayerRow

LEMMA RaiseCases ==
  ASSUME NEW w \in Writer, Raise(w)
  PROVE  /\ UNCHANGED <<events, layers>>
         /\ \/ pend' = [pend EXCEPT ![w] = {}] /\ UNCHANGED <<inTx, tx, lay>>
            \/ End(w)
  BY DEF Raise

LEMMA EndTypes ==
  ASSUME TypeOK, NEW w \in Writer, End(w)
  PROVE  /\ inTx' \subseteq Writer
         /\ pend' \in [Writer -> SUBSET EventRow]
         /\ tx' \in [Writer -> SUBSET EventRow]
         /\ lay' \in [Writer -> SUBSET LayerRow]
         /\ \A v \in Writer : v \notin inTx' => pend'[v] = {} /\ tx'[v] = {} /\ lay'[v] = {}
  BY DEF TypeOK, End

LEMMA RaiseTypes ==
  ASSUME TypeOK, NEW w \in Writer, Raise(w)
  PROVE  TypeOK'
  <1>1. CASE End(w)
    BY <1>1, RaiseCases, EndTypes DEF TypeOK
  <1>2. CASE pend' = [pend EXCEPT ![w] = {}] /\ UNCHANGED <<inTx, tx, lay>>
    BY <1>2, RaiseCases DEF TypeOK
  <1> QED BY <1>1, <1>2, RaiseCases

LEMMA TypeStep ==
  ASSUME TypeOK, [Next]_vars
  PROVE  TypeOK'
  <1>1. CASE UNCHANGED vars
    BY <1>1 DEF TypeOK, vars
  <1>2. CASE Next
    <2> PICK w \in Writer : Step(w)
      BY <1>2 DEF Next
    <2>1. CASE Begin(w)
      BY <2>1 DEF TypeOK, Begin
    <2>2. ASSUME NEW row \in EventRow, Append(w, row)
          PROVE  TypeOK'
      BY <2>2 DEF TypeOK, Append, Ready
    <2>3. ASSUME NEW row \in pend[w], Insert(w, row)
          PROVE  TypeOK'
      <3>1. row \in EventRow /\ w \in inTx
        BY <2>3 DEF TypeOK
      <3>2. tx' \in [Writer -> SUBSET EventRow]
        BY <2>3, <3>1 DEF TypeOK, Insert
      <3> QED BY <2>3, <3>1, <3>2 DEF TypeOK, Insert
    <2>4. ASSUME NEW row \in LayerRow, w \in inTx, WriteLayer(w, row),
                 UNCHANGED <<events, layers, inTx, pend, tx>>
          PROVE  TypeOK'
      <3>1. Merged(lay[w], {row}) \in SUBSET LayerRow
        BY DEF TypeOK, Merged
      <3>2. lay' \in [Writer -> SUBSET LayerRow]
        BY <2>4, <3>1 DEF TypeOK, WriteLayer
      <3> QED BY <2>4, <3>2 DEF TypeOK, WriteLayer
    <2>5. CASE Commit(w)
      <3>1. events' \subseteq EventRow
        BY <2>5 DEF TypeOK, Commit
      <3>2. layers' \subseteq LayerRow
        BY <2>5 DEF TypeOK, Commit, Merged
      <3>3. End(w)
        BY <2>5 DEF Commit
      <3> QED BY <3>1, <3>2, <3>3, EndTypes DEF TypeOK
    <2>6. CASE Rollback(w)
      BY <2>6, EndTypes DEF Rollback, TypeOK
    <2>7. CASE Raise(w)
      BY <2>7, RaiseTypes
    <2> QED
      BY <2>1, <2>2, <2>3, <2>4, <2>5, <2>6, <2>7
      DEF Step, AppendRejected, InsertViolates, ChangeEvents, InsertLayer, RelinkLayer,
          LayerViolates, DeleteLayer, Ready
  <1> QED BY <1>1, <1>2

-----------------------------------------------------------------------------
(* Streams. *)

(* Two appenders of one layer would clash at the first number that is not     *)
(* committed: if a row may be inserted, no rival has a row in its layer.      *)
LEMMA InsertIsAlone ==
  ASSUME TypeOK, StreamInv, NEW w \in Writer, NEW row \in pend[w], Insert(w, row),
         NEW o \in Writer, o # w, NEW s \in tx[o]
  PROVE  s.layer # row.layer
  <1> SUFFICES ASSUME s.layer = row.layer
               PROVE  FALSE
    OBVIOUS
  <1>1. row \in EventRow /\ s \in EventRow
    BY DEF TypeOK
  <1>2. \A t \in tx[w] : t.layer # row.layer
    BY DEF StreamInv, OneAppender
  <1>3. Follows(w, row) /\ SeesLogs(o)
    BY DEF StreamInv, SeesLogs
  <1>4. s \notin events /\ s \in Visible(o) /\ events \subseteq Visible(o)
    BY <1>3 DEF SeesLogs, Visible
  <1>5. \A n \in Nat : n < row.seq => \E t \in events : t.layer = row.layer /\ t.seq = n
    BY <1>3, <1>2 DEF Follows, Visible
  <1>6. \A t \in events : t.layer = row.layer => t.seq # s.seq
    BY <1>3, <1>4 DEF SeesLogs, Distinct
  <1>7. row.seq \in 0 .. s.seq
    BY <1>1, <1>5, <1>6, SeqAssumption DEF EventRow
  <1>8. PICK t \in Visible(o) : t.layer = row.layer /\ t.seq = row.seq
    BY <1>7, <1>3, <1>4 DEF SeesLogs, Contiguous
  <1>9. t \notin events
    BY <1>8 DEF Insert, Fits, Clash, Visible
  <1>10. t \in tx[o] /\ Clash(row, t)
    BY <1>8, <1>9 DEF Visible, Clash
  <1> QED BY <1>10 DEF Insert, NotBlocked, Blocks

LEMMA InsertStreams ==
  ASSUME TypeOK, StreamInv, NEW w \in Writer, NEW row \in pend[w], Insert(w, row)
  PROVE  StreamInv'
  <1>1. row \in EventRow
    BY DEF TypeOK
  <1>2. /\ events' = events
        /\ tx'[w] = tx[w] \cup {row} /\ pend'[w] = {}
        /\ \A o \in Writer \ {w} : tx'[o] = tx[o] /\ pend'[o] = pend[o]
    BY DEF Insert, TypeOK
  <1>3. StreamsAreLogs'
    BY <1>2 DEF StreamInv, StreamsAreLogs, Contiguous, Distinct
  <1>4. OneAppender'
    <2> SUFFICES ASSUME NEW u \in Writer, NEW v \in Writer, NEW r \in tx'[u], NEW s \in tx'[v],
                        r.layer = s.layer
                 PROVE  u = v
      BY DEF OneAppender
    <2>1. CASE u = w /\ v # w
      BY <2>1, <1>2, InsertIsAlone DEF StreamInv, OneAppender
    <2>2. CASE u # w /\ v = w
      BY <2>2, <1>2, InsertIsAlone DEF StreamInv, OneAppender
    <2>3. CASE u # w /\ v # w
      BY <2>3, <1>2 DEF StreamInv, OneAppender
    <2> QED BY <2>1, <2>2, <2>3
  <1>5. SeesLogs(w)'
    <2>1. Visible(w)' = Visible(w) \cup {row}
      BY <1>2 DEF Visible
    <2>2. Contiguous(Visible(w)')
      <3> SUFFICES ASSUME NEW r \in Visible(w) \cup {row}, NEW n \in 0 .. r.seq
                   PROVE  \E s \in Visible(w) \cup {row} : s.layer = r.layer /\ s.seq = n
        BY <2>1 DEF Contiguous
      <3>1. CASE r \in Visible(w)
        BY <3>1 DEF StreamInv, SeesLogs, Contiguous
      <3>2. CASE r = row
        <4>1. n \in Nat /\ row.seq \in Nat /\ n <= row.seq
          BY <3>2, <1>1, SeqAssumption DEF EventRow
        <4>2. CASE n = row.seq
          BY <4>2, <3>2
        <4>3. CASE n < row.seq
          <5>1. Follows(w, row)
            BY DEF StreamInv, SeesLogs
          <5> QED BY <5>1, <4>1, <4>3, <3>2 DEF Follows
        <4> QED BY <4>1, <4>2, <4>3
      <3> QED BY <3>1, <3>2
    <2>3. Distinct(Visible(w)')
      BY <2>1 DEF StreamInv, SeesLogs, Distinct, Insert, Fits, Clash
    <2>4. row \notin events
      BY DEF Insert, Fits, Clash, Visible
    <2> QED BY <1>2, <2>1, <2>2, <2>3, <2>4 DEF SeesLogs, StreamInv
  <1>6. ASSUME NEW o \in Writer, o # w PROVE SeesLogs(o)'
    <2>1. SeesLogs(o)
      BY DEF StreamInv
    <2>2. events' = events /\ tx'[o] = tx[o] /\ pend'[o] = pend[o]
      BY <1>2, <1>6
    <2> QED BY <2>1, <2>2 DEF SeesLogs, Visible, Follows
  <1> QED BY <1>3, <1>4, <1>5, <1>6 DEF StreamInv

(* What the trigger lets through follows a contiguous stream.                 *)
LEMMA AppendStreams ==
  ASSUME TypeOK, StreamInv, NEW w \in Writer, NEW row \in EventRow, Append(w, row)
  PROVE  StreamInv'
  <1>1. /\ events' = events /\ tx' = tx
        /\ pend'[w] = {row}
        /\ \A o \in Writer \ {w} : pend'[o] = pend[o]
    BY DEF Append, TypeOK
  <1>2. Follows(w, row)
    <2> DEFINE stream == {r \in Visible(w) : r.layer = row.layer}
    <2>1. /\ \A r \in stream : r.seq < row.seq
          /\ IF stream = {} THEN row.seq = 0 ELSE \E r \in stream : row.seq = r.seq + 1
      BY DEF Append, Expected
    <2>2. \A s \in tx[w] : s.layer = row.layer => s.seq < row.seq
      BY <2>1 DEF Visible
    <2>3. ASSUME NEW n \in Nat, n < row.seq
          PROVE  \E s \in Visible(w) : s.layer = row.layer /\ s.seq = n
      <3>1. stream # {}
        BY <2>1, <2>3
      <3>2. PICK r \in stream : row.seq = r.seq + 1
        BY <2>1, <3>1
      <3>3. r.seq \in Nat /\ r \in Visible(w) /\ r.layer = row.layer
        BY SeqAssumption DEF TypeOK, Visible, EventRow
      <3>4. n \in 0 .. r.seq
        BY <3>2, <3>3, <2>3
      <3> QED BY <3>3, <3>4 DEF StreamInv, SeesLogs, Contiguous
    <2> QED BY <2>2, <2>3 DEF Follows
  <1>3. ASSUME NEW o \in Writer PROVE SeesLogs(o)'
    <2>1. SeesLogs(o)
      BY DEF StreamInv
    <2>2. \A r \in pend'[o] : Follows(o, r)
      BY <1>1, <1>2, <2>1 DEF SeesLogs
    <2> QED BY <1>1, <2>1, <2>2 DEF SeesLogs, Visible, Follows
  <1> QED BY <1>1, <1>3 DEF StreamInv, StreamsAreLogs, OneAppender, Contiguous, Distinct

(* A transaction that loses its statement or all of its rows.                 *)
LEMMA DropStreams ==
  ASSUME TypeOK, StreamInv, NEW w \in Writer, events' = events,
         pend' = [pend EXCEPT ![w] = {}],
         tx' = tx \/ tx' = [tx EXCEPT ![w] = {}]
  PROVE  StreamInv'
  <1>1. \A o \in Writer : tx'[o] = tx[o] \/ (o = w /\ tx'[o] = {})
    BY DEF TypeOK
  <1>2. pend'[w] = {} /\ \A o \in Writer \ {w} : pend'[o] = pend[o]
    BY DEF TypeOK
  <1>3. StreamsAreLogs'
    BY DEF StreamInv, StreamsAreLogs, Contiguous, Distinct
  <1>4. OneAppender'
    BY <1>1 DEF StreamInv, OneAppender
  <1>5. ASSUME NEW o \in Writer PROVE SeesLogs(o)'
    <2>1. SeesLogs(o) /\ Contiguous(events) /\ Distinct(events)
      BY DEF StreamInv, StreamsAreLogs
    <2>2. CASE tx'[o] = tx[o]
      <3>1. pend'[o] = pend[o] \/ pend'[o] = {}
        BY <1>2
      <3> QED BY <2>1, <2>2, <3>1 DEF SeesLogs, Visible, Follows
    <2>3. CASE o = w /\ tx'[o] = {}
      <3>1. Visible(o)' = events
        BY <2>3 DEF Visible
      <3> QED BY <2>1, <2>3, <3>1, <1>2 DEF SeesLogs
    <2> QED BY <1>1, <2>2, <2>3
  <1> QED BY <1>3, <1>4, <1>5 DEF StreamInv

LEMMA CommitStreams ==
  ASSUME TypeOK, StreamInv, NEW w \in Writer, Commit(w)
  PROVE  StreamInv' /\ AppendStep
  <1>1. /\ events' = Visible(w)
        /\ tx'[w] = {} /\ pend'[w] = {}
        /\ \A o \in Writer \ {w} : tx'[o] = tx[o] /\ pend'[o] = pend[o]
    BY DEF Commit, End, TypeOK, Visible
  <1>2. SeesLogs(w)
    BY DEF StreamInv
  <1>3. StreamsAreLogs'
    BY <1>1, <1>2 DEF StreamsAreLogs, SeesLogs
  <1>4. OneAppender'
    BY <1>1 DEF StreamInv, OneAppender
  <1>5. SeesLogs(w)'
    <2>1. Visible(w)' = Visible(w)
      BY <1>1 DEF Visible
    <2> QED BY <1>1, <1>2, <2>1 DEF SeesLogs
  <1>6. ASSUME NEW o \in Writer, o # w PROVE SeesLogs(o)'
    <2>1. SeesLogs(o)
      BY DEF StreamInv
    <2>2. /\ Visible(o)' = Visible(w) \cup tx[o]
          /\ tx'[o] = tx[o] /\ pend'[o] = pend[o]
      BY <1>1, <1>6 DEF Visible
    <2>3. \A r \in tx[w], s \in tx[o] : r.layer # s.layer
      BY <1>6 DEF StreamInv, OneAppender
    <2>4. Contiguous(Visible(o)')
      <3> SUFFICES ASSUME NEW r \in Visible(w) \cup Visible(o), NEW n \in 0 .. r.seq
                   PROVE  \E s \in Visible(w) \cup Visible(o) : s.layer = r.layer /\ s.seq = n
        BY <2>2 DEF Contiguous, Visible
      <3>1. CASE r \in Visible(w)
        BY <3>1, <1>2 DEF SeesLogs, Contiguous
      <3>2. CASE r \in Visible(o)
        BY <3>2, <2>1 DEF SeesLogs, Contiguous
      <3> QED BY <3>1, <3>2
    <2>5. Distinct(Visible(o)')
      BY <2>2, <2>3, <2>1, <1>2 DEF SeesLogs, Distinct, Visible
    <2>6. \A r \in tx[o] : r \notin Visible(w)
      BY <2>1, <2>3 DEF SeesLogs, Visible
    <2>7. \A row \in pend[o] : Follows(o, row)'
      <3> SUFFICES ASSUME NEW row \in pend[o] PROVE Follows(o, row)'
        OBVIOUS
      <3>1. Follows(o, row)
        BY <2>1 DEF SeesLogs
      <3>2. Visible(o) \subseteq Visible(o)'
        BY <2>2 DEF Visible
      <3> QED BY <3>1, <3>2, <2>2 DEF Follows
    <2> QED BY <1>1, <2>2, <2>4, <2>5, <2>6, <2>7 DEF SeesLogs
  <1>7. AppendStep
    <2>1. events \subseteq events'
      BY <1>1 DEF Visible
    <2>2. ASSUME NEW r \in events, NEW s \in events' \ events, r.layer = s.layer
          PROVE  r.seq < s.seq
      <3>1. s \in tx[w] /\ r \in EventRow /\ s \in EventRow
        BY <1>1, <2>2 DEF Visible, TypeOK
      <3>2. r.seq \in Nat /\ s.seq \in Nat
        BY <3>1, SeqAssumption DEF EventRow
      <3>3. SUFFICES ASSUME s.seq \in 0 .. r.seq PROVE FALSE
        BY <3>2
      <3>4. PICK t \in events : t.layer = s.layer /\ t.seq = s.seq
        BY <2>2, <3>3 DEF StreamInv, StreamsAreLogs, Contiguous
      <3>5. t = s
        BY <3>1, <3>4, <1>2 DEF SeesLogs, Distinct, Visible
      <3> QED BY <3>4, <3>5, <2>2
    <2> QED BY <2>1, <2>2 DEF AppendStep
  <1> QED BY <1>3, <1>4, <1>5, <1>6, <1>7 DEF StreamInv

LEMMA StreamStep ==
  ASSUME TypeOK, StreamInv, [Next]_vars
  PROVE  StreamInv' /\ (events' # events => AppendStep)
  <1>1. CASE UNCHANGED <<events, pend, tx>>
    BY <1>1 DEF StreamInv, StreamsAreLogs, OneAppender, SeesLogs, Contiguous, Distinct,
       Visible, Follows
  <1>2. CASE Next
    <2> PICK w \in Writer : Step(w)
      BY <1>2 DEF Next
    <2>1. ASSUME NEW row \in EventRow, Append(w, row)
          PROVE  StreamInv' /\ events' = events
      BY <2>1, AppendStreams DEF Append
    <2>2. ASSUME NEW row \in pend[w], Insert(w, row)
          PROVE  StreamInv' /\ events' = events
      BY <2>2, InsertStreams DEF Insert
    <2>3. CASE Commit(w)
      BY <2>3, CommitStreams
    <2>4. CASE Raise(w) \/ Rollback(w)
      <3>1. /\ events' = events
            /\ pend' = [pend EXCEPT ![w] = {}]
            /\ tx' = tx \/ tx' = [tx EXCEPT ![w] = {}]
        BY <2>4, RaiseCases DEF Rollback, End
      <3> QED BY <3>1, DropStreams
    <2> QED
      BY <1>1, <2>1, <2>2, <2>3, <2>4
      DEF Step, Begin, AppendRejected, InsertViolates, ChangeEvents, InsertLayer, RelinkLayer,
          LayerViolates, DeleteLayer
  <1> QED BY <1>1, <1>2 DEF vars

-----------------------------------------------------------------------------
(* Layers. *)

LEMMA MergedHas ==
  ASSUME NEW rs, NEW own, NEW l
  PROVE  Has(Merged(rs, own), l) <=> Has(rs, l) \/ Has(own, l)
  BY DEF Has, Merged

(* A layer row that no rival's transaction and no visible row stands against. *)
LEMMA WriteLayerInv ==
  ASSUME TypeOK, LayerInv, NEW w \in Writer, NEW row \in LayerRow,
         LayerFree(w, row), Unlinked(w, row), WriteLayer(w, row),
         UNCHANGED <<events, layers, tx>>
  PROVE  LayerInv'
  <1>1. /\ lay'[w] = Merged(lay[w], {row})
        /\ \A o \in Writer \ {w} : lay'[o] = lay[o]
    BY DEF WriteLayer, TypeOK
  <1>2. Unique(Merged(layers, lay'[w]))
    <2>1. Unique(Merged(layers, lay[w]))
      BY DEF LayerInv
    <2>2. \A r \in Merged(layers, lay'[w]) :
             r = row \/ (r \in Merged(layers, lay[w]) /\ r.layer # row.layer)
      BY <1>1 DEF Merged
    <2> QED BY <2>1, <2>2 DEF Unique, Unlinked, SameRepo
  <1>3. \A v \in Writer : Unique(Merged(layers', lay'[v]))
    BY <1>1, <1>2 DEF LayerInv
  <1>4. ASSUME NEW u \in Writer, NEW v \in Writer, NEW r \in lay'[u], NEW s \in lay'[v],
               r.layer = s.layer \/ SameRepo(r, s)
        PROVE  u = v
    <2>1. CASE r \in lay[u] /\ s \in lay[v]
      BY <2>1, <1>4 DEF LayerInv
    <2>2. CASE u = w /\ r = row
      BY <2>2, <1>1, <1>4 DEF LayerFree, SameRepo
    <2>3. CASE v = w /\ s = row
      BY <2>3, <1>1, <1>4 DEF LayerFree, SameRepo
    <2> QED BY <1>1, <2>1, <2>2, <2>3 DEF Merged
  <1>5. ASSUME NEW v \in Writer, NEW e \in tx'[v]
        PROVE  Has(Merged(layers', lay'[v]), e.layer)
    <2>1. Has(layers, e.layer) \/ Has(lay[v], e.layer)
      BY MergedHas DEF LayerInv
    <2>2. Has(lay[v], e.layer) => Has(lay'[v], e.layer)
      BY <1>1, MergedHas
    <2> QED BY <2>1, <2>2, MergedHas
  <1>6. Unique(layers') /\ \A e \in events' : Has(layers', e.layer)
    BY DEF LayerInv
  <1>7. \A u, v \in Writer : \A r \in lay'[u], s \in lay'[v] :
           r.layer = s.layer \/ SameRepo(r, s) => u = v
    BY <1>4
  <1>8. \A v \in Writer : \A e \in tx'[v] : Has(Merged(layers', lay'[v]), e.layer)
    BY <1>5
  <1> QED BY <1>3, <1>6, <1>7, <1>8 DEF LayerInv, Unique, SameRepo, Merged, Has

LEMMA DropLayerInv ==
  ASSUME TypeOK, LayerInv, NEW w \in Writer, UNCHANGED <<events, layers>>,
         \/ lay' = lay /\ tx' = tx
         \/ lay' = [lay EXCEPT ![w] = {}] /\ tx' = [tx EXCEPT ![w] = {}]
  PROVE  LayerInv'
  <1>1. CASE lay' = lay /\ tx' = tx
    BY <1>1 DEF LayerInv, Unique, SameRepo, Merged, Has
  <1>2. CASE lay' = [lay EXCEPT ![w] = {}] /\ tx' = [tx EXCEPT ![w] = {}]
    <2>1. /\ lay'[w] = {} /\ tx'[w] = {}
          /\ \A o \in Writer \ {w} : lay'[o] = lay[o] /\ tx'[o] = tx[o]
      BY <1>2 DEF TypeOK
    <2>2. Merged(layers, {}) = layers
      BY DEF Merged
    <2>3. \A o \in Writer : Unique(Merged(layers', lay'[o]))
      BY <2>1, <2>2 DEF LayerInv
    <2>4. \A u, v \in Writer : \A r \in lay'[u], s \in lay'[v] :
             r.layer = s.layer \/ SameRepo(r, s) => u = v
      BY <2>1 DEF LayerInv
    <2>5. \A v \in Writer : \A e \in tx'[v] : Has(Merged(layers', lay'[v]), e.layer)
      BY <2>1 DEF LayerInv
    <2>6. Unique(layers') /\ \A e \in events' : Has(layers', e.layer)
      BY DEF LayerInv
    <2> QED BY <2>3, <2>4, <2>5, <2>6 DEF LayerInv, Unique, SameRepo, Merged, Has
  <1> QED BY <1>1, <1>2

LEMMA InsertLayerInv ==
  ASSUME TypeOK, LayerInv, NEW w \in Writer, NEW row \in pend[w], Insert(w, row)
  PROVE  LayerInv'
  <1>1. /\ tx'[w] = tx[w] \cup {row}
        /\ \A o \in Writer \ {w} : tx'[o] = tx[o]
        /\ UNCHANGED <<events, layers, lay>>
    BY DEF Insert, TypeOK
  <1>2. Has(Merged(layers, lay[w]), row.layer)
    BY DEF Insert, Fits, Has
  <1>3. \A v \in Writer : \A e \in tx'[v] : Has(Merged(layers', lay'[v]), e.layer)
    BY <1>1, <1>2 DEF LayerInv
  <1> QED BY <1>1, <1>3 DEF LayerInv, Unique, SameRepo, Merged, Has

LEMMA CommitLayerInv ==
  ASSUME TypeOK, LayerInv, NEW w \in Writer, Commit(w)
  PROVE  LayerInv'
  <1>1. /\ events' = events \cup tx[w] /\ layers' = Merged(layers, lay[w])
        /\ lay'[w] = {} /\ tx'[w] = {}
        /\ \A o \in Writer \ {w} : lay'[o] = lay[o] /\ tx'[o] = tx[o]
    BY DEF Commit, End, TypeOK
  <1>2. Unique(layers')
    BY <1>1 DEF LayerInv
  <1>3. \A v \in Writer : Unique(Merged(layers', lay'[v]))
    <2>1. Merged(layers', {}) = layers'
      BY DEF Merged
    <2>2. ASSUME NEW v \in Writer, v # w
          PROVE  Unique(Merged(layers', lay[v]))
      <3> DEFINE M == Merged(layers', lay[v])
                 A == Merged(layers, lay[w])
                 B == Merged(layers, lay[v])
      <3>1. \A r \in M : \/ r \in lay[v] /\ r \in B
                         \/ r \in A /\ (r \in lay[w] \/ r \in B)
        BY <1>1 DEF Merged
      <3>2. Unique(A) /\ Unique(B)
        BY DEF LayerInv
      <3>3. \A r \in lay[v], s \in lay[w] : ~ (r.layer = s.layer \/ SameRepo(r, s))
        BY <2>2 DEF LayerInv
      <3>4. ASSUME NEW r \in M, NEW s \in M, r.layer = s.layer \/ SameRepo(r, s)
            PROVE  r = s
        <4>1. (s.layer = r.layer \/ SameRepo(s, r))
          BY <3>4 DEF SameRepo
        <4> HIDE DEF M, A, B
        <4> QED BY <3>1, <3>2, <3>3, <3>4, <4>1 DEF Unique
      <3> QED BY <3>4 DEF Unique
    <2> QED BY <1>1, <1>2, <2>1, <2>2
  <1>4. \A u, v \in Writer : \A r \in lay'[u], s \in lay'[v] :
           r.layer = s.layer \/ SameRepo(r, s) => u = v
    BY <1>1 DEF LayerInv
  <1>5. \A e \in events' : Has(layers', e.layer)
    BY <1>1, MergedHas DEF LayerInv
  <1>6. ASSUME NEW v \in Writer, NEW e \in tx'[v]
        PROVE  Has(Merged(layers', lay'[v]), e.layer)
    <2>1. v # w /\ e \in tx[v] /\ lay'[v] = lay[v]
      BY <1>1
    <2>2. Has(layers, e.layer) \/ Has(lay[v], e.layer)
      BY <2>1, MergedHas DEF LayerInv
    <2> QED BY <1>1, <2>1, <2>2, MergedHas
  <1>7. \A v \in Writer : \A e \in tx'[v] : Has(Merged(layers', lay'[v]), e.layer)
    BY <1>6
  <1> QED BY <1>2, <1>3, <1>4, <1>5, <1>7 DEF LayerInv, Unique, SameRepo, Merged, Has

LEMMA LayerStep ==
  ASSUME TypeOK, LayerInv, [Next]_vars
  PROVE  LayerInv'
  <1>1. CASE UNCHANGED <<events, layers, tx, lay>>
    BY <1>1 DEF LayerInv, Unique, SameRepo, Merged, Has
  <1>2. CASE Next
    <2> PICK w \in Writer : Step(w)
      BY <1>2 DEF Next
    <2>1. ASSUME NEW row \in pend[w], Insert(w, row)
          PROVE  LayerInv'
      BY <2>1, InsertLayerInv
    <2>2. ASSUME NEW row \in LayerRow, InsertLayer(w, row) \/ RelinkLayer(w, row)
          PROVE  LayerInv'
      BY <2>2, WriteLayerInv DEF InsertLayer, RelinkLayer
    <2>3. CASE Commit(w)
      BY <2>3, CommitLayerInv
    <2>4. CASE Raise(w) \/ Rollback(w)
      <3>1. /\ UNCHANGED <<events, layers>>
            /\ \/ lay' = lay /\ tx' = tx
               \/ lay' = [lay EXCEPT ![w] = {}] /\ tx' = [tx EXCEPT ![w] = {}]
        BY <2>4, RaiseCases DEF Rollback, End
      <3> QED BY <3>1, DropLayerInv
    <2> QED
      BY <1>1, <2>1, <2>2, <2>3, <2>4
      DEF Step, Begin, Append, AppendRejected, InsertViolates, ChangeEvents, LayerViolates,
          DeleteLayer
  <1> QED BY <1>1, <1>2 DEF vars

-----------------------------------------------------------------------------
(* The theorems. *)

LEMMA Inductive == Spec => []Inv
  <1>1. Init => Inv
    BY InitInv
  <1>2. Inv /\ [Next]_vars => Inv'
    BY TypeStep, StreamStep, LayerStep DEF Inv
  <1> QED BY <1>1, <1>2, PTL DEF Spec

(* Rows keep their types, and a writer outside a transaction holds nothing.   *)
THEOREM TypeCorrect == Spec => []TypeOK
  <1>1. Inv => TypeOK
    BY DEF Inv
  <1> QED BY <1>1, Inductive, PTL

(* Trigger and indexes together make every stream a log: from 0, without      *)
(* gaps, no number and no event identifier twice.                             *)
THEOREM Logs == Spec => []StreamsAreLogs
  <1>1. Inv => StreamsAreLogs
    BY DEF Inv, StreamInv
  <1> QED BY <1>1, Inductive, PTL

(* An open transaction that has a row in a stream is its only appender.       *)
THEOREM Alone == Spec => []OneAppender
  <1>1. Inv => OneAppender
    BY DEF Inv, StreamInv
  <1> QED BY <1>1, Inductive, PTL

(* After its first row, a batch for one layer waits for nobody.               *)
THEOREM NoSecondWait == Spec => []BatchNeverWaits
  <1>1. Inv => BatchNeverWaits
    <2> SUFFICES ASSUME Inv, NEW w \in Writer, NEW row \in pend[w],
                        NEW s \in tx[w], s.layer = row.layer
                 PROVE  NotBlocked(w, row)
      BY DEF BatchNeverWaits
    <2> QED BY DEF Inv, StreamInv, OneAppender, NotBlocked, Blocks, Clash
  <1> QED BY <1>1, Inductive, PTL

(* No step changes, removes or puts anything before a committed event.        *)
THEOREM StreamsOnlyGrow == Spec => AppendOnly
  <1>1. Inv /\ [Next]_vars => [AppendStep]_vars
    <2> SUFFICES ASSUME Inv, [Next]_vars PROVE AppendStep
      OBVIOUS
    <2>1. CASE events' = events
      BY <2>1 DEF AppendStep
    <2>2. CASE events' # events
      BY <2>2, StreamStep DEF Inv
    <2> QED BY <2>1, <2>2
  <1> QED BY <1>1, Inductive, PTL DEF Spec, AppendOnly

(* One layer per product_repo, and no event without its layer.                *)
THEOREM OneLayer == Spec => []LayersAgree
  <1>1. Inv => LayersAgree
    BY DEF Inv, LayerInv, LayersAgree, Unique, Has
  <1> QED BY <1>1, Inductive, PTL
=============================================================================
