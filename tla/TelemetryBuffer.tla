--------------------------- MODULE TelemetryBuffer ---------------------------
(***************************************************************************)
(* The SQLite table of edge_gateway/buffer.py as a value: a function from  *)
(* the ids of the stored rows to the event each row holds.  The operators  *)
(* below are what the queries of TelemetryBuffer compute on such a table;  *)
(* the modules that own a table decide when they run.                      *)
(*                                                                         *)
(* An id is a positive integer (INTEGER PRIMARY KEY AUTOINCREMENT), topic, *)
(* payload and enqueued_at travel with the event and are not looked at.    *)
(***************************************************************************)
EXTENDS Integers, FiniteSets, Functions

CONSTANT MaxSize    (* max_size: how many rows enqueue() leaves behind. *)

ASSUME MaxSizeAssumption == MaxSize \in Nat \ {0}

(* A table that holds no row. *)
EmptyTable == [id \in {} |-> 0]

(* ORDER BY id ASC LIMIT n: the (at most) n smallest ids of a set of ids.  *)
Oldest(ids, n) == {id \in ids : Cardinality({k \in ids : k < id}) < n}

(* peek_batch(limit): the rows a replay pass reads, without removing them. *)
PeekBatch(table, limit) == Oldest(DOMAIN table, limit)

(* Mutant of FirstOf: ORDER BY id DESC. *)
NewestFirst(ids) == CHOOSE id \in ids : \A k \in ids : k <= id

(* The row a replay publishes next out of the ids it has yet to publish.   *)
FirstOf(ids) == CHOOSE id \in ids : \A k \in ids : id <= k

(* INSERT of one event under a fresh id. *)
Insert(table, id, event) ==
  [k \in DOMAIN table \cup {id} |-> IF k = id THEN event ELSE table[k]]

(* Mutants of Overflowing: an overflow that is one row too small, and a    *)
(* trim that makes room by deleting the newest row.                        *)
OverflowingOneLess(table) ==
  Oldest(DOMAIN table, Cardinality(DOMAIN table) - MaxSize - 1)
NewestOverflowing(table) ==
  IF Cardinality(DOMAIN table) > MaxSize THEN {NewestFirst(DOMAIN table)} ELSE {}

(* The ids _trim_to_max_locked() deletes: the oldest `overflow` rows.      *)
Overflowing(table) == Oldest(DOMAIN table, Cardinality(DOMAIN table) - MaxSize)

(* DELETE of a set of ids: remove(ids), and the DELETE of the trim.        *)
Remove(table, ids) == Restrict(table, DOMAIN table \ ids)

(* What the transaction of enqueue() leaves in the table. *)
Enqueue(table, id, event) ==
  LET grown == Insert(table, id, event) IN Remove(grown, Overflowing(grown))

=============================================================================
