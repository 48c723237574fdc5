------------------------------- MODULE HTable -------------------------------
(***************************************************************************)
(* The chained hash table of htable.h, in which rocs.c looks native events *)
(* up by name.  A table is a value here: its capacity, its size and its    *)
(* chains, the head of a chain first.  An operation that allocates takes   *)
(* the allocation that fails in it, "none" if none does.                   *)
(***************************************************************************)
EXTENDS Naturals, Sequences, SequencesExt

CONSTANT hash_func(_)   \* djb2: a number for every key

Allocations == {"none", "entry", "key", "table", "buckets"}
HTABLE_MIN_SIZE == 8

Entry(key, val) == [key |-> key, val |-> val]

create_table(n) ==
  [capacity |-> n, size |-> 0, chain |-> [id \in 0..(n - 1) |-> <<>>]]

Bucket(t, key) == hash_func(key) % t.capacity
Holds(t, key)  == \E i \in DOMAIN t.chain[Bucket(t, key)] :
                     t.chain[Bucket(t, key)][i].key = key

insert_table_entry(t, e) ==
  [t EXCEPT !.chain[Bucket(t, e.key)] = <<e>> \o @, !.size = @ + 1]
delete_table_entry(t, key) ==
  [t EXCEPT !.chain[Bucket(t, key)] = SelectSeq(@, LAMBDA e : e.key # key),
            !.size = @ - 1]

NeedsToGrow(t)   == t.size > 0 /\ t.capacity \div t.size < 2
NeedsToShrink(t) == t.size > 0 /\ t.capacity \div t.size > 8
Resizes(t)       == NeedsToGrow(t) \/ NeedsToShrink(t)

\* The chains are walked in order, and every entry goes to the head of its
\* new chain.
KeepBuckets(t, n) ==   \* mutant: the entries keep their bucket number
  [create_table(n) EXCEPT !.size = t.size,
     !.chain = [id \in 0..(n - 1) |-> IF id < t.capacity THEN t.chain[id] ELSE <<>>]]
rehash_table(t, n) ==
  LET walk == FoldLeft(LAMBDA s, id : s \o t.chain[id - 1], <<>>,
                       [id \in 1..t.capacity |-> id])
  IN  FoldLeft(insert_table_entry, create_table(n), walk)

\* A table that cannot be replaced stays as it is.
check_n_resize_table(t, fails) ==
  IF fails \in {"table", "buckets"} THEN t
  ELSE IF NeedsToGrow(t)   THEN rehash_table(t, 2 * t.capacity)
  ELSE IF NeedsToShrink(t) THEN rehash_table(t, t.capacity \div 2)
  ELSE t

htable_insert(t, key, val, fails) ==
  CASE Holds(t, key) ->
         [t EXCEPT !.chain[Bucket(t, key)] =
            [i \in DOMAIN @ |-> IF @[i].key = key THEN Entry(key, val) ELSE @[i]]]
    [] ~Holds(t, key) /\ fails \in {"entry", "key"} -> t
    [] OTHER -> check_n_resize_table(insert_table_entry(t, Entry(key, val)), fails)

\* create_table tests the address it was given instead of the table it
\* allocated, so a resize without memory for the table writes through NULL;
\* and nobody tests the copy of the key before it is hashed.
InsertFaults(t, key, val, fails) ==
  /\ ~Holds(t, key)
  /\ \/ fails = "key"
     \/ fails = "table" /\ Resizes(insert_table_entry(t, Entry(key, val)))

htable_delete(t, key) ==
  IF Holds(t, key) THEN check_n_resize_table(delete_table_entry(t, key), "none")
                   ELSE t

\* The value of a key, as the set of what htable_find stores: empty for
\* HTABLE_ENOVAL.
htable_find(t, key) ==
  {t.chain[Bucket(t, key)][i].val :
     i \in {j \in DOMAIN t.chain[Bucket(t, key)] : t.chain[Bucket(t, key)][j].key = key}}
=============================================================================
