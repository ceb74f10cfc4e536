----------------------------- MODULE SerialWrites ------------------------------
(***************************************************************************)
(* What the write model promises (ADR-010: "strong / ACID within one       *)
(* Postgres tx", idempotent keyed upserts): each delivery's statements     *)
(* take effect in one step, one delivery after another, at most once each. *)
(* A table is a function from unique keys to rows; story[k] lists what the *)
(* outbox says of entity k, in the order of the rows' ids.                 *)
(***************************************************************************)
EXTENDS Naturals, Sequences

CONSTANTS
  Deliveries,
  Program      \* [Deliveries -> Seq(Statement)], see Persist

VARIABLES
  store,       \* rows by key; contributors are the values of the links
  story        \* events by key

vars == <<store, story>>

MarkKey(d) == <<"processed_delivery", d>>

Init == store = <<>> /\ story = <<>>

Put(table, k, row) == [x \in DOMAIN table \union {k} |-> IF x = k THEN row ELSE table[x]]

(* A row keeps the identity it was inserted with, and the columns that no   *)
(* upsert refreshes.                                                         *)
Refresh(tables, k, fresh, data) ==
  Put(tables, k, IF k \in DOMAIN tables THEN [tables[k] EXCEPT !.data = data] ELSE fresh)

Keep(tables, k, fresh) == Put(tables, k, IF k \in DOMAIN tables THEN tables[k] ELSE fresh)

Execute(d, tables, st) ==
  CASE st.op = "upsert" ->
         Refresh(tables, st.key, [uuid |-> d, data |-> st.data], st.data)
    [] st.op = "ensure" ->
         Keep(tables, st.key, [uuid |-> d, data |-> st.data])
    [] st.op = "resolve" ->
         Keep(tables, st.key, [contributor |-> <<"contributor", d, st.key>>])
    [] st.op = "review" ->
         Refresh(tables, st.key,
                 [ uuid |-> d, data |-> st.data, item |-> tables[st.item].uuid,
                   reviewer |-> tables[st.login].contributor ],
                 st.data)
    [] OTHER -> tables

Tell(stories, st) ==
  IF st.op # "emit" THEN stories
  ELSE Put(stories, st.key, IF st.key \in DOMAIN stories THEN Append(stories[st.key], st.data)
                            ELSE <<st.data>>)

(* What d's mark and its first n statements make of tables and stories. *)
Executed(d, tables) ==
  LET after[n \in 0 .. Len(Program[d])] ==
        IF n = 0 THEN Put(tables, MarkKey(d), [uuid |-> d])
        ELSE Execute(d, after[n - 1], Program[d][n])
  IN after

Told(d, stories) ==
  LET after[n \in 0 .. Len(Program[d])] ==
        IF n = 0 THEN stories ELSE Tell(after[n - 1], Program[d][n])
  IN after

Marked(d) == MarkKey(d) \in DOMAIN store

Apply(d) ==
  /\ ~Marked(d)
  /\ store' = Executed(d, store)[Len(Program[d])]
  /\ story' = Told(d, story)[Len(Program[d])]

Next == \E d \in Deliveries : Apply(d)

Spec == Init /\ [][Next]_vars
================================================================================
