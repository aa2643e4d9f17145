----------------------------- MODULE EntryClient -----------------------------
(***************************************************************************)
(* internal/spireentry: ownership, and what one Entry API call does to the *)
(* SPIRE server's table.                                                   *)
(*                                                                         *)
(* An entry ID is the sequence of its dot-separated labels: an ID made by  *)
(* this program is its className (itself one or more labels) followed by   *)
(* a UUID.  The table is a set of entries with distinct IDs.               *)
(*                                                                         *)
(* BatchCreateEntry, BatchUpdateEntry and BatchDeleteEntry are the server, *)
(* which is not in this repository: they say what client.go relies on (its *)
(* comments at 129-139 and 207-208 and 219-221, and the switch on the      *)
(* result codes).  The tests' FakeEntryServer updates and deletes in the   *)
(* same way; it takes any creation its hook does not refuse.  A call may   *)
(* stop half way, so each takes the part of the chunk the server got to.   *)
(***************************************************************************)
EXTENDS Naturals, Sequences, FiniteSets

NoHint == "no hint"

(***************************************************************************)
(* strings.HasPrefix(id, className + "."): the class is a proper prefix of *)
(* the ID that ends at a dot.                                              *)
(***************************************************************************)
HasClass(id, className) ==
  /\ Len(id) > Len(className)
  /\ \A i \in 1 .. Len(className) : id[i] = className[i]

Owns(cfg, e) == HasClass(e.id, cfg.className) /\ e.hint = cfg.hint

\* Mutant: the hint alone marks an entry as ours.
OwnedByHint(cfg, E) == {e \in E : e.hint = cfg.hint}

Owned(cfg, E) == {e \in E : Owns(cfg, e)}

(***************************************************************************)
(* The rows a ListEntries call ranges over: the hint is pushed down to the *)
(* server when there is one.                                               *)
(***************************************************************************)
Visible(cfg, store) == {e \in store : cfg.hint # NoHint => e.hint = cfg.hint}

(***************************************************************************)
(* One page: up to pageSize of the rows not returned yet, in an order that *)
(* is the server's own.                                                    *)
(***************************************************************************)
Pages(rows, pageSize) ==
  {P \in SUBSET rows : IF Cardinality(rows) <= pageSize
                       THEN P = rows
                       ELSE Cardinality(P) = pageSize}

(***************************************************************************)
(* The next batch of at most batchSize of the writes still to send.        *)
(***************************************************************************)
chunks(writes, batchSize) ==
  {C \in SUBSET writes : IF Cardinality(writes) <= batchSize
                         THEN C = writes
                         ELSE Cardinality(C) = batchSize}

IDs(E) == {e.id : e \in E}

(***************************************************************************)
(* The server's idea of "the same registration": SPIFFE ID, parent and     *)
(* selectors.                                                              *)
(***************************************************************************)
Similar(e, x) == /\ e.spiffeID = x.spiffeID
                 /\ e.parent = x.parent
                 /\ e.selectors = x.selectors

(***************************************************************************)
(* Create: AlreadyExists, with the table unchanged, when a similar entry   *)
(* is there or when the ID is taken.                                       *)
(***************************************************************************)
BatchCreateEntry(store, reached) ==
  store \cup {e \in reached : /\ e.id \notin IDs(store)
                              /\ \A x \in store : ~Similar(e, x)}

(***************************************************************************)
(* Update: the rows the chunk names, under a mask that covers every field; *)
(* NotFound changes nothing.  There is no check for a similar entry.       *)
(***************************************************************************)
BatchUpdateEntry(store, reached) ==
  {e \in store : e.id \notin IDs(reached)}
    \cup {e \in reached : e.id \in IDs(store)}

(***************************************************************************)
(* Delete: OK and NotFound alike leave the ID absent.                      *)
(***************************************************************************)
BatchDeleteEntry(store, reached) == {e \in store : e.id \notin reached}
==============================================================================
