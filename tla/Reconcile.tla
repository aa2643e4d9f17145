------------------------------ MODULE Reconcile ------------------------------
(***************************************************************************)
(* The plan internal/reconcile computes, as operators on sets.             *)
(*                                                                         *)
(* A registration entry is a record                                        *)
(*     [id, parent, selectors, spiffeID, ttl, hint]                        *)
(* and a desired entry the same record without id and hint.  The two SVID  *)
(* lifetimes are one field, ttl: the code compares and copies them         *)
(* together.  Diff walks two slices; the order only decides which of       *)
(* several items with one key is kept, so here the caller passes the       *)
(* survivors: `wanted` has one desired entry per key (the first of the     *)
(* slice) and `current` one owned entry per key (the last of the slice).   *)
(* DiffLoop models the walk itself and is checked against this module.     *)
(***************************************************************************)
EXTENDS Sequences, FiniteSets

(***************************************************************************)
(* Identity: the parent ID and the set of selectors, never the entry ID.   *)
(***************************************************************************)
desiredKey(d) == <<d.parent, d.selectors>>
entryKey(e)   == <<e.parent, e.selectors>>

desiredKeys(D) == {desiredKey(d) : d \in D}
entryKeys(E)   == {entryKey(e) : e \in E}

(***************************************************************************)
(* The ways to keep one element of S per key: every key of S survives, and *)
(* no two survivors share one.                                             *)
(***************************************************************************)
OnePerKey(S) ==
  {T \in SUBSET S : /\ entryKeys(T) = entryKeys(S)
                    /\ \A x, y \in T : entryKey(x) = entryKey(y) => x = y}

\* Mutant: only the lifetimes are compared.
driftedLifetime(d, e) == d.ttl # e.ttl

drifted(d, e) == d.spiffeID # e.spiffeID \/ d.ttl # e.ttl

\* Mutant: the hint is not part of what is written.
updatedEntryUnmarked(id, d, hint) ==
  [id |-> id, parent |-> d.parent, selectors |-> d.selectors,
   spiffeID |-> d.spiffeID, ttl |-> d.ttl, hint |-> ""]

updatedEntry(id, d, hint) ==
  [id |-> id, parent |-> d.parent, selectors |-> d.selectors,
   spiffeID |-> d.spiffeID, ttl |-> d.ttl, hint |-> hint]

\* Mutant: the hint is left unset.
newEntryUnmarked(d, className, uuid, hint) ==
  updatedEntry(Append(className, uuid), d, "")

newEntry(d, className, uuid, hint) ==
  updatedEntry(Append(className, uuid), d, hint)

(***************************************************************************)
(* The three parts of a plan.  newID maps each desired entry that needs    *)
(* creating to the UUID drawn for it.                                      *)
(***************************************************************************)
ToCreate(wanted, current) ==
  {d \in wanted : desiredKey(d) \notin entryKeys(current)}

Create(wanted, current, className, hint, newID) ==
  {newEntry(d, className, newID[d], hint) : d \in ToCreate(wanted, current)}

\* Mutant: what is up to date is written again.
UpdateMatched(wanted, current, hint) ==
  {updatedEntry(p[2].id, p[1], hint) :
     p \in {q \in wanted \X current : desiredKey(q[1]) = entryKey(q[2])}}

Update(wanted, current, hint) ==
  {updatedEntry(p[2].id, p[1], hint) :
     p \in {q \in wanted \X current : /\ desiredKey(q[1]) = entryKey(q[2])
                                      /\ drifted(q[1], q[2])}}

Delete(wanted, current) ==
  {e.id : e \in {c \in current : entryKey(c) \notin desiredKeys(wanted)}}

Diff(wanted, current, className, hint, newID) ==
  [create |-> Create(wanted, current, className, hint, newID),
   update |-> Update(wanted, current, hint),
   delete |-> Delete(wanted, current)]

NoPlan == [create |-> {}, update |-> {}, delete |-> {}]

Empty(plan) == plan = NoPlan
==============================================================================
