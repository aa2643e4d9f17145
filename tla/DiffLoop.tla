------------------------------- MODULE DiffLoop -------------------------------
(***************************************************************************)
(* reconcile.Diff as the code runs it: one pass over the existing entries, *)
(* one over the desired ones, one over the map that is left.  Reconcile    *)
(* says what the plan is, and DiffLoopProofs that this module computes it, *)
(* whatever duplicates and foreign entries the two slices hold.            *)
(***************************************************************************)
EXTENDS Naturals, Sequences, FiniteSets, Functions, Reconcile, EntryClient

CONSTANTS
  DesiredLists,    \* the slices Diff may be called with
  ExistingLists,
  Opts,            \* reconcile.Options: className and hint
  UUIDs            \* the UUIDs that NewID returns, in this order

\* Listings hold an ID once.
ASSUME ListAssumption ==
  \A existing \in ExistingLists : \A i, j \in DOMAIN existing :
    existing[i].id = existing[j].id => i = j

\* Slices are sequences, and NewID returns as many UUIDs as are asked for.
ASSUME SliceAssumption ==
  /\ \A slice \in DesiredLists \cup ExistingLists : slice \in Seq(Range(slice))
  /\ UUIDs \in Seq(Range(UUIDs))
  /\ \A slice \in DesiredLists : Len(slice) <= Len(UUIDs)

\* No UUID is drawn twice, and a class name is a sequence of labels.
ASSUME NamingAssumption ==
  /\ \A i, j \in DOMAIN UUIDs : UUIDs[i] = UUIDs[j] => i = j
  /\ Opts.className \in Seq(Range(Opts.className))

\* The fields that a stored entry shares with a desired one, which has no other.
WantedOf(e) == [parent |-> e.parent, selectors |-> e.selectors,
                spiffeID |-> e.spiffeID, ttl |-> e.ttl]

ASSUME DesiredAssumption ==
  \A slice \in DesiredLists : \A i \in DOMAIN slice : slice[i] = WantedOf(slice[i])

VARIABLES
  desired, existing,   \* the arguments
  indexed, visited,    \* how far the two loops over them are
  byKey,               \* the entries the map holds, one per key
  matched, seen,       \* the keys the two other maps hold
  plan,                \* Plan, with Create and Update as sequences
  pc

vars == <<desired, existing, indexed, visited, byKey, matched, seen, plan, pc>>

Init ==
  /\ desired \in DesiredLists
  /\ existing \in ExistingLists
  /\ indexed = 0 /\ visited = 0
  /\ byKey = {} /\ matched = {} /\ seen = {}
  /\ plan = [create |-> <<>>, update |-> <<>>, delete |-> {}]
  /\ pc = "index"

\* Mutant: the first entry of a key is kept.
PutFirst(map, e) == IF entryKey(e) \in entryKeys(map) THEN map ELSE map \cup {e}

\* byKey[entryKey(e)] = e
Put(map, e) == {x \in map : entryKey(x) # entryKey(e)} \cup {e}

Index ==
  /\ pc = "index"
  /\ indexed < Len(existing)
  /\ LET e == existing[indexed + 1]
     IN byKey' = IF Owns(Opts, e) THEN Put(byKey, e) ELSE byKey
  /\ indexed' = indexed + 1
  /\ UNCHANGED <<desired, existing, visited, matched, seen, plan, pc>>

Indexed ==
  /\ pc = "index"
  /\ indexed = Len(existing)
  /\ pc' = "visit"
  /\ UNCHANGED <<desired, existing, indexed, visited, byKey, matched, seen, plan>>

\* Mutant: duplicates among the desired entries go unnoticed.
DuplicateMissed(d) == FALSE

Duplicate(d) == desiredKey(d) \in seen

Visit ==
  /\ pc = "visit"
  /\ visited < Len(desired)
  /\ LET d    == desired[visited + 1]
         key  == desiredKey(d)
         hits == {e \in byKey : entryKey(e) = key}
         id   == UUIDs[Len(plan.create) + 1]
     IN IF Duplicate(d) THEN UNCHANGED <<matched, seen, plan>>
        ELSE /\ seen' = seen \cup {key}
             /\ \/ /\ hits = {}
                   /\ plan' = [plan EXCEPT !.create =
                        Append(@, newEntry(d, Opts.className, id, Opts.hint))]
                   /\ UNCHANGED matched
                \/ \E e \in hits :
                     /\ matched' = matched \cup {key}
                     /\ plan' = IF drifted(d, e)
                                THEN [plan EXCEPT !.update =
                                       Append(@, updatedEntry(e.id, d, Opts.hint))]
                                ELSE plan
  /\ visited' = visited + 1
  /\ UNCHANGED <<desired, existing, indexed, byKey, pc>>

Sweep ==
  /\ pc = "visit"
  /\ visited = Len(desired)
  /\ plan' = [plan EXCEPT !.delete = {e.id : e \in {x \in byKey : entryKey(x) \notin matched}}]
  /\ pc' = "returned"
  /\ UNCHANGED <<desired, existing, indexed, visited, byKey, matched, seen>>

Next == Index \/ Indexed \/ Visit \/ Sweep

Spec == Init /\ [][Next]_vars

-------------------------------------------------------------------------------
(***************************************************************************)
(* Properties.                                                             *)
(***************************************************************************)
\* The desired entries that count: the first of each key.
Wanted ==
  {desired[i] : i \in {k \in DOMAIN desired :
     \A j \in 1 .. k - 1 : desiredKey(desired[j]) # desiredKey(desired[k])}}

\* The existing entries that count: the last owned one of each key.
Current ==
  {existing[i] : i \in {k \in DOMAIN existing :
     /\ Owns(Opts, existing[k])
     /\ \A j \in k + 1 .. Len(existing) :
          Owns(Opts, existing[j]) => entryKey(existing[j]) # entryKey(existing[k])}}

AsSets == [create |-> Range(plan.create), update |-> Range(plan.update),
           delete |-> plan.delete]

TypeOK == /\ indexed \in 0 .. Len(existing) /\ visited \in 0 .. Len(desired)
          /\ byKey \subseteq Range(existing)
          /\ matched \subseteq seen /\ seen \subseteq desiredKeys(Range(desired))
          /\ \A e \in Range(plan.create) : Owns(Opts, e)
          /\ plan.delete \subseteq IDs(Range(existing))
          /\ pc \in {"index", "visit", "returned"}

(***************************************************************************)
(* The plan that is returned is Reconcile's, for the first desired and the *)
(* last owned entry of each key (reconcile.go 66-102).                     *)
(***************************************************************************)
AgreesWithDiff ==
  pc = "returned" =>
    \E newID \in [ToCreate(Wanted, Current) -> Range(UUIDs)] :
      AsSets = Diff(Wanted, Current, Opts.className, Opts.hint, newID)

(***************************************************************************)
(* No entry is written twice by one plan: not created twice for one key,   *)
(* not updated twice, not updated and deleted.                             *)
(***************************************************************************)
WritesOnce ==
  /\ \A i, j \in DOMAIN plan.create :
       \/ i = j
       \/ /\ plan.create[i].id # plan.create[j].id
          /\ entryKey(plan.create[i]) # entryKey(plan.create[j])
  /\ \A i, j \in DOMAIN plan.update : plan.update[i].id = plan.update[j].id => i = j
  /\ IDs(Range(plan.update)) \cap plan.delete = {}

(***************************************************************************)
(* Once a plan is carried out in full, what we own is what was wanted, one *)
(* entry for each, and what others own is as it was; as long as no owned   *)
(* entry shares its key with another and no foreign one is in the way of a *)
(* creation.                                                               *)
(***************************************************************************)
Applied ==
  BatchDeleteEntry(
    BatchUpdateEntry(
      BatchCreateEntry(Range(existing), Range(plan.create)),
      Range(plan.update)),
    plan.delete)

Unhindered ==
  /\ Current = Owned(Opts, Range(existing))
  /\ \A e \in Range(plan.create), x \in Range(existing) : ~Similar(e, x) /\ e.id # x.id

Converges ==
  pc = "returned" /\ Unhindered =>
    LET ours == Owned(Opts, Applied)
    IN /\ {WantedOf(e) : e \in ours} = Wanted
       /\ Cardinality(ours) = Cardinality(Wanted)
       /\ Applied \ ours = Range(existing) \ Owned(Opts, Range(existing))
===============================================================================
