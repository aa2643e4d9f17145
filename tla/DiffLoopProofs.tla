---------------------------- MODULE DiffLoopProofs ----------------------------
(***************************************************************************)
(* The loops of reconcile.Diff compute the plan of Reconcile, for all      *)
(* slices.                                                                 *)
(*                                                                         *)
(* The argument.  Whatever is true of the whole slices at the end is true  *)
(* of the prefix walked so far: the map holds the last owned entry of each *)
(* key, and the plan is Diff of the desired entries that were the first of *)
(* their key, against that map.  That each key is visited once makes the   *)
(* writes of a plan distinct; and a plan that writes nothing twice has,    *)
(* once applied, one owned entry for each desired one.                     *)
(***************************************************************************)
EXTENDS DiffLoop, FiniteSetTheorems, TLAPS

\* Of the first k desired entries, those that count.
WantedUpTo(k) ==
  {desired[i] : i \in {m \in 1 .. k :
     \A j \in 1 .. m - 1 : desiredKey(desired[j]) # desiredKey(desired[m])}}

\* Of the first k existing entries, those that count.
CurrentUpTo(k) ==
  {existing[i] : i \in {m \in 1 .. k :
     /\ Owns(Opts, existing[m])
     /\ \A j \in m + 1 .. k :
          Owns(Opts, existing[j]) => entryKey(existing[j]) # entryKey(existing[m])}}

OnePerKeyIn(map) == \A x, y \in map : entryKey(x) = entryKey(y) => x = y

Slices ==
  /\ Len(desired) \in Nat /\ DOMAIN desired = 1 .. Len(desired)
  /\ Len(existing) \in Nat /\ DOMAIN existing = 1 .. Len(existing)
  /\ Len(desired) <= Len(UUIDs)

MapInv ==
  /\ indexed \in 0 .. Len(existing)
  /\ byKey = CurrentUpTo(indexed)
  /\ OnePerKeyIn(byKey)
  /\ pc # "index" => indexed = Len(existing)

\* What the plan is so far, for some of the UUIDs drawn.
CreatedFor(W, C, S) ==
  \E newID \in [ToCreate(W, C) -> Range(UUIDs)] :
    S = Create(W, C, Opts.className, Opts.hint, newID)

CreateInv == CreatedFor(WantedUpTo(visited), byKey, Range(plan.create))

PlanInv ==
  /\ visited \in 0 .. Len(desired)
  /\ seen = {desiredKey(desired[i]) : i \in 1 .. visited}
  /\ seen = desiredKeys(WantedUpTo(visited))
  /\ matched = seen \cap entryKeys(byKey)
  /\ plan.create \in Seq(Range(plan.create)) /\ Len(plan.create) <= visited
  /\ plan.update \in Seq(Range(plan.update))
  /\ Range(plan.update) = Update(WantedUpTo(visited), byKey, Opts.hint)
  /\ CreateInv
  /\ plan = [create |-> plan.create, update |-> plan.update, delete |-> plan.delete]

Untouched ==
  /\ visited = 0 /\ seen = {} /\ matched = {}
  /\ plan = [create |-> <<>>, update |-> <<>>, delete |-> {}]

DiffInv ==
  /\ pc \in {"index", "visit", "returned"}
  /\ Slices
  /\ MapInv
  /\ pc = "index" => Untouched
  /\ pc # "index" => PlanInv
  /\ pc = "returned" => /\ visited = Len(desired)
                        /\ plan.delete = Delete(WantedUpTo(visited), byKey)

-------------------------------------------------------------------------------
(***************************************************************************)
(* Sequences.                                                              *)
(***************************************************************************)
LEMMA Appended ==
  ASSUME NEW s, s \in Seq(Range(s)), NEW e
  PROVE  /\ Append(s, e) \in Seq(Range(Append(s, e)))
         /\ Len(Append(s, e)) = Len(s) + 1 /\ Len(s) \in Nat
         /\ Range(Append(s, e)) = Range(s) \cup {e}
<1> DEFINE t == Append(s, e)
<1>1. s \in Seq(Range(s) \cup {e}) /\ e \in Range(s) \cup {e}
  OBVIOUS
<1>2. /\ t \in Seq(Range(s) \cup {e}) /\ Len(s) \in Nat /\ Len(t) = Len(s) + 1
      /\ DOMAIN t = 1 .. Len(s) + 1 /\ DOMAIN s = 1 .. Len(s)
      /\ \A i \in 1 .. Len(s) : t[i] = s[i]
      /\ t[Len(s) + 1] = e
  BY <1>1
<1>3. Range(t) = Range(s) \cup {e}
  BY <1>2 DEF Range
<1> QED
  BY <1>2, <1>3

LEMMA Emptied == <<>> \in Seq(Range(<<>>)) /\ Len(<<>>) = 0 /\ Range(<<>>) = {}
<1>1. <<>> \in Seq({}) /\ Len(<<>>) = 0 /\ DOMAIN <<>> = {}
  OBVIOUS
<1>2. Range(<<>>) = {}
  BY <1>1 DEF Range
<1> QED
  BY <1>1, <1>2

LEMMA SliceIsSeq ==
  ASSUME NEW s, s \in Seq(Range(s))
  PROVE  Len(s) \in Nat /\ DOMAIN s = 1 .. Len(s)
OBVIOUS

LEMMA UUIDsSeq == Len(UUIDs) \in Nat /\ DOMAIN UUIDs = 1 .. Len(UUIDs)
BY SliceAssumption, SliceIsSeq

LEMMA InitDiff == Init => DiffInv
<1> SUFFICES ASSUME Init PROVE DiffInv
  OBVIOUS
<1>1. Slices
  BY SliceAssumption, SliceIsSeq DEF Init, Slices
<1>2. CurrentUpTo(0) = {}
  BY DEF CurrentUpTo
<1>3. MapInv
  BY <1>1, <1>2 DEF Init, MapInv, OnePerKeyIn, Slices
<1> QED
  BY <1>1, <1>3 DEF Init, DiffInv, Untouched

-------------------------------------------------------------------------------
(***************************************************************************)
(* The first loop.                                                         *)
(***************************************************************************)
LEMMA OneMoreEntry ==
  ASSUME Slices, NEW k \in Nat, k < Len(existing)
  PROVE  CurrentUpTo(k + 1) =
           IF Owns(Opts, existing[k + 1]) THEN Put(CurrentUpTo(k), existing[k + 1])
           ELSE CurrentUpTo(k)
<1> DEFINE e == existing[k + 1]
           Last(m, b) == \A j \in m + 1 .. b : Owns(Opts, existing[j]) =>
                                              entryKey(existing[j]) # entryKey(existing[m])
<1>1. ASSUME NEW m \in 1 .. k
      PROVE  Last(m, k + 1) <=> /\ Last(m, k)
                                /\ Owns(Opts, e) => entryKey(e) # entryKey(existing[m])
  <2>1. m + 1 .. k + 1 = (m + 1 .. k) \cup {k + 1}
    OBVIOUS
  <2> QED
    BY <2>1
<1>2. Last(k + 1, k + 1)
  OBVIOUS
<1>3. 1 .. k + 1 = (1 .. k) \cup {k + 1}
  OBVIOUS
<1>4. \A x : x \in CurrentUpTo(k) <=>
         \E m \in 1 .. k : x = existing[m] /\ Owns(Opts, existing[m]) /\ Last(m, k)
  BY DEF CurrentUpTo
<1>5. \A x : x \in CurrentUpTo(k + 1) <=>
         \E m \in 1 .. k + 1 : x = existing[m] /\ Owns(Opts, existing[m]) /\ Last(m, k + 1)
  BY DEF CurrentUpTo
<1> HIDE DEF Last
<1>6. \A x : x \in CurrentUpTo(k + 1) <=>
         \/ \E m \in 1 .. k : /\ x = existing[m] /\ Owns(Opts, existing[m]) /\ Last(m, k)
                              /\ Owns(Opts, e) => entryKey(e) # entryKey(x)
         \/ x = e /\ Owns(Opts, e)
  BY <1>1, <1>2, <1>3, <1>5
<1>7. \A x : x \in CurrentUpTo(k + 1) <=>
         \/ x \in CurrentUpTo(k) /\ (Owns(Opts, e) => entryKey(e) # entryKey(x))
         \/ x = e /\ Owns(Opts, e)
  BY <1>4, <1>6
<1>8. CASE Owns(Opts, e)
  BY <1>7, <1>8 DEF Put
<1>9. CASE ~Owns(Opts, e)
  BY <1>7, <1>9
<1> QED
  BY <1>8, <1>9

LEMMA IndexStep ==
  ASSUME DiffInv, Index
  PROVE  DiffInv'
<1>1. UNCHANGED <<desired, existing, visited, matched, seen, plan, pc>> /\ pc = "index"
  BY DEF Index
<1>2. Slices' /\ Untouched'
  BY <1>1 DEF DiffInv, Slices, Untouched
<1>3. indexed \in Nat /\ indexed < Len(existing) /\ indexed' = indexed + 1
  BY DEF DiffInv, MapInv, Slices, Index
<1>4. byKey' = CurrentUpTo(indexed + 1)
  BY <1>3, OneMoreEntry DEF DiffInv, MapInv, Index
<1>5. byKey' = (CurrentUpTo(indexed))'
  BY <1>1, <1>3, <1>4 DEF CurrentUpTo
<1>6. OnePerKeyIn(byKey')
  BY DEF DiffInv, MapInv, Index, OnePerKeyIn, Put
<1>7. MapInv'
  BY <1>1, <1>2, <1>3, <1>5, <1>6 DEF MapInv, Slices, OnePerKeyIn
<1> QED
  BY <1>1, <1>2, <1>7 DEF DiffInv

LEMMA IndexedStep ==
  ASSUME DiffInv, Indexed
  PROVE  DiffInv'
<1>1. /\ UNCHANGED <<desired, existing, indexed, visited, byKey, matched, seen, plan>>
      /\ pc = "index" /\ pc' = "visit" /\ indexed = Len(existing)
  BY DEF Indexed
<1>2. Slices' /\ MapInv' /\ Untouched
  BY <1>1 DEF DiffInv, Slices, MapInv, OnePerKeyIn, CurrentUpTo
<1>3. WantedUpTo(0) = {}
  BY DEF WantedUpTo
<1>4. /\ ToCreate({}, byKey) = {} /\ Update({}, byKey, Opts.hint) = {}
      /\ desiredKeys({}) = {}
      /\ \A f : Create({}, byKey, Opts.className, Opts.hint, f) = {}
  BY DEF ToCreate, Update, desiredKeys, Create
<1>5. CreateInv
  <2> DEFINE f == [x \in {} |-> x]
  <2>1. f \in [{} -> Range(UUIDs)]
    OBVIOUS
  <2>2. Range(plan.create) = {}
    BY <1>2, Emptied DEF Untouched
  <2> QED
    BY <1>2, <1>3, <1>4, <2>1, <2>2 DEF CreateInv, CreatedFor, Untouched
<1>6. PlanInv
  <2>1. plan.create = <<>> /\ plan.update = <<>> /\ visited = 0
    BY <1>2 DEF Untouched
  <2>2. /\ plan.create \in Seq(Range(plan.create)) /\ Len(plan.create) <= visited
        /\ plan.update \in Seq(Range(plan.update)) /\ Range(plan.update) = {}
    BY <2>1, Emptied
  <2>3. plan = [create |-> plan.create, update |-> plan.update, delete |-> plan.delete]
    BY <1>2 DEF Untouched
  <2>4. {desiredKey(desired[i]) : i \in 1 .. 0} = {}
    OBVIOUS
  <2>5. seen = {} /\ matched = {} /\ visited \in 0 .. Len(desired)
    BY <1>2 DEF DiffInv, Slices, Untouched
  <2> QED
    BY <1>3, <1>4, <1>5, <2>1, <2>2, <2>3, <2>4, <2>5 DEF PlanInv
<1>7. PlanInv'
  BY <1>1, <1>6 DEF PlanInv, CreateInv, WantedUpTo
<1> QED
  BY <1>1, <1>2, <1>7 DEF DiffInv

-------------------------------------------------------------------------------
(***************************************************************************)
(* The second loop: what one more desired entry adds to a plan.            *)
(***************************************************************************)
LEMMA OneMoreWant ==
  ASSUME Slices, NEW k \in Nat, k < Len(desired)
  PROVE  WantedUpTo(k + 1) =
           IF \E j \in 1 .. k : desiredKey(desired[j]) = desiredKey(desired[k + 1])
           THEN WantedUpTo(k)
           ELSE WantedUpTo(k) \cup {desired[k + 1]}
<1> DEFINE First(m) == \A j \in 1 .. m - 1 : desiredKey(desired[j]) # desiredKey(desired[m])
<1>1. First(k + 1) <=>
        ~\E j \in 1 .. k : desiredKey(desired[j]) = desiredKey(desired[k + 1])
  OBVIOUS
<1>2. 1 .. k + 1 = (1 .. k) \cup {k + 1}
  OBVIOUS
<1>3. \A x : x \in WantedUpTo(k) <=> \E m \in 1 .. k : x = desired[m] /\ First(m)
  BY DEF WantedUpTo
<1>4. \A x : x \in WantedUpTo(k + 1) <=> \E m \in 1 .. k + 1 : x = desired[m] /\ First(m)
  BY DEF WantedUpTo
<1> HIDE DEF First
<1>5. \A x : x \in WantedUpTo(k + 1) <=>
               x \in WantedUpTo(k) \/ (x = desired[k + 1] /\ First(k + 1))
  BY <1>2, <1>3, <1>4
<1>6. CASE First(k + 1)
  <2>1. WantedUpTo(k + 1) = WantedUpTo(k) \cup {desired[k + 1]}
    BY <1>5, <1>6
  <2> QED
    BY <1>1, <1>6, <2>1
<1>7. CASE ~First(k + 1)
  <2>1. WantedUpTo(k + 1) = WantedUpTo(k)
    BY <1>5, <1>7
  <2> QED
    BY <1>1, <1>7, <2>1
<1> QED
  BY <1>6, <1>7

LEMMA NothingToCreate ==
  ASSUME NEW W, NEW C, NEW d, desiredKey(d) \in entryKeys(C)
  PROVE  ToCreate(W \cup {d}, C) = ToCreate(W, C)
BY DEF ToCreate

LEMMA OneToCreate ==
  ASSUME NEW W, NEW C, NEW d, NEW u \in Range(UUIDs), NEW S, CreatedFor(W, C, S),
         desiredKey(d) \notin entryKeys(C), d \notin W,
         NEW more, more = W \cup {d},
         NEW new, new = newEntry(d, Opts.className, u, Opts.hint)
  PROVE  CreatedFor(more, C, S \cup {new})
<1>1. PICK f \in [ToCreate(W, C) -> Range(UUIDs)] :
        S = Create(W, C, Opts.className, Opts.hint, f)
  BY DEF CreatedFor
<1> DEFINE g == [x \in ToCreate(more, C) |-> IF x = d THEN u ELSE f[x]]
           entry(x, id) == newEntry(x, Opts.className, id, Opts.hint)
<1>2. ToCreate(more, C) = ToCreate(W, C) \cup {d} /\ d \notin ToCreate(W, C)
  BY DEF ToCreate
<1>3. g \in [ToCreate(more, C) -> Range(UUIDs)]
  BY <1>2
<1>4. g[d] = u /\ \A x \in ToCreate(W, C) : g[x] = f[x]
  BY <1>2
<1> HIDE DEF g
<1>5. Create(more, C, Opts.className, Opts.hint, g) =
        {entry(x, g[x]) : x \in ToCreate(W, C)} \cup {entry(d, g[d])}
  BY <1>2 DEF Create
<1>6. {entry(x, g[x]) : x \in ToCreate(W, C)} = {entry(x, f[x]) : x \in ToCreate(W, C)}
  BY <1>4
<1>7. S \cup {new} = Create(more, C, Opts.className, Opts.hint, g)
  BY <1>1, <1>4, <1>5, <1>6 DEF Create
<1> QED
  BY <1>3, <1>7 DEF CreatedFor

LEMMA UpdatesOfPairs ==
  ASSUME NEW W, NEW C, NEW hint, NEW y
  PROVE  y \in Update(W, C, hint) <=>
           \E d \in W, e \in C : /\ desiredKey(d) = entryKey(e) /\ drifted(d, e)
                                 /\ y = updatedEntry(e.id, d, hint)
<1> DEFINE P == {q \in W \X C : desiredKey(q[1]) = entryKey(q[2]) /\ drifted(q[1], q[2])}
<1>1. y \in Update(W, C, hint) <=> \E p \in P : y = updatedEntry(p[2].id, p[1], hint)
  BY DEF Update
<1>2. ASSUME NEW p \in P
      PROVE  /\ p[1] \in W /\ p[2] \in C
             /\ desiredKey(p[1]) = entryKey(p[2]) /\ drifted(p[1], p[2])
  OBVIOUS
<1>3. ASSUME NEW d \in W, NEW e \in C, desiredKey(d) = entryKey(e), drifted(d, e)
      PROVE  <<d, e>> \in P /\ <<d, e>>[1] = d /\ <<d, e>>[2] = e
  BY <1>3
<1> HIDE DEF P
<1> QED
  BY <1>1, <1>2, <1>3

LEMMA NothingToUpdate ==
  ASSUME NEW W, NEW C, NEW d, NEW hint, desiredKey(d) \notin entryKeys(C)
  PROVE  Update(W \cup {d}, C, hint) = Update(W, C, hint)
<1>1. \A e \in C : desiredKey(d) # entryKey(e)
  BY DEF entryKeys
<1>2. \A y : y \in Update(W \cup {d}, C, hint) <=> y \in Update(W, C, hint)
  BY <1>1, UpdatesOfPairs
<1> QED
  BY <1>2

LEMMA OneToUpdate ==
  ASSUME NEW W, NEW C, NEW d, NEW hint, OnePerKeyIn(C),
         NEW e \in C, entryKey(e) = desiredKey(d)
  PROVE  Update(W \cup {d}, C, hint) =
           Update(W, C, hint) \cup
             (IF drifted(d, e) THEN {updatedEntry(e.id, d, hint)} ELSE {})
<1>1. \A x \in C : desiredKey(d) = entryKey(x) <=> x = e
  BY DEF OnePerKeyIn
<1>2. \A y : y \in Update(W \cup {d}, C, hint) <=>
         \/ y \in Update(W, C, hint)
         \/ drifted(d, e) /\ y = updatedEntry(e.id, d, hint)
  BY <1>1, UpdatesOfPairs
<1> QED
  BY <1>2

\* A desired entry whose key was seen before is passed over.
LEMMA VisitDuplicate ==
  ASSUME DiffInv, Visit, Duplicate(desired[visited + 1])
  PROVE  PlanInv'
<1> DEFINE v == visited
           d == desired[v + 1]
<1>1. /\ UNCHANGED <<desired, existing, indexed, byKey, pc, matched, seen, plan>>
      /\ visited' = v + 1 /\ v < Len(desired) /\ pc = "visit"
  BY DEF Visit
<1>2. PlanInv /\ Slices /\ v \in Nat /\ Len(desired) \in Nat
  BY <1>1 DEF DiffInv, PlanInv, Slices
<1>3. \E j \in 1 .. v : desiredKey(desired[j]) = desiredKey(d)
  BY <1>2 DEF PlanInv, Duplicate
<1>4. WantedUpTo(v + 1) = WantedUpTo(v)
  BY <1>1, <1>2, <1>3, OneMoreWant
<1>5. (WantedUpTo(visited))' = WantedUpTo(v)
  BY <1>1, <1>4 DEF WantedUpTo
<1>6. {desiredKey(desired[i]) : i \in 1 .. v + 1} = {desiredKey(desired[i]) : i \in 1 .. v}
  <2>1. 1 .. v + 1 = (1 .. v) \cup {v + 1}
    BY <1>2
  <2> QED
    BY <1>3, <2>1
<1>7. CreateInv'
  BY <1>1, <1>2, <1>5 DEF PlanInv, CreateInv
<1>8. (visited \in 0 .. Len(desired))' /\ Len(plan'.create) <= visited'
  <2>1. Len(plan.create) \in Nat
    BY <1>2, SliceIsSeq DEF PlanInv
  <2> QED
    BY <1>1, <1>2, <2>1 DEF PlanInv
<1> QED
  BY <1>1, <1>2, <1>5, <1>6, <1>7, <1>8 DEF PlanInv

\* What a desired entry with a new key changes, whatever becomes of the plan.
LEMMA VisitNew ==
  ASSUME DiffInv, Visit, ~Duplicate(desired[visited + 1])
  PROVE  LET d == desired[visited + 1]
         IN  /\ UNCHANGED <<desired, existing, indexed, byKey, pc>>
             /\ visited' = visited + 1 /\ visited \in Nat /\ visited < Len(desired)
             /\ seen' = seen \cup {desiredKey(d)} /\ desiredKey(d) \notin seen
             /\ (WantedUpTo(visited))' = WantedUpTo(visited) \cup {d}
             /\ d \notin WantedUpTo(visited)
             /\ PlanInv /\ OnePerKeyIn(byKey)
             /\ (visited \in 0 .. Len(desired))'
             /\ seen' = {desiredKey(desired[k]) : k \in 1 .. visited + 1}
             /\ seen' = desiredKeys(WantedUpTo(visited) \cup {d})
<1> DEFINE v == visited
           d == desired[v + 1]
<1>1. /\ UNCHANGED <<desired, existing, indexed, byKey, pc>>
      /\ visited' = v + 1 /\ v < Len(desired) /\ pc = "visit"
      /\ seen' = seen \cup {desiredKey(d)} /\ desiredKey(d) \notin seen
  BY DEF Visit, Duplicate
<1>2. PlanInv /\ Slices /\ v \in Nat /\ Len(desired) \in Nat /\ OnePerKeyIn(byKey)
  BY <1>1 DEF DiffInv, PlanInv, Slices, MapInv
<1>3. ~\E j \in 1 .. v : desiredKey(desired[j]) = desiredKey(d)
  BY <1>1, <1>2 DEF PlanInv
<1>4. WantedUpTo(v + 1) = WantedUpTo(v) \cup {d}
  BY <1>1, <1>2, <1>3, OneMoreWant
<1>5. (WantedUpTo(visited))' = WantedUpTo(v) \cup {d}
  BY <1>1, <1>4 DEF WantedUpTo
<1>6. seen = desiredKeys(WantedUpTo(v)) /\ seen = {desiredKey(desired[k]) : k \in 1 .. v}
  BY <1>2 DEF PlanInv
<1>7. d \notin WantedUpTo(v) /\ seen' = desiredKeys(WantedUpTo(v) \cup {d})
  BY <1>1, <1>6 DEF desiredKeys
<1>8. seen' = {desiredKey(desired[k]) : k \in 1 .. v + 1}
  <2>1. 1 .. v + 1 = (1 .. v) \cup {v + 1}
    BY <1>2
  <2> QED
    BY <1>1, <1>6, <2>1
<1>9. (visited \in 0 .. Len(desired))'
  BY <1>1, <1>2
<1> QED
  BY <1>1, <1>2, <1>5, <1>7, <1>8, <1>9

\* Its entry is not there and is to be created.
LEMMA VisitMissing ==
  ASSUME DiffInv, Visit, ~Duplicate(desired[visited + 1]),
         {e \in byKey : entryKey(e) = desiredKey(desired[visited + 1])} = {}
  PROVE  PlanInv'
<1> DEFINE v == visited
           d == desired[v + 1]
           u == UUIDs[Len(plan.create) + 1]
           new == newEntry(d, Opts.className, u, Opts.hint)
<1>1. /\ matched' = matched
      /\ plan' = [plan EXCEPT !.create = Append(plan.create, new)]
  BY DEF Visit
<1>2. /\ plan'.create = Append(plan.create, new) /\ plan'.update = plan.update
      /\ plan' = [create |-> plan'.create, update |-> plan'.update, delete |-> plan'.delete]
  BY <1>1, VisitNew DEF PlanInv
<1>3. desiredKey(d) \notin entryKeys(byKey)
  BY DEF entryKeys
<1>4. /\ plan.create \in Seq(Range(plan.create)) /\ Len(plan.create) <= v
      /\ Len(plan.create) \in Nat
  BY VisitNew, SliceIsSeq DEF PlanInv
<1>5. /\ plan'.create \in Seq(Range(plan'.create))
      /\ Len(plan'.create) = Len(plan.create) + 1
      /\ Range(plan'.create) = Range(plan.create) \cup {new}
  BY <1>2, <1>4, Appended
<1>6. u \in Range(UUIDs)
  <2>1. Len(plan.create) + 1 \in 1 .. Len(UUIDs)
    BY <1>4, VisitNew, UUIDsSeq DEF DiffInv, Slices
  <2> QED
    BY <2>1, UUIDsSeq DEF Range
<1>7. CreateInv'
  <2>1. CreatedFor(WantedUpTo(v), byKey, Range(plan.create))
    BY VisitNew DEF PlanInv, CreateInv
  <2>2. d \notin WantedUpTo(v)
    BY VisitNew
  <2>3. /\ (WantedUpTo(visited))' = WantedUpTo(v) \cup {d} /\ byKey' = byKey
        /\ new = newEntry(d, Opts.className, u, Opts.hint)
    BY VisitNew
  <2> HIDE DEF new
  <2>4. CreatedFor((WantedUpTo(visited))', byKey, Range(plan.create) \cup {new})
    <3> HIDE DEF v, d, u
    <3> QED
      BY <1>3, <1>6, <2>1, <2>2, <2>3, OneToCreate
  <2> QED
    BY <1>5, <2>3, <2>4 DEF CreateInv
<1>8. Update(WantedUpTo(v) \cup {d}, byKey, Opts.hint) =
        Update(WantedUpTo(v), byKey, Opts.hint)
  BY <1>3, NothingToUpdate
<1>9. matched' = seen' \cap entryKeys(byKey)
  BY <1>1, <1>3, VisitNew DEF PlanInv
<1>10. Len(plan'.create) <= v + 1
  BY <1>4, <1>5, VisitNew
<1>11. UNCHANGED <<desired, byKey>> /\ visited' = v + 1
      /\ (WantedUpTo(visited))' = WantedUpTo(v) \cup {d}
      /\ (visited \in 0 .. Len(desired))'
      /\ seen' = {desiredKey(desired[k]) : k \in 1 .. v + 1}
      /\ seen' = desiredKeys(WantedUpTo(v) \cup {d})
  BY VisitNew
<1>12. /\ (seen = {desiredKey(desired[i]) : i \in 1 .. visited})'
       /\ (seen = desiredKeys(WantedUpTo(visited)))'
  BY <1>11
<1>13. (matched = seen \cap entryKeys(byKey))'
  BY <1>9, <1>11
<1>14. (Len(plan.create) <= visited)'
  BY <1>10, <1>11
<1>15. (Range(plan.update) = Update(WantedUpTo(visited), byKey, Opts.hint))'
  BY <1>11, <1>2, <1>8, VisitNew DEF PlanInv
<1>16. (plan.create \in Seq(Range(plan.create)) /\ plan.update \in Seq(Range(plan.update)))'
  BY <1>2, <1>5, VisitNew DEF PlanInv
<1>17. (plan = [create |-> plan.create, update |-> plan.update, delete |-> plan.delete])'
  BY <1>2
<1> QED
  BY <1>11, <1>12, <1>13, <1>14, <1>15, <1>16, <1>17, <1>7 DEF PlanInv

\* Its entry is there, and is updated if it has drifted.
LEMMA VisitMatched ==
  ASSUME DiffInv, Visit, ~Duplicate(desired[visited + 1]),
         {e \in byKey : entryKey(e) = desiredKey(desired[visited + 1])} # {}
  PROVE  PlanInv'
<1> DEFINE v == visited
           d == desired[v + 1]
<1>1. PICK e \in byKey :
        /\ entryKey(e) = desiredKey(d)
        /\ matched' = matched \cup {desiredKey(d)}
        /\ plan' = IF drifted(d, e)
                   THEN [plan EXCEPT !.update =
                          Append(plan.update, updatedEntry(e.id, d, Opts.hint))]
                   ELSE plan
  BY DEF Visit
<1> DEFINE new == updatedEntry(e.id, d, Opts.hint)
<1>2. /\ plan'.create = plan.create
      /\ plan'.update = IF drifted(d, e) THEN Append(plan.update, new) ELSE plan.update
      /\ plan' = [create |-> plan'.create, update |-> plan'.update, delete |-> plan'.delete]
  BY <1>1, VisitNew DEF PlanInv
<1>3. desiredKey(d) \in entryKeys(byKey)
  BY <1>1 DEF entryKeys
<1>4. plan.update \in Seq(Range(plan.update))
  BY VisitNew DEF PlanInv
<1>5. /\ plan'.update \in Seq(Range(plan'.update))
      /\ Range(plan'.update) = Range(plan.update) \cup (IF drifted(d, e) THEN {new} ELSE {})
  <2>1. CASE drifted(d, e)
    BY <1>2, <1>4, <2>1, Appended
  <2>2. CASE ~drifted(d, e)
    BY <1>2, <1>4, <2>2
  <2> QED
    BY <2>1, <2>2
<1>6. Range(plan'.update) = Update(WantedUpTo(v) \cup {d}, byKey, Opts.hint)
  <2>1. Range(plan.update) = Update(WantedUpTo(v), byKey, Opts.hint)
    BY VisitNew DEF PlanInv
  <2>2. Update(WantedUpTo(v) \cup {d}, byKey, Opts.hint) =
          Update(WantedUpTo(v), byKey, Opts.hint) \cup (IF drifted(d, e) THEN {new} ELSE {})
    BY <1>1, VisitNew, OneToUpdate
  <2> QED
    BY <1>5, <2>1, <2>2
<1>7. ToCreate(WantedUpTo(v) \cup {d}, byKey) = ToCreate(WantedUpTo(v), byKey)
  BY <1>3, NothingToCreate
<1>8. CreateInv'
  <2>1. (WantedUpTo(visited))' = WantedUpTo(v) \cup {d} /\ byKey' = byKey /\ CreateInv
    BY VisitNew DEF PlanInv
  <2> QED
    BY <1>2, <1>7, <2>1 DEF CreateInv, CreatedFor, Create
<1>9. matched' = seen' \cap entryKeys(byKey)
  BY <1>1, <1>3, VisitNew DEF PlanInv
<1>10. Len(plan'.create) <= v + 1
  <2>1. Len(plan.create) \in Nat
    BY VisitNew, SliceIsSeq DEF PlanInv
  <2> QED
    BY <1>2, <2>1, VisitNew DEF PlanInv
<1>11. UNCHANGED <<desired, byKey>> /\ visited' = v + 1
      /\ (WantedUpTo(visited))' = WantedUpTo(v) \cup {d}
      /\ (visited \in 0 .. Len(desired))'
      /\ seen' = {desiredKey(desired[k]) : k \in 1 .. v + 1}
      /\ seen' = desiredKeys(WantedUpTo(v) \cup {d})
  BY VisitNew
<1>12. /\ (seen = {desiredKey(desired[i]) : i \in 1 .. visited})'
       /\ (seen = desiredKeys(WantedUpTo(visited)))'
  BY <1>11
<1>13. (matched = seen \cap entryKeys(byKey))'
  BY <1>9, <1>11
<1>14. (Len(plan.create) <= visited)'
  BY <1>10, <1>11
<1>15. (Range(plan.update) = Update(WantedUpTo(visited), byKey, Opts.hint))'
  BY <1>11, <1>6
<1>16. (plan.create \in Seq(Range(plan.create)) /\ plan.update \in Seq(Range(plan.update)))'
  BY <1>2, <1>5, VisitNew DEF PlanInv
<1>17. (plan = [create |-> plan.create, update |-> plan.update, delete |-> plan.delete])'
  BY <1>2
<1> QED
  BY <1>11, <1>12, <1>13, <1>14, <1>15, <1>16, <1>17, <1>8 DEF PlanInv

LEMMA VisitStep ==
  ASSUME DiffInv, Visit
  PROVE  DiffInv'
<1>1. PlanInv'
  BY VisitDuplicate, VisitMissing, VisitMatched
<1>2. UNCHANGED <<desired, existing, indexed, byKey, pc>> /\ pc = "visit"
  BY DEF Visit
<1>3. Slices' /\ MapInv'
  BY <1>2 DEF DiffInv, Slices, MapInv, OnePerKeyIn, CurrentUpTo
<1> QED
  BY <1>1, <1>2, <1>3 DEF DiffInv

-------------------------------------------------------------------------------
(***************************************************************************)
(* The last loop, and the theorem.                                         *)
(***************************************************************************)
LEMMA SweepStep ==
  ASSUME DiffInv, Sweep
  PROVE  DiffInv'
<1>1. /\ UNCHANGED <<desired, existing, indexed, visited, byKey, matched, seen>>
      /\ pc = "visit" /\ pc' = "returned" /\ visited = Len(desired)
      /\ plan' = [plan EXCEPT !.delete =
                   {e.id : e \in {x \in byKey : entryKey(x) \notin matched}}]
  BY DEF Sweep
<1>2. PlanInv
  BY <1>1 DEF DiffInv
<1>3. /\ plan'.create = plan.create /\ plan'.update = plan.update
      /\ plan'.delete = {e.id : e \in {x \in byKey : entryKey(x) \notin matched}}
      /\ plan' = [create |-> plan'.create, update |-> plan'.update, delete |-> plan'.delete]
  BY <1>1, <1>2 DEF PlanInv
<1>4. (WantedUpTo(visited))' = WantedUpTo(visited)
  BY <1>1 DEF WantedUpTo
<1>5. PlanInv'
  BY <1>1, <1>2, <1>3, <1>4 DEF PlanInv, CreateInv
<1>6. Slices' /\ MapInv'
  BY <1>1 DEF DiffInv, Slices, MapInv, OnePerKeyIn, CurrentUpTo
<1>7. plan'.delete = Delete(WantedUpTo(visited), byKey)
  <2>1. \A x \in byKey : entryKey(x) \in matched <=>
                         entryKey(x) \in desiredKeys(WantedUpTo(visited))
    BY <1>2 DEF PlanInv, entryKeys
  <2>2. {x \in byKey : entryKey(x) \notin matched} =
          {x \in byKey : entryKey(x) \notin desiredKeys(WantedUpTo(visited))}
    BY <2>1
  <2> QED
    BY <1>3, <2>2 DEF Delete
<1> QED
  BY <1>1, <1>4, <1>5, <1>6, <1>7 DEF DiffInv

LEMMA NextDiff == DiffInv /\ [Next]_vars => DiffInv'
<1> SUFFICES ASSUME DiffInv, [Next]_vars PROVE DiffInv'
  OBVIOUS
<1>1. CASE Index
  BY <1>1, IndexStep
<1>2. CASE Indexed
  BY <1>2, IndexedStep
<1>3. CASE Visit
  BY <1>3, VisitStep
<1>4. CASE Sweep
  BY <1>4, SweepStep
<1>5. CASE UNCHANGED vars
  <2>1. UNCHANGED <<desired, existing, indexed, visited, byKey, matched, seen, plan, pc>>
    BY <1>5 DEF vars
  <2>2. Slices' = Slices /\ MapInv' = MapInv /\ Untouched' = Untouched
    BY <2>1 DEF Slices, MapInv, Untouched, OnePerKeyIn, CurrentUpTo
  <2>3. (WantedUpTo(visited))' = WantedUpTo(visited)
    BY <2>1 DEF WantedUpTo
  <2>4. CreateInv' = CreateInv
    BY <2>1, <2>3 DEF CreateInv
  <2>5. PlanInv' = PlanInv
    BY <2>1, <2>3, <2>4 DEF PlanInv
  <2> QED
    BY <2>1, <2>2, <2>3, <2>5 DEF DiffInv
<1> QED
  BY <1>1, <1>2, <1>3, <1>4, <1>5 DEF Next

LEMMA DiffAgrees == DiffInv => AgreesWithDiff
<1> SUFFICES ASSUME DiffInv, pc = "returned"
             PROVE  \E newID \in [ToCreate(Wanted, Current) -> Range(UUIDs)] :
                      AsSets = Diff(Wanted, Current, Opts.className, Opts.hint, newID)
  BY DEF AgreesWithDiff
<1>1. Slices /\ MapInv /\ PlanInv /\ visited = Len(desired) /\ indexed = Len(existing)
      /\ plan.delete = Delete(WantedUpTo(visited), byKey)
  BY DEF DiffInv, MapInv
<1>2. WantedUpTo(visited) = Wanted
  BY <1>1 DEF WantedUpTo, Wanted, Slices
<1>3. byKey = Current
  BY <1>1 DEF MapInv, CurrentUpTo, Current, Slices
<1>4. PICK f \in [ToCreate(Wanted, Current) -> Range(UUIDs)] :
        Range(plan.create) = Create(Wanted, Current, Opts.className, Opts.hint, f)
  BY <1>1, <1>2, <1>3 DEF PlanInv, CreateInv, CreatedFor
<1>5. AsSets = Diff(Wanted, Current, Opts.className, Opts.hint, f)
  BY <1>1, <1>2, <1>3, <1>4 DEF PlanInv, AsSets, Diff
<1> QED
  BY <1>4, <1>5

-------------------------------------------------------------------------------
(***************************************************************************)
(* What has been planned is of keys seen: creations under the UUIDs in the *)
(* order drawn, updates of entries in the map; no key twice in either.     *)
(***************************************************************************)
OfDistinctKeys(s) == \A i, j \in DOMAIN s : entryKey(s[i]) = entryKey(s[j]) => i = j

CreationsInv ==
  /\ \A i \in DOMAIN plan.create : \E d \in Range(desired) :
       /\ plan.create[i] = newEntry(d, Opts.className, UUIDs[i], Opts.hint)
       /\ desiredKey(d) \in seen
  /\ OfDistinctKeys(plan.create)

UpdatesInv ==
  /\ \A i \in DOMAIN plan.update : \E d \in Range(desired), e \in byKey :
       /\ plan.update[i] = updatedEntry(e.id, d, Opts.hint)
       /\ entryKey(e) = desiredKey(d) /\ desiredKey(d) \in seen
  /\ OfDistinctKeys(plan.update)

WriteInv ==
  /\ pc # "returned" => plan.delete = {}
  /\ CreationsInv
  /\ UpdatesInv

LEMMA KeysOfWrites ==
  ASSUME NEW id, NEW d, NEW hint
  PROVE  /\ entryKey(updatedEntry(id, d, hint)) = desiredKey(d)
         /\ entryKey(newEntry(d, Opts.className, id, hint)) = desiredKey(d)
         /\ updatedEntry(id, d, hint).id = id
         /\ newEntry(d, Opts.className, id, hint).id = Append(Opts.className, id)
         /\ updatedEntry(id, d, hint).hint = hint
         /\ newEntry(d, Opts.className, id, hint).hint = hint
         /\ WantedOf(updatedEntry(id, d, hint)) = WantedOf(d)
         /\ WantedOf(newEntry(d, Opts.className, id, hint)) = WantedOf(d)
BY DEF entryKey, desiredKey, newEntry, updatedEntry, WantedOf

LEMMA AppendedAt ==
  ASSUME NEW s, s \in Seq(Range(s)), NEW e
  PROVE  /\ DOMAIN s = 1 .. Len(s) /\ Len(s) \in Nat
         /\ DOMAIN Append(s, e) = 1 .. Len(s) + 1
         /\ \A i \in 1 .. Len(s) : Append(s, e)[i] = s[i]
         /\ Append(s, e)[Len(s) + 1] = e
<1>1. s \in Seq(Range(s) \cup {e}) /\ e \in Range(s) \cup {e}
  OBVIOUS
<1> QED
  BY <1>1

LEMMA InitWrites == Init => WriteInv
<1> SUFFICES ASSUME Init PROVE WriteInv
  OBVIOUS
<1>1. plan.create = <<>> /\ plan.update = <<>> /\ plan.delete = {}
  BY DEF Init
<1>2. DOMAIN <<>> = {}
  OBVIOUS
<1> QED
  BY <1>1, <1>2 DEF WriteInv, CreationsInv, UpdatesInv, OfDistinctKeys

\* A key that is seen for the first time is not the key of any write planned.
LEMMA MoreCreations ==
  ASSUME DiffInv, WriteInv, Visit, ~Duplicate(desired[visited + 1]),
         {e \in byKey : entryKey(e) = desiredKey(desired[visited + 1])} = {}
  PROVE  WriteInv'
<1> DEFINE d == desired[visited + 1]
           u == UUIDs[Len(plan.create) + 1]
           new == newEntry(d, Opts.className, u, Opts.hint)
           n == Len(plan.create)
<1>1. /\ pc = "visit" /\ UNCHANGED <<desired, existing, byKey, pc>>
      /\ seen' = seen \cup {desiredKey(d)} /\ desiredKey(d) \notin seen
      /\ plan' = [plan EXCEPT !.create = Append(plan.create, new)]
      /\ visited \in Nat /\ visited < Len(desired)
  BY VisitNew DEF Visit
<1>2. /\ plan.create \in Seq(Range(plan.create))
      /\ plan'.create = Append(plan.create, new)
      /\ plan'.update = plan.update /\ plan'.delete = plan.delete
  BY <1>1, VisitNew DEF PlanInv
<1>3. d \in Range(desired)
  BY <1>1 DEF DiffInv, Slices, Range
<1>4. /\ n \in Nat /\ DOMAIN plan.create = 1 .. n /\ DOMAIN plan'.create = 1 .. n + 1
      /\ \A i \in 1 .. n : plan'.create[i] = plan.create[i]
      /\ plan'.create[n + 1] = new
  BY <1>2, AppendedAt
<1>5. entryKey(new) = desiredKey(d)
  BY KeysOfWrites
<1>6. ASSUME NEW i \in 1 .. n
      PROVE  \E x \in Range(desired) :
               /\ plan.create[i] = newEntry(x, Opts.className, UUIDs[i], Opts.hint)
               /\ desiredKey(x) \in seen /\ entryKey(plan.create[i]) = desiredKey(x)
  BY <1>4, KeysOfWrites DEF WriteInv, CreationsInv
<1>7. \A i \in 1 .. n : entryKey(plan.create[i]) # entryKey(new)
  BY <1>1, <1>5, <1>6
<1>8. 1 .. n + 1 = (1 .. n) \cup {n + 1}
  BY <1>4
<1>9. ASSUME NEW i \in 1 .. n + 1
      PROVE  \E x \in Range(desired) :
               /\ plan'.create[i] = newEntry(x, Opts.className, UUIDs[i], Opts.hint)
               /\ desiredKey(x) \in seen'
  <2>1. CASE i \in 1 .. n
    BY <1>1, <1>4, <1>6, <2>1
  <2>2. CASE i = n + 1
    BY <1>1, <1>3, <1>4, <2>2
  <2> QED
    BY <1>8, <2>1, <2>2
<1>10. OfDistinctKeys(plan'.create)
  <2> SUFFICES ASSUME NEW i \in 1 .. n + 1, NEW j \in 1 .. n + 1,
                      entryKey(plan'.create[i]) = entryKey(plan'.create[j])
               PROVE  i = j
    BY <1>4 DEF OfDistinctKeys
  <2>1. CASE i \in 1 .. n /\ j \in 1 .. n
    BY <1>4, <2>1 DEF WriteInv, CreationsInv, OfDistinctKeys
  <2>2. CASE i = n + 1 \/ j = n + 1
    BY <1>4, <1>7, <1>8, <2>2
  <2> QED
    BY <1>8, <2>1, <2>2
<1>11. CreationsInv'
  BY <1>1, <1>4, <1>9, <1>10 DEF CreationsInv, OfDistinctKeys
<1>12. UpdatesInv'
  BY <1>1, <1>2 DEF WriteInv, UpdatesInv, OfDistinctKeys
<1> QED
  BY <1>1, <1>2, <1>11, <1>12 DEF WriteInv

LEMMA MoreUpdates ==
  ASSUME DiffInv, WriteInv, Visit, ~Duplicate(desired[visited + 1]),
         {e \in byKey : entryKey(e) = desiredKey(desired[visited + 1])} # {}
  PROVE  WriteInv'
<1> DEFINE d == desired[visited + 1]
<1>1. PICK e \in byKey :
        /\ entryKey(e) = desiredKey(d)
        /\ plan' = IF drifted(d, e)
                   THEN [plan EXCEPT !.update =
                          Append(plan.update, updatedEntry(e.id, d, Opts.hint))]
                   ELSE plan
  BY DEF Visit
<1> DEFINE new == updatedEntry(e.id, d, Opts.hint)
           n == Len(plan.update)
<1>2. /\ pc = "visit" /\ UNCHANGED <<desired, existing, byKey, pc>>
      /\ seen' = seen \cup {desiredKey(d)} /\ desiredKey(d) \notin seen
      /\ visited \in Nat /\ visited < Len(desired)
  BY VisitNew DEF Visit
<1>3. plan'.create = plan.create /\ plan'.delete = plan.delete
      /\ plan'.update = IF drifted(d, e) THEN Append(plan.update, new) ELSE plan.update
  BY <1>1, VisitNew DEF PlanInv
<1>4. CreationsInv'
  BY <1>2, <1>3 DEF WriteInv, CreationsInv, OfDistinctKeys
<1>5. UpdatesInv'
  <2>1. CASE ~drifted(d, e)
    BY <1>2, <1>3, <2>1 DEF WriteInv, UpdatesInv, OfDistinctKeys
  <2>2. CASE drifted(d, e)
    <3>1. /\ n \in Nat /\ DOMAIN plan.update = 1 .. n /\ DOMAIN plan'.update = 1 .. n + 1
          /\ \A i \in 1 .. n : plan'.update[i] = plan.update[i]
          /\ plan'.update[n + 1] = new
      <4>1. plan.update \in Seq(Range(plan.update))
        BY VisitNew DEF PlanInv
      <4> QED
        BY <1>3, <2>2, <4>1, AppendedAt
    <3>2. d \in Range(desired) /\ entryKey(new) = desiredKey(d)
      BY <1>2, KeysOfWrites DEF DiffInv, Slices, Range
    <3>3. ASSUME NEW i \in 1 .. n
          PROVE  \E x \in Range(desired), y \in byKey :
                   /\ plan.update[i] = updatedEntry(y.id, x, Opts.hint)
                   /\ entryKey(y) = desiredKey(x) /\ desiredKey(x) \in seen
                   /\ entryKey(plan.update[i]) = desiredKey(x)
      BY <3>1, KeysOfWrites DEF WriteInv, UpdatesInv
    <3>4. \A i \in 1 .. n : entryKey(plan.update[i]) # entryKey(new)
      BY <1>2, <3>2, <3>3
    <3>5. 1 .. n + 1 = (1 .. n) \cup {n + 1}
      BY <3>1
    <3>6. ASSUME NEW i \in 1 .. n + 1
          PROVE  \E x \in Range(desired), y \in byKey :
                   /\ plan'.update[i] = updatedEntry(y.id, x, Opts.hint)
                   /\ entryKey(y) = desiredKey(x) /\ desiredKey(x) \in seen'
      <4>1. CASE i \in 1 .. n
        BY <1>2, <3>1, <3>3, <4>1
      <4>2. CASE i = n + 1
        BY <1>1, <1>2, <3>1, <3>2, <4>2
      <4> QED
        BY <3>5, <4>1, <4>2
    <3>7. OfDistinctKeys(plan'.update)
      <4> SUFFICES ASSUME NEW i \in 1 .. n + 1, NEW j \in 1 .. n + 1,
                          entryKey(plan'.update[i]) = entryKey(plan'.update[j])
                   PROVE  i = j
        BY <3>1 DEF OfDistinctKeys
      <4>1. CASE i \in 1 .. n /\ j \in 1 .. n
        BY <3>1, <4>1 DEF WriteInv, UpdatesInv, OfDistinctKeys
      <4>2. CASE i = n + 1 \/ j = n + 1
        BY <3>1, <3>4, <3>5, <4>2
      <4> QED
        BY <3>5, <4>1, <4>2
    <3> QED
      BY <1>2, <3>1, <3>6, <3>7 DEF UpdatesInv, OfDistinctKeys
  <2> QED
    BY <2>1, <2>2
<1> QED
  BY <1>2, <1>3, <1>4, <1>5 DEF WriteInv

LEMMA WritesUntouched ==
  ASSUME WriteInv, UNCHANGED <<desired, seen>>,
         plan'.create = plan.create, plan'.update = plan.update,
         plan.update # <<>> => UNCHANGED byKey,
         pc' # "returned" => pc # "returned" /\ plan'.delete = plan.delete
  PROVE  WriteInv'
<1>1. CreationsInv'
  BY DEF WriteInv, CreationsInv, OfDistinctKeys
<1>2. UpdatesInv'
  <2>1. CASE plan.update = <<>>
    <3>1. DOMAIN <<>> = {}
      OBVIOUS
    <3> QED
      BY <2>1, <3>1 DEF UpdatesInv, OfDistinctKeys
  <2>2. CASE plan.update # <<>>
    BY <2>2 DEF WriteInv, UpdatesInv, OfDistinctKeys
  <2> QED
    BY <2>1, <2>2
<1> QED
  BY <1>1, <1>2 DEF WriteInv

LEMMA NextWrites == DiffInv /\ WriteInv /\ [Next]_vars => WriteInv'
<1> SUFFICES ASSUME DiffInv, WriteInv, [Next]_vars PROVE WriteInv'
  OBVIOUS
<1>1. CASE Index
  <2>1. plan.update = <<>>
    BY <1>1 DEF Index, DiffInv, Untouched
  <2> QED
    BY <1>1, <2>1, WritesUntouched DEF Index
<1>2. CASE Indexed
  BY <1>2, WritesUntouched DEF Indexed
<1>3. CASE Visit
  <2>1. CASE Duplicate(desired[visited + 1])
    BY <1>3, <2>1, WritesUntouched DEF Visit
  <2> QED
    BY <1>3, <2>1, MoreCreations, MoreUpdates
<1>4. CASE Sweep
  <2>1. PlanInv
    BY <1>4 DEF Sweep, DiffInv
  <2>2. plan'.create = plan.create /\ plan'.update = plan.update /\ pc' = "returned"
    BY <1>4, <2>1 DEF Sweep, PlanInv
  <2> QED
    BY <1>4, <2>2, WritesUntouched DEF Sweep
<1>5. CASE UNCHANGED vars
  BY <1>5, WritesUntouched DEF vars
<1> QED
  BY <1>1, <1>2, <1>3, <1>4, <1>5 DEF Next

-------------------------------------------------------------------------------
(***************************************************************************)
(* What follows from both invariants.                                      *)
(***************************************************************************)
LEMMA MapOfListing ==
  ASSUME DiffInv
  PROVE  byKey \subseteq Range(existing) /\ \A e \in byKey : Owns(Opts, e)
<1>1. byKey = CurrentUpTo(indexed) /\ indexed \in 0 .. Len(existing)
  BY DEF DiffInv, MapInv
<1>2. 1 .. indexed \subseteq DOMAIN existing
  BY <1>1 DEF DiffInv, Slices
<1> QED
  BY <1>1, <1>2 DEF CurrentUpTo, Range

LEMMA ClassOfNew == \A u : HasClass(Append(Opts.className, u), Opts.className)
<1> SUFFICES ASSUME NEW u PROVE HasClass(Append(Opts.className, u), Opts.className)
  OBVIOUS
<1>1. Opts.className \in Seq(Range(Opts.className))
  BY NamingAssumption
<1>2. /\ Len(Append(Opts.className, u)) = Len(Opts.className) + 1
      /\ Len(Opts.className) \in Nat
  BY <1>1, Appended
<1> QED
  BY <1>1, <1>2, AppendedAt DEF HasClass

LEMMA DiffTypes == DiffInv /\ WriteInv => TypeOK
<1> SUFFICES ASSUME DiffInv, WriteInv PROVE TypeOK
  OBVIOUS
<1>1. Len(desired) \in Nat /\ DOMAIN desired = 1 .. Len(desired) /\ Len(existing) \in Nat
  BY DEF DiffInv, Slices
<1>2. /\ visited \in 0 .. Len(desired) /\ matched \subseteq seen
      /\ seen \subseteq desiredKeys(Range(desired))
  <2>1. CASE pc = "index"
    BY <1>1, <2>1 DEF DiffInv, Untouched
  <2>2. CASE pc # "index"
    <3>1. /\ visited \in 0 .. Len(desired) /\ matched \subseteq seen
          /\ seen = {desiredKey(desired[i]) : i \in 1 .. visited}
      BY <2>2 DEF DiffInv, PlanInv
    <3>2. \A i \in 1 .. visited : desired[i] \in Range(desired)
      BY <1>1, <3>1 DEF Range
    <3> QED
      BY <3>1, <3>2 DEF desiredKeys
  <2> QED
    BY <2>1, <2>2
<1>3. ASSUME NEW e \in Range(plan.create)
      PROVE  Owns(Opts, e)
  <2>1. PICK i \in DOMAIN plan.create : e = plan.create[i]
    BY DEF Range
  <2>2. PICK d \in Range(desired) :
          e = newEntry(d, Opts.className, UUIDs[i], Opts.hint)
    BY <2>1 DEF WriteInv, CreationsInv
  <2>3. e.id = Append(Opts.className, UUIDs[i]) /\ e.hint = Opts.hint
    BY <2>2, KeysOfWrites
  <2> QED
    BY <2>3, ClassOfNew DEF Owns
<1>4. plan.delete \subseteq IDs(Range(existing))
  <2>1. CASE pc = "returned"
    BY <2>1, MapOfListing DEF DiffInv, Delete, IDs
  <2>2. CASE pc # "returned"
    BY <2>2 DEF WriteInv
  <2> QED
    BY <2>1, <2>2
<1> QED
  BY <1>2, <1>3, <1>4, MapOfListing DEF DiffInv, MapInv, TypeOK

\* The arguments stay what they are: slices, and a listing holds an ID once.
Arguments == desired \in DesiredLists /\ existing \in ExistingLists

FullInv == Arguments /\ DiffInv /\ WriteInv

LEMMA NextFull == FullInv /\ [Next]_vars => FullInv'
<1>1. Arguments /\ [Next]_vars => Arguments'
  BY DEF Arguments, Next, Index, Indexed, Visit, Sweep, vars
<1> QED
  BY <1>1, NextDiff, NextWrites DEF FullInv

LEMMA InitFull == Init => FullInv
<1>1. Init => Arguments
  BY DEF Init, Arguments
<1> QED
  BY <1>1, InitDiff, InitWrites DEF FullInv

LEMMA OneRowPerID ==
  ASSUME FullInv
  PROVE  \A x, y \in Range(existing) : x.id = y.id => x = y
BY ListAssumption DEF FullInv, Arguments, Range

\* What a planned update and a planned creation are.
LEMMA PlannedUpdate ==
  ASSUME FullInv, NEW i \in DOMAIN plan.update
  PROVE  \E d \in Range(desired), e \in byKey :
           /\ plan.update[i] = updatedEntry(e.id, d, Opts.hint)
           /\ plan.update[i].id = e.id /\ plan.update[i].hint = Opts.hint
           /\ entryKey(e) = desiredKey(d) /\ entryKey(plan.update[i]) = desiredKey(d)
           /\ desiredKey(d) \in seen
BY KeysOfWrites DEF FullInv, WriteInv, UpdatesInv

LEMMA PlannedCreation ==
  ASSUME FullInv, NEW i \in DOMAIN plan.create
  PROVE  i \in DOMAIN UUIDs /\ plan.create[i].id = Append(Opts.className, UUIDs[i])
<1>1. plan.create[i].id = Append(Opts.className, UUIDs[i])
  BY KeysOfWrites DEF FullInv, WriteInv, CreationsInv
<1>2. CASE pc = "index"
  <2>1. DOMAIN <<>> = {}
    OBVIOUS
  <2> QED
    BY <1>2, <2>1 DEF FullInv, DiffInv, Untouched
<1>3. CASE pc # "index"
  <2>1. /\ plan.create \in Seq(Range(plan.create)) /\ Len(plan.create) <= visited
        /\ visited \in 0 .. Len(desired) /\ Len(desired) <= Len(UUIDs)
        /\ Len(desired) \in Nat
    BY <1>3 DEF FullInv, DiffInv, PlanInv, Slices
  <2> QED
    BY <1>1, <2>1, UUIDsSeq, SliceIsSeq
<1> QED
  BY <1>2, <1>3

LEMMA AppendDiffers ==
  ASSUME NEW s, s \in Seq(Range(s)), NEW a, NEW b, Append(s, a) = Append(s, b)
  PROVE  a = b
BY AppendedAt

LEMMA WritesAreDistinct == FullInv => WritesOnce
<1> SUFFICES ASSUME FullInv PROVE WritesOnce
  OBVIOUS
<1>1. ASSUME NEW i \in DOMAIN plan.create, NEW j \in DOMAIN plan.create, i # j
      PROVE  /\ plan.create[i].id # plan.create[j].id
             /\ entryKey(plan.create[i]) # entryKey(plan.create[j])
  <2>1. UUIDs[i] # UUIDs[j]
    BY <1>1, PlannedCreation, NamingAssumption
  <2>2. Append(Opts.className, UUIDs[i]) # Append(Opts.className, UUIDs[j])
    BY <2>1, NamingAssumption, AppendDiffers
  <2> QED
    BY <1>1, <2>2, PlannedCreation DEF FullInv, WriteInv, CreationsInv, OfDistinctKeys
<1>2. ASSUME NEW i \in DOMAIN plan.update, NEW j \in DOMAIN plan.update,
             plan.update[i].id = plan.update[j].id
      PROVE  i = j
  <2>1. PICK e \in byKey : /\ plan.update[i].id = e.id
                           /\ entryKey(plan.update[i]) = entryKey(e)
    BY PlannedUpdate
  <2>2. PICK x \in byKey : /\ plan.update[j].id = x.id
                           /\ entryKey(plan.update[j]) = entryKey(x)
    BY PlannedUpdate
  <2>3. e = x
    BY <1>2, <2>1, <2>2, MapOfListing, OneRowPerID DEF FullInv
  <2> QED
    BY <2>1, <2>2, <2>3 DEF FullInv, WriteInv, UpdatesInv, OfDistinctKeys
<1>3. ASSUME NEW u \in Range(plan.update), u.id \in plan.delete
      PROVE  FALSE
  <2>1. PICK i \in DOMAIN plan.update : u = plan.update[i]
    BY DEF Range
  <2>2. PICK e \in byKey : u.id = e.id /\ entryKey(e) \in seen
    BY <2>1, PlannedUpdate
  <2>3. pc = "returned"
    BY <1>3 DEF FullInv, WriteInv
  <2>4. /\ plan.delete = Delete(WantedUpTo(visited), byKey)
        /\ seen = desiredKeys(WantedUpTo(visited))
    BY <2>3 DEF FullInv, DiffInv, PlanInv
  <2>5. PICK x \in byKey : x.id = u.id /\ entryKey(x) \notin seen
    BY <1>3, <2>4 DEF Delete
  <2>6. x = e
    BY <2>2, <2>5, MapOfListing, OneRowPerID DEF FullInv
  <2> QED
    BY <2>2, <2>5, <2>6
<1>4. IDs(Range(plan.update)) \cap plan.delete = {}
  BY <1>3 DEF IDs
<1> QED
  BY <1>1, <1>2, <1>4 DEF WritesOnce

-------------------------------------------------------------------------------
(***************************************************************************)
(* Convergence.  Of what is listed, what the plan leaves alone is Kept;    *)
(* applied, the plan makes ours the creations, the updates and the owned   *)
(* entries of Kept, and the rest of Kept is what others own.               *)
(***************************************************************************)
Created == Range(plan.create)
Updated == Range(plan.update)
Kept    == {e \in Range(existing) : e.id \notin IDs(Updated) \cup plan.delete}
Ours    == Created \cup Updated \cup Owned(Opts, Kept)

AtTheEnd == FullInv /\ pc = "returned" /\ Unhindered

LEMMA EndFacts ==
  ASSUME AtTheEnd
  PROVE  /\ WantedUpTo(visited) = Wanted
         /\ byKey = Owned(Opts, Range(existing))
         /\ OnePerKeyIn(byKey)
         /\ plan.delete = Delete(Wanted, byKey)
         /\ Updated = Update(Wanted, byKey, Opts.hint)
         /\ CreatedFor(Wanted, byKey, Created)
<1>1. /\ Slices /\ MapInv /\ PlanInv /\ visited = Len(desired) /\ indexed = Len(existing)
      /\ plan.delete = Delete(WantedUpTo(visited), byKey)
  BY DEF AtTheEnd, FullInv, DiffInv, MapInv
<1>2. WantedUpTo(visited) = Wanted
  BY <1>1 DEF WantedUpTo, Wanted, Slices
<1>3. byKey = Current
  BY <1>1 DEF MapInv, CurrentUpTo, Current, Slices
<1> QED
  BY <1>1, <1>2, <1>3 DEF AtTheEnd, Unhindered, PlanInv, MapInv, CreateInv, Created, Updated

LEMMA UpdateOfWanted ==
  ASSUME AtTheEnd, NEW u
  PROVE  u \in Updated <=>
           \E d \in Wanted, e \in byKey : /\ desiredKey(d) = entryKey(e) /\ drifted(d, e)
                                          /\ u = updatedEntry(e.id, d, Opts.hint)
BY EndFacts, UpdatesOfPairs

LEMMA CreationOfWanted ==
  ASSUME AtTheEnd
  PROVE  /\ \A c \in Created : \E d \in ToCreate(Wanted, byKey), u \in Range(UUIDs) :
              c = newEntry(d, Opts.className, u, Opts.hint)
         /\ \A d \in ToCreate(Wanted, byKey) : \E u \in Range(UUIDs) :
              newEntry(d, Opts.className, u, Opts.hint) \in Created
<1>1. PICK f \in [ToCreate(Wanted, byKey) -> Range(UUIDs)] :
        Created = Create(Wanted, byKey, Opts.className, Opts.hint, f)
  BY EndFacts DEF CreatedFor
<1> QED
  BY <1>1 DEF Create, ToCreate

\* Nothing that is written, and nothing deleted, bears the ID of an entry of others.
LEMMA WrittenIDs ==
  ASSUME AtTheEnd
  PROVE  /\ IDs(Updated) \subseteq IDs(byKey) /\ plan.delete \subseteq IDs(byKey)
         /\ IDs(byKey) \subseteq IDs(Range(existing))
         /\ IDs(Created) \cap IDs(Range(existing)) = {}
         /\ IDs(Updated) \cap plan.delete = {}
<1>1. ASSUME NEW u \in Updated PROVE u.id \in IDs(byKey)
  <2>1. PICK d \in Wanted, e \in byKey : u = updatedEntry(e.id, d, Opts.hint)
    BY UpdateOfWanted
  <2> QED
    BY <2>1, KeysOfWrites DEF IDs
<1>2. IDs(Updated) \subseteq IDs(byKey)
  BY <1>1 DEF IDs
<1>3. plan.delete \subseteq IDs(byKey)
  BY EndFacts DEF Delete, IDs
<1>4. IDs(byKey) \subseteq IDs(Range(existing))
  BY MapOfListing DEF AtTheEnd, FullInv, IDs
<1>5. IDs(Created) \cap IDs(Range(existing)) = {}
  BY DEF AtTheEnd, Unhindered, IDs, Created
<1>6. IDs(Updated) \cap plan.delete = {}
  BY WritesAreDistinct DEF AtTheEnd, WritesOnce, Updated
<1> QED
  BY <1>2, <1>3, <1>4, <1>5, <1>6

LEMMA AppliedIs == AtTheEnd => Applied = Created \cup Updated \cup Kept
<1> SUFFICES ASSUME AtTheEnd PROVE Applied = Created \cup Updated \cup Kept
  OBVIOUS
<1> DEFINE X == Range(existing)
           S == BatchCreateEntry(X, Created)
           T == BatchUpdateEntry(S, Updated)
<1>1. S = X \cup Created
  BY DEF AtTheEnd, Unhindered, BatchCreateEntry, IDs, Created
<1>2. \A u \in Updated : u.id \in IDs(S)
  BY <1>1, WrittenIDs DEF IDs
<1>3. T = {e \in X \cup Created : e.id \notin IDs(Updated)} \cup Updated
  BY <1>1, <1>2 DEF BatchUpdateEntry
<1>4. \A c \in Created : c.id \notin IDs(Updated) /\ c.id \notin plan.delete
  BY WrittenIDs DEF IDs
<1>5. \A u \in Updated : u.id \notin plan.delete
  BY WrittenIDs DEF IDs
<1>6. Applied = BatchDeleteEntry(T, plan.delete)
  BY DEF Applied, Created, Updated
<1> HIDE DEF S, T
<1> QED
  BY <1>3, <1>4, <1>5, <1>6 DEF BatchDeleteEntry, Kept

LEMMA OursAre ==
  ASSUME AtTheEnd
  PROVE  /\ Owned(Opts, Applied) = Ours
         /\ Applied \ Ours = Range(existing) \ Owned(Opts, Range(existing))
<1>1. \A c \in Created : Owns(Opts, c)
  BY DiffTypes DEF AtTheEnd, FullInv, TypeOK, Created
<1>2. ASSUME NEW u \in Updated PROVE Owns(Opts, u)
  <2>1. PICK d \in Wanted, e \in byKey : u = updatedEntry(e.id, d, Opts.hint)
    BY UpdateOfWanted
  <2>2. u.id = e.id /\ u.hint = Opts.hint
    BY <2>1, KeysOfWrites
  <2>3. Owns(Opts, e)
    BY MapOfListing DEF AtTheEnd, FullInv
  <2> QED
    BY <2>2, <2>3 DEF Owns
<1>3. Owned(Opts, Applied) = Ours
  BY <1>1, <1>2, AppliedIs DEF Owned, Ours
<1>4. ASSUME NEW x \in Range(existing), ~Owns(Opts, x)
      PROVE  x \in Kept
  <2>1. ASSUME x.id \in IDs(byKey) PROVE FALSE
    <3>1. PICK e \in byKey : e.id = x.id
      BY <2>1 DEF IDs
    <3>2. e = x /\ Owns(Opts, e)
      BY <3>1, MapOfListing, OneRowPerID DEF AtTheEnd, FullInv
    <3> QED
      BY <1>4, <3>2
  <2> QED
    BY <2>1, WrittenIDs DEF Kept
<1>5. Applied \ Ours = Kept \ Owned(Opts, Kept)
  BY <1>1, <1>2, AppliedIs DEF Ours, Owned
<1>6. Kept \ Owned(Opts, Kept) = Range(existing) \ Owned(Opts, Range(existing))
  BY <1>4 DEF Kept, Owned
<1> QED
  BY <1>3, <1>5, <1>6

\* An owned entry is kept when it is as wanted.
LEMMA KeptAre ==
  ASSUME AtTheEnd, NEW e
  PROVE  e \in Owned(Opts, Kept) <=>
           e \in byKey /\ \E d \in Wanted : desiredKey(d) = entryKey(e) /\ ~drifted(d, e)
<1>1. e \in Owned(Opts, Kept) <=>
        e \in byKey /\ e.id \notin IDs(Updated) /\ e.id \notin plan.delete
  BY EndFacts DEF Owned, Kept
<1>2. ASSUME e \in byKey PROVE e.id \in plan.delete <=> entryKey(e) \notin desiredKeys(Wanted)
  <2>1. \A x \in byKey : x.id = e.id => x = e
    BY <1>2, MapOfListing, OneRowPerID DEF AtTheEnd, FullInv
  <2> QED
    BY <1>2, <2>1, EndFacts DEF Delete
<1>3. ASSUME e \in byKey
      PROVE  e.id \in IDs(Updated) <=>
               \E d \in Wanted : desiredKey(d) = entryKey(e) /\ drifted(d, e)
  <2>1. \A x \in byKey : x.id = e.id => x = e
    BY <1>3, MapOfListing, OneRowPerID DEF AtTheEnd, FullInv
  <2>2. ASSUME NEW u \in Updated, u.id = e.id
        PROVE  \E d \in Wanted : desiredKey(d) = entryKey(e) /\ drifted(d, e)
    <3>1. PICK d \in Wanted, x \in byKey :
            /\ desiredKey(d) = entryKey(x) /\ drifted(d, x)
            /\ u = updatedEntry(x.id, d, Opts.hint)
      BY UpdateOfWanted
    <3>2. x = e
      BY <2>1, <2>2, <3>1, KeysOfWrites
    <3> QED
      BY <3>1, <3>2
  <2>3. ASSUME NEW d \in Wanted, desiredKey(d) = entryKey(e), drifted(d, e)
        PROVE  \E u \in Updated : u.id = e.id
    <3>1. updatedEntry(e.id, d, Opts.hint) \in Updated
      BY <1>3, <2>3, UpdateOfWanted
    <3> QED
      BY <3>1, KeysOfWrites
  <2> QED
    BY <2>2, <2>3 DEF IDs
<1>4. \A d, x \in Wanted : desiredKey(d) = desiredKey(x) => d = x
  <2> SUFFICES ASSUME NEW d \in Wanted, NEW x \in Wanted, desiredKey(d) = desiredKey(x)
               PROVE  d = x
    OBVIOUS
  <2>1. PICK i \in DOMAIN desired : d = desired[i] /\
          \A j \in 1 .. i - 1 : desiredKey(desired[j]) # desiredKey(desired[i])
    BY DEF Wanted
  <2>2. PICK k \in DOMAIN desired : x = desired[k] /\
          \A j \in 1 .. k - 1 : desiredKey(desired[j]) # desiredKey(desired[k])
    BY DEF Wanted
  <2>3. DOMAIN desired = 1 .. Len(desired) /\ Len(desired) \in Nat
    BY DEF AtTheEnd, FullInv, DiffInv, Slices
  <2>4. ~(i < k) /\ ~(k < i)
    BY <2>1, <2>2, <2>3
  <2> QED
    BY <2>1, <2>2, <2>3, <2>4
<1> QED
  BY <1>1, <1>2, <1>3, <1>4 DEF desiredKeys

LEMMA WantedIsItself ==
  ASSUME AtTheEnd, NEW d \in Wanted
  PROVE  d = WantedOf(d)
BY DesiredAssumption DEF AtTheEnd, FullInv, Arguments, Wanted

\* What is ours is of wanted entries, one of each.
LEMMA OursWanted ==
  ASSUME AtTheEnd, NEW e \in Ours
  PROVE  WantedOf(e) \in Wanted /\ entryKey(e) = desiredKey(WantedOf(e))
<1>1. entryKey(e) = desiredKey(WantedOf(e))
  BY DEF entryKey, desiredKey, WantedOf
<1>2. CASE e \in Created
  BY <1>2, CreationOfWanted, KeysOfWrites, WantedIsItself DEF ToCreate
<1>3. CASE e \in Updated
  BY <1>3, UpdateOfWanted, KeysOfWrites, WantedIsItself
<1>4. CASE e \in Owned(Opts, Kept)
  <2>1. PICK d \in Wanted : desiredKey(d) = entryKey(e) /\ ~drifted(d, e)
    BY <1>4, KeptAre
  <2>2. WantedOf(e) = WantedOf(d)
    BY <2>1 DEF desiredKey, entryKey, drifted, WantedOf
  <2> QED
    BY <1>1, <2>2, WantedIsItself
<1> QED
  BY <1>1, <1>2, <1>3, <1>4 DEF Ours

LEMMA EachWantedIsOurs ==
  ASSUME AtTheEnd, NEW d \in Wanted
  PROVE  \E e \in Ours : WantedOf(e) = d
<1>1. CASE d \in ToCreate(Wanted, byKey)
  BY <1>1, CreationOfWanted, KeysOfWrites, WantedIsItself DEF Ours
<1>2. CASE d \notin ToCreate(Wanted, byKey)
  <2>1. PICK e \in byKey : desiredKey(d) = entryKey(e)
    BY <1>2 DEF ToCreate, entryKeys
  <2>2. CASE drifted(d, e)
    <3>1. updatedEntry(e.id, d, Opts.hint) \in Updated
      BY <2>1, <2>2, UpdateOfWanted
    <3> QED
      BY <3>1, KeysOfWrites, WantedIsItself DEF Ours
  <2>3. CASE ~drifted(d, e)
    <3>1. e \in Ours
      BY <2>1, <2>3, KeptAre DEF Ours
    <3>2. WantedOf(e) = WantedOf(d)
      BY <2>1, <2>3 DEF desiredKey, entryKey, drifted, WantedOf
    <3> QED
      BY <3>1, <3>2, WantedIsItself
  <2> QED
    BY <2>2, <2>3
<1> QED
  BY <1>1, <1>2

LEMMA OursOfOneKey ==
  ASSUME AtTheEnd, NEW e \in Ours, NEW x \in Ours, entryKey(e) = entryKey(x)
  PROVE  e = x
<1>1. /\ \A c, b \in Created : entryKey(c) = entryKey(b) => c = b
      /\ \A u, v \in Updated : entryKey(u) = entryKey(v) => u = v
  BY DEF AtTheEnd, FullInv, WriteInv, CreationsInv, UpdatesInv, OfDistinctKeys,
         Created, Updated, Range
<1>2. \A c \in Created : entryKey(c) \notin entryKeys(byKey)
  BY CreationOfWanted, KeysOfWrites DEF ToCreate
<1>3. \A u \in Updated : \E y \in byKey : y.id = u.id /\ entryKey(y) = entryKey(u)
  BY UpdateOfWanted, KeysOfWrites
<1>4. \A y \in Owned(Opts, Kept) : y \in byKey /\ y.id \notin IDs(Updated)
  BY KeptAre DEF Kept, Owned
<1>5. \A y, z \in byKey : entryKey(y) = entryKey(z) => y = z
  BY EndFacts DEF OnePerKeyIn
<1>6. \A u \in Updated, y \in Owned(Opts, Kept) : entryKey(u) # entryKey(y)
  BY <1>3, <1>4, <1>5 DEF IDs
<1>7. \A y \in Updated \cup Owned(Opts, Kept) : entryKey(y) \in entryKeys(byKey)
  BY <1>3, <1>4 DEF entryKeys
<1>8. CASE e \in Created
  BY <1>1, <1>2, <1>7, <1>8 DEF Ours
<1>9. CASE e \in Updated
  BY <1>1, <1>2, <1>6, <1>7, <1>9 DEF Ours
<1>10. CASE e \in Owned(Opts, Kept)
  BY <1>2, <1>4, <1>5, <1>6, <1>7, <1>10 DEF Ours
<1> QED
  BY <1>8, <1>9, <1>10 DEF Ours

LEMMA WantedFinite == AtTheEnd => IsFiniteSet(Wanted)
<1> SUFFICES ASSUME AtTheEnd PROVE IsFiniteSet(Wanted)
  OBVIOUS
<1> DEFINE I == {k \in DOMAIN desired :
                   \A j \in 1 .. k - 1 : desiredKey(desired[j]) # desiredKey(desired[k])}
           f == [i \in I |-> desired[i]]
<1>1. IsFiniteSet(I)
  <2>1. DOMAIN desired = 1 .. Len(desired) /\ Len(desired) \in Nat
    BY DEF AtTheEnd, FullInv, DiffInv, Slices
  <2>2. IsFiniteSet(1 .. Len(desired))
    BY <2>1, FS_Interval
  <2> QED
    BY <2>1, <2>2, FS_Subset
<1>2. Wanted = {desired[i] : i \in I}
  BY DEF Wanted
<1> HIDE DEF I
<1>3. f \in Surjection(I, Wanted)
  BY <1>2 DEF Surjection
<1> QED
  BY <1>1, <1>3, FS_Surjection

LEMMA ConvergesAtEnd == FullInv => Converges
<1> SUFFICES ASSUME AtTheEnd
             PROVE  LET ours == Owned(Opts, Applied)
                    IN /\ {WantedOf(e) : e \in ours} = Wanted
                       /\ Cardinality(ours) = Cardinality(Wanted)
                       /\ Applied \ ours = Range(existing) \ Owned(Opts, Range(existing))
  BY DEF AtTheEnd, Converges
<1> DEFINE f == [e \in Ours |-> WantedOf(e)]
<1>1. {WantedOf(e) : e \in Ours} = Wanted
  BY OursWanted, EachWantedIsOurs
<1>2. f \in [Ours -> Wanted] /\ \A e \in Ours : f[e] = WantedOf(e)
  BY <1>1
<1> HIDE DEF f
<1>3. \A e, x \in Ours : f[e] = f[x] => e = x
  BY <1>2, OursWanted, OursOfOneKey
<1>4. f \in Injection(Ours, Wanted)
  BY <1>2, <1>3 DEF Injection, IsInjective
<1>5. f \in Surjection(Ours, Wanted)
  BY <1>2, EachWantedIsOurs DEF Surjection
<1>6. Cardinality(Ours) = Cardinality(Wanted)
  BY <1>4, <1>5, WantedFinite, FS_Injection
<1> QED
  BY <1>1, <1>6, OursAre

(***************************************************************************)
(* For all slices, options and UUIDs: what the loops return is the plan    *)
(* that Syncer takes in one step (reconcile.go 54-108).                    *)
(***************************************************************************)
THEOREM LoopsComputeDiff == Spec => []AgreesWithDiff
<1>1. Init => DiffInv
  BY InitDiff
<1>2. DiffInv /\ [Next]_vars => DiffInv'
  BY NextDiff
<1>3. DiffInv => AgreesWithDiff
  BY DiffAgrees
<1>4. QED
  BY <1>1, <1>2, <1>3, PTL DEF Spec

(***************************************************************************)
(* The plan keeps its type: only owned entries are made, and only listed   *)
(* ones deleted (reconcile.go 54-103, 117-133).                            *)
(***************************************************************************)
THEOREM PlanTypesCorrect == Spec => []TypeOK
<1>1. FullInv => TypeOK
  BY DiffTypes DEF FullInv
<1>2. QED
  BY <1>1, InitFull, NextFull, PTL DEF Spec

(***************************************************************************)
(* No plan writes an entry twice, whatever duplicates it is computed from  *)
(* (reconcile.go 66-102).                                                  *)
(***************************************************************************)
THEOREM NothingWrittenTwice == Spec => []WritesOnce
BY InitFull, NextFull, WritesAreDistinct, PTL DEF Spec

(***************************************************************************)
(* Applied in full, a plan leaves one owned entry for each desired one,    *)
(* and nothing changed that is not owned, where no duplicate of ours and   *)
(* no entry in the way of a creation is there (reconcile.go 54-103).       *)
(***************************************************************************)
THEOREM PlansConverge == Spec => []Converges
BY InitFull, NextFull, ConvergesAtEnd, PTL DEF Spec
===============================================================================
