------------------------------ MODULE FleetProofs ------------------------------
(***************************************************************************)
(* However many syncers share a server, if their markers keep them apart,  *)
(* none touches an entry of another and no two write the same entry.       *)
(***************************************************************************)
EXTENDS Fleet, TLAPS

\* What the ID and the hint of an entry say of its maker.
LEMMA SameMaker ==
  ASSUME NEW i \in Instances, NEW e, NEW x, e.id = x.id, e.hint = x.hint, MadeBy(x, i)
  PROVE  MadeBy(e, i)
BY DEF MadeBy

\* An instance owns what it makes ...
LEMMA MakersOwn ==
  ASSUME NEW i \in Instances, NEW e, MadeBy(e, i)
  PROVE  Owns(Profile[i], e)
<1>1. PICK u \in UUIDs : e.id = Append(Profile[i].className, u)
  BY DEF MadeBy
<1>2. Profile[i].className \in Seq(STRING) /\ u \in STRING
  BY ProfileAssumption, UUIDAssumption
<1>3. HasClass(Append(Profile[i].className, u), Profile[i].className)
  BY <1>2 DEF HasClass
<1>4. QED
  BY <1>1, <1>3 DEF MadeBy, Owns

\* ... and nobody else does.
LEMMA OnlyMakersOwn ==
  ASSUME Separate, NEW i \in Instances, NEW j \in Instances, NEW e,
         MadeBy(e, j), Owns(Profile[i], e)
  PROVE  i = j
BY DEF Separate, MadeBy, Owns

LEMMA OneMaker ==
  ASSUME Separate, NEW i \in Instances, NEW j \in Instances, NEW e,
         MadeBy(e, i), MadeBy(e, j)
  PROVE  i = j
BY MakersOwn, OnlyMakersOwn

(***************************************************************************)
(* The invariant is preserved by a step that adds to the table only what   *)
(* some instance made, to what an instance holds only what it made, and    *)
(* nothing at all to the entries there are or to the deletions.            *)
(***************************************************************************)
LEMMA NothingNew ==
  ASSUME Separate, ApartInv,
         AllEntries' \subseteq AllEntries,
         \A e \in table' : e \in table \/ \E j \in Instances : MadeBy(e, j),
         \A j \in Instances : \A e \in Held(j)' : e \in Held(j) \/ MadeBy(e, j),
         \A j \in Instances : plan'[j].delete \subseteq plan[j].delete
  PROVE  ApartInv'
<1>1. \A j \in Instances : \A e \in Held(j)' : MadeBy(e, j)
  BY DEF ApartInv, HoldsItsOwn
<1>2. \A i \in Instances : \A e \in table' : Owns(Profile[i], e) => MadeBy(e, i)
  BY OnlyMakersOwn DEF ApartInv, OwnsItsOwn
<1>3. \A i \in Instances : \A e \in AllEntries' : e.id \in plan'[i].delete => MadeBy(e, i)
  BY DEF ApartInv, DeletesItsOwn
<1>4. IDMeansHint'
  BY DEF ApartInv, IDMeansHint
<1>5. HoldsItsOwn' /\ OwnsItsOwn' /\ DeletesItsOwn'
  BY <1>1, <1>2, <1>3 DEF HoldsItsOwn, OwnsItsOwn, DeletesItsOwn, MadeBy
<1>6. QED
  BY <1>4, <1>5 DEF ApartInv

-------------------------------------------------------------------------------
(***************************************************************************)
(* Types, and who acts: a step of instance i leaves the plans and the      *)
(* snapshots of the others alone.                                          *)
(***************************************************************************)
LEMMA DiffIsPlan == \A W, C, c, h, f : IsPlan(Diff(W, C, c, h, f))
BY DEF IsPlan, Diff

LEMMA NoPlanIsPlan == IsPlan(NoPlan)
BY DEF IsPlan, NoPlan

\* Taking a part out of a plan.
LEMMA PartsOfPlan ==
  ASSUME NEW p, IsPlan(p)
  PROVE  /\ [p EXCEPT !.create = {}] = [create |-> {}, update |-> p.update, delete |-> p.delete]
         /\ [p EXCEPT !.update = {}] = [create |-> p.create, update |-> {}, delete |-> p.delete]
         /\ [p EXCEPT !.delete = {}] = [create |-> p.create, update |-> p.update, delete |-> {}]
<1> DEFINE c == p.create
           u == p.update
           d == p.delete
<1>1. p = [create |-> c, update |-> u, delete |-> d]
  BY DEF IsPlan
<1> HIDE DEF c, u, d
<1>2. QED
  BY <1>1

\* MakePlan, with the survivors and the IDs it chose.
LEMMA MakePlanStep ==
  ASSUME TypeOK, NEW i \in Instances, MakePlan(i)
  PROVE  /\ \E W, C, f :
              /\ C \subseteq Owned(Profile[i], entries[i])
              /\ f \in FreshIDs(i, ToCreate(W, C))
              /\ plan'[i] = Diff(W, C, Profile[i].className, Profile[i].hint, f)
         /\ entries[i] # Nil
         /\ \A j \in Instances : j # i => plan'[j] = plan[j]
         /\ plan' = [j \in Instances |-> plan'[j]]
         /\ UNCHANGED <<table, entries>>
<1>1. PICK W, C :
        /\ C \in OnePerKey(Owned(Profile[i], entries[i]))
        /\ FreshIDs(i, ToCreate(W, C)) # {}
        /\ plan' = [plan EXCEPT ![i] =
             Diff(W, C, Profile[i].className, Profile[i].hint,
                  CHOOSE f \in FreshIDs(i, ToCreate(W, C)) : TRUE)]
  BY DEF MakePlan
<1> DEFINE f == CHOOSE g \in FreshIDs(i, ToCreate(W, C)) : TRUE
<1>2. f \in FreshIDs(i, ToCreate(W, C))
  BY <1>1
<1>3. C \subseteq Owned(Profile[i], entries[i])
  BY <1>1 DEF OnePerKey
<1>4. plan = [j \in Instances |-> plan[j]]
  BY DEF TypeOK
<1> HIDE DEF f
<1>5. plan' = [plan EXCEPT ![i] = Diff(W, C, Profile[i].className, Profile[i].hint, f)]
  BY <1>1 DEF f
<1>6. /\ plan'[i] = Diff(W, C, Profile[i].className, Profile[i].hint, f)
      /\ \A j \in Instances : j # i => plan'[j] = plan[j]
      /\ plan' = [j \in Instances |-> plan'[j]]
  BY <1>4, <1>5
<1>7. entries[i] # Nil /\ UNCHANGED <<table, entries>>
  BY DEF MakePlan
<1>8. QED
  BY <1>2, <1>3, <1>6, <1>7

\* A call of instance i.
CallOf(i) == CreateCall(i) \/ UpdateCall(i) \/ DeleteCall(i)

LEMMA CallStep ==
  ASSUME TypeOK, NEW i \in Instances, CallOf(i)
  PROVE  /\ \A j \in Instances : j # i => plan'[j] = plan[j]
         /\ plan' = [j \in Instances |-> plan'[j]]
         /\ IsPlan(plan'[i])
         /\ plan'[i].create \subseteq plan[i].create
         /\ plan'[i].update \subseteq plan[i].update
         /\ plan'[i].delete \subseteq plan[i].delete
         /\ \A e \in table' : e \in table \/ e \in plan[i].create \cup plan[i].update
         /\ UNCHANGED entries
<1>1. plan = [j \in Instances |-> plan[j]] /\ IsPlan(plan[i])
  BY DEF TypeOK
<1>2. PICK p \in {[plan[i] EXCEPT !.create = {}], [plan[i] EXCEPT !.update = {}],
                  [plan[i] EXCEPT !.delete = {}]} :
        plan' = [plan EXCEPT ![i] = p]
  BY DEF CallOf, CreateCall, UpdateCall, DeleteCall
<1>3. /\ \A j \in Instances : j # i => plan'[j] = plan[j]
      /\ plan' = [j \in Instances |-> plan'[j]]
      /\ plan'[i] = p
  BY <1>1, <1>2
<1>4. /\ IsPlan(p)
      /\ p.create \subseteq plan[i].create
      /\ p.update \subseteq plan[i].update
      /\ p.delete \subseteq plan[i].delete
  BY <1>1, <1>2, PartsOfPlan DEF IsPlan
<1>5. \A e \in table' : e \in table \/ e \in plan[i].create \cup plan[i].update
  BY DEF CallOf, CreateCall, UpdateCall, DeleteCall, BatchCreateEntry, BatchUpdateEntry,
         BatchDeleteEntry
<1>6. UNCHANGED entries
  BY DEF CallOf, CreateCall, UpdateCall, DeleteCall, Call
<1>7. QED
  BY <1>3, <1>4, <1>5, <1>6

LEMMA NextType == TypeOK /\ [Next]_vars => TypeOK'
<1> SUFFICES ASSUME TypeOK, [Next]_vars PROVE TypeOK'
  OBVIOUS
<1> USE DEF TypeOK
<1>1. ASSUME NEW i \in Instances, MakePlan(i) PROVE TypeOK'
  <2>1. UNCHANGED <<running, jobs, entries>> /\ pc' = [pc EXCEPT ![i] = "applying"]
    BY <1>1 DEF MakePlan
  <2>2. plan' = [j \in Instances |-> plan'[j]] /\ \A j \in Instances : IsPlan(plan'[j])
    BY <1>1, MakePlanStep, DiffIsPlan
  <2>3. \A j \in Instances : IsPlan(plan[j])'
    BY <2>2 DEF IsPlan
  <2>4. \A j \in Instances : pc'[j] = "idle" => j # i /\ pc[j] = "idle"
    BY <2>1
  <2>5. \A j \in Instances : (pc[j] = "idle" => Empty(plan[j]))'
    BY <2>4, <1>1, MakePlanStep DEF Empty, NoPlan
  <2>6. QED
    BY <2>1, <2>2, <2>3, <2>5
<1>2. ASSUME NEW i \in Instances, CallOf(i) PROVE TypeOK'
  <2>1. UNCHANGED <<running, jobs, entries, pc>>
    BY <1>2 DEF CallOf, CreateCall, UpdateCall, DeleteCall, Call
  <2>2. plan' = [j \in Instances |-> plan'[j]] /\ \A j \in Instances : IsPlan(plan'[j])
    BY <1>2, CallStep
  <2>3. \A j \in Instances : IsPlan(plan[j])'
    BY <2>2 DEF IsPlan
  <2>4. \A j \in Instances : (pc[j] = "idle" => Empty(plan[j]))'
    <3>1. pc[i] = "applying"
      BY <1>2 DEF CallOf, CreateCall, UpdateCall, DeleteCall, Call
    <3>2. QED
      BY <3>1, <2>1, <1>2, CallStep DEF Empty, NoPlan
  <2>5. QED
    BY <2>1, <2>2, <2>3, <2>4
<1>3. ASSUME NEW i \in Instances, Crash(i) PROVE TypeOK'
  <2>1. /\ plan' = [plan EXCEPT ![i] = NoPlan]
        /\ jobs' = [jobs EXCEPT ![i] = Nil] /\ entries' = [entries EXCEPT ![i] = Nil]
        /\ pc' = [pc EXCEPT ![i] = "idle"] /\ UNCHANGED running
    BY <1>3 DEF Crash
  <2>2. \A j \in Instances : IsPlan(plan'[j])
    BY <2>1, NoPlanIsPlan
  <2>3. \A j \in Instances : IsPlan(plan[j])'
    BY <2>2 DEF IsPlan
  <2>4. \A j \in Instances : (pc[j] = "idle" => Empty(plan[j]))'
    BY <2>1 DEF Empty, NoPlan
  <2>5. QED
    BY <2>1, <2>3, <2>4
<1>4. ASSUME NEW i \in Instances, gatherJobs(i) \/ gatherEntries(i) \/ Finish(i) PROVE TypeOK'
  <2>1. UNCHANGED <<running, plan>>
    BY <1>4 DEF gatherJobs, gatherEntries, Finish
  <2>2. DOMAIN jobs' = Instances /\ entries' = [j \in Instances |-> entries'[j]]
    BY <1>4 DEF gatherJobs, gatherEntries, Finish
  <2>3. pc' \in [Instances -> {"idle", "applying"}]
    BY <1>4 DEF gatherJobs, gatherEntries, Finish
  <2>4. \A j \in Instances : (pc[j] = "idle" => Empty(plan[j]))'
    <3>1. CASE Finish(i)
      BY <3>1, <2>1 DEF Finish, Empty, NoPlan
    <3>2. CASE gatherJobs(i) \/ gatherEntries(i)
      BY <3>2, <2>1 DEF gatherJobs, gatherEntries, Empty, NoPlan
    <3>3. QED
      BY <1>4, <3>1, <3>2
  <2>5. QED
    BY <2>1, <2>2, <2>3, <2>4 DEF IsPlan
<1>5. ASSUME NEW i \in Instances, NEW s \in Slots, JobChanges(i, s) PROVE TypeOK'
  BY <1>5 DEF JobChanges, memory, IsPlan, Empty, NoPlan
<1>6. CASE UNCHANGED vars
  BY <1>6 DEF vars, memory, IsPlan, Empty, NoPlan
<1>7. QED
  BY <1>1, <1>2, <1>3, <1>4, <1>5, <1>6 DEF Next, Syncer, reconcile, CallOf

LEMMA InitType == Init => TypeOK
<1>1. \A j \in Instances : Init => IsPlan(plan[j]) /\ Empty(plan[j])
  BY NoPlanIsPlan DEF Init, Empty
<1> QED
  BY <1>1 DEF Init, TypeOK

(***************************************************************************)
(* Every instance keeps its types, and has writes left to make only while  *)
(* a pass of it is under way: a crash, a failed call or a failed refresh   *)
(* leaves no part of a plan behind (syncer.go 191-240).  This needs no     *)
(* assumption on the markers.                                              *)
(***************************************************************************)
THEOREM TypesCorrect == Spec => []TypeOK
<1> QED
  BY InitType, NextType, PTL DEF Spec

-------------------------------------------------------------------------------
(***************************************************************************)
(* The invariant, action by action.                                        *)
(***************************************************************************)
LEMMA GatherApart ==
  ASSUME Separate, TypeOK, ApartInv, NEW i \in Instances,
         gatherJobs(i) \/ gatherEntries(i) \/ Finish(i)
  PROVE  ApartInv'
<1>1. UNCHANGED <<table, plan>>
  BY DEF gatherJobs, gatherEntries, Finish
<1>2. \A j \in Instances : entries'[j] = entries[j] \/ (j = i /\ entries'[j] = ListManaged(i))
  BY DEF gatherJobs, gatherEntries, Finish, TypeOK
<1>3. \A e \in ListManaged(i) : e \in table /\ MadeBy(e, i)
  BY DEF ListManaged, Owned, Visible, ApartInv, OwnsItsOwn
<1>4. \A j \in Instances : \A e \in Held(j)' : e \in Held(j) \/ (e \in table /\ MadeBy(e, j))
  <2>1. TAKE j \in Instances
  <2>2. CASE entries'[j] = entries[j]
    BY <1>1, <2>2 DEF Held
  <2>3. CASE j = i /\ entries'[j] = ListManaged(i)
    BY <1>1, <1>3, <2>3 DEF Held
  <2>4. QED
    BY <1>2, <2>2, <2>3
<1>5. AllEntries' \subseteq AllEntries
  BY <1>1, <1>4 DEF AllEntries
<1>6. QED
  BY <1>1, <1>4, <1>5, NothingNew

LEMMA CallApart ==
  ASSUME Separate, TypeOK, ApartInv, NEW i \in Instances, CallOf(i)
  PROVE  ApartInv'
<1>1. \A j \in Instances : Held(j)' \subseteq Held(j)
  BY CallStep DEF Held
<1>2. \A e \in table' : e \in table \/ e \in Held(i)
  BY CallStep DEF Held
<1>3. AllEntries' \subseteq AllEntries
  BY <1>1, <1>2 DEF AllEntries
<1>4. \A e \in table' : e \in table \/ \E j \in Instances : MadeBy(e, j)
  BY <1>2 DEF ApartInv, HoldsItsOwn
<1>5. \A j \in Instances : plan'[j].delete \subseteq plan[j].delete
  BY CallStep
<1>6. QED
  BY <1>1, <1>3, <1>4, <1>5, NothingNew

LEMMA CrashApart ==
  ASSUME Separate, TypeOK, ApartInv, NEW i \in Instances, Crash(i)
  PROVE  ApartInv'
<1>1. /\ table' = table
      /\ \A j \in Instances : \/ plan'[j] = plan[j] /\ entries'[j] = entries[j]
                              \/ plan'[j] = NoPlan /\ entries'[j] = Nil
  <2>1. plan' = [plan EXCEPT ![i] = NoPlan] /\ entries' = [entries EXCEPT ![i] = Nil]
    BY DEF Crash
  <2>2. plan = [j \in Instances |-> plan[j]] /\ entries = [j \in Instances |-> entries[j]]
    BY DEF TypeOK
  <2>3. QED
    BY <2>1, <2>2 DEF Crash
<1>2. \A j \in Instances : Held(j)' \subseteq Held(j) /\ plan'[j].delete \subseteq plan[j].delete
  BY <1>1 DEF Held, NoPlan
<1>3. AllEntries' \subseteq AllEntries
  BY <1>1, <1>2 DEF AllEntries
<1>4. QED
  BY <1>1, <1>2, <1>3, NothingNew

(***************************************************************************)
(* What instance i's Diff makes of its own entries is its own, with new    *)
(* IDs or the IDs of entries it holds.                                     *)
(***************************************************************************)
LEMMA DiffMakes ==
  ASSUME NEW i \in Instances, NEW W, NEW C, NEW f \in FreshIDs(i, ToCreate(W, C)),
         \A c \in C : MadeBy(c, i)
  PROVE  LET p == Diff(W, C, Profile[i].className, Profile[i].hint, f)
         IN /\ \A e \in p.create : MadeBy(e, i) /\ e.id \notin LiveIDs
            /\ \A e \in p.update : MadeBy(e, i) /\ \E c \in C : e.id = c.id
            /\ \A id \in p.delete : \E c \in C : c.id = id
<1> DEFINE p == Diff(W, C, Profile[i].className, Profile[i].hint, f)
<1>1. \A e \in p.create : MadeBy(e, i) /\ e.id \notin LiveIDs
  <2>1. TAKE e \in p.create
  <2>2. PICK d \in ToCreate(W, C) :
          e = newEntry(d, Profile[i].className, f[d], Profile[i].hint)
    BY DEF Diff, Create
  <2>3. e.id = Append(Profile[i].className, f[d]) /\ e.hint = Profile[i].hint
    BY <2>2 DEF newEntry, updatedEntry
  <2>4. f[d] \in UUIDs /\ Append(Profile[i].className, f[d]) \notin LiveIDs
    BY DEF FreshIDs
  <2>5. QED
    BY <2>3, <2>4 DEF MadeBy
<1>2. \A e \in p.update : MadeBy(e, i) /\ \E c \in C : e.id = c.id
  <2>1. TAKE e \in p.update
  <2>2. PICK q \in W \X C : e = updatedEntry(q[2].id, q[1], Profile[i].hint)
    BY DEF Diff, Update
  <2>3. e.id = q[2].id /\ e.hint = Profile[i].hint /\ q[2] \in C
    BY <2>2 DEF updatedEntry
  <2>4. MadeBy(q[2], i)
    BY <2>3
  <2>5. QED
    BY <2>3, <2>4 DEF MadeBy
<1>3. \A id \in p.delete : \E c \in C : c.id = id
  BY DEF Diff, Delete
<1>4. QED
  BY <1>1, <1>2, <1>3

\* The same of a whole MakePlan step.
LEMMA PlanMakes ==
  ASSUME TypeOK, ApartInv, NEW i \in Instances, MakePlan(i)
  PROVE  /\ \A e \in plan'[i].create : MadeBy(e, i) /\ e.id \notin LiveIDs
         /\ \A e \in plan'[i].update : MadeBy(e, i) /\ \E c \in Held(i) : e.id = c.id
         /\ \A id \in plan'[i].delete : \E c \in Held(i) : c.id = id
<1>1. PICK W, C, f : /\ C \subseteq Owned(Profile[i], entries[i])
                     /\ f \in FreshIDs(i, ToCreate(W, C))
                     /\ plan'[i] = Diff(W, C, Profile[i].className, Profile[i].hint, f)
  BY MakePlanStep
<1>2. C \subseteq Held(i)
  BY <1>1, MakePlanStep DEF Held, Owned
<1>3. \A c \in C : MadeBy(c, i)
  BY <1>2 DEF ApartInv, HoldsItsOwn
<1>4. QED
  BY <1>1, <1>2, <1>3, DiffMakes

LEMMA MakePlanApart ==
  ASSUME Separate, TypeOK, ApartInv, NEW i \in Instances, MakePlan(i)
  PROVE  ApartInv'
<1> DEFINE new == plan'[i].create \cup plan'[i].update
<1>1. \A j \in Instances : \A e \in Held(j)' : e \in Held(j) \/ (j = i /\ e \in new)
  <2>1. TAKE j \in Instances
  <2>2. CASE j = i
    BY <2>2, MakePlanStep DEF Held
  <2>3. CASE j # i
    BY <2>3, MakePlanStep DEF Held
  <2>4. QED
    BY <2>2, <2>3
<1>2. \A e \in AllEntries' : e \in AllEntries \/ e \in new
  BY <1>1, MakePlanStep DEF AllEntries
<1>3. \A e \in new : MadeBy(e, i)
  BY PlanMakes
<1>4. IDs(AllEntries) \subseteq LiveIDs
  <2>1. SUFFICES ASSUME NEW e \in AllEntries PROVE e.id \in LiveIDs
    BY DEF IDs
  <2>2. CASE e \in table
    BY <2>2 DEF LiveIDs, IDs
  <2>3. CASE \E j \in Instances : e \in Held(j)
    <3>1. PICK j \in Instances : e \in Held(j)
      BY <2>3
    <3>2. e.id \in PlanIDs(plan[j]) \cup (IF entries[j] = Nil THEN {} ELSE IDs(entries[j]))
      BY <3>1 DEF Held, PlanIDs, IDs
    <3>3. QED
      BY <3>2 DEF LiveIDs
  <2>4. QED
    BY <2>2, <2>3 DEF AllEntries
<1>5. Held(i) \subseteq AllEntries
  BY DEF AllEntries
<1>6. \A e \in new : e.id \notin LiveIDs \/ \E c \in Held(i) : e.id = c.id
  BY PlanMakes
<1>7. \A c \in Held(i) : MadeBy(c, i) /\ c.hint = Profile[i].hint
  BY DEF ApartInv, HoldsItsOwn, MadeBy
<1>8. \A e \in AllEntries, x \in new : e.id = x.id => e.hint = Profile[i].hint
  <2>1. SUFFICES ASSUME NEW e \in AllEntries, NEW x \in new, e.id = x.id
                 PROVE  e.hint = Profile[i].hint
    OBVIOUS
  <2>2. PICK c \in Held(i) : x.id = c.id
    BY <1>4, <1>6, <2>1 DEF IDs
  <2>3. QED
    BY <1>5, <1>7, <2>1, <2>2 DEF ApartInv, IDMeansHint
<1>9. \A e \in new : e.hint = Profile[i].hint
  BY <1>3 DEF MadeBy
<1>10. \A e, x \in AllEntries : e.id = x.id => e.hint = x.hint
  BY DEF ApartInv, IDMeansHint
<1>11. \A j \in Instances : \A e \in AllEntries' : e.id \in plan'[j].delete => MadeBy(e, j)
  <2>1. SUFFICES ASSUME NEW j \in Instances, NEW e \in AllEntries', e.id \in plan'[j].delete
                 PROVE  MadeBy(e, j)
    OBVIOUS
  <2>2. CASE j = i
    <3>1. PICK c \in Held(i) : c.id = e.id
      BY <2>1, <2>2, PlanMakes
    <3>2. e.hint = c.hint
      BY <1>2, <1>5, <1>7, <1>9, <1>10, <3>1
    <3>3. QED
      BY <1>7, <2>2, <3>1, <3>2, SameMaker
  <2>3. CASE j # i /\ e \in AllEntries
    BY <2>1, <2>3, MakePlanStep DEF ApartInv, DeletesItsOwn
  <2>4. CASE j # i /\ e \in new
    <3>1. e.id \in plan[j].delete
      BY <2>1, <2>4, MakePlanStep
    <3>2. e.id \in LiveIDs
      BY <3>1 DEF LiveIDs, PlanIDs
    <3>3. PICK c \in Held(i) : e.id = c.id
      BY <1>6, <2>4, <3>2
    <3>4. MadeBy(c, j) /\ MadeBy(c, i)
      BY <1>5, <1>7, <3>1, <3>3 DEF ApartInv, DeletesItsOwn
    <3>5. QED
      BY <2>4, <3>4, OneMaker
  <2>5. QED
    BY <1>2, <2>1, <2>2, <2>3, <2>4
<1> HIDE DEF new
<1>12. HoldsItsOwn'
  <2>1. \A j \in Instances : \A e \in Held(j)' : MadeBy(e, j)
    BY <1>1, <1>3 DEF ApartInv, HoldsItsOwn
  <2>2. QED
    BY <2>1 DEF HoldsItsOwn, MadeBy
<1>13. OwnsItsOwn'
  BY MakePlanStep DEF ApartInv, OwnsItsOwn, MadeBy
<1>14. IDMeansHint'
  BY <1>2, <1>8, <1>9, <1>10 DEF IDMeansHint
<1>15. DeletesItsOwn'
  BY <1>11 DEF DeletesItsOwn, MadeBy
<1>16. QED
  BY <1>12, <1>13, <1>14, <1>15 DEF ApartInv

LEMMA NextApart == Separate /\ TypeOK /\ ApartInv /\ [Next]_vars => ApartInv'
<1> SUFFICES ASSUME Separate, TypeOK, ApartInv, [Next]_vars PROVE ApartInv'
  OBVIOUS
<1>1. CASE UNCHANGED <<table, entries, plan>>
  <2>1. \A j \in Instances : Held(j)' = Held(j)
    BY <1>1 DEF Held
  <2>2. AllEntries' = AllEntries
    BY <1>1, <2>1 DEF AllEntries
  <2>3. QED
    BY <1>1, <2>1, <2>2, NothingNew
<1>2. \A i \in Instances, s \in Slots : JobChanges(i, s) => UNCHANGED <<table, entries, plan>>
  BY DEF JobChanges, memory
<1>3. UNCHANGED vars => UNCHANGED <<table, entries, plan>>
  BY DEF vars, memory
<1>4. QED
  BY <1>1, <1>2, <1>3, GatherApart, CallApart, CrashApart, MakePlanApart
     DEF Next, Syncer, reconcile, CallOf

LEMMA InitApart == Separate /\ Init => TypeOK /\ ApartInv
<1> SUFFICES ASSUME Separate, Init PROVE TypeOK /\ ApartInv
  OBVIOUS
<1>1. TypeOK
  BY NoPlanIsPlan DEF Init, TypeOK, Empty
<1>2. \A i \in Instances : Held(i) = {} /\ plan[i].delete = {}
  BY DEF Init, Held, NoPlan
<1>3. AllEntries = Seeds
  BY <1>2 DEF Init, AllEntries
<1>4. HoldsItsOwn /\ DeletesItsOwn
  BY <1>2 DEF HoldsItsOwn, DeletesItsOwn
<1>5. OwnsItsOwn
  BY DEF Init, OwnsItsOwn, Separate
<1>6. IDMeansHint
  BY <1>3, SeedAssumption DEF IDMeansHint
<1>7. QED
  BY <1>1, <1>4, <1>5, <1>6 DEF ApartInv

(***************************************************************************)
(* What an instance holds, would own or is about to delete, it made.       *)
(***************************************************************************)
THEOREM InstancesStayApart == ASSUME Separate PROVE Spec => [](TypeOK /\ ApartInv)
<1>1. Init => TypeOK /\ ApartInv
  BY InitApart, Separate
<1>2. TypeOK /\ ApartInv /\ [Next]_vars => (TypeOK /\ ApartInv)'
  BY NextType, NextApart, Separate
<1>3. QED
  BY <1>1, <1>2, PTL DEF Spec

-------------------------------------------------------------------------------
(***************************************************************************)
(* Two plans never name the same entry.                                    *)
(***************************************************************************)
\* An ID of another instance's plan is not that of an entry we hold.
LEMMA PlanIsNotHeld ==
  ASSUME Separate, ApartInv, NEW i \in Instances, NEW j \in Instances, i # j,
         NEW c \in Held(i)
  PROVE  c.id \notin PlanIDs(plan[j])
<1>1. c \in AllEntries /\ MadeBy(c, i)
  BY DEF AllEntries, ApartInv, HoldsItsOwn
<1>2. ASSUME c.id \in PlanIDs(plan[j]) PROVE MadeBy(c, j)
  <2>1. CASE c.id \in plan[j].delete
    BY <1>1, <2>1 DEF ApartInv, DeletesItsOwn
  <2>2. CASE \E x \in Held(j) : x.id = c.id
    <3>1. PICK x \in Held(j) : x.id = c.id
      BY <2>2
    <3>2. x \in AllEntries /\ MadeBy(x, j)
      BY DEF AllEntries, ApartInv, HoldsItsOwn
    <3>3. x.hint = c.hint
      BY <1>1, <3>1, <3>2 DEF ApartInv, IDMeansHint
    <3>4. QED
      BY <3>1, <3>2, <3>3, SameMaker
  <2>3. QED
    BY <1>2, <2>1, <2>2 DEF PlanIDs, IDs, Held
<1>3. QED
  BY <1>1, <1>2, OneMaker

LEMMA NextDisjoint ==
  ASSUME Separate, TypeOK, ApartInv, WritesDisjoint, [Next]_vars
  PROVE  WritesDisjoint'
<1>1. ASSUME NEW i \in Instances, MakePlan(i) PROVE WritesDisjoint'
  <2>1. \A j \in Instances : j # i => PlanIDs(plan'[i]) \cap PlanIDs(plan'[j]) = {}
    <3>1. SUFFICES ASSUME NEW j \in Instances, j # i, NEW id \in PlanIDs(plan'[i])
                   PROVE  id \notin PlanIDs(plan[j])
      BY <1>1, MakePlanStep
    <3>2. id \notin LiveIDs \/ \E c \in Held(i) : c.id = id
      BY <1>1, <3>1, PlanMakes DEF PlanIDs, IDs
    <3>3. PlanIDs(plan[j]) \subseteq LiveIDs
      BY DEF LiveIDs
    <3>4. QED
      BY <3>1, <3>2, <3>3, PlanIsNotHeld
  <2>2. \A j \in Instances : j # i => plan'[j] = plan[j]
    BY <1>1, MakePlanStep
  <2>3. \A j, k \in Instances : j # k => PlanIDs(plan'[j]) \cap PlanIDs(plan'[k]) = {}
    BY <2>1, <2>2 DEF WritesDisjoint
  <2>4. QED
    BY <2>3 DEF WritesDisjoint, PlanIDs, IDs
<1>2. CASE \A j \in Instances : PlanIDs(plan'[j]) \subseteq PlanIDs(plan[j])
  <2>1. \A j, k \in Instances : j # k => PlanIDs(plan'[j]) \cap PlanIDs(plan'[k]) = {}
    BY <1>2 DEF WritesDisjoint
  <2>2. QED
    BY <2>1 DEF WritesDisjoint, PlanIDs, IDs
<1>3. \A i \in Instances : CallOf(i) =>
        \A j \in Instances : PlanIDs(plan'[j]) \subseteq PlanIDs(plan[j])
  <2>1. SUFFICES ASSUME NEW i \in Instances, CallOf(i), NEW j \in Instances
                 PROVE  PlanIDs(plan'[j]) \subseteq PlanIDs(plan[j])
    OBVIOUS
  <2>2. CASE j = i
    BY <2>1, <2>2, CallStep DEF PlanIDs, IDs
  <2>3. CASE j # i
    BY <2>1, <2>3, CallStep
  <2>4. QED
    BY <2>2, <2>3
<1>4. \A i \in Instances : Crash(i) =>
        \A j \in Instances : PlanIDs(plan'[j]) \subseteq PlanIDs(plan[j])
  <2>1. SUFFICES ASSUME NEW i \in Instances, Crash(i), NEW j \in Instances
                 PROVE  plan'[j] = plan[j] \/ plan'[j] = NoPlan
    BY DEF PlanIDs, IDs, NoPlan
  <2>2. plan' = [plan EXCEPT ![i] = NoPlan] /\ plan = [k \in Instances |-> plan[k]]
    BY <2>1 DEF Crash, TypeOK
  <2>3. QED
    BY <2>2
<1>5. \A i \in Instances : gatherJobs(i) \/ gatherEntries(i) \/ Finish(i) => plan' = plan
  BY DEF gatherJobs, gatherEntries, Finish
<1>6. \A i \in Instances, s \in Slots : JobChanges(i, s) => plan' = plan
  BY DEF JobChanges, memory
<1>7. UNCHANGED vars => plan' = plan
  BY DEF vars, memory
<1>8. QED
  BY <1>1, <1>2, <1>3, <1>4, <1>5, <1>6, <1>7 DEF Next, Syncer, reconcile, CallOf

(***************************************************************************)
(* For any number of instances with any class names, hints, templates and  *)
(* jobs, if their markers keep them apart: no entry is ever in the plans   *)
(* of two of them.                                                         *)
(***************************************************************************)
THEOREM NoSharedWrites == ASSUME Separate PROVE Spec => []WritesDisjoint
<1>1. Init => TypeOK /\ ApartInv /\ WritesDisjoint
  <2>1. Init => WritesDisjoint
    BY DEF Init, WritesDisjoint, PlanIDs, IDs, NoPlan
  <2>2. QED
    BY <2>1, InitApart, Separate
<1>2. TypeOK /\ ApartInv /\ WritesDisjoint /\ [Next]_vars
        => (TypeOK /\ ApartInv /\ WritesDisjoint)'
  BY NextType, NextApart, NextDisjoint, Separate
<1>3. QED
  BY <1>1, <1>2, PTL DEF Spec

-------------------------------------------------------------------------------
(***************************************************************************)
(* What one step may change.                                               *)
(***************************************************************************)
EachTouchesItsOwn == \A i \in Instances : TouchesItsOwn(i)

LEMMA CallTouchesItsOwn ==
  ASSUME TypeOK, ApartInv, NEW i \in Instances, CallOf(i)
  PROVE  \A e \in table : e \in table' \/ MadeBy(e, i)
<1>1. CASE CreateCall(i)
  BY <1>1 DEF CreateCall, BatchCreateEntry
<1>2. CASE UpdateCall(i)
  <2>1. PICK S \in SUBSET plan[i].update : table' = BatchUpdateEntry(table, S)
    BY <1>2 DEF UpdateCall
  <2>2. SUFFICES ASSUME NEW e \in table, e.id \in IDs(S) PROVE MadeBy(e, i)
    BY <2>1 DEF BatchUpdateEntry
  <2>3. PICK x \in S : x.id = e.id
    BY <2>2 DEF IDs
  <2>4. x \in Held(i)
    BY <2>3 DEF Held
  <2>5. MadeBy(x, i) /\ x \in AllEntries /\ e \in AllEntries
    BY <2>4 DEF ApartInv, HoldsItsOwn, AllEntries
  <2>6. e.hint = x.hint
    BY <2>3, <2>5 DEF ApartInv, IDMeansHint
  <2>7. QED
    BY <2>3, <2>5, <2>6, SameMaker
<1>3. CASE DeleteCall(i)
  <2>1. PICK S \in SUBSET plan[i].delete : table' = BatchDeleteEntry(table, S)
    BY <1>3 DEF DeleteCall
  <2>2. \A e \in table : e.id \in plan[i].delete => MadeBy(e, i)
    BY DEF ApartInv, DeletesItsOwn, AllEntries
  <2>3. QED
    BY <2>1, <2>2 DEF BatchDeleteEntry
<1>4. QED
  BY <1>1, <1>2, <1>3 DEF CallOf

LEMMA StepTouchesItsOwn == TypeOK /\ ApartInv /\ [Next]_vars => EachTouchesItsOwn
<1> SUFFICES ASSUME TypeOK, ApartInv, [Next]_vars PROVE EachTouchesItsOwn
  OBVIOUS
<1>1. ASSUME NEW i \in Instances, CallOf(i) PROVE EachTouchesItsOwn
  BY <1>1, CallStep, CallTouchesItsOwn DEF EachTouchesItsOwn, TouchesItsOwn
<1>2. CASE table' = table
  BY <1>2 DEF EachTouchesItsOwn, TouchesItsOwn
<1>3. \A i \in Instances : MakePlan(i) \/ Crash(i) \/ gatherJobs(i) \/ gatherEntries(i)
                            \/ Finish(i) => table' = table
  BY DEF MakePlan, Crash, gatherJobs, gatherEntries, Finish
<1>4. \A i \in Instances, s \in Slots : JobChanges(i, s) => table' = table
  BY DEF JobChanges
<1>5. UNCHANGED vars => table' = table
  BY DEF vars
<1>6. QED
  BY <1>1, <1>2, <1>3, <1>4, <1>5 DEF Next, Syncer, reconcile, CallOf

(***************************************************************************)
(* And no instance ever changes or removes an entry it did not make.       *)
(***************************************************************************)
THEOREM OthersStay == ASSUME Separate PROVE Spec => EntriesOfOthersStay
<1>1. Init => TypeOK /\ ApartInv
  BY InitApart, Separate
<1>2. TypeOK /\ ApartInv /\ [Next]_vars => (TypeOK /\ ApartInv)'
  BY NextType, NextApart, Separate
<1>3. TypeOK /\ ApartInv /\ [Next]_vars => [EachTouchesItsOwn]_vars
  BY StepTouchesItsOwn
<1>4. Spec => [][EachTouchesItsOwn]_vars
  BY <1>1, <1>2, <1>3, PTL DEF Spec
<1>5. QED
  BY <1>4, PTL DEF EntriesOfOthersStay, EachTouchesItsOwn

-------------------------------------------------------------------------------
(***************************************************************************)
(* What the instances' operators have to see to.  Ownership is by prefix,  *)
(* so a class name of one's own is enough only among names without a dot.  *)
(***************************************************************************)
\* Of two instances with one hint, neither's class name begins with the other's.
PrefixFree ==
  \A i, j \in Instances :
    \/ i = j
    \/ Profile[i].hint # Profile[j].hint
    \/ ~ /\ Len(Profile[i].className) <= Len(Profile[j].className)
         /\ \A k \in 1 .. Len(Profile[i].className) :
              Profile[j].className[k] = Profile[i].className[k]

\* Any two have a class name or a hint of their own, and no name has a dot.
OwnUndottedNames ==
  \A i, j \in Instances :
    /\ Len(Profile[i].className) = 1
    /\ \/ i = j
       \/ Profile[i].hint # Profile[j].hint
       \/ Profile[i].className # Profile[j].className

\* What an instance would take for its own at the outset, one like it has made.
OwnSeeds == \A i \in Instances, e \in Seeds : Owns(Profile[i], e) => MadeBy(e, i)

\* An ID drawn under a class carries another class just if the class itself does.
LEMMA CarriesPrefix ==
  ASSUME NEW c \in Seq(STRING), NEW d \in Seq(STRING), NEW u \in STRING
  PROVE  HasClass(Append(d, u), c) <=>
           /\ Len(c) <= Len(d)
           /\ \A k \in 1 .. Len(c) : d[k] = c[k]
<1>1. Len(c) \in Nat /\ Len(d) \in Nat /\ Len(Append(d, u)) = Len(d) + 1
  OBVIOUS
<1>2. Len(Append(d, u)) > Len(c) <=> Len(c) <= Len(d)
  BY <1>1
<1>3. \A k \in 1 .. Len(d) : Append(d, u)[k] = d[k]
  OBVIOUS
<1>4. Len(c) <= Len(d) => \A k \in 1 .. Len(c) : k \in 1 .. Len(d)
  BY <1>1
<1>5. QED
  BY <1>2, <1>3, <1>4 DEF HasClass

\* So names that are free of prefixes make instances separate.
LEMMA PrefixesDecide == PrefixFree /\ OwnSeeds => Separate
<1>1. ASSUME NEW i \in Instances, NEW j \in Instances, NEW u \in UUIDs
      PROVE  HasClass(Append(Profile[j].className, u), Profile[i].className) <=>
               /\ Len(Profile[i].className) <= Len(Profile[j].className)
               /\ \A k \in 1 .. Len(Profile[i].className) :
                    Profile[j].className[k] = Profile[i].className[k]
  BY CarriesPrefix, ProfileAssumption, UUIDAssumption
<1>2. QED
  BY <1>1 DEF Separate, PrefixFree, OwnSeeds

LEMMA UndottedNames == OwnUndottedNames => PrefixFree
<1>1. SUFFICES ASSUME OwnUndottedNames, NEW i \in Instances, NEW j \in Instances,
                      i # j, Profile[i].hint = Profile[j].hint,
                      Profile[j].className[1] = Profile[i].className[1]
               PROVE  FALSE
  BY DEF OwnUndottedNames, PrefixFree
<1>2. /\ Profile[i].className \in Seq(STRING) /\ Profile[j].className \in Seq(STRING)
      /\ Len(Profile[i].className) = 1 /\ Len(Profile[j].className) = 1
  BY <1>1, ProfileAssumption DEF OwnUndottedNames
<1>3. Profile[i].className = Profile[j].className
  BY <1>1, <1>2
<1>4. QED
  BY <1>1, <1>3 DEF OwnUndottedNames

(***************************************************************************)
(* With a class name without dots, or a hint, of one's own, no instance    *)
(* changes or removes what another made: the rule of the README, which the *)
(* run fleet_prefix refutes for names that have dots.                      *)
(***************************************************************************)
THEOREM OwnNamesSuffice ==
  ASSUME OwnUndottedNames, OwnSeeds
  PROVE  Spec => EntriesOfOthersStay
BY UndottedNames, PrefixesDecide, OthersStay
================================================================================
