----------------------------- MODULE SyncerProofs -----------------------------
(***************************************************************************)
(* Proofs about Syncer: its types, and that the daemon never withdraws the *)
(* entry of a job it knows to be running.                                  *)
(***************************************************************************)
EXTENDS SyncerInv, FiniteSetTheorems, TLAPS

USE DEF Loops

(***************************************************************************)
(* The image of a finite set under a function is finite.                   *)
(***************************************************************************)
LEMMA FiniteImage ==
  ASSUME NEW S, IsFiniteSet(S), NEW f
  PROVE  IsFiniteSet({f[x] : x \in S})
<1> DEFINE T == {f[x] : x \in S}
           g == [x \in S |-> f[x]]
<1>1. g \in Surjection(S, T)
  BY DEF Surjection
<1>2. QED
  BY <1>1, FS_Surjection, Zenon

-------------------------------------------------------------------------------
(***************************************************************************)
(* What squeue prints and what Diff makes of it.                           *)
(***************************************************************************)
LEMMA GatherType ==
  ASSUME TypeOK
  PROVE  Gather \in SUBSET JobHost /\ IsFiniteSet(Gather)
<1> DEFINE f == [s \in Slots |->
                   [node |-> s[1], job |-> s[2], account |-> slurm[s], run |-> run[s]]]
           R == {s \in Slots : slurm[s] # NotRunning}
<1>1. Gather = {f[s] : s \in R}
  BY DEF Gather
<1>2. IsFiniteSet(R)
  BY SlotsAssumption, FS_Subset
<1>3. IsFiniteSet(Gather)
  <2> HIDE DEF f, R
  <2>1. QED
    BY <1>1, <1>2, FiniteImage
<1>4. \A s \in R : f[s] \in JobHost
  BY SlotsAssumption DEF TypeOK, JobHost
<1>5. QED
  BY <1>1, <1>3, <1>4

DesiredType == [parent : Nodes, selectors : SUBSET JobIDs, spiffeID : SpiffeIDs,
                ttl : TTLs]

LEMMA DesiredTyped ==
  ASSUME TypeOK, NEW H \in SUBSET JobHost, IsFiniteSet(H)
  PROVE  buildDesired(H) \in SUBSET DesiredType /\ IsFiniteSet(buildDesired(H))
<1> DEFINE R == {h \in H : h.account \in Renderable}
           f == [h \in H |-> desired(h)]
<1>1. buildDesired(H) = {f[h] : h \in R}
  BY DEF buildDesired
<1>2. IsFiniteSet(buildDesired(H))
  <2>1. IsFiniteSet(R)
    BY FS_Subset
  <2> HIDE DEF f, R
  <2>2. QED
    BY <1>1, <2>1, FiniteImage
<1>3. cfg \in Config
  BY ConfigAssumption DEF TypeOK
<1>4. \A h \in R : f[h] \in DesiredType
  BY <1>3, AccountAssumption DEF desired, renderID, DesiredType, JobHost, Config, SpiffeIDs
<1>5. QED
  BY <1>1, <1>2, <1>4

LEMMA UpdatedType ==
  ASSUME NEW id \in IDType, NEW d \in DesiredType, NEW h \in Hints
  PROVE  updatedEntry(id, d, h) \in Entry
BY DEF updatedEntry, DesiredType, Entry

LEMMA DiffTyped ==
  ASSUME NEW W \in SUBSET DesiredType, IsFiniteSet(W),
         NEW C \in SUBSET Entry, IsFiniteSet(C),
         NEW c \in Config,
         NEW f \in [ToCreate(W, C) -> UUIDs]
  PROVE  LET plan == Diff(W, C, c.className, c.hint, f)
         IN /\ plan \in PlanType
            /\ IsFiniteSet(plan.create) /\ IsFiniteSet(plan.update)
<1> DEFINE D == ToCreate(W, C)
           created == [d \in D |-> newEntry(d, c.className, f[d], c.hint)]
           P == {q \in W \X C : desiredKey(q[1]) = entryKey(q[2]) /\ drifted(q[1], q[2])}
           updated == [p \in P |-> updatedEntry(p[2].id, p[1], c.hint)]
<1>1. /\ c.className \in Seq(STRING)
      /\ c.hint \in Hints
  BY DEF Config, IDType
<1>2. \A d \in D : created[d] \in Entry
  <2>1. TAKE d \in D
  <2>2. Append(c.className, f[d]) \in IDType
    <3>1. f[d] \in STRING
      BY UUIDAssumption
    <3>2. QED
      BY <1>1, <3>1 DEF IDType
  <2>3. d \in DesiredType
    BY DEF ToCreate
  <2>4. QED
    BY <1>1, <2>2, <2>3, UpdatedType DEF newEntry
<1>3. \A p \in P : updated[p] \in Entry
  <2>1. TAKE p \in P
  <2>2. p[2].id \in IDType /\ p[1] \in DesiredType
    BY DEF Entry
  <2>3. QED
    BY <1>1, <2>2, UpdatedType
<1>4. Create(W, C, c.className, c.hint, f) = {created[d] : d \in D}
  BY DEF Create
<1>5. Update(W, C, c.hint) = {updated[p] : p \in P}
  BY DEF Update
<1>6. IsFiniteSet(D) /\ IsFiniteSet(P)
  <2>1. IsFiniteSet(D)
    BY FS_Subset DEF ToCreate
  <2>2. IsFiniteSet(W \X C)
    BY FS_Product
  <2>3. P \in SUBSET (W \X C)
    OBVIOUS
  <2>4. IsFiniteSet(P)
    BY <2>2, <2>3, FS_Subset, Zenon
  <2>5. QED
    BY <2>1, <2>4
<1>7. /\ IsFiniteSet(Create(W, C, c.className, c.hint, f))
      /\ IsFiniteSet(Update(W, C, c.hint))
  <2> HIDE DEF D, P, created, updated
  <2>1. QED
    BY <1>4, <1>5, <1>6, FiniteImage
<1>8. Delete(W, C) \in SUBSET IDType
  BY DEF Delete, Entry
<1>9. /\ Create(W, C, c.className, c.hint, f) \in SUBSET Entry
      /\ Update(W, C, c.hint) \in SUBSET Entry
  BY <1>2, <1>3, <1>4, <1>5
<1>10. QED
  BY <1>7, <1>8, <1>9 DEF Diff, PlanType

-------------------------------------------------------------------------------
(***************************************************************************)
(* Types are preserved, one step per action.                               *)
(***************************************************************************)
LEMMA InitType == Init => TypeInv
<1> SUFFICES ASSUME Init PROVE TypeInv
  OBVIOUS
<1> USE DEF Init
<1>1. run \in [Slots -> Nat]
  OBVIOUS
<1>2. pass \in [pc : {"idle", "loaded", "applying"}, jobs : Snapshot(JobHost),
                plan : PlanType]
  BY DEF NoPass, NoPlan, Snapshot, PlanType
<1>3. TypeOK
  BY <1>1, <1>2, SeedAssumption DEF TypeOK, NoRefresh, Snapshot
<1>4. Finite
  BY SeedAssumption, FS_EmptySet DEF Finite, NoRefresh, NoPass, NoPlan
<1>5. QED
  BY <1>3, <1>4 DEF TypeInv

LEMMA SpendType ==
  ASSUME TypeOK, NEW what \in {"events", "faults", "stops", "edits"}, NEW max,
         Spend(what, max)
  PROVE  used' \in [{"events", "faults", "stops", "edits"} -> Nat]
BY DEF TypeOK, Spend

LEMMA CallFailsType ==
  ASSUME TypeOK, CallFails
  PROVE  used' \in [{"events", "faults", "stops", "edits"} -> Nat]
BY SpendType DEF TypeOK, CallFails

LEMMA SqueueType == TypeInv /\ SqueueLoop => TypeInv'
<1> SUFFICES ASSUME TypeInv, SqueueLoop PROVE TypeInv'
  OBVIOUS
<1> USE DEF TypeInv, TypeOK, Finite, Snapshot
<1> USE DEF world, proc, jobSide, ourView
<1>1. CASE RunSqueue
  BY <1>1, GatherType DEF RunSqueue
<1>2. CASE SqueueFails
  BY <1>2, CallFailsType DEF SqueueFails
<1>3. CASE PublishJobs
  BY <1>3, FS_CardinalityType DEF PublishJobs
<1>4. QED
  BY <1>1, <1>2, <1>3 DEF SqueueLoop

LEMMA RefreshType ==
  ASSUME NEW l \in Loops, TypeInv, Refresh(l)
  PROVE  TypeInv'
<1> USE DEF TypeInv, TypeOK, Finite, Snapshot
<1> USE DEF world, proc, jobSide, ourView
<1>1. CASE ListPage(l)
  <2> DEFINE rows == {e \in Visible(cfg, store) : e.id \notin refresh[l].seen}
  <2>1. PICK page \in Pages(rows, PageSize) :
          refresh' = [refresh EXCEPT ![l] =
            [pc   |-> IF page = rows THEN "listed" ELSE "paging",
             seen |-> IF page = rows THEN {} ELSE @.seen \cup IDs(page),
             out  |-> @.out \cup Owned(cfg, page)]]
    BY <1>1 DEF ListPage
  <2>2. page \subseteq store
    BY DEF Pages, Visible
  <2>3. IDs(page) \subseteq IDType
    BY <2>2 DEF IDs, Entry
  <2>4. IsFiniteSet(refresh[l].out \cup Owned(cfg, page))
    <3>1. Owned(cfg, page) \in SUBSET store
      BY <2>2 DEF Owned
    <3>2. QED
      BY <3>1, FS_Subset, FS_Union
  <2>5. Owned(cfg, page) \subseteq Entry
    BY <2>2 DEF Owned
  <2>6. QED
    BY <1>1, <2>1, <2>3, <2>4, <2>5 DEF ListPage
<1>2. CASE ListFails(l)
  BY <1>2, CallFailsType, FS_EmptySet DEF ListFails, EndRefresh, NoRefresh, NoPass, NoPlan, PlanType
<1>3. CASE StoreEntries(l)
  BY <1>3 DEF StoreEntries
<1>4. CASE SetManagedEntries(l)
  BY <1>4, FS_CardinalityType, FS_EmptySet DEF SetManagedEntries, EndRefresh, NoRefresh, NoPass, NoPlan, PlanType
<1>5. QED
  BY <1>1, <1>2, <1>3, <1>4 DEF Refresh

LEMMA LoadJobsType == TypeInv /\ LoadJobs => TypeInv'
<1> SUFFICES ASSUME TypeInv, LoadJobs PROVE TypeInv'
  OBVIOUS
<1> USE DEF TypeInv, TypeOK, Finite, Snapshot
<1> USE DEF world, proc, jobSide, ourView
<1>1. acted' \in [Slots -> Nat]
  <2>1. SUFFICES ASSUME NEW s \in Slots, jobs # Nil, \E h \in jobs : SlotOf(h) = s
                 PROVE  (CHOOSE h \in jobs : SlotOf(h) = s).run \in Nat
    BY DEF LoadJobs
  <2>2. (CHOOSE h \in jobs : SlotOf(h) = s) \in JobHost
    BY <2>1
  <2>3. QED
    BY <2>2 DEF JobHost
<1>2. QED
  BY <1>1 DEF LoadJobs

\* A loop that has nothing in hand is well typed.
LEMMA NothingType ==
  /\ NoPass \in [pc : {"idle", "loaded", "applying"}, jobs : Snapshot(JobHost),
                 plan : PlanType]
  /\ NoPass.jobs = Nil /\ IsFiniteSet(NoPass.plan.create)
  /\ IsFiniteSet(NoPass.plan.update)
  /\ NoRefresh \in [pc : {"idle", "paging", "listed", "stored"},
                    seen : SUBSET IDType, out : SUBSET Entry]
  /\ IsFiniteSet(NoRefresh.out)
BY FS_EmptySet DEF NoPass, NoPlan, NoRefresh, PlanType, Snapshot

LEMMA NotReadyType == TypeInv /\ NotReady => TypeInv'
<1> SUFFICES ASSUME TypeInv, NotReady PROVE TypeInv'
  OBVIOUS
<1>1. pass' = NoPass
  BY DEF NotReady
<1>2. QED
  BY <1>1, NothingType
     DEF TypeInv, TypeOK, Finite, Snapshot, world, proc, jobSide, ourView, NotReady

(***************************************************************************)
(* What MakePlan is left with: the plan Diff makes for some choice of      *)
(* survivors and of fresh UUIDs, or nothing.                               *)
(***************************************************************************)
LEMMA MakePlanStep ==
  ASSUME MakePlan
  PROVE  \E W \in OnePerKey(buildDesired(pass.jobs)), C \in OnePerKey(Owned(cfg, entries)) :
           \E f \in FreshIDs(ToCreate(W, C)) :
             pass' = NoPass \/
             pass' = [pc |-> "applying", jobs |-> Nil,
                      plan |-> Diff(W, C, cfg.className, cfg.hint, f)]
<1>1. PICK W \in OnePerKey(buildDesired(pass.jobs)), C \in OnePerKey(Owned(cfg, entries)) :
        LET fresh == FreshIDs(ToCreate(W, C))
            plan  == Diff(W, C, cfg.className, cfg.hint, CHOOSE f \in fresh : TRUE)
        IN /\ fresh # {}
           /\ pass' = IF Empty(plan) \/ cfg.dryRun THEN NoPass
                      ELSE [pc |-> "applying", jobs |-> Nil, plan |-> plan]
  BY DEF MakePlan
<1> DEFINE f == CHOOSE g \in FreshIDs(ToCreate(W, C)) : TRUE
<1>2. f \in FreshIDs(ToCreate(W, C))
  BY <1>1
<1>3. pass' = NoPass \/
      pass' = [pc |-> "applying", jobs |-> Nil,
               plan |-> Diff(W, C, cfg.className, cfg.hint, f)]
  BY <1>1
<1>4. QED
  BY <1>2, <1>3

LEMMA MakePlanType == TypeInv /\ MakePlan => TypeInv'
<1> SUFFICES ASSUME TypeInv, MakePlan PROVE TypeInv'
  OBVIOUS
<1>1. PICK W \in OnePerKey(buildDesired(pass.jobs)), C \in OnePerKey(Owned(cfg, entries)) :
        \E f \in FreshIDs(ToCreate(W, C)) :
          pass' = NoPass \/
          pass' = [pc |-> "applying", jobs |-> Nil,
                   plan |-> Diff(W, C, cfg.className, cfg.hint, f)]
  BY MakePlanStep
<1>0. PICK f \in FreshIDs(ToCreate(W, C)) :
        pass' = NoPass \/
        pass' = [pc |-> "applying", jobs |-> Nil,
                 plan |-> Diff(W, C, cfg.className, cfg.hint, f)]
  BY <1>1
<1>2. W \in SUBSET DesiredType /\ IsFiniteSet(W)
  <2>1. pass.jobs \in SUBSET JobHost /\ IsFiniteSet(pass.jobs)
    BY DEF MakePlan, TypeInv, TypeOK, Finite, Snapshot
  <2>2. /\ buildDesired(pass.jobs) \in SUBSET DesiredType
        /\ IsFiniteSet(buildDesired(pass.jobs))
    BY <2>1, DesiredTyped DEF TypeInv
  <2>3. W \in SUBSET buildDesired(pass.jobs)
    BY DEF OnePerKey
  <2>4. QED
    BY <2>2, <2>3, FS_Subset
<1>3. C \in SUBSET Entry /\ IsFiniteSet(C)
  <2>1. entries \in SUBSET Entry /\ IsFiniteSet(entries)
    BY DEF MakePlan, TypeInv, TypeOK, Finite, Snapshot
  <2>2. C \in SUBSET entries
    BY DEF OnePerKey, Owned
  <2>3. QED
    BY <2>1, <2>2, FS_Subset
<1>4. f \in [ToCreate(W, C) -> UUIDs]
  BY DEF FreshIDs
<1>5. cfg \in Config
  BY ConfigAssumption DEF TypeInv, TypeOK
<1> DEFINE plan == Diff(W, C, cfg.className, cfg.hint, f)
<1>6. /\ plan \in PlanType
      /\ IsFiniteSet(plan.create) /\ IsFiniteSet(plan.update)
  BY <1>2, <1>3, <1>4, <1>5, DiffTyped
<1> HIDE DEF plan
<1>7. CASE pass' = NoPass
  BY <1>7, FS_EmptySet
     DEF MakePlan, TypeInv, TypeOK, Finite, Snapshot, world, proc, jobSide, ourView, NoPass, NoPlan, PlanType
<1>8. CASE pass' = [pc |-> "applying", jobs |-> Nil, plan |-> plan]
  BY <1>6, <1>8
     DEF MakePlan, TypeInv, TypeOK, Finite, Snapshot, world, proc, jobSide, ourView
<1>9. QED
  BY <1>0, <1>7, <1>8 DEF plan

(***************************************************************************)
(* A batch leaves the plan and the store well typed.                       *)
(***************************************************************************)
LEMMA SendBatchType ==
  ASSUME TypeOK, NEW W, NEW B \in SUBSET W, NEW R \in SUBSET B, SendBatch(W, B, R)
  PROVE  used' \in [{"events", "faults", "stops", "edits"} -> Nat]
BY CallFailsType DEF TypeOK, SendBatch

LEMMA BatchType == TypeInv /\ (CreateBatch \/ UpdateBatch \/ DeleteBatch) => TypeInv'
<1> SUFFICES ASSUME TypeInv, CreateBatch \/ UpdateBatch \/ DeleteBatch PROVE TypeInv'
  OBVIOUS
<1> USE DEF TypeInv, TypeOK, Finite, Snapshot, PlanType
<1> USE DEF world, proc, jobSide, ourView
<1>1. CASE CreateBatch
  <2>1. PICK B \in SUBSET pass.plan.create : \E R \in SUBSET B :
          /\ SendBatch(pass.plan.create, B, R)
          /\ store' = BatchCreateEntry(store, R)
          /\ pass' = [pass EXCEPT !.plan.create = @ \ B]
    BY <1>1 DEF CreateBatch
  <2>2. PICK R \in SUBSET B :
          /\ SendBatch(pass.plan.create, B, R)
          /\ store' = BatchCreateEntry(store, R)
          /\ pass' = [pass EXCEPT !.plan.create = @ \ B]
    BY <2>1
  <2>3. store' \in SUBSET Entry /\ IsFiniteSet(store')
    <3> DEFINE N == {e \in R : /\ e.id \notin IDs(store)
                              /\ \A x \in store : ~Similar(e, x)}
    <3>1. store' = store \cup N /\ N \in SUBSET pass.plan.create
      BY <2>2 DEF BatchCreateEntry
    <3>2. QED
      BY <3>1, FS_Subset, FS_Union
  <2>4. IsFiniteSet(pass.plan.create \ B)
    BY FS_Subset
  <2>5. used' \in [{"events", "faults", "stops", "edits"} -> Nat]
    BY <2>2, SendBatchType
  <2>6. QED
    BY <2>2, <2>3, <2>4, <2>5 DEF SendBatch
<1>2. CASE UpdateBatch
  <2>1. PICK B \in SUBSET pass.plan.update : \E R \in SUBSET B :
          /\ SendBatch(pass.plan.update, B, R)
          /\ store' = BatchUpdateEntry(store, R)
          /\ pass' = [pass EXCEPT !.plan.update = @ \ B]
    BY <1>2 DEF UpdateBatch
  <2>2. PICK R \in SUBSET B :
          /\ SendBatch(pass.plan.update, B, R)
          /\ store' = BatchUpdateEntry(store, R)
          /\ pass' = [pass EXCEPT !.plan.update = @ \ B]
    BY <2>1
  <2>3. store' \in SUBSET Entry /\ IsFiniteSet(store')
    <3> DEFINE O == {e \in store : e.id \notin IDs(R)}
               N == {e \in R : e.id \in IDs(store)}
    <3>1. store' = O \cup N /\ N \in SUBSET pass.plan.update /\ O \in SUBSET store
      BY <2>2 DEF BatchUpdateEntry
    <3>2. IsFiniteSet(O) /\ IsFiniteSet(N)
      BY <3>1, FS_Subset
    <3>3. QED
      BY <3>1, <3>2, FS_Union
  <2>4. IsFiniteSet(pass.plan.update \ B)
    BY FS_Subset
  <2>5. used' \in [{"events", "faults", "stops", "edits"} -> Nat]
    BY <2>2, SendBatchType
  <2>6. QED
    BY <2>2, <2>3, <2>4, <2>5 DEF SendBatch
<1>3. CASE DeleteBatch
  <2>1. PICK B \in SUBSET pass.plan.delete : \E R \in SUBSET B :
          /\ SendBatch(pass.plan.delete, B, R)
          /\ store' = BatchDeleteEntry(store, R)
          /\ pass' = [pass EXCEPT !.plan.delete = @ \ B]
    BY <1>3 DEF DeleteBatch
  <2>2. PICK R \in SUBSET B :
          /\ SendBatch(pass.plan.delete, B, R)
          /\ store' = BatchDeleteEntry(store, R)
          /\ pass' = [pass EXCEPT !.plan.delete = @ \ B]
    BY <2>1
  <2>3. store' \in SUBSET store
    BY <2>2 DEF BatchDeleteEntry
  <2>4. IsFiniteSet(store')
    BY <2>3, FS_Subset
  <2>5. used' \in [{"events", "faults", "stops", "edits"} -> Nat]
    BY <2>2, SendBatchType
  <2>6. QED
    BY <2>2, <2>3, <2>4, <2>5 DEF SendBatch
<1>4. QED
  BY <1>1, <1>2, <1>3

LEMMA ProcessType ==
  TypeInv /\ (Signal \/ Exit \/ Crash \/ \E c \in Configs : Start(c)) => TypeInv'
<1> SUFFICES ASSUME TypeInv, Signal \/ Exit \/ Crash \/ \E c \in Configs : Start(c)
             PROVE  TypeInv'
  OBVIOUS
<1> USE DEF TypeInv, TypeOK, Finite, Snapshot
<1> USE DEF world, proc, jobSide, ourView
<1>1. CASE Signal
  BY <1>1, SpendType DEF Signal
<1>2. CASE Exit
  BY <1>2, NothingType DEF Exit, ForgetMemory
<1>3. CASE Crash
  BY <1>3, NothingType, SpendType DEF Crash, ForgetMemory
<1>4. CASE \E c \in Configs : Start(c)
  BY <1>4 DEF Start
<1>5. QED
  BY <1>1, <1>2, <1>3, <1>4

LEMMA WorldType ==
  ASSUME TypeInv,
         \/ \E s \in Slots, a \in Accounts \cup {NotRunning} : JobChanges(s, a)
         \/ \E e \in store : OperatorDeletes(e)
         \/ \E e \in store, h \in Hints : OperatorRetags(e, h)
  PROVE  TypeInv'
<1> USE DEF TypeInv, TypeOK, Finite, Snapshot
<1> USE DEF world, proc, jobSide, ourView
<1>1. CASE \E s \in Slots, a \in Accounts \cup {NotRunning} : JobChanges(s, a)
  BY <1>1, SpendType DEF JobChanges
<1>2. CASE \E e \in store : OperatorDeletes(e)
  BY <1>2, SpendType, FS_RemoveElement DEF OperatorDeletes
<1>3. CASE \E e \in store, h \in Hints : OperatorRetags(e, h)
  <2>1. PICK e \in store, h \in Hints : OperatorRetags(e, h)
    BY <1>3
  <2>2. [e EXCEPT !.hint = h] \in Entry
    BY DEF Entry
  <2>3. IsFiniteSet(store')
    BY <2>1, FS_RemoveElement, FS_AddElement DEF OperatorRetags
  <2>4. QED
    BY <2>1, <2>2, <2>3, SpendType DEF OperatorRetags
<1>4. QED
  BY <1>1, <1>2, <1>3

LEMMA NextType == TypeInv /\ [Next]_vars => TypeInv'
<1> SUFFICES ASSUME TypeInv, [Next]_vars PROVE TypeInv'
  OBVIOUS
<1>1. CASE SqueueLoop
  BY <1>1, SqueueType
<1>2. CASE SpireListLoop
  BY <1>2, RefreshType DEF SpireListLoop
<1>3. CASE ReconcileLoop
  BY <1>3, LoadJobsType, NotReadyType, MakePlanType, BatchType, RefreshType
     DEF ReconcileLoop, Apply
<1>4. CASE Process
  BY <1>4, ProcessType DEF Process
<1>5. CASE Environment
  BY <1>5, ProcessType, WorldType DEF Environment
<1>6. CASE UNCHANGED vars
  BY <1>6 DEF vars, world, proc, jobSide, ourView, TypeInv, TypeOK, Finite
<1>7. QED
  BY <1>1, <1>2, <1>3, <1>4, <1>5, <1>6 DEF Next

(***************************************************************************)
(* Type correctness: in every reachable state, whatever the constants,     *)
(* each variable holds a value of its type and everything the gauges count *)
(* is finite.                                                              *)
(***************************************************************************)
THEOREM TypeCorrect == Spec => [](TypeOK /\ Finite)
<1>1. Init => TypeInv
  BY InitType
<1>2. TypeInv /\ [Next]_vars => TypeInv'
  BY NextType
<1>3. TypeInv => TypeOK /\ Finite
  BY DEF TypeInv
<1>4. QED
  BY <1>1, <1>2, <1>3, PTL DEF Spec
===============================================================================
