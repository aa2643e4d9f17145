--------------------------- MODULE WithdrawalProofs ---------------------------
(***************************************************************************)
(* The daemon never withdraws the entry of a job it knows to be running.   *)
(*                                                                         *)
(* The argument.  Job hosts travel down a pipeline: squeue's output, the   *)
(* published snapshot, the copy a pass loaded.  Each is at least as recent *)
(* as the one after it, so each shows every run some pass has acted on and *)
(* that still lasts (Pipeline).  A plan deletes only entries whose key the *)
(* loaded copy does not want, and an entry ID never changes its key, so no *)
(* ID awaiting deletion stands for such a run (DeletesAreJustified).       *)
(***************************************************************************)
EXTENDS SyncerProofs

USE DEF Loops

(***************************************************************************)
(* If every entry after a step has the ID and the key of one before it, no *)
(* ID joins the plan's deletions and no run becomes known, the facts about *)
(* IDs and deletions are preserved.                                        *)
(***************************************************************************)
LEMMA NothingNew ==
  ASSUME IDMeansKey, DeletesAreJustified,
         \A x \in AllEntries' : \E y \in AllEntries :
            x.id = y.id /\ entryKey(x) = entryKey(y),
         (pass.plan.delete)' \subseteq pass.plan.delete,
         \A s \in Slots : Known(s)' => Known(s)
  PROVE  IDMeansKey' /\ DeletesAreJustified'
<1>1. IDMeansKey'
  BY DEF IDMeansKey
<1>2. DeletesAreJustified'
  BY DEF DeletesAreJustified
<1>3. QED
  BY <1>1, <1>2

(***************************************************************************)
(* The pipeline is untouched by a step that leaves Slurm and the lists of  *)
(* job hosts alone, or forgets the list a pass has loaded.                 *)
(***************************************************************************)
LEMMA PipelineFrame ==
  ASSUME Pipeline, UNCHANGED <<world, acted, jobs, gathered>>,
         pass'.jobs = pass.jobs \/ pass'.jobs = Nil
  PROVE  Pipeline' /\ \A s \in Slots : Known(s)' <=> Known(s)
BY DEF Pipeline, Truthful, ShowsKnown, NoEarlier, Shows, Known, Eligible, SlotOf, world

(***************************************************************************)
(* What squeue prints is the present.                                      *)
(***************************************************************************)
LEMMA GatherIsPresent ==
  /\ \A s \in Slots : slurm[s] # NotRunning =>
       \E h \in Gather : SlotOf(h) = s /\ h.run = run[s] /\ h.account = slurm[s]
  /\ \A h \in Gather : /\ SlotOf(h) \in Slots
                       /\ h.run = run[SlotOf(h)]
                       /\ h.account = slurm[SlotOf(h)]
<1> DEFINE f(s) == [node |-> s[1], job |-> s[2], account |-> slurm[s], run |-> run[s]]
<1>1. Gather = {f(s) : s \in {t \in Slots : slurm[t] # NotRunning}}
  BY DEF Gather
<1>2. \A s \in Slots : SlotOf(f(s)) = s
  BY SlotsAssumption DEF SlotOf
<1>3. \A s : f(s).run = run[s] /\ f(s).account = slurm[s]
  OBVIOUS
<1> HIDE DEF f
<1>4. QED
  BY <1>1, <1>2, <1>3

-------------------------------------------------------------------------------
(***************************************************************************)
(* The squeue loop.                                                        *)
(***************************************************************************)
LEMMA SqueueWithdrawal == TypeInv /\ WithdrawalInv /\ SqueueLoop => WithdrawalInv'
<1> SUFFICES ASSUME TypeInv, WithdrawalInv, SqueueLoop PROVE WithdrawalInv'
  OBVIOUS
<1>1. UNCHANGED <<world, store, entries, refresh, pass, acted>>
  BY DEF SqueueLoop, RunSqueue, SqueueFails, PublishJobs, ourView
<1>2. /\ AllEntries' = AllEntries
      /\ \A s \in Slots : Known(s)' <=> Known(s)
  BY <1>1 DEF AllEntries, Listed, EntrySnapshot, Known, Eligible, world
<1>3. IDMeansKey' /\ DeletesAreJustified' /\ PlanOnlyApplying'
  BY <1>1, <1>2 DEF WithdrawalInv, IDMeansKey, DeletesAreJustified, PlanOnlyApplying
<1>4. Pipeline'
  <2> USE DEF WithdrawalInv, Pipeline
  <2>1. CASE RunSqueue
    <3>1. gathered' = Gather /\ UNCHANGED jobs
      BY <2>1 DEF RunSqueue, jobSide
    <3>2. \A s \in Slots : Eligible(s) => Shows(Gather, s)
      BY GatherIsPresent, AccountAssumption DEF Shows, Eligible
    <3>3. Truthful(Gather)
      BY GatherIsPresent DEF Truthful, Eligible, TypeInv, TypeOK
    <3> DEFINE G == Gather
    <3>4. G' = G
      BY <1>1 DEF Gather, world
    <3> HIDE DEF G
    <3>5. Truthful(G) /\ ShowsKnown(G) /\ NoEarlier(jobs, G) /\ gathered' = G
      BY <3>1, <3>2, <3>3 DEF G, ShowsKnown, NoEarlier, Known
    <3>6. QED
      BY <1>1, <3>1, <3>5, <3>4
         DEF Truthful, ShowsKnown, NoEarlier, Shows, Known, Eligible, world, SlotOf
  <2>2. CASE SqueueFails
    BY <1>1, <2>2
       DEF SqueueFails, jobSide, Truthful, ShowsKnown, NoEarlier, Shows, Known, Eligible, world
  <2>3. CASE PublishJobs
    BY <1>1, <2>3
       DEF PublishJobs, Truthful, ShowsKnown, NoEarlier, Shows, Known, Eligible, world
  <2>4. QED
    BY <2>1, <2>2, <2>3 DEF SqueueLoop
<1>5. QED
  BY <1>3, <1>4 DEF WithdrawalInv

(***************************************************************************)
(* A refresh only moves entries of the server's table into its listing and *)
(* into the snapshot.                                                      *)
(***************************************************************************)
LEMMA RefreshEntries ==
  ASSUME NEW l \in Loops, TypeInv, Refresh(l)
  PROVE  /\ AllEntries' \subseteq AllEntries
         /\ pass' = pass \/ pass' = NoPass
         /\ UNCHANGED <<world, acted, jobs, gathered>>
<1> USE DEF TypeInv, TypeOK
<1>1. pass' = pass \/ pass' = NoPass
  BY DEF Refresh, ListPage, ListFails, StoreEntries, SetManagedEntries, EndRefresh
<1>2. UNCHANGED <<world, acted, jobs, gathered, store>>
  BY DEF Refresh, ListPage, ListFails, StoreEntries, SetManagedEntries, jobSide
<1>3. /\ (pass.plan.create)' \subseteq pass.plan.create
      /\ (pass.plan.update)' \subseteq pass.plan.update
  BY <1>1 DEF NoPass, NoPlan
<1>4. \A k \in Loops : (refresh[k].out)' \subseteq refresh[k].out \cup store
  <2>1. CASE ListPage(l)
    <3> DEFINE rows == {e \in Visible(cfg, store) : e.id \notin refresh[l].seen}
    <3>1. PICK page \in Pages(rows, PageSize) :
            refresh' = [refresh EXCEPT ![l] =
              [pc   |-> IF page = rows THEN "listed" ELSE "paging",
               seen |-> IF page = rows THEN {} ELSE @.seen \cup IDs(page),
               out  |-> @.out \cup Owned(cfg, page)]]
      BY <2>1 DEF ListPage
    <3>2. Owned(cfg, page) \subseteq store
      BY DEF Pages, Visible, Owned
    <3>3. QED
      BY <3>1, <3>2
  <2>2. CASE ~ListPage(l)
    BY <2>2 DEF Refresh, ListFails, StoreEntries, SetManagedEntries, EndRefresh, NoRefresh
  <2>3. QED
    BY <2>1, <2>2
<1>5. EntrySnapshot' \subseteq EntrySnapshot \cup refresh[l].out
  BY DEF Refresh, ListPage, ListFails, StoreEntries, SetManagedEntries, EntrySnapshot, ourView
<1>6. AllEntries' \subseteq AllEntries
  BY <1>2, <1>3, <1>4, <1>5 DEF AllEntries, Listed
<1>7. QED
  BY <1>1, <1>2, <1>6

LEMMA RefreshWithdrawal ==
  ASSUME NEW l \in Loops, TypeInv, WithdrawalInv, Refresh(l)
  PROVE  WithdrawalInv'
<1>1. /\ AllEntries' \subseteq AllEntries
      /\ pass' = pass \/ pass' = NoPass
      /\ UNCHANGED <<world, acted, jobs, gathered>>
  BY RefreshEntries
<1>2. Pipeline' /\ \A s \in Slots : Known(s)' <=> Known(s)
  BY <1>1, PipelineFrame DEF WithdrawalInv, NoPass
<1>3. (pass.plan.delete)' \subseteq pass.plan.delete /\ PlanOnlyApplying'
  BY <1>1 DEF WithdrawalInv, PlanOnlyApplying, NoPass, NoPlan
<1>4. IDMeansKey' /\ DeletesAreJustified'
  BY <1>1, <1>2, <1>3, NothingNew DEF WithdrawalInv
<1>5. QED
  BY <1>2, <1>3, <1>4 DEF WithdrawalInv

-------------------------------------------------------------------------------
(***************************************************************************)
(* The reconcile loop.                                                     *)
(***************************************************************************)
\* Loading the jobs makes their runs known, and the lists in the pipeline,
\* being no older, show them.
LEMMA LoadJobsWithdrawal == TypeInv /\ WithdrawalInv /\ LoadJobs => WithdrawalInv'
<1> SUFFICES ASSUME TypeInv, WithdrawalInv, LoadJobs PROVE WithdrawalInv'
  OBVIOUS
<1>1. UNCHANGED <<world, store, entries, refresh, jobs, gathered>>
  BY DEF LoadJobs, ourView, jobSide
<1>2. /\ (pass.plan)' = pass.plan /\ pass.plan = NoPlan
      /\ (pass.pc)' = "loaded" /\ (pass.jobs)' = jobs
  BY DEF LoadJobs, TypeInv, TypeOK, WithdrawalInv, PlanOnlyApplying
<1>3. AllEntries' = AllEntries
  BY <1>1, <1>2 DEF AllEntries, Listed, EntrySnapshot
<1>4. IDMeansKey' /\ DeletesAreJustified' /\ PlanOnlyApplying'
  BY <1>2, <1>3 DEF WithdrawalInv, IDMeansKey, DeletesAreJustified, PlanOnlyApplying, NoPlan
<1>5. \A s \in Slots :
        \/ acted'[s] = acted[s] /\ (jobs # Nil => \A h \in jobs : SlotOf(h) # s)
        \/ jobs # Nil /\ \E h \in jobs : SlotOf(h) = s /\ acted'[s] = h.run
  BY DEF LoadJobs
<1>6. \A s \in Slots : acted'[s] <= run[s]
  BY <1>5 DEF WithdrawalInv, Pipeline, Truthful
<1>7. \A s \in Slots : Known(s)' => Known(s) \/ (jobs # Nil /\ Eligible(s) /\ Shows(jobs, s))
  <2>1. SUFFICES ASSUME NEW s \in Slots, Known(s)'
                 PROVE  Known(s) \/ (jobs # Nil /\ Eligible(s) /\ Shows(jobs, s))
    OBVIOUS
  <2>2. Eligible(s) /\ acted'[s] = run[s]
    BY <1>1, <2>1 DEF Known, Eligible, world
  <2>3. CASE acted'[s] = acted[s]
    BY <2>2, <2>3 DEF Known
  <2>4. CASE jobs # Nil /\ \E h \in jobs : SlotOf(h) = s /\ acted'[s] = h.run
    BY <2>2, <2>4 DEF WithdrawalInv, Pipeline, Truthful, Shows
  <2>5. QED
    BY <1>5, <2>3, <2>4
<1>8. /\ jobs # Nil => \A s \in Slots : Known(s)' => Shows(jobs, s)
      /\ gathered # Nil => \A s \in Slots : Known(s)' => Shows(gathered, s)
  <2>1. jobs # Nil => \A s \in Slots : Known(s)' => Shows(jobs, s)
    BY <1>7 DEF WithdrawalInv, Pipeline, ShowsKnown
  <2>2. gathered # Nil => \A s \in Slots : Known(s)' => Shows(gathered, s)
    BY <1>7 DEF WithdrawalInv, Pipeline, ShowsKnown, NoEarlier
  <2>3. QED
    BY <2>1, <2>2
<1>9. Pipeline'
  BY <1>1, <1>2, <1>6, <1>8
     DEF WithdrawalInv, Pipeline, Truthful, ShowsKnown, NoEarlier, Shows, Eligible, world
<1>10. QED
  BY <1>4, <1>9 DEF WithdrawalInv

LEMMA NotReadyWithdrawal == TypeInv /\ WithdrawalInv /\ NotReady => WithdrawalInv'
<1> SUFFICES ASSUME TypeInv, WithdrawalInv, NotReady PROVE WithdrawalInv'
  OBVIOUS
<1>1. pass' = NoPass /\ UNCHANGED <<world, store, entries, refresh, acted, jobs, gathered>>
  BY DEF NotReady, jobSide, ourView
<1>2. Pipeline' /\ \A s \in Slots : Known(s)' <=> Known(s)
  BY <1>1, PipelineFrame DEF WithdrawalInv, NoPass
<1>3. AllEntries' \subseteq AllEntries
  BY <1>1 DEF AllEntries, Listed, EntrySnapshot, NoPass, NoPlan
<1>4. (pass.plan.delete)' \subseteq pass.plan.delete /\ PlanOnlyApplying'
  BY <1>1 DEF PlanOnlyApplying, NoPass, NoPlan
<1>5. IDMeansKey' /\ DeletesAreJustified'
  BY <1>2, <1>3, <1>4, NothingNew DEF WithdrawalInv
<1>6. QED
  BY <1>2, <1>4, <1>5 DEF WithdrawalInv

(***************************************************************************)
(* Of what Diff makes from survivors W and C with fresh IDs f: created     *)
(* entries have IDs nothing refers to, distinct from one another; updated  *)
(* entries keep the ID and the key of the entry they replace; deleted IDs  *)
(* are those of entries whose key no desired entry has.                    *)
(***************************************************************************)
LEMMA DiffIDs ==
  ASSUME NEW W, NEW C, NEW f \in FreshIDs(ToCreate(W, C)), cfg.className \in Seq(STRING),
         UUIDs \subseteq STRING
  PROVE  LET plan == Diff(W, C, cfg.className, cfg.hint, f)
         IN /\ \A e \in plan.create : e.id \notin LiveIDs
            /\ \A e, x \in plan.create : e.id = x.id => e = x
            /\ \A e \in plan.update : \E c \in C : e.id = c.id /\ entryKey(e) = entryKey(c)
            /\ \A id \in plan.delete :
                 \E c \in C : c.id = id /\ entryKey(c) \notin desiredKeys(W)
<1> DEFINE D == ToCreate(W, C)
           plan == Diff(W, C, cfg.className, cfg.hint, f)
<1>1. \A e \in plan.create :
        \E d \in D : e = newEntry(d, cfg.className, f[d], cfg.hint)
                    /\ e.id = Append(cfg.className, f[d])
  BY DEF Diff, Create, newEntry, updatedEntry
<1>2. \A d \in D : Append(cfg.className, f[d]) \notin LiveIDs
  BY DEF FreshIDs
<1>3. \A d, c \in D : Append(cfg.className, f[d]) = Append(cfg.className, f[c]) => d = c
  <2>1. TAKE d, c \in D
  <2>2. f[d] \in STRING /\ f[c] \in STRING
    BY DEF FreshIDs
  <2>3. Append(cfg.className, f[d]) = Append(cfg.className, f[c]) => f[d] = f[c]
    BY <2>2
  <2>4. QED
    BY <2>3 DEF FreshIDs
<1>4. \A e \in plan.update : \E c \in C : e.id = c.id /\ entryKey(e) = entryKey(c)
  <2>1. TAKE e \in plan.update
  <2>2. PICK q \in W \X C : /\ desiredKey(q[1]) = entryKey(q[2])
                            /\ e = updatedEntry(q[2].id, q[1], cfg.hint)
    BY DEF Diff, Update
  <2>3. e.id = q[2].id /\ entryKey(e) = desiredKey(q[1])
    BY <2>2 DEF updatedEntry, entryKey, desiredKey
  <2>4. QED
    BY <2>2, <2>3
<1>5. \A id \in plan.delete : \E c \in C : c.id = id /\ entryKey(c) \notin desiredKeys(W)
  BY DEF Diff, Delete
<1> HIDE DEF D
<1>6. \A e \in plan.create : e.id \notin LiveIDs
  BY <1>1, <1>2
<1>7. \A e, x \in plan.create : e.id = x.id => e = x
  BY <1>1, <1>3
<1>8. QED
  BY <1>4, <1>5, <1>6, <1>7

\* The entries desired of a list that shows slot s include one with its key.
LEMMA ShownIsDesired ==
  ASSUME NEW H, NEW s \in Slots, Shows(H, s), NEW W \in OnePerKey(buildDesired(H))
  PROVE  SlotKey(s) \in desiredKeys(W)
<1>1. PICK h \in H : SlotOf(h) = s /\ h.account \in Renderable
  BY DEF Shows
<1>2. desired(h) \in buildDesired(H)
  BY <1>1 DEF buildDesired
<1>3. entryKey(desired(h)) = SlotKey(s)
  BY <1>1, SlotsAssumption DEF desired, entryKey, SlotKey, SlotOf
<1>4. SlotKey(s) \in entryKeys(W)
  BY <1>2, <1>3 DEF OnePerKey, entryKeys
<1>5. QED
  BY <1>4 DEF entryKeys, desiredKeys, entryKey, desiredKey

LEMMA MakePlanWithdrawal == TypeInv /\ WithdrawalInv /\ MakePlan => WithdrawalInv'
<1> SUFFICES ASSUME TypeInv, WithdrawalInv, MakePlan PROVE WithdrawalInv'
  OBVIOUS
<1>1. UNCHANGED <<world, store, entries, refresh, acted, jobs, gathered>>
  BY DEF MakePlan, jobSide, ourView
<1>2. pass.plan = NoPlan /\ pass.jobs # Nil /\ entries # Nil
  BY DEF MakePlan, WithdrawalInv, PlanOnlyApplying
<1>3. PICK W \in OnePerKey(buildDesired(pass.jobs)), C \in OnePerKey(Owned(cfg, entries)) :
        \E f \in FreshIDs(ToCreate(W, C)) :
          pass' = NoPass \/
          pass' = [pc |-> "applying", jobs |-> Nil,
                   plan |-> Diff(W, C, cfg.className, cfg.hint, f)]
  BY MakePlanStep
<1>4. PICK f \in FreshIDs(ToCreate(W, C)) :
        pass' = NoPass \/
        pass' = [pc |-> "applying", jobs |-> Nil,
                 plan |-> Diff(W, C, cfg.className, cfg.hint, f)]
  BY <1>3
<1> DEFINE plan == Diff(W, C, cfg.className, cfg.hint, f)
<1>5. cfg.className \in Seq(STRING)
  BY ConfigAssumption DEF TypeInv, TypeOK, Config, IDType
<1>6. /\ \A e \in plan.create : e.id \notin LiveIDs
      /\ \A e, x \in plan.create : e.id = x.id => e = x
      /\ \A e \in plan.update : \E c \in C : e.id = c.id /\ entryKey(e) = entryKey(c)
      /\ \A id \in plan.delete : \E c \in C : c.id = id /\ entryKey(c) \notin desiredKeys(W)
  BY <1>5, DiffIDs, UUIDAssumption
<1> HIDE DEF plan
<1>7. Pipeline' /\ \A s \in Slots : Known(s)' <=> Known(s)
  BY <1>1, <1>4, PipelineFrame DEF WithdrawalInv, NoPass
<1>8. CASE pass' = NoPass
  <2>1. AllEntries' \subseteq AllEntries
    BY <1>1, <1>8 DEF AllEntries, Listed, EntrySnapshot, NoPass, NoPlan
  <2>2. (pass.plan.delete)' \subseteq pass.plan.delete /\ PlanOnlyApplying'
    BY <1>8 DEF PlanOnlyApplying, NoPass, NoPlan
  <2>3. IDMeansKey' /\ DeletesAreJustified'
    BY <1>7, <2>1, <2>2, NothingNew DEF WithdrawalInv
  <2>4. QED
    BY <1>7, <2>2, <2>3 DEF WithdrawalInv
<1>9. CASE pass' = [pc |-> "applying", jobs |-> Nil, plan |-> plan]
  <2>1. AllEntries' = Listed \cup plan.create \cup plan.update
    BY <1>1, <1>9 DEF AllEntries, Listed, EntrySnapshot
  <2>2. AllEntries = Listed
    BY <1>2 DEF AllEntries, NoPlan
  <2>3. IDs(Listed) \subseteq LiveIDs
    BY <1>2 DEF Listed, LiveIDs, EntrySnapshot, IDs
  <2>4. C \subseteq Listed
    BY <1>2 DEF OnePerKey, Owned, Listed, EntrySnapshot
  <2>5. \A e \in Listed \cup plan.update :
          \E y \in Listed : e.id = y.id /\ entryKey(e) = entryKey(y)
    BY <1>6, <2>4
  <2>6. \A e \in plan.create : \A y \in Listed : e.id # y.id
    BY <1>6, <2>3 DEF IDs
  <2>7. IDMeansKey'
    <3>1. SUFFICES ASSUME NEW e \in AllEntries', NEW x \in AllEntries', e.id = x.id
                   PROVE  entryKey(e) = entryKey(x)
      BY DEF IDMeansKey
    <3>2. CASE e \in plan.create
      BY <1>6, <2>1, <2>5, <2>6, <3>1, <3>2
    <3>3. CASE x \in plan.create
      BY <1>6, <2>1, <2>5, <2>6, <3>1, <3>3
    <3>4. CASE e \notin plan.create /\ x \notin plan.create
      BY <2>1, <2>2, <2>5, <3>1, <3>4 DEF WithdrawalInv, IDMeansKey
    <3>5. QED
      BY <3>2, <3>3, <3>4
  <2>8. DeletesAreJustified'
    <3>1. SUFFICES ASSUME NEW e \in AllEntries', NEW s \in Slots,
                          e.id \in plan.delete, entryKey(e) = SlotKey(s)
                   PROVE  ~Known(s)
      BY <1>7, <1>9 DEF DeletesAreJustified
    <3>2. PICK c \in C : c.id = e.id /\ entryKey(c) \notin desiredKeys(W)
      BY <1>6, <3>1
    <3>3. e \notin plan.create
      BY <2>4, <2>6, <3>2
    <3>4. entryKey(e) = entryKey(c)
      BY <2>1, <2>2, <2>4, <2>5, <3>2, <3>3 DEF WithdrawalInv, IDMeansKey
    <3>5. Known(s) => Shows(pass.jobs, s)
      BY <1>2 DEF WithdrawalInv, Pipeline, ShowsKnown
    <3>6. QED
      BY <3>1, <3>2, <3>4, <3>5, ShownIsDesired
  <2>9. PlanOnlyApplying'
    BY <1>9 DEF PlanOnlyApplying
  <2>10. QED
    BY <1>7, <2>7, <2>8, <2>9 DEF WithdrawalInv
<1>10. QED
  BY <1>4, <1>8, <1>9 DEF plan

(***************************************************************************)
(* A batch: what reaches the server was planned, what leaves the plan does *)
(* not come back.                                                          *)
(***************************************************************************)
Batch == CreateBatch \/ UpdateBatch \/ DeleteBatch

LEMMA BatchEntries ==
  ASSUME TypeInv, Batch
  PROVE  /\ AllEntries' \subseteq AllEntries
         /\ (pass.plan.delete)' \subseteq pass.plan.delete
         /\ pass.pc = "applying" /\ (pass.pc)' = "applying"
         /\ (pass.jobs)' = pass.jobs
         /\ UNCHANGED <<world, acted, jobs, gathered>>
<1> USE DEF TypeInv, TypeOK, PlanType
<1>1. CASE CreateBatch
  <2>1. /\ store' \subseteq store \cup pass.plan.create
        /\ (pass.plan.create)' \subseteq pass.plan.create
        /\ (pass.plan.update)' = pass.plan.update
        /\ (pass.plan.delete)' = pass.plan.delete
        /\ (pass.jobs)' = pass.jobs /\ (pass.pc)' = pass.pc
    BY <1>1 DEF CreateBatch, BatchCreateEntry
  <2>2. UNCHANGED <<world, entries, refresh, acted, jobs, gathered>> /\ pass.pc = "applying"
    BY <1>1 DEF CreateBatch, SendBatch, ourView, jobSide
  <2>3. QED
    BY <2>1, <2>2 DEF AllEntries, Listed, EntrySnapshot
<1>2. CASE UpdateBatch
  <2>1. /\ store' \subseteq store \cup pass.plan.update
        /\ (pass.plan.update)' \subseteq pass.plan.update
        /\ (pass.plan.create)' = pass.plan.create
        /\ (pass.plan.delete)' = pass.plan.delete
        /\ (pass.jobs)' = pass.jobs /\ (pass.pc)' = pass.pc
    BY <1>2 DEF UpdateBatch, BatchUpdateEntry
  <2>2. UNCHANGED <<world, entries, refresh, acted, jobs, gathered>> /\ pass.pc = "applying"
    BY <1>2 DEF UpdateBatch, SendBatch, ourView, jobSide
  <2>3. QED
    BY <2>1, <2>2 DEF AllEntries, Listed, EntrySnapshot
<1>3. CASE DeleteBatch
  <2>1. /\ store' \subseteq store
        /\ (pass.plan.update)' = pass.plan.update
        /\ (pass.plan.create)' = pass.plan.create
        /\ (pass.plan.delete)' \subseteq pass.plan.delete
        /\ (pass.jobs)' = pass.jobs /\ (pass.pc)' = pass.pc
    BY <1>3 DEF DeleteBatch, BatchDeleteEntry
  <2>2. UNCHANGED <<world, entries, refresh, acted, jobs, gathered>> /\ pass.pc = "applying"
    BY <1>3 DEF DeleteBatch, SendBatch, ourView, jobSide
  <2>3. QED
    BY <2>1, <2>2 DEF AllEntries, Listed, EntrySnapshot
<1>4. QED
  BY <1>1, <1>2, <1>3 DEF Batch

LEMMA BatchWithdrawal == TypeInv /\ WithdrawalInv /\ Batch => WithdrawalInv'
<1> SUFFICES ASSUME TypeInv, WithdrawalInv, Batch PROVE WithdrawalInv'
  OBVIOUS
<1>1. Pipeline' /\ \A s \in Slots : Known(s)' <=> Known(s)
  BY BatchEntries, PipelineFrame DEF WithdrawalInv
<1>2. IDMeansKey' /\ DeletesAreJustified'
  BY <1>1, BatchEntries, NothingNew DEF WithdrawalInv
<1>3. PlanOnlyApplying'
  BY BatchEntries DEF PlanOnlyApplying
<1>4. QED
  BY <1>1, <1>2, <1>3 DEF WithdrawalInv

-------------------------------------------------------------------------------
(***************************************************************************)
(* The process, Slurm and an operator.                                     *)
(***************************************************************************)
LEMMA ProcessWithdrawal ==
  TypeInv /\ WithdrawalInv /\ (Signal \/ Exit \/ Crash \/ \E c \in Configs : Start(c))
    => WithdrawalInv'
<1> SUFFICES ASSUME TypeInv, WithdrawalInv,
                    Signal \/ Exit \/ Crash \/ \E c \in Configs : Start(c)
             PROVE  WithdrawalInv'
  OBVIOUS
<1>1. CASE Exit \/ Crash
  <2>1. ForgetMemory /\ UNCHANGED <<world, store, acted>>
    BY <1>1 DEF Exit, Crash
  <2>2. AllEntries' \subseteq AllEntries
    BY <2>1 DEF ForgetMemory, AllEntries, Listed, EntrySnapshot, NoRefresh, NoPass, NoPlan
  <2>3. \A s \in Slots : Known(s)' <=> Known(s)
    BY <2>1 DEF Known, Eligible, world
  <2>4. (pass.plan.delete)' \subseteq pass.plan.delete /\ PlanOnlyApplying'
    BY <2>1 DEF ForgetMemory, PlanOnlyApplying, NoPass, NoPlan
  <2>5. IDMeansKey' /\ DeletesAreJustified'
    BY <2>2, <2>3, <2>4, NothingNew DEF WithdrawalInv
  <2>6. Pipeline'
    BY <2>1 DEF WithdrawalInv, Pipeline, ForgetMemory, NoPass, world
  <2>7. QED
    BY <2>4, <2>5, <2>6 DEF WithdrawalInv
<1>2. CASE Signal \/ \E c \in Configs : Start(c)
  <2>1. UNCHANGED <<world, store, entries, refresh, pass, acted, jobs, gathered>>
    BY <1>2 DEF Signal, Start, ourView, jobSide
  <2>2. Pipeline' /\ \A s \in Slots : Known(s)' <=> Known(s)
    BY <2>1, PipelineFrame DEF WithdrawalInv
  <2>3. AllEntries' = AllEntries
    BY <2>1 DEF AllEntries, Listed, EntrySnapshot
  <2>4. QED
    BY <2>1, <2>2, <2>3
       DEF WithdrawalInv, IDMeansKey, DeletesAreJustified, PlanOnlyApplying
<1>3. QED
  BY <1>1, <1>2

\* A run that begins is one no list shows and no pass has acted on yet.
LEMMA JobWithdrawal ==
  ASSUME TypeInv, WithdrawalInv, NEW s \in Slots, NEW a \in Accounts \cup {NotRunning},
         JobChanges(s, a)
  PROVE  WithdrawalInv'
<1>1. UNCHANGED <<store, entries, refresh, pass, acted, jobs, gathered>>
  BY DEF JobChanges, ourView, jobSide
<1>2. /\ \A t \in Slots : t # s => slurm'[t] = slurm[t] /\ run'[t] = run[t]
      /\ slurm'[s] = a
      /\ run'[s] = IF ~Eligible(s) /\ a \in Renderable THEN run[s] + 1 ELSE run[s]
      /\ run \in [Slots -> Nat] /\ acted \in [Slots -> Nat]
  BY DEF JobChanges, TypeInv, TypeOK
<1>3. \A t \in Slots : run[t] <= run'[t]
  BY <1>2
<1>4. \A t \in Slots : Eligible(t)' => (Eligible(t) /\ run'[t] = run[t]) \/ run'[t] = run[t] + 1
  BY <1>2 DEF Eligible
<1>5. \A t \in Slots : Known(t)' => Known(t)
  BY <1>1, <1>2, <1>4 DEF Known, WithdrawalInv, Pipeline
<1>6. AllEntries' = AllEntries
  BY <1>1 DEF AllEntries, Listed, EntrySnapshot
<1>7. IDMeansKey' /\ DeletesAreJustified'
  BY <1>1, <1>5, <1>6, NothingNew DEF WithdrawalInv
<1>8. ASSUME NEW H, H \in SUBSET JobHost, Truthful(H), ShowsKnown(H)
      PROVE  Truthful(H)' /\ ShowsKnown(H)'
  <2>1. \A h \in H : SlotOf(h) \in Slots /\ h.run <= run[SlotOf(h)] /\ h.run \in Nat
    BY <1>8 DEF Truthful, JobHost
  <2>2. \A h \in H :
          /\ SlotOf(h) \in Slots
          /\ h.run <= run'[SlotOf(h)]
          /\ slurm'[SlotOf(h)] \in Renderable /\ h.run = run'[SlotOf(h)]
               => h.account \in Renderable
    <3>1. TAKE h \in H
    <3> DEFINE t == SlotOf(h)
    <3>2. t \in Slots /\ h.run <= run[t] /\ h.run \in Nat
      BY <2>1
    <3>3. Eligible(t) /\ h.run = run[t] => h.account \in Renderable
      BY <1>8 DEF Truthful
    <3>4. run[t] \in Nat /\ run'[t] \in {run[t], run[t] + 1}
      BY <1>2, <3>2
    <3>5. Eligible(t)' => (Eligible(t) /\ run'[t] = run[t]) \/ run'[t] = run[t] + 1
      BY <1>4, <3>2
    <3> HIDE DEF t
    <3>6. h.run <= run'[t] /\ (Eligible(t)' /\ h.run = run'[t] => h.account \in Renderable)
      BY <3>2, <3>3, <3>4, <3>5
    <3>7. QED
      BY <3>2, <3>6 DEF t, Eligible
  <2>3. \A t \in Slots : Known(t)' =>
          \E h \in H : SlotOf(h) = t /\ h.run = run'[t] /\ h.account \in Renderable
    <3>1. SUFFICES ASSUME NEW t \in Slots, Known(t)'
                   PROVE  \E h \in H : SlotOf(h) = t /\ h.run = run'[t] /\ h.account \in Renderable
      OBVIOUS
    <3>2. Known(t) /\ run'[t] = run[t]
      BY <1>1, <1>2, <1>3, <1>5, <3>1 DEF Known
    <3>3. QED
      BY <1>8, <3>2 DEF ShowsKnown, Shows
  <2>4. Truthful(H)'
    BY <2>2 DEF Truthful, SlotOf, Eligible
  <2>5. ShowsKnown(H)'
    BY <2>3 DEF ShowsKnown, Shows, SlotOf
  <2>6. QED
    BY <2>4, <2>5
<1>9. jobs # Nil /\ gathered # Nil =>
        \A t \in Slots :
          /\ Eligible(t)'
          /\ \E h \in jobs : SlotOf(h) = t /\ h.run = run'[t] /\ h.account \in Renderable
          => \E h \in gathered : SlotOf(h) = t /\ h.run = run'[t] /\ h.account \in Renderable
  <2>1. SUFFICES ASSUME jobs # Nil, gathered # Nil, NEW t \in Slots, Eligible(t)',
                        NEW h \in jobs, SlotOf(h) = t, h.run = run'[t], h.account \in Renderable
                 PROVE  \E g \in gathered : SlotOf(g) = t /\ g.run = run'[t] /\ g.account \in Renderable
    OBVIOUS
  <2>2. h.run <= run[t]
    BY <2>1 DEF WithdrawalInv, Pipeline, Truthful
  <2>3. Eligible(t) /\ run'[t] = run[t]
    BY <1>2, <1>4, <2>1, <2>2
  <2>4. QED
    BY <2>1, <2>3 DEF WithdrawalInv, Pipeline, NoEarlier, Shows
<1>10. Pipeline'
  <2>1. /\ jobs # Nil => jobs \in SUBSET JobHost
        /\ gathered # Nil => gathered \in SUBSET JobHost
        /\ pass.jobs # Nil => pass.jobs \in SUBSET JobHost
    BY DEF TypeInv, TypeOK, Snapshot
  <2>2. \A t \in Slots : acted[t] <= run'[t]
    BY <1>2, <1>3 DEF WithdrawalInv, Pipeline
  <2>4. jobs # Nil => Truthful(jobs)' /\ ShowsKnown(jobs)'
    <3>1. SUFFICES ASSUME jobs # Nil PROVE Truthful(jobs)' /\ ShowsKnown(jobs)'
      BY <1>1
    <3>2. Truthful(jobs) /\ ShowsKnown(jobs)
      BY <3>1 DEF WithdrawalInv, Pipeline
    <3>3. PICK H : H = jobs
      OBVIOUS
    <3>4. H \in SUBSET JobHost /\ Truthful(H) /\ ShowsKnown(H)
      BY <2>1, <3>1, <3>2, <3>3
    <3>5. Truthful(H)' /\ ShowsKnown(H)'
      BY <1>8, <3>4
    <3>6. (jobs)' = H
      BY <1>1, <3>3
    <3>7. QED
      BY <3>5, <3>6 DEF Truthful, ShowsKnown, Shows, SlotOf, Eligible, Known
  <2>5. gathered # Nil => Truthful(gathered)' /\ ShowsKnown(gathered)'
    <3>1. SUFFICES ASSUME gathered # Nil PROVE Truthful(gathered)' /\ ShowsKnown(gathered)'
      BY <1>1
    <3>2. Truthful(gathered) /\ ShowsKnown(gathered)
      BY <3>1 DEF WithdrawalInv, Pipeline
    <3>3. PICK H : H = gathered
      OBVIOUS
    <3>4. H \in SUBSET JobHost /\ Truthful(H) /\ ShowsKnown(H)
      BY <2>1, <3>1, <3>2, <3>3
    <3>5. Truthful(H)' /\ ShowsKnown(H)'
      BY <1>8, <3>4
    <3>6. (gathered)' = H
      BY <1>1, <3>3
    <3>7. QED
      BY <3>5, <3>6 DEF Truthful, ShowsKnown, Shows, SlotOf, Eligible, Known
  <2>6. pass.jobs # Nil => Truthful(pass.jobs)' /\ ShowsKnown(pass.jobs)'
    <3>1. SUFFICES ASSUME pass.jobs # Nil PROVE Truthful(pass.jobs)' /\ ShowsKnown(pass.jobs)'
      BY <1>1
    <3>2. Truthful(pass.jobs) /\ ShowsKnown(pass.jobs)
      BY <3>1 DEF WithdrawalInv, Pipeline
    <3>3. PICK H : H = pass.jobs
      OBVIOUS
    <3>4. H \in SUBSET JobHost /\ Truthful(H) /\ ShowsKnown(H)
      BY <2>1, <3>1, <3>2, <3>3
    <3>5. Truthful(H)' /\ ShowsKnown(H)'
      BY <1>8, <3>4
    <3>6. (pass.jobs)' = H
      BY <1>1, <3>3
    <3>7. QED
      BY <3>5, <3>6 DEF Truthful, ShowsKnown, Shows, SlotOf, Eligible, Known
  <2>7. jobs # Nil /\ gathered # Nil => NoEarlier(jobs, gathered)'
    BY <1>1, <1>9 DEF NoEarlier, Shows
  <2>8. QED
    BY <1>1, <2>2, <2>4, <2>5, <2>6, <2>7 DEF Pipeline
<1>11. QED
  BY <1>1, <1>7, <1>10 DEF WithdrawalInv, PlanOnlyApplying

LEMMA OperatorWithdrawal ==
  ASSUME TypeInv, WithdrawalInv,
         \/ \E e \in store : OperatorDeletes(e)
         \/ \E e \in store, h \in Hints : OperatorRetags(e, h)
  PROVE  WithdrawalInv'
<1>1. UNCHANGED <<world, entries, refresh, pass, acted, jobs, gathered>>
  BY DEF OperatorDeletes, OperatorRetags, ourView, jobSide
<1>2. Pipeline' /\ \A s \in Slots : Known(s)' <=> Known(s)
  BY <1>1, PipelineFrame DEF WithdrawalInv
<1>3. \A x \in store' : \E y \in store : x.id = y.id /\ entryKey(x) = entryKey(y)
  BY DEF OperatorDeletes, OperatorRetags, entryKey, TypeInv, TypeOK, Entry
<1>4. \A x \in AllEntries' : \E y \in AllEntries : x.id = y.id /\ entryKey(x) = entryKey(y)
  BY <1>1, <1>3 DEF AllEntries, Listed, EntrySnapshot
<1>5. IDMeansKey' /\ DeletesAreJustified'
  BY <1>1, <1>2, <1>4, NothingNew DEF WithdrawalInv
<1>6. QED
  BY <1>1, <1>2, <1>5 DEF WithdrawalInv, PlanOnlyApplying

-------------------------------------------------------------------------------
LEMMA NextWithdrawal == TypeInv /\ WithdrawalInv /\ [Next]_vars => WithdrawalInv'
<1> SUFFICES ASSUME TypeInv, WithdrawalInv, [Next]_vars PROVE WithdrawalInv'
  OBVIOUS
<1>1. CASE SqueueLoop
  BY <1>1, SqueueWithdrawal
<1>2. CASE SpireListLoop
  BY <1>2, RefreshWithdrawal DEF SpireListLoop
<1>3. CASE ReconcileLoop
  BY <1>3, LoadJobsWithdrawal, NotReadyWithdrawal, MakePlanWithdrawal, BatchWithdrawal,
     RefreshWithdrawal
     DEF ReconcileLoop, Apply, Batch
<1>4. CASE Process
  BY <1>4, ProcessWithdrawal DEF Process
<1>5. CASE Environment
  BY <1>5, ProcessWithdrawal, JobWithdrawal, OperatorWithdrawal DEF Environment
<1>6. CASE UNCHANGED vars
  BY <1>6
     DEF vars, world, proc, jobSide, ourView, WithdrawalInv, IDMeansKey, AllEntries, Listed,
         EntrySnapshot, Pipeline, Truthful, ShowsKnown, NoEarlier, Shows, Known, Eligible,
         DeletesAreJustified, PlanOnlyApplying
<1>7. QED
  BY <1>1, <1>2, <1>3, <1>4, <1>5, <1>6 DEF Next

LEMMA InitWithdrawal == Init => WithdrawalInv
<1> SUFFICES ASSUME Init PROVE WithdrawalInv
  OBVIOUS
<1>1. AllEntries = Seeds
  BY DEF Init, AllEntries, Listed, EntrySnapshot, NoRefresh, NoPass, NoPlan
<1>2. IDMeansKey
  BY <1>1, SeedAssumption DEF IDMeansKey
<1>3. Pipeline
  BY DEF Init, Pipeline, NoPass
<1>4. DeletesAreJustified /\ PlanOnlyApplying
  BY DEF Init, DeletesAreJustified, PlanOnlyApplying, NoPass, NoPlan
<1>5. QED
  BY <1>2, <1>3, <1>4 DEF WithdrawalInv

(***************************************************************************)
(* The invariant behind NoLiveWithdrawal: the pipeline of job hosts shows  *)
(* every run a pass has acted on, and no ID awaiting deletion stands for   *)
(* one.                                                                    *)
(***************************************************************************)
THEOREM WithdrawalInvariant == Spec => []WithdrawalInv
<1>1. Init => TypeInv /\ WithdrawalInv
  BY InitType, InitWithdrawal
<1>2. TypeInv /\ WithdrawalInv /\ [Next]_vars => (TypeInv /\ WithdrawalInv)'
  BY NextType, NextWithdrawal
<1>3. QED
  BY <1>1, <1>2, PTL DEF Spec

(***************************************************************************)
(* What one step may remove from the server.                               *)
(***************************************************************************)
WithdrawsNothingLive ==
  ByOperator \/
  \A e \in store, s \in Slots :
    Known(s) /\ entryKey(e) = SlotKey(s) => e.id \in IDs(store')

LEMMA StepWithdrawsNothingLive ==
  TypeInv /\ WithdrawalInv /\ [Next]_vars => WithdrawsNothingLive
<1> SUFFICES ASSUME TypeInv, WithdrawalInv, [Next]_vars,
                    NEW e \in store, NEW s \in Slots, Known(s), entryKey(e) = SlotKey(s),
                    used'.edits = used.edits
             PROVE  e.id \in IDs(store')
  BY DEF WithdrawsNothingLive, ByOperator
<1>1. CASE store' = store
  BY <1>1 DEF IDs
<1>2. CASE CreateBatch
  BY <1>2 DEF CreateBatch, BatchCreateEntry, IDs
<1>3. CASE UpdateBatch
  <2>1. PICK R \in SUBSET pass.plan.update : store' = BatchUpdateEntry(store, R)
    BY <1>3 DEF UpdateBatch
  <2>2. CASE e.id \in IDs(R)
    <3>1. PICK x \in R : x.id = e.id
      BY <2>2 DEF IDs
    <3>2. x \in store'
      BY <2>1, <3>1 DEF BatchUpdateEntry, IDs
    <3>3. QED
      BY <3>1, <3>2 DEF IDs
  <2>3. CASE e.id \notin IDs(R)
    BY <2>1, <2>3 DEF BatchUpdateEntry, IDs
  <2>4. QED
    BY <2>2, <2>3
<1>4. CASE DeleteBatch
  <2>1. PICK R \in SUBSET pass.plan.delete : store' = BatchDeleteEntry(store, R)
    BY <1>4 DEF DeleteBatch
  <2>2. e.id \notin pass.plan.delete
    BY DEF WithdrawalInv, DeletesAreJustified, AllEntries, Listed
  <2>3. e \in store'
    BY <2>1, <2>2 DEF BatchDeleteEntry
  <2>4. QED
    BY <2>3 DEF IDs
<1>5. ~(\E x \in store : OperatorDeletes(x))
  BY DEF OperatorDeletes, Spend, TypeInv, TypeOK
<1>6. ~(\E x \in store, h \in Hints : OperatorRetags(x, h))
  BY DEF OperatorRetags, Spend, TypeInv, TypeOK
<1>7. SqueueLoop \/ Process \/ Signal \/ Crash => store' = store
  BY DEF SqueueLoop, RunSqueue, SqueueFails, PublishJobs, Process, Exit, Start, Signal, Crash
<1>8. \A l \in Loops : Refresh(l) => store' = store
  BY DEF Refresh, ListPage, ListFails, StoreEntries, SetManagedEntries
<1>9. LoadJobs \/ NotReady \/ MakePlan => store' = store
  BY DEF LoadJobs, NotReady, MakePlan
<1>10. \A t \in Slots, a \in Accounts \cup {NotRunning} : JobChanges(t, a) => store' = store
  BY DEF JobChanges
<1>11. UNCHANGED vars => store' = store
  BY DEF vars
<1>12. QED
  BY <1>1, <1>2, <1>3, <1>4, <1>5, <1>6, <1>7, <1>8, <1>9, <1>10, <1>11
     DEF Next, SpireListLoop, ReconcileLoop, Apply, Environment

(***************************************************************************)
(* For every cluster, configuration, batch size and page size, and any     *)
(* number of failures, crashes, restarts and operator's edits: once a pass *)
(* has worked from a squeue snapshot that showed a job on a node, no step  *)
(* of the daemon removes that slot's entries while that run lasts.         *)
(***************************************************************************)
THEOREM NeverWithdrawsLive == Spec => NoLiveWithdrawal
<1>1. Init => TypeInv /\ WithdrawalInv
  BY InitType, InitWithdrawal
<1>2. TypeInv /\ WithdrawalInv /\ [Next]_vars => (TypeInv /\ WithdrawalInv)'
  BY NextType, NextWithdrawal
<1>3. TypeInv /\ WithdrawalInv /\ [Next]_vars => [WithdrawsNothingLive]_vars
  BY StepWithdrawsNothingLive
<1>4. Spec => [][WithdrawsNothingLive]_vars
  BY <1>1, <1>2, <1>3, PTL DEF Spec
<1>5. QED
  BY <1>4, PTL DEF NoLiveWithdrawal, WithdrawsNothingLive
===============================================================================
