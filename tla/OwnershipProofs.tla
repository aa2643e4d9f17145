---------------------------- MODULE OwnershipProofs ----------------------------
(***************************************************************************)
(* With nobody else writing to the server, the daemon touches nothing it   *)
(* does not own, and implements Registrar.  Whoever else writes, it        *)
(* touches nothing outside its class.                                      *)
(*                                                                         *)
(* The argument.  Writes go by entry ID, and ownership was decided on a    *)
(* listing, perhaps long ago, perhaps of an entry that has been rewritten  *)
(* since.  But the class is part of the ID, an ID never changes its hint,  *)
(* and a configuration is never changed while anything is held; so what    *)
(* was owned when it was listed is owned when it is written.               *)
(***************************************************************************)
EXTENDS WithdrawalProofs

USE DEF Loops

NoEdits == MaxEdits = 0

\* What the ID and the hint say of ownership.
LEMMA SameMarkers ==
  ASSUME NEW c, NEW e, NEW x, e.id = x.id, e.hint = x.hint, Owns(c, x)
  PROVE  Owns(c, e)
BY DEF Owns

(***************************************************************************)
(* The facts about entries are preserved by a step that adds nothing but   *)
(* owned entries of the table to what the daemon holds.                    *)
(***************************************************************************)
EntriesOwned == HoldsOwned /\ IDMeansHint /\ DeletesAreOwned

LEMMA NothingForeign ==
  ASSUME EntriesOwned, UNCHANGED cfg,
         AllEntries' \subseteq AllEntries,
         \A e \in Held' : e \in Held \/ Owns(cfg, e),
         (pass.plan.delete)' \subseteq pass.plan.delete
  PROVE  EntriesOwned'
<1>1. HoldsOwned'
  BY DEF EntriesOwned, HoldsOwned, Owns
<1>2. IDMeansHint'
  BY DEF EntriesOwned, IDMeansHint
<1>3. DeletesAreOwned'
  BY DEF EntriesOwned, DeletesAreOwned, Owns
<1>4. QED
  BY <1>1, <1>2, <1>3 DEF EntriesOwned

\* squeue prints a job on a node once.
LEMMA GatherOnePerSlot == OnePerSlot(Gather)
BY SlotsAssumption DEF OnePerSlot, Gather, SlotOf

LEMMA SqueueOwnership ==
  ASSUME TypeInv, OwnershipInv, SqueueLoop
  PROVE  OwnershipInv'
<1>1. UNCHANGED <<store, daemon, cfg, entries, refresh, pass>>
  BY DEF SqueueLoop, RunSqueue, SqueueFails, PublishJobs, proc, ourView
<1>2. HoldsOwned' /\ IDMeansHint' /\ DeletesAreOwned' /\ DownHoldsNothing'
  BY <1>1 DEF OwnershipInv, HoldsOwned, IDMeansHint, DeletesAreOwned, DownHoldsNothing,
              Held, AllEntries, Listed, EntrySnapshot
<1>3. \/ UNCHANGED jobs /\ (gathered' = Gather \/ gathered' = Nil)
      \/ jobs' = gathered /\ gathered' = Nil /\ gathered # Nil
  BY DEF SqueueLoop, RunSqueue, SqueueFails, PublishJobs, jobSide
<1>4. /\ jobs' # Nil => OnePerSlot(jobs')
      /\ gathered' # Nil => OnePerSlot(gathered')
  BY <1>3, GatherOnePerSlot DEF OwnershipInv
<1>5. /\ (jobs # Nil => OnePerSlot(jobs))'
      /\ (gathered # Nil => OnePerSlot(gathered))'
  BY <1>4 DEF OnePerSlot, SlotOf
<1>6. QED
  BY <1>2, <1>5 DEF OwnershipInv

-------------------------------------------------------------------------------
(***************************************************************************)
(* A refresh reads only owned entries.                                     *)
(***************************************************************************)
LEMMA RefreshHeld ==
  ASSUME NEW l \in Loops, TypeInv, DownHoldsNothing, Refresh(l)
  PROVE  /\ \A e \in Held' : e \in Held \/ Owns(cfg, e)
         /\ daemon # "down"
         /\ UNCHANGED <<daemon, cfg>>
<1> USE DEF TypeInv, TypeOK
<1>1. UNCHANGED <<daemon, cfg>>
  BY DEF Refresh, ListPage, ListFails, StoreEntries, SetManagedEntries, proc
<1>2. daemon # "down"
  <2>1. SUFFICES ASSUME daemon = "down" PROVE FALSE
    OBVIOUS
  <2>2. refresh[l].pc = "idle" /\ pass.pc = "idle"
    BY <2>1 DEF DownHoldsNothing, NoRefresh, NoPass
  <2>3. ~Refreshing(l)
    BY <2>1, <2>2 DEF Refreshing
  <2>4. QED
    BY <2>1, <2>2, <2>3 DEF Refresh, ListPage, ListFails, StoreEntries, SetManagedEntries
<1>3. /\ (pass.plan.create)' \subseteq pass.plan.create
      /\ (pass.plan.update)' \subseteq pass.plan.update
  BY RefreshEntries DEF NoPass, NoPlan
<1>4. \A k \in Loops : \A e \in (refresh[k].out)' : e \in refresh[k].out \/ Owns(cfg, e)
  <2>1. CASE ListPage(l)
    <3> DEFINE rows == {e \in Visible(cfg, store) : e.id \notin refresh[l].seen}
    <3>1. PICK page \in Pages(rows, PageSize) :
            refresh' = [refresh EXCEPT ![l] =
              [pc   |-> IF page = rows THEN "listed" ELSE "paging",
               seen |-> IF page = rows THEN {} ELSE @.seen \cup IDs(page),
               out  |-> @.out \cup Owned(cfg, page)]]
      BY <2>1 DEF ListPage
    <3>2. \A e \in Owned(cfg, page) : Owns(cfg, e)
      BY DEF Owned
    <3>3. QED
      BY <3>1, <3>2
  <2>2. CASE ~ListPage(l)
    BY <2>2 DEF Refresh, ListFails, StoreEntries, SetManagedEntries, EndRefresh, NoRefresh
  <2>3. QED
    BY <2>1, <2>2
<1>5. EntrySnapshot' \subseteq EntrySnapshot \cup refresh[l].out
  BY DEF Refresh, ListPage, ListFails, StoreEntries, SetManagedEntries, EntrySnapshot, ourView
<1>6. \A e \in Held' : e \in Held \/ Owns(cfg, e)
  BY <1>3, <1>4, <1>5 DEF Held
<1>7. QED
  BY <1>1, <1>2, <1>6

LEMMA RefreshOwnership ==
  ASSUME NEW l \in Loops, TypeInv, OwnershipInv, Refresh(l)
  PROVE  OwnershipInv'
<1>1. /\ AllEntries' \subseteq AllEntries
      /\ pass' = pass \/ pass' = NoPass
      /\ UNCHANGED <<jobs, gathered>>
  BY RefreshEntries
<1>2. /\ \A e \in Held' : e \in Held \/ Owns(cfg, e)
      /\ daemon # "down"
      /\ UNCHANGED <<daemon, cfg>>
  BY RefreshHeld DEF OwnershipInv
<1>3. (pass.plan.delete)' \subseteq pass.plan.delete
  BY <1>1 DEF NoPass, NoPlan
<1>4. EntriesOwned'
  BY <1>1, <1>2, <1>3, NothingForeign DEF OwnershipInv, EntriesOwned
<1>5. QED
  BY <1>1, <1>2, <1>4 DEF OwnershipInv, EntriesOwned, DownHoldsNothing, OnePerSlot, SlotOf

-------------------------------------------------------------------------------
(***************************************************************************)
(* The reconcile loop.                                                     *)
(***************************************************************************)
LEMMA LoadOwnership ==
  ASSUME TypeInv, WithdrawalInv, OwnershipInv, LoadJobs \/ NotReady
  PROVE  OwnershipInv'
<1>1. UNCHANGED <<store, daemon, cfg, entries, refresh, jobs, gathered>>
  BY DEF LoadJobs, NotReady, proc, ourView, jobSide
<1>2. (pass.plan)' = NoPlan /\ pass.plan = NoPlan
  <2>1. pass.plan = NoPlan
    BY DEF LoadJobs, NotReady, WithdrawalInv, PlanOnlyApplying
  <2>2. CASE LoadJobs
    BY <2>1, <2>2 DEF LoadJobs, TypeInv, TypeOK
  <2>3. CASE NotReady
    BY <2>1, <2>3 DEF NotReady, NoPass
  <2>4. QED
    BY <2>1, <2>2, <2>3
<1>3. daemon # "down"
  BY DEF LoadJobs, NotReady, OwnershipInv, DownHoldsNothing, NoPass
<1>4. AllEntries' = AllEntries /\ Held' = Held
  BY <1>1, <1>2 DEF AllEntries, Listed, EntrySnapshot, Held
<1>5. EntriesOwned'
  BY <1>1, <1>2, <1>4, NothingForeign DEF OwnershipInv, EntriesOwned
<1>6. QED
  BY <1>1, <1>3, <1>5 DEF OwnershipInv, EntriesOwned, DownHoldsNothing, OnePerSlot, SlotOf

(***************************************************************************)
(* What Diff makes from owned entries is owned: created entries are marked *)
(* on purpose, updated ones keep the ID of an owned entry.                 *)
(***************************************************************************)
LEMMA DiffOwned ==
  ASSUME NEW W, NEW C, NEW f \in FreshIDs(ToCreate(W, C)), cfg.className \in Seq(STRING),
         UUIDs \subseteq STRING,
         \A c \in C : Owns(cfg, c)
  PROVE  LET plan == Diff(W, C, cfg.className, cfg.hint, f)
         IN \A e \in plan.create \cup plan.update : Owns(cfg, e)
<1> DEFINE plan == Diff(W, C, cfg.className, cfg.hint, f)
<1>1. \A e \in plan.create : Owns(cfg, e)
  <2>1. TAKE e \in plan.create
  <2>2. PICK d \in ToCreate(W, C) : e = newEntry(d, cfg.className, f[d], cfg.hint)
    BY DEF Diff, Create
  <2>3. e.id = Append(cfg.className, f[d]) /\ e.hint = cfg.hint
    BY <2>2 DEF newEntry, updatedEntry
  <2>4. f[d] \in STRING
    BY DEF FreshIDs
  <2>5. HasClass(Append(cfg.className, f[d]), cfg.className)
    BY <2>4 DEF HasClass
  <2>6. QED
    BY <2>3, <2>5 DEF Owns
<1>2. \A e \in plan.update : Owns(cfg, e)
  <2>1. TAKE e \in plan.update
  <2>2. PICK q \in W \X C : e = updatedEntry(q[2].id, q[1], cfg.hint)
    BY DEF Diff, Update
  <2>3. e.id = q[2].id /\ e.hint = cfg.hint /\ q[2] \in C
    BY <2>2 DEF updatedEntry
  <2>4. Owns(cfg, q[2])
    BY <2>3
  <2>5. QED
    BY <2>3, <2>4 DEF Owns
<1>3. QED
  BY <1>1, <1>2

LEMMA MakePlanOwnership ==
  ASSUME TypeInv, WithdrawalInv, OwnershipInv, MakePlan
  PROVE  OwnershipInv'
<1>1. UNCHANGED <<store, daemon, cfg, entries, refresh, jobs, gathered>>
  BY DEF MakePlan, proc, jobSide, ourView
<1>2. pass.plan = NoPlan /\ entries # Nil /\ daemon # "down"
  BY DEF MakePlan, WithdrawalInv, PlanOnlyApplying, OwnershipInv, DownHoldsNothing, NoPass
<1>3. PICK W \in OnePerKey(buildDesired(pass.jobs)), C \in OnePerKey(Owned(cfg, entries)) :
        \E f \in FreshIDs(ToCreate(W, C)) :
          pass' = NoPass \/
          pass' = [pc |-> "applying", jobs |-> Nil,
                   plan |-> Diff(W, C, cfg.className, cfg.hint, f)]
  BY MakePlanStep
<1>4. PICK f \in FreshIDs(ToCreate(W, C)) :
        pass' = NoPass \/
        pass' = [pc |-> "applying", jobs |-> Nil,
                 plan |-> Diff(W, C, cfg.className, cfg.hint, f)]
  BY <1>3
<1> DEFINE plan == Diff(W, C, cfg.className, cfg.hint, f)
<1>5. cfg.className \in Seq(STRING)
  BY ConfigAssumption DEF TypeInv, TypeOK, Config, IDType
<1>6. \A c \in C : Owns(cfg, c) /\ c \in Listed
  BY <1>2 DEF OnePerKey, Owned, Listed, EntrySnapshot
<1>7. /\ \A e \in plan.create : e.id \notin LiveIDs
      /\ \A id \in plan.delete : \E c \in C : c.id = id
  BY <1>5, DiffIDs, UUIDAssumption
<1>8. \A e \in plan.create \cup plan.update : Owns(cfg, e)
  BY <1>5, <1>6, DiffOwned, UUIDAssumption
<1>9. \A e \in plan.update : \E c \in C : e.id = c.id
  BY <1>5, DiffIDs, UUIDAssumption
<1> HIDE DEF plan
<1>10. CASE pass' = NoPass
  <2>1. AllEntries' \subseteq AllEntries /\ Held' \subseteq Held
    BY <1>1, <1>10 DEF AllEntries, Listed, EntrySnapshot, Held, NoPass, NoPlan
  <2>2. (pass.plan.delete)' \subseteq pass.plan.delete
    BY <1>10 DEF NoPass, NoPlan
  <2>3. EntriesOwned'
    BY <1>1, <2>1, <2>2, NothingForeign DEF OwnershipInv, EntriesOwned
  <2>4. QED
    BY <1>1, <1>2, <2>3 DEF OwnershipInv, EntriesOwned, DownHoldsNothing, OnePerSlot, SlotOf
<1>11. CASE pass' = [pc |-> "applying", jobs |-> Nil, plan |-> plan]
  <2>1. /\ AllEntries' = Listed \cup plan.create \cup plan.update
        /\ Held' \subseteq Held \cup plan.create \cup plan.update
        /\ (pass.plan.delete)' = plan.delete
    <3>1. (pass.plan)' = plan
      BY <1>11
    <3>2. AllEntries' = Listed \cup plan.create \cup plan.update
      BY <1>1, <3>1 DEF AllEntries, Listed, EntrySnapshot
    <3>3. Held' \subseteq Held \cup plan.create \cup plan.update
      BY <1>1, <3>1 DEF Held, EntrySnapshot
    <3>4. QED
      BY <3>1, <3>2, <3>3
  <2>2. AllEntries = Listed
    BY <1>2 DEF AllEntries, NoPlan
  <2>3. IDs(Listed) \subseteq LiveIDs
    BY <1>2 DEF Listed, LiveIDs, EntrySnapshot, IDs
  <2>4. HoldsOwned'
    <3>1. \A e \in Held : Owns(cfg, e)
      BY DEF OwnershipInv, HoldsOwned
    <3>2. \A e \in Held' : Owns(cfg, e)
      BY <1>8, <2>1, <3>1
    <3>3. QED
      BY <1>1, <3>2 DEF HoldsOwned, Owns
  <2>5. \A e \in plan.create : \A y \in Listed : e.id # y.id
    BY <1>7, <2>3 DEF IDs
  <2>6. \A e \in plan.update : \E y \in Listed : e.id = y.id /\ e.hint = y.hint
    BY <1>6, <1>8, <1>9 DEF Owns
  <2>7. \A e \in plan.create \cup plan.update : e.hint = cfg.hint
    BY <1>8 DEF Owns
  <2>8. \A e, x \in Listed : e.id = x.id => e.hint = x.hint
    BY <2>2 DEF OwnershipInv, IDMeansHint
  <2>9. IDMeansHint'
    BY <2>1, <2>5, <2>6, <2>7, <2>8 DEF IDMeansHint
  <2>10. \A e \in Listed \cup plan.create \cup plan.update :
           e.id \in plan.delete => Owns(cfg, e)
    <3>1. SUFFICES ASSUME NEW e \in Listed, e.id \in plan.delete PROVE Owns(cfg, e)
      BY <1>8
    <3>2. PICK c \in C : c.id = e.id
      BY <1>7, <3>1
    <3>3. e.hint = c.hint /\ Owns(cfg, c)
      BY <1>6, <2>8, <3>2
    <3>4. QED
      BY <3>2, <3>3, SameMarkers
  <2>11. DeletesAreOwned'
    BY <1>1, <2>1, <2>10 DEF DeletesAreOwned, Owns
  <2>12. QED
    BY <1>1, <1>2, <2>4, <2>9, <2>11 DEF OwnershipInv, DownHoldsNothing, OnePerSlot, SlotOf
<1>12. QED
  BY <1>4, <1>10, <1>11 DEF plan

LEMMA BatchOwnership ==
  ASSUME TypeInv, OwnershipInv, Batch
  PROVE  OwnershipInv'
<1>1. UNCHANGED <<daemon, cfg, entries, refresh>>
  BY DEF Batch, CreateBatch, UpdateBatch, DeleteBatch, SendBatch, proc, ourView
<1>2. /\ (pass.plan.create)' \subseteq pass.plan.create
      /\ (pass.plan.update)' \subseteq pass.plan.update
  BY DEF Batch, CreateBatch, UpdateBatch, DeleteBatch, TypeInv, TypeOK, PlanType
<1>3. Held' \subseteq Held
  BY <1>1, <1>2 DEF Held, EntrySnapshot
<1>4. EntriesOwned'
  BY <1>1, <1>3, BatchEntries, NothingForeign DEF OwnershipInv, EntriesOwned
<1>5. daemon # "down"
  BY BatchEntries DEF OwnershipInv, DownHoldsNothing, NoPass
<1>6. QED
  BY <1>1, <1>4, <1>5, BatchEntries
     DEF OwnershipInv, EntriesOwned, DownHoldsNothing, OnePerSlot, SlotOf

-------------------------------------------------------------------------------
(***************************************************************************)
(* The process and the world.  A new configuration meets empty hands.      *)
(***************************************************************************)
LEMMA ProcessOwnership ==
  ASSUME TypeInv, OwnershipInv, Signal \/ Exit \/ Crash \/ \E c \in Configs : Start(c)
  PROVE  OwnershipInv'
<1>1. CASE Exit \/ Crash
  <2>1. ForgetMemory /\ UNCHANGED <<store, cfg>>
    BY <1>1 DEF Exit, Crash
  <2>2. AllEntries' \subseteq AllEntries /\ Held' = {} /\ (pass.plan.delete)' = {}
    BY <2>1 DEF ForgetMemory, AllEntries, Listed, EntrySnapshot, Held, NoRefresh, NoPass, NoPlan
  <2>3. EntriesOwned'
    BY <2>1, <2>2, NothingForeign DEF OwnershipInv, EntriesOwned
  <2>4. QED
    BY <2>1, <2>3 DEF OwnershipInv, EntriesOwned, ForgetMemory, DownHoldsNothing
<1>2. CASE Signal
  <2>1. UNCHANGED <<store, cfg, entries, refresh, pass, jobs, gathered>> /\ daemon' = "stopping"
    BY <1>2 DEF Signal, ourView, jobSide
  <2>2. AllEntries' = AllEntries /\ Held' = Held
    BY <2>1 DEF AllEntries, Listed, EntrySnapshot, Held
  <2>3. EntriesOwned'
    BY <2>1, <2>2, NothingForeign DEF OwnershipInv, EntriesOwned
  <2>4. QED
    BY <2>1, <2>3 DEF OwnershipInv, EntriesOwned, DownHoldsNothing, OnePerSlot, SlotOf
<1>3. CASE \E c \in Configs : Start(c)
  <2>1. /\ UNCHANGED <<store, entries, refresh, pass, jobs, gathered>>
        /\ daemon = "down" /\ daemon' = "running"
    BY <1>3 DEF Start, ourView, jobSide
  <2>2. Held' = {} /\ (pass.plan.delete)' = {} /\ AllEntries' = AllEntries
    BY <2>1 DEF OwnershipInv, DownHoldsNothing, AllEntries, Listed, EntrySnapshot, Held,
                NoRefresh, NoPass, NoPlan
  <2>3. HoldsOwned' /\ DeletesAreOwned' /\ IDMeansHint'
    BY <2>2 DEF OwnershipInv, HoldsOwned, DeletesAreOwned, IDMeansHint
  <2>4. QED
    BY <2>1, <2>3 DEF OwnershipInv, DownHoldsNothing, OnePerSlot, SlotOf
<1>4. QED
  BY <1>1, <1>2, <1>3

\* Nothing an entry or a list of hosts is made of changes.
LEMMA FrameOwnership ==
  ASSUME OwnershipInv,
         UNCHANGED <<store, daemon, cfg, entries, refresh, pass, jobs, gathered>>
  PROVE  OwnershipInv'
<1>1. AllEntries' = AllEntries /\ Held' = Held
  BY DEF AllEntries, Listed, EntrySnapshot, Held
<1>2. EntriesOwned'
  BY <1>1, NothingForeign DEF OwnershipInv, EntriesOwned
<1>3. QED
  BY <1>2 DEF OwnershipInv, EntriesOwned, DownHoldsNothing, OnePerSlot, SlotOf

LEMMA NobodyEdits ==
  ASSUME NoEdits, TypeInv
  PROVE  /\ ~(\E e \in store : OperatorDeletes(e))
         /\ ~(\E e \in store, h \in Hints : OperatorRetags(e, h))
BY DEF NoEdits, TypeInv, TypeOK, OperatorDeletes, OperatorRetags, Spend

LEMMA NextOwnership ==
  ASSUME NoEdits, TypeInv, WithdrawalInv, OwnershipInv, [Next]_vars
  PROVE  OwnershipInv'
<1>1. CASE SqueueLoop
  BY <1>1, SqueueOwnership
<1>2. CASE SpireListLoop
  BY <1>2, RefreshOwnership DEF SpireListLoop
<1>3. CASE ReconcileLoop
  BY <1>3, LoadOwnership, MakePlanOwnership, BatchOwnership, RefreshOwnership
     DEF ReconcileLoop, Apply, Batch
<1>4. CASE Process
  BY <1>4, ProcessOwnership DEF Process
<1>5. CASE \E s \in Slots, a \in Accounts \cup {NotRunning} : JobChanges(s, a)
  <2>1. UNCHANGED <<store, daemon, cfg, entries, refresh, pass, jobs, gathered>>
    BY <1>5 DEF JobChanges, proc, jobSide, ourView
  <2>2. QED
    BY <2>1, FrameOwnership
<1>6. CASE Environment
  <2>1. Signal \/ Crash \/ \E s \in Slots, a \in Accounts \cup {NotRunning} : JobChanges(s, a)
    BY <1>6, NobodyEdits DEF Environment
  <2>2. QED
    BY <1>5, <2>1, ProcessOwnership
<1>7. CASE UNCHANGED vars
  <2>1. UNCHANGED <<store, daemon, cfg, entries, refresh, pass, jobs, gathered>>
    BY <1>7 DEF vars, proc, jobSide, ourView
  <2>2. QED
    BY <2>1, FrameOwnership
<1>8. QED
  BY <1>1, <1>2, <1>3, <1>4, <1>6, <1>7 DEF Next

LEMMA InitOwnership == Init => OwnershipInv
<1> SUFFICES ASSUME Init PROVE OwnershipInv
  OBVIOUS
<1>1. AllEntries = Seeds /\ Held = {} /\ pass.plan.delete = {}
  BY DEF Init, AllEntries, Listed, EntrySnapshot, Held, NoRefresh, NoPass, NoPlan
<1>2. HoldsOwned /\ IDMeansHint /\ DeletesAreOwned
  BY <1>1, SeedAssumption DEF HoldsOwned, IDMeansHint, DeletesAreOwned
<1>3. QED
  BY <1>2 DEF Init, OwnershipInv, DownHoldsNothing

(***************************************************************************)
(* The invariant behind OnlyOwnedTouched: what the daemon holds is owned,  *)
(* an ID means one hint, and IDs awaiting deletion name owned entries.     *)
(***************************************************************************)
THEOREM OwnershipInvariant == ASSUME NoEdits PROVE Spec => []OwnershipInv
<1>1. Init => TypeInv /\ WithdrawalInv /\ OwnershipInv
  BY InitType, InitWithdrawal, InitOwnership
<1>2. TypeInv /\ WithdrawalInv /\ OwnershipInv /\ [Next]_vars
        => (TypeInv /\ WithdrawalInv /\ OwnershipInv)'
  BY NextType, NextWithdrawal, NextOwnership, NoEdits
<1>3. QED
  BY <1>1, <1>2, PTL DEF Spec

(***************************************************************************)
(* What one step may change at the server.                                 *)
(***************************************************************************)
TouchesOwned == ByOperator \/ \A e \in store : Owns(cfg, e) \/ e \in store'

\* What a batch leaves, and what it may change or take away.
LEMMA BatchOnStore ==
  ASSUME TypeInv, WithdrawalInv, OwnershipInv, Batch
  PROVE  \A e \in store : Owns(cfg, e) \/ e \in store'
<1>1. CASE CreateBatch
  BY <1>1 DEF CreateBatch, BatchCreateEntry
<1>2. CASE UpdateBatch
  <2>1. PICK S \in SUBSET pass.plan.update : store' = BatchUpdateEntry(store, S)
    BY <1>2 DEF UpdateBatch
  <2>2. SUFFICES ASSUME NEW e \in store, e.id \in IDs(S) PROVE Owns(cfg, e)
    BY <2>1 DEF BatchUpdateEntry
  <2>3. PICK x \in S : x.id = e.id
    BY <2>2 DEF IDs
  <2>4. x \in Held /\ x \in AllEntries /\ e \in AllEntries
    BY DEF Held, AllEntries, Listed
  <2>5. Owns(cfg, x) /\ e.hint = x.hint
    BY <2>3, <2>4 DEF OwnershipInv, HoldsOwned, IDMeansHint
  <2>6. QED
    BY <2>3, <2>5, SameMarkers
<1>3. CASE DeleteBatch
  <2>1. PICK S \in SUBSET pass.plan.delete : store' = BatchDeleteEntry(store, S)
    BY <1>3 DEF DeleteBatch
  <2>2. \A e \in store : e.id \in pass.plan.delete => Owns(cfg, e)
    BY DEF OwnershipInv, DeletesAreOwned, AllEntries, Listed
  <2>3. QED
    BY <2>1, <2>2 DEF BatchDeleteEntry
<1>4. QED
  BY <1>1, <1>2, <1>3 DEF Batch

\* Only the batches, and an operator, write to the server.
LEMMA OnlyBatchesWrite ==
  ASSUME TypeInv, [Next]_vars, ~Batch
  PROVE  ByOperator \/ store' = store
<1>1. SqueueLoop \/ Process \/ Signal \/ Crash => store' = store
  BY DEF SqueueLoop, RunSqueue, SqueueFails, PublishJobs, Process, Exit, Start, Signal, Crash
<1>2. \A l \in Loops : Refresh(l) => store' = store
  BY DEF Refresh, ListPage, ListFails, StoreEntries, SetManagedEntries
<1>3. LoadJobs \/ NotReady \/ MakePlan => store' = store
  BY DEF LoadJobs, NotReady, MakePlan
<1>4. \A s \in Slots, a \in Accounts \cup {NotRunning} : JobChanges(s, a) => store' = store
  BY DEF JobChanges
<1>5. \A e \in store : OperatorDeletes(e) => ByOperator
  BY DEF OperatorDeletes, Spend, ByOperator, TypeInv, TypeOK
<1>6. \A e \in store, h \in Hints : OperatorRetags(e, h) => ByOperator
  BY DEF OperatorRetags, Spend, ByOperator, TypeInv, TypeOK
<1>7. UNCHANGED vars => store' = store
  BY DEF vars
<1>8. QED
  BY <1>1, <1>2, <1>3, <1>4, <1>5, <1>6, <1>7
     DEF Next, SpireListLoop, ReconcileLoop, Apply, Environment, Batch

(***************************************************************************)
(* For every cluster, configuration, batch and page size, and any number   *)
(* of failures, crashes and restarts with other configurations, if nobody  *)
(* else changes the entries: an entry without both markers of the          *)
(* configuration in force is neither changed nor removed.                  *)
(***************************************************************************)
THEOREM TouchesOnlyOwned == ASSUME NoEdits PROVE Spec => OnlyOwnedTouched
<1>1. Init => TypeInv /\ WithdrawalInv /\ OwnershipInv
  BY InitType, InitWithdrawal, InitOwnership
<1>2. TypeInv /\ WithdrawalInv /\ OwnershipInv /\ [Next]_vars
        => (TypeInv /\ WithdrawalInv /\ OwnershipInv)'
  BY NextType, NextWithdrawal, NextOwnership, NoEdits
<1>3. TypeInv /\ WithdrawalInv /\ OwnershipInv /\ [Next]_vars => [TouchesOwned]_vars
  BY BatchOnStore, OnlyBatchesWrite, NoEdits DEF TouchesOwned
<1>4. Spec => [][TouchesOwned]_vars
  BY <1>1, <1>2, <1>3, PTL DEF Spec
<1>5. QED
  BY <1>4, PTL DEF OnlyOwnedTouched, TouchesOwned

-------------------------------------------------------------------------------
(***************************************************************************)
(* With others writing as well.  The table says nothing any more of what   *)
(* the daemon holds, but an entry that was owned when it was listed still  *)
(* has its ID, and so the class.                                           *)
(***************************************************************************)
LEMMA NothingOutOfClass ==
  ASSUME HoldsInClass, UNCHANGED cfg,
         \A e \in Held' : e \in Held \/ Owns(cfg, e),
         \A id \in (pass.plan.delete)' :
            id \in pass.plan.delete \/ HasClass(id, cfg.className)
  PROVE  HoldsInClass'
<1>1. HoldsOwned'
  BY DEF HoldsInClass, HoldsOwned, Owns
<1>2. \A id \in (pass.plan.delete)' : HasClass(id, cfg'.className)
  BY DEF HoldsInClass
<1>3. QED
  BY <1>1, <1>2 DEF HoldsInClass, HasClass

LEMMA FrameClass ==
  ASSUME ClassInv, UNCHANGED <<daemon, cfg, entries, refresh, pass>>
  PROVE  ClassInv'
<1>1. Held' = Held
  BY DEF Held, EntrySnapshot
<1>2. HoldsInClass'
  BY <1>1, NothingOutOfClass DEF ClassInv
<1>3. QED
  BY <1>2 DEF ClassInv, DownHoldsNothing

LEMMA RefreshClass ==
  ASSUME NEW l \in Loops, TypeInv, ClassInv, Refresh(l)
  PROVE  ClassInv'
<1>1. /\ \A e \in Held' : e \in Held \/ Owns(cfg, e)
      /\ daemon # "down"
      /\ UNCHANGED <<daemon, cfg>>
  BY RefreshHeld DEF ClassInv
<1>2. (pass.plan.delete)' \subseteq pass.plan.delete
  BY RefreshEntries DEF NoPass, NoPlan
<1>3. HoldsInClass'
  BY <1>1, <1>2, NothingOutOfClass DEF ClassInv
<1>4. QED
  BY <1>1, <1>3 DEF ClassInv, DownHoldsNothing

LEMMA PassClass ==
  ASSUME TypeInv, ClassInv, LoadJobs \/ NotReady \/ MakePlan
  PROVE  ClassInv'
<1>1. UNCHANGED <<daemon, cfg, entries, refresh>>
  BY DEF LoadJobs, NotReady, MakePlan, proc, ourView
<1>2. daemon # "down"
  BY DEF LoadJobs, NotReady, MakePlan, ClassInv, DownHoldsNothing, NoPass
<1>3. CASE LoadJobs \/ NotReady
  <2>1. (pass.plan)' = pass.plan \/ (pass.plan)' = NoPlan
    <3>1. LoadJobs => (pass.plan)' = pass.plan
      BY DEF LoadJobs, TypeInv, TypeOK
    <3>2. NotReady => (pass.plan)' = NoPlan
      BY DEF NotReady, NoPass
    <3>3. QED
      BY <1>3, <3>1, <3>2
  <2>2. Held' \subseteq Held /\ (pass.plan.delete)' \subseteq pass.plan.delete
    BY <1>1, <2>1 DEF Held, EntrySnapshot, NoPlan
  <2>3. HoldsInClass'
    BY <1>1, <2>2, NothingOutOfClass DEF ClassInv
  <2>4. QED
    BY <1>1, <1>2, <2>3 DEF ClassInv, DownHoldsNothing
<1>4. CASE MakePlan
  <2>1. PICK W \in OnePerKey(buildDesired(pass.jobs)), C \in OnePerKey(Owned(cfg, entries)) :
          \E f \in FreshIDs(ToCreate(W, C)) :
            pass' = NoPass \/
            pass' = [pc |-> "applying", jobs |-> Nil,
                     plan |-> Diff(W, C, cfg.className, cfg.hint, f)]
    BY <1>4, MakePlanStep
  <2>2. PICK f \in FreshIDs(ToCreate(W, C)) :
          pass' = NoPass \/
          pass' = [pc |-> "applying", jobs |-> Nil,
                   plan |-> Diff(W, C, cfg.className, cfg.hint, f)]
    BY <2>1
  <2> DEFINE plan == Diff(W, C, cfg.className, cfg.hint, f)
  <2>3. cfg.className \in Seq(STRING)
    BY ConfigAssumption DEF TypeInv, TypeOK, Config, IDType
  <2>4. \A c \in C : Owns(cfg, c)
    BY DEF OnePerKey, Owned
  <2>5. \A e \in plan.create \cup plan.update : Owns(cfg, e)
    BY <2>3, <2>4, DiffOwned, UUIDAssumption
  <2>6. \A id \in plan.delete : \E c \in C : c.id = id
    BY <2>3, DiffIDs, UUIDAssumption
  <2>7. \A id \in plan.delete : HasClass(id, cfg.className)
    BY <2>4, <2>6 DEF Owns
  <2> HIDE DEF plan
  <2>8. (pass.plan)' = NoPlan \/ (pass.plan)' = plan
    BY <2>2 DEF plan, NoPass
  <2>9. \A e \in Held' : e \in Held \/ Owns(cfg, e)
    BY <1>1, <2>5, <2>8 DEF Held, EntrySnapshot, NoPlan
  <2>10. \A id \in (pass.plan.delete)' : HasClass(id, cfg.className)
    BY <2>7, <2>8 DEF NoPlan
  <2>11. HoldsInClass'
    BY <1>1, <2>9, <2>10, NothingOutOfClass DEF ClassInv
  <2>12. QED
    BY <1>1, <1>2, <2>11 DEF ClassInv, DownHoldsNothing
<1>5. QED
  BY <1>3, <1>4

LEMMA BatchClass ==
  ASSUME TypeInv, ClassInv, Batch
  PROVE  ClassInv'
<1>1. UNCHANGED <<daemon, cfg, entries, refresh>>
  BY DEF Batch, CreateBatch, UpdateBatch, DeleteBatch, SendBatch, proc, ourView
<1>2. /\ (pass.plan.create)' \subseteq pass.plan.create
      /\ (pass.plan.update)' \subseteq pass.plan.update
  BY DEF Batch, CreateBatch, UpdateBatch, DeleteBatch, TypeInv, TypeOK, PlanType
<1>3. Held' \subseteq Held
  BY <1>1, <1>2 DEF Held, EntrySnapshot
<1>4. HoldsInClass'
  BY <1>1, <1>3, BatchEntries, NothingOutOfClass DEF ClassInv
<1>5. daemon # "down"
  BY BatchEntries DEF ClassInv, DownHoldsNothing, NoPass
<1>6. QED
  BY <1>1, <1>4, <1>5 DEF ClassInv, DownHoldsNothing

LEMMA ProcessClass ==
  ASSUME ClassInv, Signal \/ Exit \/ Crash \/ \E c \in Configs : Start(c)
  PROVE  ClassInv'
<1>1. CASE Exit \/ Crash
  <2>1. ForgetMemory
    BY <1>1 DEF Exit, Crash
  <2>2. Held' = {} /\ (pass.plan.delete)' = {}
    BY <2>1 DEF ForgetMemory, EntrySnapshot, Held, NoRefresh, NoPass, NoPlan
  <2>3. QED
    BY <2>1, <2>2 DEF ClassInv, HoldsInClass, HoldsOwned, ForgetMemory, DownHoldsNothing
<1>2. CASE Signal
  <2>1. UNCHANGED <<cfg, entries, refresh, pass>> /\ daemon' # "down"
    BY <1>2 DEF Signal, ourView
  <2>2. Held' = Held
    BY <2>1 DEF Held, EntrySnapshot
  <2>3. HoldsInClass'
    BY <2>1, <2>2, NothingOutOfClass DEF ClassInv
  <2>4. QED
    BY <2>1, <2>3 DEF ClassInv, DownHoldsNothing
<1>3. CASE \E c \in Configs : Start(c)
  <2>1. UNCHANGED <<entries, refresh, pass>> /\ daemon = "down" /\ daemon' # "down"
    BY <1>3 DEF Start, ourView
  <2>2. Held' = {} /\ (pass.plan.delete)' = {}
    BY <2>1 DEF ClassInv, DownHoldsNothing, EntrySnapshot, Held, NoRefresh, NoPass, NoPlan
  <2>3. QED
    BY <2>1, <2>2 DEF ClassInv, HoldsInClass, HoldsOwned, DownHoldsNothing
<1>4. QED
  BY <1>1, <1>2, <1>3

LEMMA NextClass ==
  ASSUME TypeInv, ClassInv, [Next]_vars
  PROVE  ClassInv'
<1>1. CASE SqueueLoop
  <2>1. UNCHANGED <<daemon, cfg, entries, refresh, pass>>
    BY <1>1 DEF SqueueLoop, RunSqueue, SqueueFails, PublishJobs, proc, ourView
  <2>2. QED
    BY <2>1, FrameClass
<1>2. CASE SpireListLoop \/ ReconcileLoop
  BY <1>2, RefreshClass, PassClass, BatchClass
     DEF SpireListLoop, ReconcileLoop, Apply, Batch
<1>3. CASE Process \/ Signal \/ Crash
  BY <1>3, ProcessClass DEF Process
<1>4. CASE \/ \E s \in Slots, a \in Accounts \cup {NotRunning} : JobChanges(s, a)
           \/ \E e \in store : OperatorDeletes(e)
           \/ \E e \in store, h \in Hints : OperatorRetags(e, h)
           \/ UNCHANGED vars
  <2>1. UNCHANGED <<daemon, cfg, entries, refresh, pass>>
    BY <1>4 DEF JobChanges, OperatorDeletes, OperatorRetags, vars, proc, ourView
  <2>2. QED
    BY <2>1, FrameClass
<1>5. QED
  BY <1>1, <1>2, <1>3, <1>4 DEF Next, Environment

\* What one step may change at the server, others apart.
StaysInClass ==
  ByOperator \/
  /\ \A e \in store : HasClass(e.id, cfg.className) \/ e \in store'
  /\ \A e \in store' \ store : Owns(cfg, e)

LEMMA BatchInClass ==
  ASSUME ClassInv, Batch
  PROVE  /\ \A e \in store : HasClass(e.id, cfg.className) \/ e \in store'
         /\ \A e \in store' \ store : Owns(cfg, e)
<1>1. \A e \in pass.plan.create \cup pass.plan.update : Owns(cfg, e)
  BY DEF ClassInv, HoldsInClass, HoldsOwned, Held
<1>2. CASE CreateBatch
  <2>1. PICK S \in SUBSET pass.plan.create : store' = BatchCreateEntry(store, S)
    BY <1>2 DEF CreateBatch
  <2>2. QED
    BY <1>1, <2>1 DEF BatchCreateEntry
<1>3. CASE UpdateBatch
  <2>1. PICK S \in SUBSET pass.plan.update : store' = BatchUpdateEntry(store, S)
    BY <1>3 DEF UpdateBatch
  <2>2. \A e \in store : e \in store' \/ \E x \in S : x.id = e.id
    BY <2>1 DEF BatchUpdateEntry, IDs
  <2>3. store' \ store \subseteq S
    BY <2>1 DEF BatchUpdateEntry
  <2>4. QED
    BY <1>1, <2>2, <2>3 DEF Owns
<1>4. CASE DeleteBatch
  <2>1. PICK S \in SUBSET pass.plan.delete : store' = BatchDeleteEntry(store, S)
    BY <1>4 DEF DeleteBatch
  <2>2. QED
    BY <2>1 DEF BatchDeleteEntry, ClassInv, HoldsInClass
<1>5. QED
  BY <1>2, <1>3, <1>4 DEF Batch

(***************************************************************************)
(* For every cluster, configuration, batch and page size, and any number   *)
(* of failures, crashes, restarts with other configurations and operator's *)
(* edits: the daemon changes and removes only entries of its class, and    *)
(* what it writes carries both markers.                                    *)
(***************************************************************************)
THEOREM StaysWithinItsClass == Spec => WritesStayInClass
<1>1. Init => TypeInv /\ ClassInv
  <2>1. Init => Held = {} /\ pass.plan.delete = {} /\ DownHoldsNothing
    BY DEF Init, EntrySnapshot, Held, DownHoldsNothing, NoRefresh, NoPass, NoPlan
  <2>2. QED
    BY <2>1, InitType DEF ClassInv, HoldsInClass, HoldsOwned
<1>2. TypeInv /\ ClassInv /\ [Next]_vars => (TypeInv /\ ClassInv)'
  BY NextType, NextClass
<1>3. TypeInv /\ ClassInv /\ [Next]_vars => [StaysInClass]_vars
  <2>1. SUFFICES ASSUME TypeInv, ClassInv, [Next]_vars PROVE StaysInClass
    OBVIOUS
  <2>2. CASE Batch
    BY <2>1, <2>2, BatchInClass DEF StaysInClass
  <2>3. CASE ~Batch
    BY <2>1, <2>3, OnlyBatchesWrite DEF StaysInClass
  <2>4. QED
    BY <2>2, <2>3
<1>4. Spec => [][StaysInClass]_vars
  BY <1>1, <1>2, <1>3, PTL DEF Spec
<1>5. QED
  BY <1>4, PTL DEF WritesStayInClass, StaysInClass

-------------------------------------------------------------------------------
(***************************************************************************)
(* Syncer implements Registrar, when nobody else writes to the server: its *)
(* initial states are initial states of Registrar under the mapping        *)
(* Abstract, and each of its steps is a step of Registrar or changes       *)
(* nothing it sees.                                                        *)
(*                                                                         *)
(*     a job starts or ends      Begins, Ends                              *)
(*     LoadJobs                  Learn                                     *)
(*     a batch of writes         Register, Amend, Retire                   *)
(*     Start                     Reconfigure                               *)
(*     any other step            nothing                                   *)
(***************************************************************************)
RLive  == {s \in Slots : Eligible(s)}
RKnown == {s \in Slots : Known(s)}

LEMMA InitMaps == Init => Abstract!Init
<1> SUFFICES ASSUME Init PROVE Abstract!Init
  OBVIOUS
<1>1. \A s \in Slots : ~Known(s)
  BY DEF Init, Known, Eligible
<1>2. QED
  BY <1>1 DEF Init, Abstract!Init

(***************************************************************************)
(* Slurm.  A run that begins is known to no pass.                          *)
(***************************************************************************)
LEMMA JobMaps ==
  ASSUME TypeInv, WithdrawalInv, NEW s \in Slots, NEW a \in Accounts \cup {NotRunning},
         JobChanges(s, a)
  PROVE  \/ Abstract!Begins(s) \/ Abstract!Ends(s)
         \/ UNCHANGED Abstract!vars
<1>1. UNCHANGED <<store, cfg, acted>>
  BY DEF JobChanges, proc
<1>2. /\ \A t \in Slots : t # s => slurm'[t] = slurm[t] /\ run'[t] = run[t]
      /\ slurm'[s] = a
      /\ run'[s] = IF ~Eligible(s) /\ a \in Renderable THEN run[s] + 1 ELSE run[s]
      /\ run \in [Slots -> Nat] /\ acted \in [Slots -> Nat]
  BY DEF JobChanges, TypeInv, TypeOK
<1>3. acted[s] <= run[s]
  BY DEF WithdrawalInv, Pipeline
<1>4. \A t \in Slots : t # s => (Eligible(t)' <=> Eligible(t)) /\ (Known(t)' <=> Known(t))
  BY <1>1, <1>2 DEF Eligible, Known
<1>5. Eligible(s)' <=> a \in Renderable
  BY <1>2 DEF Eligible
<1>6. CASE ~Eligible(s) /\ a \in Renderable
  <2>1. ~Known(s)' /\ ~Known(s)
    BY <1>1, <1>2, <1>3, <1>6 DEF Known
  <2>2. RLive' = RLive \cup {s} /\ RKnown' = RKnown /\ s \notin RLive
    BY <1>4, <1>5, <1>6, <2>1 DEF RLive, RKnown
  <2>3. QED
    BY <1>1, <2>2 DEF Abstract!Begins, RLive, RKnown
<1>7. CASE Eligible(s) /\ a \notin Renderable
  <2>1. ~Known(s)'
    BY <1>5, <1>7 DEF Known
  <2>2. RLive' = RLive \ {s} /\ RKnown' = RKnown \ {s} /\ s \in RLive
    BY <1>4, <1>5, <1>7, <2>1 DEF RLive, RKnown
  <2>3. QED
    BY <1>1, <2>2 DEF Abstract!Ends, RLive, RKnown
<1>8. CASE Eligible(s) <=> a \in Renderable
  <2>1. (Eligible(s)' <=> Eligible(s)) /\ (Known(s)' <=> Known(s))
    BY <1>1, <1>2, <1>5, <1>8 DEF Known
  <2>2. RLive' = RLive /\ RKnown' = RKnown
    BY <1>4, <2>1 DEF RLive, RKnown
  <2>3. QED
    BY <1>1, <2>2 DEF Abstract!vars, RLive, RKnown
<1>9. QED
  BY <1>6, <1>7, <1>8

(***************************************************************************)
(* A pass that loads the jobs forgets no run that an earlier one knew.     *)
(***************************************************************************)
LEMMA LoadMaps ==
  ASSUME TypeInv, WithdrawalInv, OwnershipInv, LoadJobs
  PROVE  Abstract!Learn
<1>1. UNCHANGED <<slurm, run, store, cfg>>
  BY DEF LoadJobs, world, proc
<1>2. \A s \in Slots : (Eligible(s)' <=> Eligible(s))
  BY <1>1 DEF Eligible
<1>3. \A s \in Slots : Known(s) => Known(s)'
  <2>1. SUFFICES ASSUME NEW s \in Slots, Known(s) PROVE acted'[s] = run[s]
    BY <1>1, <1>2 DEF Known
  <2>2. acted'[s] = IF jobs # Nil /\ \E h \in jobs : SlotOf(h) = s
                    THEN (CHOOSE h \in jobs : SlotOf(h) = s).run
                    ELSE acted[s]
    BY DEF LoadJobs
  <2>3. CASE jobs # Nil /\ \E h \in jobs : SlotOf(h) = s
    <3>1. PICK h \in jobs : SlotOf(h) = s /\ h.run = run[s]
      BY <2>1, <2>3 DEF WithdrawalInv, Pipeline, ShowsKnown, Shows
    <3>2. \A g \in jobs : SlotOf(g) = s => g = h
      BY <2>3, <3>1 DEF OwnershipInv, OnePerSlot
    <3>3. (CHOOSE g \in jobs : SlotOf(g) = s) = h
      BY <3>1, <3>2
    <3>4. QED
      BY <2>2, <2>3, <3>1, <3>3
  <2>4. CASE ~(jobs # Nil /\ \E h \in jobs : SlotOf(h) = s)
    BY <2>1, <2>2, <2>4 DEF Known
  <2>5. QED
    BY <2>3, <2>4
<1>4. RLive' = RLive /\ RKnown' \subseteq RLive /\ RKnown \subseteq RKnown'
  BY <1>2, <1>3 DEF RLive, RKnown, Known
<1>5. QED
  BY <1>1, <1>4 DEF Abstract!Learn, RLive, RKnown

(***************************************************************************)
(* The three kinds of batch.                                               *)
(***************************************************************************)
LEMMA BatchMaps ==
  ASSUME TypeInv, WithdrawalInv, OwnershipInv, Batch
  PROVE  Abstract!Register \/ Abstract!Amend \/ Abstract!Retire
<1>1. UNCHANGED <<slurm, run, acted, cfg>>
  BY BatchEntries DEF Batch, CreateBatch, UpdateBatch, DeleteBatch, SendBatch, world, proc
<1>2. RLive' = RLive /\ RKnown' = RKnown
  BY <1>1 DEF RLive, RKnown, Known, Eligible
<1>3. CASE CreateBatch
  <2>1. PICK S \in SUBSET pass.plan.create : store' = BatchCreateEntry(store, S)
    BY <1>3 DEF CreateBatch
  <2>2. \A e \in S : Owns(cfg, e)
    BY DEF OwnershipInv, HoldsOwned, Held
  <2>3. /\ store \subseteq store'
        /\ \A e \in store' \ store : /\ Owns(cfg, e)
                                     /\ e.id \notin IDs(store)
                                     /\ \A x \in store : ~Similar(e, x)
    BY <2>1, <2>2 DEF BatchCreateEntry
  <2>4. Abstract!Register
    BY <1>1, <1>2, <2>3
       DEF Abstract!Register, RLive, RKnown, Owns, HasClass, IDs, Similar,
           Abstract!Owns, Abstract!HasClass, Abstract!IDs, Abstract!Similar
  <2>5. QED
    BY <2>4
<1>4. CASE UpdateBatch
  <2>1. PICK S \in SUBSET pass.plan.update : store' = BatchUpdateEntry(store, S)
    BY <1>4 DEF UpdateBatch
  <2>2. \A e \in S : Owns(cfg, e)
    BY DEF OwnershipInv, HoldsOwned, Held
  <2>3. \A e \in store : e \in store' \/ Owns(cfg, e)
    BY BatchOnStore
  <2>4. \A e \in S, x \in store : e.id = x.id => entryKey(e) = entryKey(x)
    BY DEF WithdrawalInv, IDMeansKey, AllEntries, Listed
  <2>5. \A e \in store' \ store : /\ Owns(cfg, e)
                                  /\ \E x \in store : e.id = x.id /\ entryKey(e) = entryKey(x)
    BY <2>1, <2>2, <2>4 DEF BatchUpdateEntry, IDs
  <2>6. IDs(store') = IDs(store)
    BY <2>1 DEF BatchUpdateEntry, IDs
  <2>7. Abstract!Amend
    BY <1>1, <1>2, <2>3, <2>5, <2>6
       DEF Abstract!Amend, RLive, RKnown, Owns, HasClass, IDs, entryKey,
           Abstract!Owns, Abstract!HasClass, Abstract!IDs, Abstract!entryKey
  <2>8. QED
    BY <2>7
<1>5. CASE DeleteBatch
  <2>1. PICK S \in SUBSET pass.plan.delete : store' = BatchDeleteEntry(store, S)
    BY <1>5 DEF DeleteBatch
  <2>2. \A e \in store \ store' : e.id \in pass.plan.delete
    BY <2>1 DEF BatchDeleteEntry
  <2>3. \A e \in store \ store', s \in Slots : Known(s) => entryKey(e) # SlotKey(s)
    BY <2>2 DEF WithdrawalInv, DeletesAreJustified, AllEntries, Listed
  <2>4. \A e \in store \ store' : Owns(cfg, e)
    BY BatchOnStore
  <2>5. store' \subseteq store
    BY <2>1 DEF BatchDeleteEntry
  <2>6. Abstract!Retire
    BY <1>1, <1>2, <2>3, <2>4, <2>5
       DEF Abstract!Retire, RLive, RKnown, Owns, HasClass, entryKey, SlotKey,
           Abstract!Owns, Abstract!HasClass, Abstract!StandsFor, Abstract!entryKey
  <2>7. QED
    BY <2>6
<1>6. QED
  BY <1>3, <1>4, <1>5 DEF Batch

(***************************************************************************)
(* Everything else is invisible, a new configuration apart.                *)
(***************************************************************************)
LEMMA RestMaps ==
  ASSUME UNCHANGED <<slurm, run, acted, store, cfg>>
  PROVE  UNCHANGED Abstract!vars
<1>1. RLive' = RLive /\ RKnown' = RKnown
  BY DEF RLive, RKnown, Known, Eligible
<1>2. QED
  BY <1>1 DEF Abstract!vars, RLive, RKnown

LEMMA StartMaps ==
  ASSUME NEW c \in Configs, Start(c)
  PROVE  Abstract!Reconfigure(c)
<1>1. UNCHANGED <<slurm, run, acted, store>> /\ cfg' = c
  BY DEF Start, world
<1>2. RLive' = RLive /\ RKnown' = RKnown
  BY <1>1 DEF RLive, RKnown, Known, Eligible
<1>3. QED
  BY <1>1, <1>2 DEF Abstract!Reconfigure, RLive, RKnown

LEMMA StepMaps ==
  ASSUME NoEdits, TypeInv, WithdrawalInv, OwnershipInv, [Next]_vars
  PROVE  Abstract!Next \/ UNCHANGED Abstract!vars
<1>1. CASE SqueueLoop
  <2>1. UNCHANGED <<slurm, run, acted, store, cfg>>
    BY <1>1 DEF SqueueLoop, RunSqueue, SqueueFails, PublishJobs, world, proc
  <2>2. QED
    BY <2>1, RestMaps
<1>2. CASE \E l \in Loops : Refresh(l)
  <2>1. UNCHANGED <<slurm, run, acted, store, cfg>>
    BY <1>2 DEF Refresh, ListPage, ListFails, StoreEntries, SetManagedEntries, world, proc
  <2>2. QED
    BY <2>1, RestMaps
<1>3. CASE LoadJobs
  BY <1>3, LoadMaps DEF Abstract!Next
<1>4. CASE NotReady \/ MakePlan
  <2>1. UNCHANGED <<slurm, run, acted, store, cfg>>
    BY <1>4 DEF NotReady, MakePlan, world, proc
  <2>2. QED
    BY <2>1, RestMaps
<1>5. CASE Batch
  BY <1>5, BatchMaps DEF Abstract!Next
<1>6. CASE \E c \in Configs : Start(c)
  BY <1>6, StartMaps DEF Abstract!Next
<1>7. CASE Exit \/ Signal \/ Crash \/ UNCHANGED vars
  <2>1. UNCHANGED <<slurm, run, acted, store, cfg>>
    BY <1>7 DEF Exit, Signal, Crash, vars, world, proc
  <2>2. QED
    BY <2>1, RestMaps
<1>8. CASE \E s \in Slots, a \in Accounts \cup {NotRunning} : JobChanges(s, a)
  BY <1>8, JobMaps DEF Abstract!Next
<1>9. QED
  BY <1>1, <1>2, <1>3, <1>4, <1>5, <1>6, <1>7, <1>8, NobodyEdits
     DEF Next, SpireListLoop, ReconcileLoop, Apply, Process, Environment, Batch

(***************************************************************************)
(* For every cluster, configuration, batch and page size, and any number   *)
(* of failures, crashes and restarts, if nobody else changes the entries:  *)
(* what the server sees of the daemon is what Registrar promises.          *)
(***************************************************************************)
THEOREM SyncerImplementsRegistrar == ASSUME NoEdits PROVE Spec => ImplementsRegistrar
<1>1. Init => TypeInv /\ WithdrawalInv /\ OwnershipInv
  BY InitType, InitWithdrawal, InitOwnership
<1>2. TypeInv /\ WithdrawalInv /\ OwnershipInv /\ [Next]_vars
        => (TypeInv /\ WithdrawalInv /\ OwnershipInv)'
  BY NextType, NextWithdrawal, NextOwnership, NoEdits
<1>3. Init => Abstract!Init
  BY InitMaps
<1>4. TypeInv /\ WithdrawalInv /\ OwnershipInv /\ [Next]_vars => [Abstract!Next]_(Abstract!vars)
  BY StepMaps, NoEdits
<1>5. QED
  BY <1>1, <1>2, <1>3, <1>4, PTL DEF Spec, ImplementsRegistrar, Abstract!Spec
================================================================================
