-------------------------------- MODULE Syncer --------------------------------
(***************************************************************************)
(* One slurm-spire-syncer daemon between a Slurm cluster and a SPIRE       *)
(* server: the three loops of internal/syncer, the Entry API calls they    *)
(* make through internal/spireentry, and the plan of internal/reconcile.   *)
(*                                                                         *)
(* A slot is a job on a node, <<node, job>>.  A slot that Slurm runs under *)
(* an account whose templates render is eligible: it should have exactly   *)
(* one registration entry.  An account outside Renderable stands for any   *)
(* job host that yields no desired entry (a template that fails, a squeue  *)
(* record that cannot be parsed).                                          *)
(*                                                                         *)
(* What a step covers.  A squeue run, one ListEntries page, one batch of   *)
(* writes, an atomic pointer swap and a gauge assignment are one step      *)
(* each; the loops, Slurm, an operator and the process manager interleave  *)
(* between them.  A loop may start a pass at any time while the daemon     *)
(* runs: intervals are not modelled here.                                  *)
(***************************************************************************)
EXTENDS Integers, Sequences, FiniteSets, Reconcile, EntryClient

CONSTANTS
  Nodes,
  JobIDs,
  Slots,        \* the <<node, job>> pairs
  Accounts,     \* what a running job's templates are rendered from
  Renderable,   \* the accounts whose templates render to a SPIFFE ID
  NotRunning,   \* a slot Slurm does not run
  Configs,      \* the configurations the daemon may be started with
  Templates,    \* the spiffeIDTemplates, and the lifetimes and hints, that the
  TTLs,         \*   configurations and the entries of others use
  Hints,
  Seeds,        \* the SPIRE server's entries at the outset
  UUIDs,        \* the UUIDs newID draws from
  Nil,          \* a nil snapshot pointer
  BatchSize,    \* client.go batchSize
  PageSize,     \* client.go listPageSize
  MaxEvents,    \* bound: changes of a job in Slurm
  MaxFaults,    \* bound: failed squeue runs and Entry API calls
  MaxStops,     \* bound: signals and crashes
  MaxEdits      \* bound: changes an operator makes to the entries

SpiffeIDs == Templates \X Accounts
IDType    == Seq(STRING)

Entry   == [id : IDType, parent : Nodes, selectors : SUBSET JobIDs,
            spiffeID : SpiffeIDs, ttl : TTLs, hint : Hints]
JobHost == [node : Nodes, job : JobIDs, account : Accounts, run : Nat]
Config  == [className : IDType, hint : Hints, template : Templates, ttl : TTLs,
            dryRun : BOOLEAN]

ASSUME SlotsAssumption   == Slots \subseteq Nodes \X JobIDs /\ IsFiniteSet(Slots)
ASSUME AccountAssumption == Renderable \subseteq Accounts /\ NotRunning \notin Accounts
ASSUME ConfigAssumption  == Configs \subseteq Config
ASSUME SeedAssumption    == /\ Seeds \subseteq Entry /\ IsFiniteSet(Seeds)
                            /\ \A e, x \in Seeds : e.id = x.id => e = x
ASSUME UUIDAssumption    == UUIDs \subseteq STRING
ASSUME SizeAssumption    == BatchSize \in Nat \ {0} /\ PageSize \in Nat \ {0}
ASSUME BoundAssumption   == {MaxEvents, MaxFaults, MaxStops, MaxEdits} \subseteq Nat

VARIABLES
  slurm,          \* slot -> its account, or NotRunning
  run,            \* slot -> how often it has become eligible (history)
  store,          \* the SPIRE server's registration entries
  daemon,         \* "down", "running", or "stopping": the context cancelled
  cfg,            \* Syncer.cfg
  jobs,           \* Syncer.jobs: the squeue snapshot, or Nil
  entries,        \* Syncer.entries: the entry snapshot, or Nil
  slurmJobHosts,  \* the two gauges
  managedEntries,
  gathered,       \* gatherJobs: what squeue printed, not published yet, or Nil
  refresh,        \* refreshEntries, as the list loop and as apply run it
  pass,           \* reconcile: its local state
  acted,          \* slot -> the latest run a pass has loaded (history)
  used            \* how much of each bound is spent

world   == <<slurm, run>>
proc    == <<daemon, cfg>>
jobSide == <<jobs, slurmJobHosts>>
ourView == <<entries, managedEntries>>
vars    == <<world, store, proc, jobSide, ourView, gathered, refresh, pass,
             acted, used>>

Loops == {"spire_list", "reconcile"}   \* the two callers of refreshEntries

-------------------------------------------------------------------------------
(***************************************************************************)
(* Job hosts and what they ask for.                                        *)
(***************************************************************************)
SlotOf(h)  == <<h.node, h.job>>
SlotKey(s) == <<s[1], {s[2]}>>

Eligible(s) == slurm[s] \in Renderable

\* Gather: one job host per running slot.  `run` is history, not squeue output.
Gather ==
  {[node |-> s[1], job |-> s[2], account |-> slurm[s], run |-> run[s]] :
     s \in {t \in Slots : slurm[t] # NotRunning}}

renderID(template, account) == <<template, account>>

desired(h) ==
  [parent |-> h.node, selectors |-> {h.job},
   spiffeID |-> renderID(cfg.template, h.account), ttl |-> cfg.ttl]

buildDesired(hosts) == {desired(h) : h \in {g \in hosts : g.account \in Renderable}}

-------------------------------------------------------------------------------
NoRefresh == [pc |-> "idle", seen |-> {}, out |-> {}]
NoPass    == [pc |-> "idle", jobs |-> Nil, plan |-> NoPlan]

Init ==
  /\ slurm \in [Slots -> Accounts \cup {NotRunning}]
  /\ run = [s \in Slots |-> IF slurm[s] \in Renderable THEN 1 ELSE 0]
  /\ store = Seeds
  /\ daemon = "down"
  /\ cfg \in Configs
  /\ jobs = Nil /\ slurmJobHosts = 0
  /\ entries = Nil /\ managedEntries = 0
  /\ gathered = Nil
  /\ refresh = [l \in Loops |-> NoRefresh]
  /\ pass = NoPass
  /\ acted = [s \in Slots |-> 0]
  /\ used = [events |-> 0, faults |-> 0, stops |-> 0, edits |-> 0]

\* Spend one unit of a bound.
Spend(what, max) == /\ used[what] < max
                    /\ used' = [used EXCEPT ![what] = @ + 1]

\* Mutant: calls that outlive the cancellation of their context.
CallFailsDetached == Spend("faults", MaxFaults)

\* A call under a cancelled context always fails; otherwise a failure is a fault.
CallFails == IF daemon = "stopping" THEN UNCHANGED used ELSE Spend("faults", MaxFaults)

-------------------------------------------------------------------------------
(***************************************************************************)
(* Slurm, and an operator at the SPIRE server.                             *)
(***************************************************************************)
\* A slot's job starts, ends or changes account; a new run begins when the slot
\* becomes eligible.
JobChanges(s, a) ==
  /\ slurm[s] # a
  /\ Spend("events", MaxEvents)
  /\ slurm' = [slurm EXCEPT ![s] = a]
  /\ run' = IF ~Eligible(s) /\ a \in Renderable THEN [run EXCEPT ![s] = @ + 1] ELSE run
  /\ UNCHANGED <<store, proc, jobSide, ourView, gathered, refresh, pass, acted>>

OperatorDeletes(e) ==
  /\ Spend("edits", MaxEdits)
  /\ store' = store \ {e}
  /\ UNCHANGED <<world, proc, jobSide, ourView, gathered, refresh, pass, acted>>

OperatorRetags(e, hint) ==
  /\ e.hint # hint
  /\ Spend("edits", MaxEdits)
  /\ store' = (store \ {e}) \cup {[e EXCEPT !.hint = hint]}
  /\ UNCHANGED <<world, proc, jobSide, ourView, gathered, refresh, pass, acted>>

-------------------------------------------------------------------------------
(***************************************************************************)
(* The squeue loop: gatherJobs.                                            *)
(***************************************************************************)
RunSqueue ==
  /\ daemon = "running"
  /\ gathered = Nil
  /\ gathered' = Gather
  /\ UNCHANGED <<world, store, proc, jobSide, ourView, refresh, pass, acted, used>>

\* Mutant: a squeue run that fails is taken for one that printed no job.
SqueueFailsEmpty ==
  /\ gathered # Nil
  /\ CallFails
  /\ jobs' = {} /\ slurmJobHosts' = 0
  /\ gathered' = Nil
  /\ UNCHANGED <<world, store, proc, ourView, refresh, pass, acted>>

\* squeue failed, timed out or was killed: the last snapshot is kept.
SqueueFails ==
  /\ gathered # Nil
  /\ CallFails
  /\ gathered' = Nil
  /\ UNCHANGED <<world, store, proc, jobSide, ourView, refresh, pass, acted>>

\* Mutant: a squeue run that prints no job is not believed.
PublishSomeJobs ==
  /\ gathered # Nil
  /\ jobs' = IF gathered = {} THEN jobs ELSE gathered
  /\ slurmJobHosts' = Cardinality(gathered)
  /\ gathered' = Nil
  /\ UNCHANGED <<world, store, proc, ourView, refresh, pass, acted, used>>

PublishJobs ==
  /\ gathered # Nil
  /\ jobs' = gathered
  /\ slurmJobHosts' = Cardinality(gathered)
  /\ gathered' = Nil
  /\ UNCHANGED <<world, store, proc, ourView, refresh, pass, acted, used>>

-------------------------------------------------------------------------------
(***************************************************************************)
(* refreshEntries and ListManaged, run by the list loop as its body and by *)
(* apply as its last act.                                                  *)
(***************************************************************************)
\* Mutant: the list loop lists once, and leaves the rest to apply.
RefreshingOnce(l) ==
  CASE l = "spire_list" -> \/ refresh[l].pc = "paging"
                           \/ daemon = "running" /\ entries = Nil
    [] l = "reconcile"  -> pass.pc = "applying" /\ Empty(pass.plan)

Refreshing(l) ==
  CASE l = "spire_list" -> refresh[l].pc = "paging" \/ daemon = "running"
    [] l = "reconcile"  -> pass.pc = "applying" /\ Empty(pass.plan)

\* The pass of loop l is over, with refreshEntries or instead of it.
EndRefresh(l) ==
  /\ refresh' = [refresh EXCEPT ![l] = NoRefresh]
  /\ pass' = IF l = "reconcile" THEN NoPass ELSE pass

ListPage(l) ==
  LET rows == {e \in Visible(cfg, store) : e.id \notin refresh[l].seen}
  IN /\ refresh[l].pc \in {"idle", "paging"}
     /\ Refreshing(l)
     /\ daemon = "running"
     /\ \E page \in Pages(rows, PageSize) :
          refresh' = [refresh EXCEPT ![l] =
            [pc   |-> IF page = rows THEN "listed" ELSE "paging",
             seen |-> IF page = rows THEN {} ELSE @.seen \cup IDs(page),
             out  |-> @.out \cup Owned(cfg, page)]]
     /\ UNCHANGED <<world, store, proc, jobSide, ourView, gathered, pass, acted, used>>

\* An error on any page discards the pages before it.
ListFails(l) ==
  /\ refresh[l].pc \in {"idle", "paging"}
  /\ Refreshing(l)
  /\ CallFails
  /\ EndRefresh(l)
  /\ UNCHANGED <<world, store, proc, jobSide, ourView, gathered, acted>>

StoreEntries(l) ==
  /\ refresh[l].pc = "listed"
  /\ entries' = refresh[l].out
  /\ refresh' = [refresh EXCEPT ![l].pc = "stored"]
  /\ UNCHANGED <<world, store, proc, jobSide, managedEntries, gathered, pass, acted, used>>

\* Mutant: only apply sets the gauge.
SetByApply(l) ==
  /\ refresh[l].pc = "stored"
  /\ managedEntries' = IF l = "reconcile" THEN Cardinality(refresh[l].out)
                       ELSE managedEntries
  /\ EndRefresh(l)
  /\ UNCHANGED <<world, store, proc, jobSide, entries, gathered, acted, used>>

SetManagedEntries(l) ==
  /\ refresh[l].pc = "stored"
  /\ managedEntries' = Cardinality(refresh[l].out)
  /\ EndRefresh(l)
  /\ UNCHANGED <<world, store, proc, jobSide, entries, gathered, acted, used>>

-------------------------------------------------------------------------------
(***************************************************************************)
(* The reconcile loop.                                                     *)
(***************************************************************************)
LoadJobs ==
  /\ daemon = "running"
  /\ pass.pc = "idle"
  /\ pass' = [pass EXCEPT !.pc = "loaded", !.jobs = jobs]
  /\ acted' = [s \in Slots |->
       IF jobs # Nil /\ \E h \in jobs : SlotOf(h) = s
       THEN (CHOOSE h \in jobs : SlotOf(h) = s).run
       ELSE acted[s]]
  /\ UNCHANGED <<world, store, proc, jobSide, ourView, gathered, refresh, used>>

\* Every ID some part of the system still refers to.
LiveIDs ==
  IDs(store) \cup (IF entries = Nil THEN {} ELSE IDs(entries))
    \cup UNION {refresh[l].seen \cup IDs(refresh[l].out) : l \in Loops}

\* newID, once per desired entry of D: distinct UUIDs that no live ID carries.
FreshIDs(D) ==
  {f \in [D -> UUIDs] : /\ \A d, c \in D : f[d] = f[c] => d = c
                        /\ \A d \in D : Append(cfg.className, f[d]) \notin LiveIDs}

\* Mutant: a missing squeue snapshot is read as an empty one.
NotReadyForEntries ==
  /\ pass.pc = "loaded"
  /\ pass.jobs = Nil \/ entries = Nil
  /\ pass' = IF entries = Nil THEN NoPass
             ELSE [pc |-> "applying", jobs |-> Nil,
                   plan |-> [NoPlan EXCEPT !.delete = IDs(Owned(cfg, entries))]]
  /\ UNCHANGED <<world, store, proc, jobSide, ourView, gathered, refresh, acted, used>>

\* A pass that loaded a nil snapshot, of either kind, does nothing.
NotReady ==
  /\ pass.pc = "loaded"
  /\ pass.jobs = Nil \/ entries = Nil
  /\ pass' = NoPass
  /\ UNCHANGED <<world, store, proc, jobSide, ourView, gathered, refresh, acted, used>>

\* The entry snapshot is loaded, then Diff.  An empty plan, or a dry run, ends
\* the pass; otherwise apply begins.
MakePlan ==
  /\ pass.pc = "loaded"
  /\ pass.jobs # Nil /\ entries # Nil
  /\ \E wanted \in OnePerKey(buildDesired(pass.jobs)),
        current \in OnePerKey(Owned(cfg, entries)) :
       LET fresh == FreshIDs(ToCreate(wanted, current))
           plan  == Diff(wanted, current, cfg.className, cfg.hint,
                         CHOOSE f \in fresh : TRUE)
       IN /\ fresh # {}
          /\ pass' = IF Empty(plan) \/ cfg.dryRun THEN NoPass
                     ELSE [pc |-> "applying", jobs |-> Nil, plan |-> plan]
  /\ UNCHANGED <<world, store, proc, jobSide, ourView, gathered, refresh, acted, used>>

(***************************************************************************)
(* apply: creates, then updates, then deletes, batch by batch.  A batch    *)
(* that fails is not retried and does not stop the ones after it.  The     *)
(* server may have reached any part of a batch whose call fails; a call    *)
(* under a cancelled context never reaches it.                             *)
(***************************************************************************)
SendBatch(writes, batch, reached) ==
  /\ pass.pc = "applying"
  /\ batch \in chunks(writes, BatchSize)
  /\ IF daemon = "stopping" THEN reached = {} ELSE reached \in SUBSET batch
  /\ IF reached = batch THEN UNCHANGED used ELSE CallFails
  /\ UNCHANGED <<world, proc, jobSide, ourView, gathered, refresh, acted>>

CreateBatch ==
  /\ pass.plan.create # {}
  /\ \E batch \in SUBSET pass.plan.create : \E reached \in SUBSET batch :
       /\ SendBatch(pass.plan.create, batch, reached)
       /\ store' = BatchCreateEntry(store, reached)
       /\ pass' = [pass EXCEPT !.plan.create = @ \ batch]

UpdateBatch ==
  /\ pass.plan.create = {} /\ pass.plan.update # {}
  /\ \E batch \in SUBSET pass.plan.update : \E reached \in SUBSET batch :
       /\ SendBatch(pass.plan.update, batch, reached)
       /\ store' = BatchUpdateEntry(store, reached)
       /\ pass' = [pass EXCEPT !.plan.update = @ \ batch]

DeleteBatch ==
  /\ pass.plan.create = {} /\ pass.plan.update = {} /\ pass.plan.delete # {}
  /\ \E batch \in SUBSET pass.plan.delete : \E reached \in SUBSET batch :
       /\ SendBatch(pass.plan.delete, batch, reached)
       /\ store' = BatchDeleteEntry(store, reached)
       /\ pass' = [pass EXCEPT !.plan.delete = @ \ batch]

-------------------------------------------------------------------------------
(***************************************************************************)
(* The process: SIGTERM cancels the context, Run returns when its three    *)
(* loops have, and systemd starts the daemon again, perhaps with another   *)
(* configuration.  A crash loses everything the process held.              *)
(***************************************************************************)
Signal ==
  /\ daemon = "running"
  /\ Spend("stops", MaxStops)
  /\ daemon' = "stopping"
  /\ UNCHANGED <<world, store, cfg, jobSide, ourView, gathered, refresh, pass, acted>>

ForgetMemory ==
  /\ daemon' = "down"
  /\ jobs' = Nil /\ slurmJobHosts' = 0
  /\ entries' = Nil /\ managedEntries' = 0
  /\ gathered' = Nil
  /\ refresh' = [l \in Loops |-> NoRefresh]
  /\ pass' = NoPass

Idle == /\ gathered = Nil
        /\ \A l \in Loops : refresh[l].pc = "idle"
        /\ pass.pc = "idle"

Exit ==
  /\ daemon = "stopping"
  /\ Idle
  /\ ForgetMemory
  /\ UNCHANGED <<world, store, cfg, acted, used>>

Crash ==
  /\ daemon # "down"
  /\ Spend("stops", MaxStops)
  /\ ForgetMemory
  /\ UNCHANGED <<world, store, cfg, acted>>

Start(c) ==
  /\ daemon = "down"
  /\ daemon' = "running"
  /\ cfg' = c
  /\ UNCHANGED <<world, store, jobSide, ourView, gathered, refresh, pass, acted, used>>

-------------------------------------------------------------------------------
SqueueLoop    == RunSqueue \/ SqueueFails \/ PublishJobs
Refresh(l)    == ListPage(l) \/ ListFails(l) \/ StoreEntries(l) \/ SetManagedEntries(l)
SpireListLoop == Refresh("spire_list")
Apply         == CreateBatch \/ UpdateBatch \/ DeleteBatch \/ Refresh("reconcile")
ReconcileLoop == LoadJobs \/ NotReady \/ MakePlan \/ Apply
Process       == Exit \/ \E c \in Configs : Start(c)

Environment ==
  \/ \E s \in Slots, a \in Accounts \cup {NotRunning} : JobChanges(s, a)
  \/ \E e \in store : OperatorDeletes(e)
  \/ \E e \in store, h \in Hints : OperatorRetags(e, h)
  \/ Signal
  \/ Crash

Next == SqueueLoop \/ SpireListLoop \/ ReconcileLoop \/ Process \/ Environment

Spec == Init /\ [][Next]_vars

(***************************************************************************)
(* Each loop keeps taking steps (its ticker keeps ticking and its calls    *)
(* return), a stopping daemon exits, and systemd restarts it               *)
(* (Restart=always).  Nothing is assumed of Slurm, the operator, signals,  *)
(* crashes or failures, except that the bounds make them finitely many.    *)
(***************************************************************************)
Fairness == /\ WF_vars(SqueueLoop)
            /\ WF_vars(SpireListLoop)
            /\ WF_vars(ReconcileLoop)
            /\ WF_vars(Process)

FairSpec == Spec /\ Fairness
-------------------------------------------------------------------------------
(***************************************************************************)
(* Properties.                                                             *)
(***************************************************************************)
Snapshot(S) == {Nil} \cup SUBSET S
PlanType    == [create : SUBSET Entry, update : SUBSET Entry, delete : SUBSET IDType]

TypeOK ==
  /\ slurm \in [Slots -> Accounts \cup {NotRunning}]
  /\ run \in [Slots -> Nat]
  /\ store \in SUBSET Entry
  /\ daemon \in {"down", "running", "stopping"}
  /\ cfg \in Configs
  /\ jobs \in Snapshot(JobHost)
  /\ slurmJobHosts \in Nat
  /\ entries \in Snapshot(Entry)
  /\ managedEntries \in Nat
  /\ gathered \in Snapshot(JobHost)
  /\ refresh \in [Loops -> [pc : {"idle", "paging", "listed", "stored"},
                           seen : SUBSET IDType, out : SUBSET Entry]]
  /\ pass \in [pc : {"idle", "loaded", "applying"}, jobs : Snapshot(JobHost),
               plan : PlanType]
  /\ acted \in [Slots -> Nat]
  /\ used \in [{"events", "faults", "stops", "edits"} -> Nat]

\* A pass has worked from a squeue snapshot that showed the slot's present run.
Known(s) == Eligible(s) /\ acted[s] = run[s]

ByOperator == used'.edits # used.edits

(***************************************************************************)
(* Once a reconcile pass has worked from a squeue snapshot that showed a   *)
(* job on a node, no step of the daemon removes that slot's entries while  *)
(* that run of the job lasts: not a failing squeue, not a snapshot of      *)
(* either side that is stale or missing, not a pass cut short, not a crash *)
(* or a restart in between (syncer.go 107-112 and 144-150).                *)
(***************************************************************************)
NoLiveWithdrawal ==
  [][ ByOperator \/
      \A e \in store, s \in Slots :
        Known(s) /\ entryKey(e) = SlotKey(s) => e.id \in IDs(store') ]_vars

(***************************************************************************)
(* An entry without both ownership markers is never changed and never      *)
(* removed by the daemon, whatever listing its plan was made from          *)
(* (client.go 83-87).                                                      *)
(***************************************************************************)
OnlyOwnedTouched ==
  [][ ByOperator \/ \A e \in store : Owns(cfg, e) \/ e \in store' ]_vars

(***************************************************************************)
(* What is left of that when others write as well.  Ownership is decided   *)
(* on a listing, and an operator may take the hint off an entry before the *)
(* write (client.go 83-90, syncer.go 193-225), but never the class off its *)
(* ID: whatever operators, restarts and stale listings do, the daemon      *)
(* changes and removes only entries of the class it runs under, and what   *)
(* it writes carries both of its markers.                                  *)
(***************************************************************************)
WritesStayInClass ==
  [][ ByOperator \/
      /\ \A e \in store : HasClass(e.id, cfg.className) \/ e \in store'
      /\ \A e \in store' \ store : Owns(cfg, e) ]_vars

(***************************************************************************)
(* The daemon is a Registrar: seen from the server, and with nobody else   *)
(* writing, all its loops, batches and restarts come to the few kinds of   *)
(* change that module allows, each with the markers of the configuration   *)
(* the daemon runs under at that moment (syncer.go 97-225).                *)
(***************************************************************************)
Abstract == INSTANCE Registrar WITH
       live  <- {s \in Slots : Eligible(s)},
       known <- {s \in Slots : Known(s)},
       table <- store

ImplementsRegistrar == Abstract!Spec

(***************************************************************************)
(* Liveness, once Slurm, the operator and the faults have come to rest.    *)
(***************************************************************************)
Covered(s) ==
  \E e \in store : /\ entryKey(e) = SlotKey(s)
                   /\ e.spiffeID = renderID(cfg.template, slurm[s])

\* Every eligible slot ends up with an entry that carries its SPIFFE ID.
EventuallyCovered == <>[](\A s \in Slots : Eligible(s) => Covered(s))

\* No owned entry outlives its job for ever.
EventuallyWithdrawn ==
  <>[](\A e \in Owned(cfg, store) :
         \E s \in Slots : Eligible(s) /\ entryKey(e) = SlotKey(s))

\* A signalled daemon stops.
StopCompletes == daemon = "stopping" ~> daemon # "stopping"

\* Every owned entry of an eligible slot ends up with that slot's SPIFFE ID.
EventuallyExact ==
  <>[](\A e \in Owned(cfg, store), s \in Slots :
         Eligible(s) /\ entryKey(e) = SlotKey(s)
           => e.spiffeID = renderID(cfg.template, slurm[s]))

\* Every eligible slot ends up with an entry under the markers of the present
\* configuration, whatever hint the one before had (README.md 120-123).
FreshSet ==
  <>[](\A s \in Slots : Eligible(s) =>
         \E e \in Owned(cfg, store) : entryKey(e) = SlotKey(s))

\* The daemon ends up with nothing left to write but what a foreign entry keeps
\* it from creating.
EventuallyQuiet ==
  <>[](/\ pass.plan.update = {} /\ pass.plan.delete = {}
       /\ \A e \in pass.plan.create : \E x \in store \ Owned(cfg, store) : Similar(e, x))

\* Whatever two refreshes in flight did to it, the gauge ends up with the number
\* of owned entries on the server.
GaugeSettles == <>[](managedEntries = Cardinality(Owned(cfg, store)))
===============================================================================
