# A TLA+ model of slurm-spire-syncer

slurm-spire-syncer gives every running Slurm job a SPIRE registration entry on
every node it runs on, and takes the entry away when the job ends.  This
directory holds a model of it in TLA+, configurations that check the model with
TLC, and proofs that TLAPS checks.  Line references are to the Go sources.

1. [The system](#the-system)
2. [The modules](#the-modules)
3. [Syncer: state and actions](#syncer-state-and-actions)
4. [The other machines](#the-other-machines)
5. [What the runs check](#what-the-runs-check)
6. [Disagreements found](#disagreements-found)
7. [What is proved](#what-is-proved)
8. [What the checks do not show](#what-the-checks-do-not-show)
9. [Plan](#plan)

## The system

One daemon sits between a Slurm cluster and a SPIRE server.  It persists
nothing; all its durable state is the server's entry table.  Three loops run in
goroutines of their own and share two atomic pointers:

| loop | every run | reads | writes |
|---|---|---|---|
| `squeue` (`gatherJobs`) | runs squeue, parses it | Slurm | `jobs`, gauge `slurm_job_hosts` |
| `spire_list` (`gatherEntries`) | lists the entries it owns, page by page | server | `entries`, gauge `managed_entries` |
| `reconcile` | loads both snapshots, computes a plan, applies it, lists again | `jobs`, `entries` | server, `entries`, gauge `managed_entries` |

| component | state | operations | what makes it correct | what is hard |
|---|---|---|---|---|
| `internal/syncer` | the two snapshots, the pass in flight | the three loops, `apply`, `buildDesired` | a live job's entry is not withdrawn; every live job ends up with its entry, every dead one without; foreign entries are left alone | snapshots of different ages, two writers of one pointer, restarts, partial writes, cancellation |
| `internal/reconcile` | none | `Diff` | the plan is what the two lists differ by; nothing is written twice; applying it leaves nothing to do | duplicates on either side |
| `internal/spireentry` | none | `Owns`, `ListManaged`, `Create`, `Update`, `Delete` | only what carries both markers is touched; a failure loses no more than its batch | pages that are not one snapshot, lost answers, batches applied in part |
| `internal/metrics` | tickers, gauges, counters | `Runner.Run`, `once` | runs do not overlap or pile up; shutdown is no failure; the loops end | a select with two ready cases, a run that outlasts its interval |
| `internal/slurm` | none | `Gather`, `parse`, `identify`, `coreAllocated`, `nodeNames`, `ExpandHostList` | one job host per running job and node, or an error | several formats of squeue output, number ranges |
| `internal/config` | resolved settings | `ResolvePath`, `Load`, validation | precedence; a configuration the loops can run with | three kinds of "empty", intervals derived from another, references that expand to nothing |
| `cmd` | the process | start, signal, exit, `/metrics`, `-validate` | a signalled daemon stops | cancelling work in flight |
| systemd unit | - | restart; several instances | `Restart=always`, without a start limit; instances leave each other alone | a restart loses both snapshots; two instances at one server, with class names that overlap |
| `internal/spiretest`, `test/integration` | a fake server, tests | - | not part of the program | - |

How they interact: `main` makes the context, the gatherer, the client and the
syncer, and calls `Syncer.Run`, which starts one `Runner` per loop and waits for
them.  The loops talk to each other only through the two pointers, and to the
world through squeue and four calls of the Entry API.

`PROJECT.json` lists the places where this can go wrong, with the properties
that would notice ("hazards").

## The modules

| module | models | uses |
|---|---|---|
| `Reconcile` | the plan as a function of two sets: identity, drift, creates, updates, deletes | - |
| `EntryClient` | ownership, the hint filter, pages, batches, and what a batch does to the server's table (the server itself is external: the operators say what `client.go` relies on; updates and deletions are also what the tests' fake server does) | - |
| `Registrar` | abstract: what the daemon promises about the server's table, without its loops | both |
| `Syncer` | the whole daemon against Slurm, the server, an operator and the process manager | `Reconcile`, `EntryClient`, instances `Registrar` |
| `SyncerInv` | the inductive invariants | `Syncer` |
| `SyncerProofs`, `WithdrawalProofs`, `OwnershipProofs` | proofs, each on top of the one before | `SyncerInv` |
| `Fleet` | several instances of the daemon at one server | `Reconcile`, `EntryClient` |
| `FleetProofs` | proofs | `Fleet` |
| `DiffLoop` | `Diff` as the code runs it, over slices and maps | `Reconcile`, `EntryClient` |
| `DiffLoopProofs` | proofs | `DiffLoop` |
| `Daemon` | `metrics.Runner` and `Syncer.Run` in discrete time: tickers, overruns, the failing gauge, cancellation | - |
| `DaemonProofs` | proofs | `Daemon` |
| `HostList` | `ExpandHostList`, with arithmetic that wraps | - |
| `Gatherer` | one `Gather`: squeue's output, the loop over its records, the expansion of their node lists | `HostList` |
| `GathererProofs` | proofs | `Gatherer` |
| `Config` | the command line, the file, the environment: `ResolvePath`, `Load`, validation, `-validate`, the start of `run` | - |
| `ConfigProofs` | proofs | `Config` |
| `MC...` | the small instances TLC checks | |

`Reconcile` and `EntryClient` are operators without state, so that `Syncer` and
`DiffLoop` share them.  `DiffLoop` is checked and proved against `Reconcile`: the
plan `Syncer` takes in one step is the one the loops compute.  `Daemon` and
`Syncer` are two views of the same goroutines: `Daemon` says when a loop runs,
`Syncer` what a run does.  `Syncer` lets a loop begin a run whenever the daemon
runs, which covers every schedule `Daemon` allows.  `Gatherer` is what happens
inside the step `RunSqueue`; `Config` comes before `Start`; `Fleet` composes
coarser daemons (a listing, a call and a squeue run are one step each) with one
table, because there the question is how their calls interleave.

A definition whose comment begins with "Mutant:" is not part of the model.  It
is the definition after it with a plausible bug, and exists so that each checked
property can be shown to fail on it.

## Syncer: state and actions

| variable | code |
|---|---|
| `slurm` | what Slurm runs: a slot, `<<node, job>>`, is mapped to its account |
| `store` | the server's entries |
| `daemon`, `cfg` | the process and its configuration |
| `jobs`, `entries` | `Syncer.jobs`, `Syncer.entries`; `Nil` until first stored |
| `slurmJobHosts`, `managedEntries` | the two gauges |
| `gathered` | squeue's output on its way through `gatherJobs` |
| `refresh` | `refreshEntries` in flight, once per caller: the pages read so far |
| `pass` | `reconcile` in flight: the jobs it loaded, then what is left of its plan |
| `run`, `acted` | history: the number of a slot's run, and the latest one a pass has loaded |
| `used` | history: how much of each bound is spent |

| action | code |
|---|---|
| `RunSqueue`, `SqueueFails`, `PublishJobs` | `gatherJobs` (107-116), with `Gatherer.run` |
| `ListPage`, `ListFails`, `StoreEntries`, `SetManagedEntries` | `refreshEntries` (130-139), with `ListManaged`; for the list loop and for `apply` |
| `LoadJobs`, `NotReady`, `MakePlan` | `reconcile` (141-188): the two loads are two steps, a dry run ends the pass |
| `CreateBatch`, `UpdateBatch`, `DeleteBatch` | `apply` (193-225), a batch at a time; the server may have got to any part of a batch whose call fails |
| `Signal`, `Exit`, `Crash`, `Start` | `main.run`, systemd |
| `JobChanges`, `OperatorDeletes`, `OperatorRetags` | the world |

Abstractions, and why they are sound for the properties:

- A squeue run, a page, a batch, a pointer swap and a gauge assignment are one
  step each; everything else may come between them.
- An entry ID is the sequence of its dot-separated labels.  A generated ID is
  `className` followed by a UUID, and `HasPrefix(id, className + ".")` becomes
  "`className` is a proper prefix of the sequence".  Fresh UUIDs are unused ones.
- The two SVID lifetimes are one field, for the code compares and copies them
  together.  `renderID` keeps the template and the account it was rendered from.
- An account outside `Renderable` stands for any job host that yields no
  desired entry: a template that fails, a record that `Gatherer` skips.  Such a
  slot is not "eligible", and its entries are deleted, as in the code.
- A dead process has no calls in flight: an RPC the server carries out after
  the client was killed is not modelled beyond the part of a batch that had
  been reached.
- Once the context is cancelled every call fails before it reaches the server.
  A run that a loop begins under a cancelled context therefore changes nothing,
  and is not a step of `Syncer`; `Daemon` has it.
- Loop intervals are left out: a loop may be as slow or as fast as it likes.

## The other machines

**`Registrar`** says what the daemon's users rely on.  Its state is the set of
slots that should have an entry (`live`), those among them that are `known`, the
table and the configuration.  The table may change in three ways: an entry with
the markers of the configuration is added (`Register`), an owned one is rewritten
in place and keeps its ID, its slot and its markers (`Amend`), owned ones of slots
that are not known are removed (`Retire`).  A known slot stays known until it
ends.  `Syncer` implements it under the mapping

| `Registrar` | `Syncer` |
|---|---|
| `live` | the slots that run a job that renders |
| `known` | those whose present run a pass has loaded |
| `table`, `cfg` | `store`, `cfg` |

so that a batch, even one that is cut short, is a `Register`, an `Amend` or a
`Retire`, a pass that loads its jobs is a `Learn`, and a restart a `Reconfigure`.

**`Fleet`**: each instance has its profile (class, hint, template, lifetime), its
own cluster and its own snapshots, plan and crashes; the table is shared.
`MakePlan`, `CreateCall`, `UpdateCall`, `DeleteCall` and `Finish` are `reconcile`
and `apply`; the failure of a call leaves any part of it done.

**`Gatherer`**: `RunFails` and `RunPrints` are `run` and the JSON decoding;
`SkipJob`, `TakeExpanded`, `CallExpand` and `TakeExpansion` are the body of the
loop in `parse` with `identify`, `coreAllocated` and `nodeNames` as operators; in
between the steps are `HostList`'s.  A record has the fields of all Slurm
versions, any of which may be missing; a name is a tuple, so that "blank" is one.

**`Config`**: one action per stage, as each is a function of its inputs:
`ResolvePath`, `Load` (which expands, decodes, resolves and validates),
`printValidation` and `Run`.  The inputs are initial states.  Texts are model
values as far as parsing goes: `ParseDuration`, `ParseTemplate`, `TrustDomains`,
`ClassNames` are constants.  What is kept of them is what decides a branch: an
empty text, a blank one, one that is a reference to an undefined variable, quoted
or not, one that does not parse, a zero, a negative number.  A template is a set
of path segments, each a literal and the fields of `TemplateData` it prints; it
renders for a job (`Renders`) if the fields exist and no segment comes out empty
or with a text a SPIFFE ID does not allow (outside `PathTexts`).  `ResolveOrder` and
`ValidateOrder` are the orders in which the settings are looked at, as sequences;
an error names the first (`IsFirst`) that is found wanting.

## What the runs check

Passing runs:

| run | instance | shows |
|---|---|---|
| `safety` | one slot, two renderable accounts and one that fails, a live and a dry-run configuration, two foreign entries with one marker each, 2 job changes, 1 failed call, 1 signal or crash | `TypeOK`; the inductive invariants `WithdrawalInv` and `OwnershipInv`; `NoLiveWithdrawal`; `OnlyOwnedTouched`; `ImplementsRegistrar` |
| `liveness` | two slots, one entry to a page and to a batch, entries left behind by an earlier daemon; a restart may bring another template or another hint; 1 job change, 1 fault, 1 stop | `EventuallyCovered`, `EventuallyWithdrawn`, `StopCompletes`, `GaugeSettles` |
| `operator` | two slots, one entry to a page and to a batch, an outdated leftover and a foreign entry, 1 job change, 1 fault, 1 edit: an entry deleted, or its hint changed | `EventuallyCovered`, `EventuallyQuiet`, `WritesStayInClass` |
| `diff` | slices of up to three desired and two existing entries over two keys and two SPIFFE IDs, owned or not; UUIDs that are free, or whose IDs are taken | `AgreesWithDiff`, `WritesOnce`, `Converges` |
| `runner` | loops with intervals of one and three units, runs of any length | `NoBurst`, `OverrunWasDue`, `TickerPhase`, `ShutdownIsNoFailure`, `Returns`, `RunsAgain` |
| `gather` | one job over hostlists of up to two elements of up to two components, from a small set of bounds none of which is the top (numbers below 16, at most three hosts); one job over every shape of its fields; pairs of jobs, one of which may be malformed | `ExpandsExactly`, `AllocationBounded`, `EachJobOnItsOwn`, `DecodedIsReturned` |
| `fleet` | two instances with classes `slurm` and `slurm-backup`, one hint and one template, two slots, leftovers of an earlier instance and a foreign entry, 1 job change, 1 failed call, 1 crash | `ApartInv`, the inductive invariant; `EntriesOfOthersStay`, `WritesDisjoint`; `EventuallyServed`, `EventuallyWithdrawn` |
| `config` | each setting in file and environment with each kind of value, expanded or not, run or `-validate`; pairs of settings that bear on each other; each layout of the directory | `MostSpecificFile`, `FileBeatsEnvironment`, `BlamesWhatWasGiven`, `RunsWithUsable` |

Why these bounds are enough to matter.  *Slots* do not influence each other
except through batches and pages: `liveness` and `operator` have two, so that a
plan is several batches and a listing several pages, and a fault, a signal or a
crash falls between them.  `safety` has one, and with it richer data.  *Two job
changes* let a job end and come back while an old snapshot is still on its way;
*one fault* lands on any call; *one stop* lands anywhere, so a restart meets
every half-finished pass.  `safety` stays clean with three job changes, and
with two slots, pages of one entry and two accounts (3.6 million states, too slow
for a regular run); the proofs remove the bounds for the properties they cover.  In `diff`, two entries or wants of one key, on either side, is the case
the maps have to decide.  In `gather`, one list fits the bound by component and
not by element, by element and not in total.  In `fleet` one template makes each
instance stand in the other's way, at the server, for the same job.  In `config`
settings are resolved one by one, except that the intervals look at their base and
a template is judged with the identifier: those are the pairs.

Fairness.  `FairSpec` assumes of each loop that it keeps taking steps: its
ticker keeps ticking and its calls return.  `Daemon` is where the first half is
checked (`RunsAgain`, `Returns`).  The second half is an assumption about the
server, as no RPC has a deadline (squeue has one).  A stopping daemon exits and
systemd starts it again (`Restart=always`, no start limit).  Nothing is assumed
of jobs, faults, signals and edits except that they are finitely many, which
makes "eventually" mean "once things have come to rest".  `Fleet` assumes the
same of each of its instances.  `Gatherer` assumes that `parse`, which waits for
nothing, goes on.  In `Daemon` a run is only assumed to return once the context
is cancelled; the select is given strong fairness on the cancellation, because
Go picks among ready cases at random.

Deadlock is checked wherever the system is meant to run for ever.  `diff`,
`gather` and `config` model functions, which return.

Bounds are constants with names: `MaxEvents`, `MaxFaults`, `MaxStops`,
`MaxEdits` in `Syncer`, `MaxEvents`, `MaxFaults`, `MaxCrashes` in `Fleet`, each a
conjunct of the actions it bounds; `Modulus` and
`MaxHosts` in `HostList` scale 2^64 and 2^20 down.  `Daemon` has no bound: it
holds spans of time, capped where they stop making a difference.

## Disagreements found

Each is a run that TLC finds violated; `PROJECT.json` quotes the text it refutes.

- **`stale_identity`** (`EventuallyExact`).  The list loop reads the table, a
  pass creates an entry and refreshes, then the list loop stores what it read
  before.  If the job's account changes in that window, the next pass sees no
  entry and creates another one, with another SPIFFE ID, so the server does not
  call it a duplicate.  From then on there are two owned entries with one key.
  `Diff` keeps the last one listed and never looks at the other, which keeps its
  old SPIFFE ID for as long as the job runs.
- **`hostlist_wrap`** (`AllocationBounded`).  A range that ends at the largest
  uint64 is never left: `n <= high` cannot fail, and `n++` wraps.
- **`fleet_prefix`** (`EntriesOfOthersStay`).  Two instances with the same hint
  and *different* class names, `slurm` and `slurm.backup`.  A class name may
  contain dots, and ownership asks for the prefix `slurm.`: the first instance
  takes every entry of the second for a stray of its own and deletes it, and the
  second creates it again.  `README.md` 394-396 asks only for a class name of
  one's own.  `Separate` in `Fleet` is the condition that does keep them apart.
- **`fresh_set`** (`FreshSet`).  After a restart with another hint the daemon does
  not see its old entries and plans to create each again.  If the template is the
  same, the server has an entry with that SPIFFE ID, parent and selectors and
  refuses, on every pass, for as long as the job runs.  `README.md` 120-123 says
  that it "will create a fresh set alongside".  The jobs stay covered, by orphans:
  `liveness`, where a restart may change the hint, shows `EventuallyCovered`.

Smaller ones, met while modelling and not given a run:

- `Store` and `Set` of two refreshes may interleave (`syncer.go` 135-136), and
  `managed_entries` then has the size of the snapshot that lost, until the next
  listing.  `GaugeSettles` shows that it does not stay wrong.
- The comment at `main.go` 80 says that signal handling keeps the reconcile in
  flight from being killed mid-batch.  The signal cancels the context its calls
  run under, so the batches not yet sent fail.  `liveness` shows that the next
  daemon makes up for it.
- A run that starts late, on the buffered tick of an overrun, can still be at work
  when its ticker fires next and yet have taken less than the interval; it is not
  counted (`metrics/loop.go` 66).  The converse, `OverrunWasDue`, is proved.
- The comment at `squeue.go` 193-195 fears that a discarded gather "would trigger
  deletion of every other job's entries"; a gather that fails keeps the last list
  (`syncer.go` 109).  What it would cost is every later change.
- `interval: ""` in the file with `SLURM_SPIRE_SYNCER_INTERVAL=30s` in the
  environment gives 10s: a duration that is empty in the file skips the environment
  (`config.go` 437), where a string that must not be empty goes on to it.
  `config.go` 375-382 says that they behave alike.  `FileBeatsEnvironment` is stated
  as the code has it.
- The sample job of `-validate` has a `job_id` and no `sluid`, whatever
  `jobIdentifier` says (`main.go` 146).  With `jobIdentifier: sluid` a template that
  uses `.JobID` is reported valid and renders for no job; one that uses `.SLUID`,
  which would work, is refused.  An account may also hold characters that a SPIFFE
  ID cannot (`syncer.go` 292), where the sample's has none.  No property says what
  `-validate` vouches for: it vouches for the sample.

## What is proved

`SyncerProofs`: `Spec => [](TypeOK /\ Finite)`, one lemma per group of actions.
Finiteness is there because the gauges are cardinalities.

`WithdrawalProofs`: `Spec => []WithdrawalInv` and `Spec => NoLiveWithdrawal`,
for every set of slots, accounts, configurations and seed entries, every batch
and page size and every bound.  The property says that once a pass has loaded a
list that shows a run of a job, the daemon removes no entry of that slot while
the run lasts.  It is far from inductive: the deletions of a plan come from two
snapshots of different ages, one of which may be older than the pass before.
The argument goes backwards from the deletion:

1. an ID means one job on one node, in the table, in every snapshot and in every
   plan (`IDMeansKey`); so deleting by ID is deleting by identity;
2. an ID waiting in a plan belongs to no slot whose present run a pass has
   loaded (`DeletesAreJustified`);
3. that holds when the plan is made because the loaded jobs show every such slot
   (`ShowsKnown`) with an account that renders (`Truthful`);
4. and that holds of every list on its way to a pass - printed by squeue,
   published, loaded - because lists are published in the order they were read
   (`NoEarlier`) and never thrown away except for a whole new one.  After a
   restart there is no list, and a pass without one does nothing.

Step 4 is where the code's two decisions enter: `gatherJobs` keeps the old list
when squeue fails, and `reconcile` waits for both snapshots.

`OwnershipProofs`: `Spec => []OwnershipInv` and `Spec => OnlyOwnedTouched`, if
nobody else writes to the server (`NoEdits`; an operator who takes the hint off
an entry between the listing and the write refutes both).  Writes go by ID, and
ownership was decided on a listing, perhaps of an entry that has been rewritten
since.  But the class is part of the ID, an ID means one hint (`IDMeansHint`), and
a daemon whose configuration changes holds nothing (`DownHoldsNothing`); so what
was owned when it was listed is owned when it is written (`HoldsOwned`,
`DeletesAreOwned`).

Without that assumption, `Spec => WritesStayInClass`: whatever operators do, the
daemon changes and removes only entries of its class, and what it writes carries
both markers.  `ClassInv` is the invariant.  It says nothing of the table, on
which others write: only that what is held was owned when it was listed or made,
and that IDs awaiting deletion have the class, which no edit takes away.

It also holds `Spec => ImplementsRegistrar`, under the same assumption.  Its
initial states map to initial states and each step to a step or a stutter: that a
batch of deletions is a `Retire` is `DeletesAreJustified` and `DeletesAreOwned`,
that an update keeps its slot is `IDMeansKey`, that a load only adds to what is
known is `ShowsKnown`.

`FleetProofs`: for any number of instances whose markers are `Separate` - of any
two, the hints differ or neither's IDs carry the other's class - each holds, owns
and deletes only what it made (`InstancesStayApart`), none changes what another
made (`OthersStay`), and no two have a write of one entry in flight
(`NoSharedWrites`).  The types (`TypesCorrect`) need no separation.  The invariant
says of everything that exists who made it, by
the markers; `Separate` makes the maker unique, and fresh IDs keep it so.  `OwnNamesSuffice` says when an
operator has seen to that: if no class name has a dot, a class name or a hint of
one's own is enough, as `README.md` 394-396 has it; in general neither of two class
names with one hint may begin with the other (`PrefixesDecide`).

`DiffLoopProofs`: for all slices, options and UUIDs, the types, and

- `AgreesWithDiff`: what the two loops and the sweep return is `Reconcile`'s plan.
  The invariant says of the prefix walked so far what the property says of the
  whole: the map holds the last owned entry of each key (`MapInv`), and the plan is
  `Diff` of the desired entries that were the first of their key, against that map
  (`PlanInv`).
- `WritesOnce`.  Each write of the plan is for a key in `seen`, and the keys of the
  creations, and those of the updates, are distinct (`CreationsInv`,
  `UpdatesInv`); an update has the ID of the entry it was matched with, so updates
  and deletions do not meet.
- `Converges`: once the plan is applied, what is owned is what is wanted, one entry
  each, and the rest of the table is untouched - if no key had two owned entries
  and nothing was in the way of a creation, by what it registers or by its ID
  (`Unhindered`).  What is owned then is the creations, the updates and what was
  neither updated nor deleted; `WantedOf` maps these onto the wanted, and one to
  one because their keys differ.

`GathererProofs`: for any documents that are typed, any width of numbers and any
bound, the types; and, if no range ends at the largest number (`NoTopRanges`),
`AllocationBounded`, `ExpandsExactly` and `EachJobOnItsOwn`.  That hypothesis is
needed: `hostlist_wrap` is the counterexample without it.  The invariant `AllInv`
counts - within a range `hosts` holds no more than what the parts before it may
hold, plus how far the range is (`ExpandInv`) - and says what has been collected:
`out` is what the elements before this one mean, `hosts` what the parts before
this one mean and the numbers of this range counted so far (`Faithful`), and the
records are what each job before this one contributes on its own (`GatherInv`).
That much is a claim about sequences of any length, made of `FlattenSeq` and of a
recursive function.  The library's induction theorems cannot be used here, as they
take an operator for a parameter; the induction is done instead on the set of
numbers at which a claim fails, which has a least element if it has any (`Least`).

`DaemonProofs`: the types; that no three runs of a loop begin within one
interval (`RunsAreSpaced`); that an overrun is one (`OverrunsAreReal`); that a
ticker stays in phase with the runs it starts (`TickersInPhase`); and that a run
cut short by the shutdown changes no failing gauge (`ShutdownRaisesNoAlarm`,
because no run returns the context's error before there is one); for any loops
and intervals.  `Spaced` is the strengthening: while no tick is ready
the next one fires a full interval after the run before the latest began, and a
ready tick already has.  `NotDueYet` says that a run in which the ticker has not
fired has used up no more than what was left of the interval.

`ConfigProofs`: for every invocation, environment and set of files, and whatever
the parsers make of durations, trust domains and templates, the types and the
four other properties of the run `config`.  `ConfigInv` says which function of what the
daemon was started with each variable is: a configuration that was loaded is
`resolve` of the text, with nothing unresolvable in it and nothing refused
(`LoadedInv`); a setting that is blamed is the first in the order of the checks
(`BlameInv`).  `BlamesWhatWasGiven` says that the culprit's own text, at the level that
decides it, is one no daemon could run with.  It rests on the order: a loop's
interval that was not given is the base interval, which is checked before it, so
the loop's is never the one blamed.

The proofs assume what the modules assume of their constants, by name:

| of | assumptions |
|---|---|
| `Syncer` | `SlotsAssumption` (finitely many slots), `SeedAssumption` (the table starts finite, with distinct IDs), `AccountAssumption`, `ConfigAssumption`, `UUIDAssumption`, `SizeAssumption`, `BoundAssumption` |
| `Fleet` | `ProfileAssumption` (a class name is a sequence of labels), `SeedAssumption`, `UUIDAssumption` |
| `DiffLoop` | `ListAssumption` (a listing holds an ID once), `SliceAssumption` (slices are sequences, and UUIDs do not run out), `NamingAssumption` (no UUID is drawn twice; a class name is a sequence of labels), `DesiredAssumption` (a desired entry has no field but those that are compared) |
| `HostList`, `Gatherer` | `SizeAssumption` (a bound below 2^64), `DocumentsAssumption` (what decodes is typed) |
| `Daemon` | `IntervalAssumption` (intervals are positive, as validation sees to) |
| `Config` | `ParsersAssumption` (a duration is a number and not blank; a trust domain is not empty), `DefaultsAssumption` (validation's patterns and parsers accept the defaults) |

TLC evaluates each of them on the instances it checks, and `NoTopRanges` as well
(`InstanceAssumption` in `MCGatherer`).  `NoEdits` is `MaxEdits = 0`, and `Separate`
is a condition on the profiles; `safety` and `fleet` are instances of them.

Only model-checked: liveness, which with its fairness is outside the prover's
reach.  Every invariant and every action property of the passing runs is proved.

The form of some definitions is the provers'.  They know nothing of `SelectSeq`,
and read a `CASE` whose guards overlap as a choice among its arms; so the models
use sets, or guards that exclude each other.

## What the checks do not show

- `OnlyOwnedTouched`, `OwnershipInv` and `ImplementsRegistrar` are about a server
  to which nobody else writes.  If an operator takes the hint off an entry between
  the listing and the write, the daemon still updates or deletes it: ownership is
  decided on the listing.  `WritesStayInClass` is what remains.
- `ShutdownIsNoFailure` says that an error caused by the cancellation is no
  failure.  A run that fails on its own account and is cancelled before it returns
  is not counted either, and no property objects.
- `DecodedIsReturned` is for documents without a range up to the largest number;
  with one, `Gather` never returns (`hostlist_wrap`).
- A command has a word, and a template parses: that is all that `RunsWithUsable`
  says of them.
- squeue is believed.  If it exits 0 with an empty job list while jobs run,
  every managed entry goes; the code cannot tell that from an idle cluster.
- A foreign entry with the SPIFFE ID, parent and selectors of a job makes the
  server refuse ours.  The job is covered; the creation is tried again on every
  pass.
- A running job that stops rendering or parsing loses its entry, by design.
- A restart with another hint or class name orphans all entries, which stay when
  their jobs end (`README.md` 120-123).  `EventuallyWithdrawn` speaks of the entries
  under the present markers.
- In auto mode a job whose `sluid` appears between two gathers changes its key;
  to `Syncer` that is one job ending and another beginning.
- The timeout kills squeue, but a child of squeue that keeps its output open
  would keep `cmd.Run` waiting (no `WaitDelay`); and no RPC has a deadline.
  Fairness assumes that both come to an end.
- `squeueCommand: [""]` passes validation and fails at every run; lifetimes below
  a second become 0, the server's default.
- Not modelled: the text of logs and errors, counters and histograms, the
  `/metrics` server, what `-validate` prints, templates as text, YAML and JSON as
  text, the split of a hostlist at its commas.

## Plan

Done: all components that keep or decide anything; the theorems above.

What could still be added:

1. `Fleet` shown to be `Syncer` several times over, by a refinement that keeps the
   listing and the batches.
2. Orphans that a change of hint left behind, once their jobs have ended, as state
   of their own: who removes them, and what they keep from being created.
