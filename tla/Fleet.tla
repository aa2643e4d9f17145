--------------------------------- MODULE Fleet ---------------------------------
(***************************************************************************)
(* Several syncers at one SPIRE server: instances of the systemd template  *)
(* unit, each with its own markers, its own template and its own view of   *)
(* what Slurm runs.  They share nothing but the server's table.            *)
(*                                                                         *)
(* Syncer has the steps of one daemon; here a squeue run, a listing and    *)
(* each of the calls of a pass are one step, for what matters is how the   *)
(* passes of different daemons interleave between their calls.             *)
(***************************************************************************)
EXTENDS Reconcile, EntryClient

CONSTANTS
  Instances,
  Profile,     \* instance -> [className, hint, template, ttl]
  Slots,       \* the <<node, job>> pairs
  Seeds,       \* the entries at the outset
  UUIDs,
  Nil,         \* a nil snapshot pointer
  MaxEvents,   \* bound: jobs that start or end
  MaxFaults,   \* bound: calls that fail
  MaxCrashes   \* bound: instances that are killed

ASSUME ProfileAssumption ==
  \A i \in Instances : Profile[i].className \in Seq(STRING)
ASSUME UUIDAssumption == UUIDs \subseteq STRING
ASSUME SeedAssumption == \A e, x \in Seeds : e.id = x.id => e = x

VARIABLES
  running,     \* instance -> the slots its Slurm cluster runs
  table,       \* the SPIRE server's registration entries
  jobs,        \* instance -> its squeue snapshot, or Nil
  entries,     \* instance -> its entry snapshot, or Nil
  pc, plan,    \* instance -> reconcile in flight
  used         \* how much of each bound is spent

memory == <<jobs, entries, pc, plan>>
vars   == <<running, table, memory, used>>

Init ==
  /\ running \in [Instances -> SUBSET Slots]
  /\ table = Seeds
  /\ jobs = [i \in Instances |-> Nil]
  /\ entries = [i \in Instances |-> Nil]
  /\ pc = [i \in Instances |-> "idle"]
  /\ plan = [i \in Instances |-> NoPlan]
  /\ used = [events |-> 0, faults |-> 0, crashes |-> 0]

Spend(what, max) == /\ used[what] < max
                    /\ used' = [used EXCEPT ![what] = @ + 1]

desired(i, s) ==
  [parent |-> s[1], selectors |-> {s[2]}, spiffeID |-> <<Profile[i].template, s>>,
   ttl |-> Profile[i].ttl]

buildDesired(i) == {desired(i, s) : s \in jobs[i]}

-------------------------------------------------------------------------------
JobChanges(i, s) ==
  /\ Spend("events", MaxEvents)
  /\ running' = [running EXCEPT ![i] = IF s \in @ THEN @ \ {s} ELSE @ \cup {s}]
  /\ UNCHANGED <<table, memory>>

\* Mutant: squeue is run until it has answered once.
gatherJobsOnce(i) ==
  /\ jobs[i] = Nil
  /\ jobs' = [jobs EXCEPT ![i] = running[i]]
  /\ UNCHANGED <<running, table, entries, pc, plan, used>>

\* Mutant: an empty job list is not believed.
gatherSomeJobs(i) ==
  /\ jobs' = [jobs EXCEPT ![i] = IF running[i] = {} THEN @ ELSE running[i]]
  /\ UNCHANGED <<running, table, entries, pc, plan, used>>

gatherJobs(i) ==
  /\ jobs' = [jobs EXCEPT ![i] = running[i]]
  /\ UNCHANGED <<running, table, entries, pc, plan, used>>

ListManaged(i) == Owned(Profile[i], Visible(Profile[i], table))

gatherEntries(i) ==
  /\ entries' = [entries EXCEPT ![i] = ListManaged(i)]
  /\ UNCHANGED <<running, table, jobs, pc, plan, used>>

-------------------------------------------------------------------------------
(***************************************************************************)
(* A reconcile pass of one instance.                                       *)
(***************************************************************************)
PlanIDs(p) == IDs(p.create) \cup IDs(p.update) \cup p.delete

LiveIDs ==
  IDs(table) \cup
    UNION {PlanIDs(plan[j]) \cup (IF entries[j] = Nil THEN {} ELSE IDs(entries[j])) :
             j \in Instances}

FreshIDs(i, D) ==
  {f \in [D -> UUIDs] : /\ \A d, c \in D : f[d] = f[c] => d = c
                        /\ \A d \in D : Append(Profile[i].className, f[d]) \notin LiveIDs}

MakePlan(i) ==
  /\ pc[i] = "idle"
  /\ jobs[i] # Nil /\ entries[i] # Nil
  /\ \E wanted \in OnePerKey(buildDesired(i)),
        current \in OnePerKey(Owned(Profile[i], entries[i])) :
       LET fresh == FreshIDs(i, ToCreate(wanted, current))
           next  == Diff(wanted, current, Profile[i].className, Profile[i].hint,
                         CHOOSE f \in fresh : TRUE)
       IN /\ fresh # {}
          /\ ~Empty(next)
          /\ pc' = [pc EXCEPT ![i] = "applying"]
          /\ plan' = [plan EXCEPT ![i] = next]
  /\ UNCHANGED <<running, table, jobs, entries, used>>

(***************************************************************************)
(* A call: the server gets to all of the writes, or to some of them and    *)
(* the call fails.  Either way the pass goes on with the next one.         *)
(***************************************************************************)
Call(i, writes, reached) ==
  /\ pc[i] = "applying"
  /\ writes # {}
  /\ IF reached = writes THEN UNCHANGED used ELSE Spend("faults", MaxFaults)
  /\ UNCHANGED <<running, jobs, entries, pc>>

CreateCall(i) ==
  \E reached \in SUBSET plan[i].create :
    /\ Call(i, plan[i].create, reached)
    /\ table' = BatchCreateEntry(table, reached)
    /\ plan' = [plan EXCEPT ![i].create = {}]

UpdateCall(i) ==
  /\ plan[i].create = {}
  /\ \E reached \in SUBSET plan[i].update :
       /\ Call(i, plan[i].update, reached)
       /\ table' = BatchUpdateEntry(table, reached)
       /\ plan' = [plan EXCEPT ![i].update = {}]

DeleteCall(i) ==
  /\ plan[i].create = {} /\ plan[i].update = {}
  /\ \E reached \in SUBSET plan[i].delete :
       /\ Call(i, plan[i].delete, reached)
       /\ table' = BatchDeleteEntry(table, reached)
       /\ plan' = [plan EXCEPT ![i].delete = {}]

\* Mutant: a pass may end before its calls are made.
FinishEarly(i) ==
  /\ pc[i] = "applying"
  /\ pc' = [pc EXCEPT ![i] = "idle"]
  /\ entries' = [entries EXCEPT ![i] = ListManaged(i)]
  /\ UNCHANGED <<running, table, jobs, plan, used>>

\* The refresh at the end of apply, which may fail.
Finish(i) ==
  /\ pc[i] = "applying"
  /\ Empty(plan[i])
  /\ pc' = [pc EXCEPT ![i] = "idle"]
  /\ \/ entries' = [entries EXCEPT ![i] = ListManaged(i)] /\ UNCHANGED used
     \/ Spend("faults", MaxFaults) /\ UNCHANGED entries
  /\ UNCHANGED <<running, table, jobs, plan>>

Crash(i) ==
  /\ Spend("crashes", MaxCrashes)
  /\ jobs' = [jobs EXCEPT ![i] = Nil]
  /\ entries' = [entries EXCEPT ![i] = Nil]
  /\ pc' = [pc EXCEPT ![i] = "idle"]
  /\ plan' = [plan EXCEPT ![i] = NoPlan]
  /\ UNCHANGED <<running, table>>

-------------------------------------------------------------------------------
reconcile(i) == MakePlan(i) \/ CreateCall(i) \/ UpdateCall(i) \/ DeleteCall(i) \/ Finish(i)

Syncer(i) == gatherJobs(i) \/ gatherEntries(i) \/ reconcile(i) \/ Crash(i)

Next == \E i \in Instances : Syncer(i) \/ \E s \in Slots : JobChanges(i, s)

Spec == Init /\ [][Next]_vars

\* Each loop of each instance keeps running; a squeue or a listing that fails
\* changes nothing, and does not fail for ever.
FairSpec == Spec /\ \A i \in Instances : /\ WF_vars(gatherJobs(i))
                                        /\ WF_vars(gatherEntries(i))
                                        /\ WF_vars(reconcile(i))

-------------------------------------------------------------------------------
(***************************************************************************)
(* Properties.                                                             *)
(***************************************************************************)
\* The entry carries an ID that instance i could have drawn, and its hint.
MadeBy(e, i) == /\ \E u \in UUIDs : e.id = Append(Profile[i].className, u)
                /\ e.hint = Profile[i].hint

(***************************************************************************)
(* The markers keep the instances apart: of any two, the hints differ or   *)
(* neither's IDs carry the other's class; and what an instance would take  *)
(* for its own at the outset is its own.                                   *)
(***************************************************************************)
Separate ==
  /\ \A i, j \in Instances :
       \/ i = j
       \/ Profile[i].hint # Profile[j].hint
       \/ \A u \in UUIDs : ~HasClass(Append(Profile[j].className, u), Profile[i].className)
  /\ \A i \in Instances, e \in Seeds : Owns(Profile[i], e) => MadeBy(e, i)

IsPlan(p) == p = [create |-> p.create, update |-> p.update, delete |-> p.delete]

TypeOK == /\ DOMAIN running = Instances /\ DOMAIN jobs = Instances
          /\ entries = [i \in Instances |-> entries[i]]
          /\ pc \in [Instances -> {"idle", "applying"}]
          /\ plan = [i \in Instances |-> plan[i]]
          /\ \A i \in Instances : IsPlan(plan[i]) /\ (pc[i] = "idle" => Empty(plan[i]))

(***************************************************************************)
(* The inductive invariant, for instances that are kept apart: what an     *)
(* instance holds it made, what it would own it made, an ID means one      *)
(* hint, and what it is about to delete it made.                           *)
(***************************************************************************)
Held(i) == plan[i].create \cup plan[i].update
             \cup (IF entries[i] = Nil THEN {} ELSE entries[i])

AllEntries == table \cup UNION {Held(i) : i \in Instances}

HoldsItsOwn == \A i \in Instances : \A e \in Held(i) : MadeBy(e, i)

OwnsItsOwn == \A i \in Instances : \A e \in table : Owns(Profile[i], e) => MadeBy(e, i)

IDMeansHint == \A e, x \in AllEntries : e.id = x.id => e.hint = x.hint

DeletesItsOwn ==
  \A i \in Instances : \A e \in AllEntries : e.id \in plan[i].delete => MadeBy(e, i)

ApartInv == HoldsItsOwn /\ OwnsItsOwn /\ IDMeansHint /\ DeletesItsOwn

(***************************************************************************)
(* What one instance changes or removes is an entry it made itself, in     *)
(* this life or an earlier one (README.md 394-396, client.go 83-87).       *)
(***************************************************************************)
TouchesItsOwn(i) ==
  plan'[i] # plan[i] => \A e \in table : e \in table' \/ MadeBy(e, i)

EntriesOfOthersStay == [][\A i \in Instances : TouchesItsOwn(i)]_vars

(***************************************************************************)
(* No two instances have a write of the same entry in flight: the last     *)
(* word on an entry is never a race between two daemons (client.go 83-87). *)
(***************************************************************************)
WritesDisjoint ==
  \A i, j \in Instances : i # j => PlanIDs(plan[i]) \cap PlanIDs(plan[j]) = {}

(***************************************************************************)
(* Every instance's jobs end up with the identity its template gives them, *)
(* even those whose entry the server refused for as long as another        *)
(* instance's stood in its way (client.go 164-171).                        *)
(***************************************************************************)
EventuallyServed ==
  <>[](\A i \in Instances : \A s \in running[i] :
         \E e \in table : /\ entryKey(e) = desiredKey(desired(i, s))
                         /\ e.spiffeID = desired(i, s).spiffeID)

\* No instance leaves an entry of its own behind for a job that has ended.
EventuallyWithdrawn ==
  <>[](\A i \in Instances : \A e \in Owned(Profile[i], table) :
         \E s \in running[i] : entryKey(e) = desiredKey(desired(i, s)))
================================================================================
