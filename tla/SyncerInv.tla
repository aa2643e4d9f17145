------------------------------- MODULE SyncerInv -------------------------------
(***************************************************************************)
(* The inductive invariants behind Syncer's safety properties.  MCSyncer   *)
(* checks them on small instances; SyncerProofs proves them inductive.     *)
(***************************************************************************)
EXTENDS Syncer

(***************************************************************************)
(* Everything the gauges count is finite.                                  *)
(***************************************************************************)
Finite ==
  /\ IsFiniteSet(store)
  /\ entries # Nil => IsFiniteSet(entries)
  /\ jobs # Nil => IsFiniteSet(jobs)
  /\ gathered # Nil => IsFiniteSet(gathered)
  /\ pass.jobs # Nil => IsFiniteSet(pass.jobs)
  /\ \A l \in Loops : IsFiniteSet(refresh[l].out)
  /\ IsFiniteSet(pass.plan.create) /\ IsFiniteSet(pass.plan.update)

TypeInv == TypeOK /\ Finite

(***************************************************************************)
(* Every entry the server, a snapshot, a listing or a plan holds.  An ID   *)
(* means the same job on the same node in all of them.                     *)
(***************************************************************************)
EntrySnapshot == IF entries = Nil THEN {} ELSE entries

Listed == store \cup EntrySnapshot \cup UNION {refresh[l].out : l \in Loops}

AllEntries == Listed \cup pass.plan.create \cup pass.plan.update

IDMeansKey == \A e, x \in AllEntries : e.id = x.id => entryKey(e) = entryKey(x)

(***************************************************************************)
(* What a list of job hosts may say of the present: no run that has not    *)
(* begun, and of a run that lasts, an account that renders.                *)
(***************************************************************************)
Truthful(hosts) ==
  \A h \in hosts :
    /\ SlotOf(h) \in Slots
    /\ h.run <= run[SlotOf(h)]
    /\ Eligible(SlotOf(h)) /\ h.run = run[SlotOf(h)] => h.account \in Renderable

\* The list shows the present run of slot s.
Shows(hosts, s) ==
  \E h \in hosts : /\ SlotOf(h) = s
                   /\ h.run = run[s]
                   /\ h.account \in Renderable

\* The list shows every slot some pass has acted on and whose run still lasts.
ShowsKnown(hosts) == \A s \in Slots : Known(s) => Shows(hosts, s)

\* The second list was read no earlier than the first.
NoEarlier(older, newer) ==
  \A s \in Slots : Eligible(s) /\ Shows(older, s) => Shows(newer, s)

Pipeline ==
  /\ \A s \in Slots : acted[s] <= run[s]
  /\ jobs # Nil => Truthful(jobs) /\ ShowsKnown(jobs)
  /\ gathered # Nil => Truthful(gathered) /\ ShowsKnown(gathered)
  /\ pass.jobs # Nil => Truthful(pass.jobs) /\ ShowsKnown(pass.jobs)
  /\ jobs # Nil /\ gathered # Nil => NoEarlier(jobs, gathered)

(***************************************************************************)
(* An ID awaiting deletion stands for no slot a pass has acted on whose    *)
(* run still lasts; there is a plan only while it is being applied.        *)
(***************************************************************************)
DeletesAreJustified ==
  \A e \in AllEntries, s \in Slots :
    e.id \in pass.plan.delete /\ entryKey(e) = SlotKey(s) => ~Known(s)

PlanOnlyApplying == pass.pc # "applying" => pass.plan = NoPlan

\* The invariant from which NoLiveWithdrawal follows.
WithdrawalInv == /\ IDMeansKey
                 /\ Pipeline
                 /\ DeletesAreJustified
                 /\ PlanOnlyApplying

(***************************************************************************)
(* Ownership.  Every entry of a snapshot, a listing or a plan carries the  *)
(* markers of the configuration in force, and so does every entry that an  *)
(* ID awaiting deletion can name; an ID means one hint as it means one     *)
(* key; a daemon that is down holds nothing, so that a new configuration   *)
(* never meets a plan of the one before; and no list of job hosts holds    *)
(* one slot twice.                                                         *)
(***************************************************************************)
Held == EntrySnapshot \cup pass.plan.create \cup pass.plan.update
          \cup UNION {refresh[l].out : l \in Loops}

HoldsOwned == \A e \in Held : Owns(cfg, e)

IDMeansHint == \A e, x \in AllEntries : e.id = x.id => e.hint = x.hint

DeletesAreOwned == \A e \in AllEntries : e.id \in pass.plan.delete => Owns(cfg, e)

DownHoldsNothing ==
  daemon = "down" => /\ entries = Nil /\ pass = NoPass
                     /\ refresh = [l \in Loops |-> NoRefresh]

OnePerSlot(hosts) == \A g, h \in hosts : SlotOf(g) = SlotOf(h) => g = h

OwnershipInv ==
  /\ HoldsOwned
  /\ IDMeansHint
  /\ DeletesAreOwned
  /\ DownHoldsNothing
  /\ jobs # Nil => OnePerSlot(jobs)
  /\ gathered # Nil => OnePerSlot(gathered)

(***************************************************************************)
(* What is left of it when others write as well: every entry held was      *)
(* owned when it was listed or made, and an ID awaiting deletion has the   *)
(* class.                                                                  *)
(***************************************************************************)
HoldsInClass ==
  /\ HoldsOwned
  /\ \A id \in pass.plan.delete : HasClass(id, cfg.className)

ClassInv == HoldsInClass /\ DownHoldsNothing
================================================================================
