------------------------------- MODULE MCSyncer -------------------------------
(***************************************************************************)
(* Small instances of Syncer.                                              *)
(***************************************************************************)
EXTENDS SyncerInv

Slot1 == <<"n1", "j1">>
Slot2 == <<"n1", "j2">>

OneSlot  == {Slot1}
TwoSlots == {Slot1, Slot2}

Class == <<"slurm">>

Configured(template, hint, ttl, dryRun) ==
  [template |-> template, ttl |-> ttl, dryRun |-> dryRun, className |-> Class,
   hint |-> hint]

\* Restarts that change the template, or the hint, or neither.
ThreeConfigs ==
  {Configured("t1", "slurm", 1, FALSE), Configured("t2", "slurm", 1, FALSE),
   Configured("t1", "other", 1, FALSE)}

TwoHints  == {c \in ThreeConfigs : c.template = "t1"}
OneConfig == {c \in TwoHints : c.hint = "slurm"}

DryConfigs ==
  {Configured("t1", "slurm", 1, FALSE), Configured("t1", "slurm", 2, TRUE)}

Seed(id, hint, slot, spiffeID) ==
  [ttl |-> 1, hint |-> hint, id |-> id, spiffeID |-> spiffeID, parent |-> slot[1],
   selectors |-> {slot[2]}]

\* One entry with the hint alone, which only gets in the way of a deletion, and
\* one with the prefix alone, which also covers the identity of account "b".
Strangers ==
  {Seed(<<"ops", "x1">>, "slurm", Slot1, <<"t0", "a">>),
   Seed(<<"slurm", "x2">>, "other", Slot1, <<"t1", "b">>)}

\* What an earlier daemon left behind: one entry of each slot, one outdated.
Leftovers ==
  {Seed(<<"slurm", "x3">>, "slurm", Slot1, <<"t2", "a">>),
   Seed(<<"slurm", "x4">>, "slurm", Slot2, <<"t1", "a">>)}

\* An outdated leftover of one slot, and an entry of others for the other slot,
\* which an operator may give the hint as well.
Mixed ==
  {Seed(<<"ops", "x1">>, "other", Slot1, <<"t2", "a">>),
   Seed(<<"slurm", "x4">>, "slurm", Slot2, <<"t2", "a">>)}

UUIDPool == {"u1", "u2", "u3", "u4", "u5", "u6"}
===============================================================================
