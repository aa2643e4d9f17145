-------------------------------- MODULE MCFleet --------------------------------
(***************************************************************************)
(* Two instances at one server.                                            *)
(***************************************************************************)
EXTENDS Fleet

Slot1 == <<"n1", "j1">>

OneSlot  == {Slot1}
TwoSlots == {Slot1, <<"n1", "j2">>}

Named(className, template) ==
  [template |-> template, ttl |-> 1, className |-> className, hint |-> "slurm"]

\* Class names of which neither is a prefix of the other's IDs; one template, so
\* that each stands in the other's way.
Apart == [main   |-> Named(<<"slurm">>, "t1"),
          backup |-> Named(<<"slurm-backup">>, "t1")]

\* Two names that differ, one of which the other starts with, up to a dot.
Nested == [main   |-> Named(<<"slurm">>, "t1"),
           backup |-> Named(<<"slurm", "backup">>, "t1")]

Seed(id, hint, spiffeID, ttl) ==
  [ttl |-> ttl, hint |-> hint, id |-> id, spiffeID |-> spiffeID, parent |-> "n1",
   selectors |-> {"j1"}]

\* What an earlier backup with another lifetime left behind, and an entry of
\* somebody else.
Leftovers == {Seed(<<"slurm-backup", "u3">>, "slurm", <<"t1", Slot1>>, 2),
              Seed(<<"ops", "x1">>, "slurm", <<"t0", Slot1>>, 1)}
================================================================================
