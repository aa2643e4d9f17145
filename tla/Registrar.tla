------------------------------- MODULE Registrar -------------------------------
(***************************************************************************)
(* What the daemon promises about the SPIRE server's table, without its    *)
(* loops, snapshots, passes, pages and batches, its crashes and restarts.  *)
(*                                                                         *)
(* Slots become live and cease to be.  A live slot may become known, and   *)
(* stays known while it is live.  The table changes in three ways only: an *)
(* entry under the registrar's own markers is added, one of its own is     *)
(* rewritten in place, or its own entries of slots that are not known are  *)
(* taken out.  The markers change only when the registrar is reconfigured. *)
(***************************************************************************)
EXTENDS Reconcile, EntryClient

CONSTANTS
  Slots,     \* what an entry can be for: pairs <<node, job>>
  Seeds,     \* the table at the outset
  Configs    \* what it can be configured as: className and hint are used

VARIABLES
  live,      \* the slots that should have an entry
  known,     \* those of them whose entries it will not withdraw
  table,     \* the entries
  cfg        \* its configuration

vars == <<live, known, table, cfg>>

\* The entry stands for slot s.
StandsFor(e, s) == entryKey(e) = <<s[1], {s[2]}>>

Init ==
  /\ live \in SUBSET Slots
  /\ known = {}
  /\ table = Seeds
  /\ cfg \in Configs

Begins(s) ==
  /\ s \notin live
  /\ live' = live \cup {s}
  /\ UNCHANGED <<known, table, cfg>>

Ends(s) ==
  /\ s \in live
  /\ live' = live \ {s}
  /\ known' = known \ {s}
  /\ UNCHANGED <<table, cfg>>

Learn ==
  /\ known' \in SUBSET live
  /\ known \subseteq known'
  /\ UNCHANGED <<live, table, cfg>>

\* What is added has a new ID, carries the markers and is similar to nothing
\* that was there.
Register ==
  /\ table \subseteq table'
  /\ \A e \in table' \ table : /\ Owns(cfg, e)
                               /\ e.id \notin IDs(table)
                               /\ \A x \in table : ~Similar(e, x)
  /\ UNCHANGED <<live, known, cfg>>

\* What is rewritten was owned and stays owned, and still stands for its slot.
Amend ==
  /\ IDs(table') = IDs(table)
  /\ \A e \in table : e \in table' \/ Owns(cfg, e)
  /\ \A e \in table' \ table : /\ Owns(cfg, e)
                               /\ \E x \in table : e.id = x.id /\ entryKey(e) = entryKey(x)
  /\ UNCHANGED <<live, known, cfg>>

Retire ==
  /\ table' \subseteq table
  /\ \A e \in table \ table' : /\ Owns(cfg, e)
                               /\ \A s \in known : ~StandsFor(e, s)
  /\ UNCHANGED <<live, known, cfg>>

Reconfigure(c) ==
  /\ cfg' = c
  /\ UNCHANGED <<live, known, table>>

Next == \/ \E s \in Slots : Begins(s) \/ Ends(s)
        \/ Learn
        \/ Register \/ Amend \/ Retire
        \/ \E c \in Configs : Reconfigure(c)

Spec == Init /\ [][Next]_vars
================================================================================
