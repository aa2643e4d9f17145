------------------------------ MODULE MCDiffLoop ------------------------------
(***************************************************************************)
(* Up to three desired and two existing entries, of two identities with    *)
(* two SPIFFE IDs each, ours or not.                                       *)
(***************************************************************************)
EXTENDS DiffLoop

OurOpts == [className |-> <<"slurm">>, hint |-> "slurm"]

UUIDSeq == <<"u1", "u2", "u3">>

Wants == {[parent |-> "n1", selectors |-> {j}, spiffeID |-> id, ttl |-> 1] :
            j \in {"j1", "j2"}, id \in {"a", "b"}}

SeqsUpTo(S, n) == UNION {[1 .. k -> S] : k \in 0 .. n}

Wanteds == SeqsUpTo(Wants, 3)

\* A want that was stored earlier, as the i-th entry listed.
Stored(d, labels, hint, i) == updatedEntry(Append(labels, UUIDSeq[i]), d, hint)

\* Two marks of ours, the first with UUIDs that NewID draws again.
Marks == {<<<<"slurm">>, "slurm">>, <<<<"slurm", "old">>, "slurm">>,
          <<<<"slurm">>, "other">>, <<<<"ops">>, "slurm">>}

Listings ==
  {[i \in DOMAIN rows |-> Stored(rows[i][1], rows[i][2][1], rows[i][2][2], i)] :
     rows \in SeqsUpTo(Wants \X Marks, 2)}
===============================================================================
