------------------------------- MODULE HostList -------------------------------
(***************************************************************************)
(* slurm.ExpandHostList.  The list is already split at its top-level       *)
(* commas; an element is a sequence of parts: a plain name has the one     *)
(* part that stands for itself, a bracket group a part per component, and  *)
(* an element the parser rejects (brackets that do not match, a second     *)
(* group, an empty component, something that is no number) a malformed     *)
(* part.  Prefix and suffix are one label.                                 *)
(*                                                                         *)
(* Numbers are unsigned and Modulus wide (2^64 in the code), and so is     *)
(* their arithmetic.                                                       *)
(***************************************************************************)
EXTENDS Integers, Sequences, FiniteSets, SequencesExt

CONSTANTS
  Lists,      \* the hostlists: sequences of elements
  Modulus,    \* 2^64
  MaxHosts    \* maxExpandedHosts

Uint == 0 .. Modulus - 1

ASSUME SizeAssumption == Modulus \in Nat \ {0, 1} /\ MaxHosts \in 1 .. Modulus - 1

VARIABLES
  list,       \* the argument
  el, part,   \* the element and the part being expanded
  n,          \* the loop variable of a range, or -1
  hosts,      \* expandElement's out
  out,        \* ExpandHostList's out
  result      \* "running", "ok" or "error"

vars == <<list, el, part, n, hosts, out, result>>

\* Parts: a name or a single number, a range with the width of its low bound.
Single(label, text) == [kind |-> "single", host |-> <<label, text>>]
RangePart(label, low, high, width) ==
  [low |-> low, high |-> high, label |-> label, kind |-> "range", width |-> width]
Malformed == [kind |-> "malformed"]

Digits[k \in Nat] == IF k < 10 THEN 1 ELSE 1 + Digits[k \div 10]

\* fmt.Sprintf("%s%0*d%s"): a number is padded to the width, never cut.
Padded(r, k) == <<r.label, <<k, IF Digits[k] > r.width THEN Digits[k] ELSE r.width>>>>

Init ==
  /\ list \in Lists
  /\ el = 1 /\ part = 1 /\ n = -1
  /\ hosts = <<>> /\ out = <<>>
  /\ result = "running"

Expanding == result = "running" /\ el <= Len(list)
Component == list[el][part]

Fail == /\ result' = "error"
        /\ out' = <<>>
        /\ UNCHANGED <<list, el, part, n, hosts>>

\* Mutant: a finished range is not left.
NextPartInRange == part' = part + 1 /\ UNCHANGED n

NextPart == part' = part + 1 /\ n' = -1

Reject ==
  /\ Expanding /\ part <= Len(list[el]) /\ n = -1
  /\ Component.kind = "malformed"
  /\ Fail

AddSingle ==
  /\ Expanding /\ part <= Len(list[el])
  /\ Component.kind = "single"
  /\ hosts' = Append(hosts, Component.host)
  /\ NextPart
  /\ UNCHANGED <<list, el, out, result>>

\* Mutant: a range of one host too many is let through.
TooLongByTwo(r) == (r.high - r.low) % Modulus > MaxHosts

TooLong(r) == (r.high - r.low + 1) % Modulus > MaxHosts

EnterRange ==
  /\ Expanding /\ part <= Len(list[el]) /\ n = -1
  /\ Component.kind = "range"
  /\ IF Component.high < Component.low \/ TooLong(Component)
     THEN Fail
     ELSE n' = Component.low /\ UNCHANGED <<list, el, part, hosts, out, result>>

AddFromRange ==
  /\ Expanding /\ n # -1
  /\ IF n <= Component.high
     THEN /\ hosts' = Append(hosts, Padded(Component, n))
          /\ n' = (n + 1) % Modulus
          /\ UNCHANGED part
     ELSE NextPart /\ UNCHANGED hosts
  /\ UNCHANGED <<list, el, out, result>>

\* Mutant: the element's own hosts are not counted.
OverfullBefore == Len(out) > MaxHosts

Overfull == Len(out) + Len(hosts) > MaxHosts

CloseElement ==
  /\ Expanding /\ part > Len(list[el])
  /\ IF Overfull THEN Fail
     ELSE /\ out' = out \o hosts
          /\ el' = el + 1 /\ part' = 1 /\ hosts' = <<>>
          /\ UNCHANGED <<list, n, result>>

Return ==
  /\ result = "running" /\ el > Len(list)
  /\ result' = "ok"
  /\ UNCHANGED <<list, el, part, n, hosts, out>>

Next == Reject \/ AddSingle \/ EnterRange \/ AddFromRange \/ CloseElement \/ Return

Spec == Init /\ [][Next]_vars

-------------------------------------------------------------------------------
(***************************************************************************)
(* Properties.                                                             *)
(***************************************************************************)
TypeOK == /\ el \in 1 .. Len(list) + 1
          /\ el <= Len(list) => part \in 1 .. Len(list[el]) + 1
          /\ n \in Uint \cup {-1}
          /\ n # -1 => /\ el <= Len(list) /\ part <= Len(list[el])
                       /\ Component.kind = "range"
          /\ result \in {"running", "ok", "error"}

\* What a part stands for, by arithmetic without bounds.
Meaning(p) ==
  CASE p.kind = "single" -> <<p.host>>
    [] p.kind = "range"  -> [i \in 1 .. p.high - p.low + 1 |-> Padded(p, p.low + i - 1)]
    [] OTHER             -> <<>>

\* What an element stands for, and what a list does.
MeaningOf(e)   == FlattenSeq([k \in DOMAIN e |-> Meaning(e[k])])
ExpansionOf(l) == FlattenSeq([i \in DOMAIN l |-> MeaningOf(l[i])])

Bad(p) == \/ p.kind = "malformed"
          \/ p.kind = "range" /\ p.high < p.low

\* Malformed somewhere, or too many hosts.
Unreadable(l) == \/ \E i \in DOMAIN l : \E k \in DOMAIN l[i] : Bad(l[i][k])
                 \/ Len(ExpansionOf(l)) > MaxHosts

(***************************************************************************)
(* A list is refused exactly if it is malformed or stands for too many     *)
(* hosts, and otherwise expands to the hosts it stands for, in order       *)
(* (hostlist.go 9-30).                                                     *)
(***************************************************************************)
ExpandsExactly ==
  /\ result = "ok" => out = ExpansionOf(list)
  /\ result # "running" => (result = "error" <=> Unreadable(list))

(***************************************************************************)
(* What is held never outgrows the bound, once per component of a group    *)
(* (hostlist.go 9-12).                                                     *)
(***************************************************************************)
AllocationBounded ==
  /\ Len(out) <= MaxHosts
  /\ el <= Len(list) => Len(hosts) <= MaxHosts * Len(list[el])
===============================================================================
