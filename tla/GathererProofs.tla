---------------------------- MODULE GathererProofs ----------------------------
(***************************************************************************)
(* Gatherer for every set of documents, every bound and every width of     *)
(* numbers: its types, what an expansion holds and returns, and what a     *)
(* gather returns.  All but the types need that no range ends at the       *)
(* largest number (the one at which the loop variable would wrap): without *)
(* that they are false, and HostListWrap.cfg shows the counterexample.     *)
(*                                                                         *)
(* The loops compute FlattenSeqs, and the names of a job are a recursive   *)
(* function.  Induction over their length is by the least number at which  *)
(* a claim would fail (Least, Induction).                                  *)
(***************************************************************************)
EXTENDS Gatherer, WellFoundedInduction, TLAPS

\* What is safe to expand: no range ends at the largest number.
PartSafe(p) == p.kind = "range" => p.low \in 0 .. Modulus - 1 /\ p.high \in 0 .. Modulus - 2

ListSafe(l) == /\ IsSeq(l)
               /\ \A i \in 1 .. Len(l) : /\ IsSeq(l[i])
                                         /\ \A k \in 1 .. Len(l[i]) : PartSafe(l[i][k])

JobsSafe(jobs) == \A i \in DOMAIN jobs :
  jobs[i].resources # NoResources => NoTop(DecodeNodes(jobs[i].resources.nodes).list)

\* How far a range is, and what hosts may hold then.
InRange == n # -1 =>
  /\ el <= Len(list) /\ part <= Len(list[el])
  /\ Component.kind = "range"
  /\ n \in Component.low .. Component.high + 1
  /\ Component.high - Component.low < MaxHosts
  /\ Len(hosts) <= MaxHosts * (part - 1) + (n - Component.low)

ExpandInv ==
  /\ IsSeq(hosts) /\ IsSeq(out) /\ ListSafe(list)
  /\ el \in 1 .. Len(list) + 1
  /\ el <= Len(list) => part \in 1 .. Len(list[el]) + 1
  /\ n \in Int
  /\ InRange
  /\ el <= Len(list) /\ n = -1 => Len(hosts) <= MaxHosts * (part - 1)
  /\ Len(out) <= MaxHosts
  /\ result \in {"running", "ok", "error"}

\* The first k sequences of F, one after the other; and the function FlattenSeq is made of.
Prefix(F, k)    == [i \in 1 .. k |-> F[i]]
Flat(F, k)      == FlattenSeq(Prefix(F, k))
IsFlat(f, s, k) == f = [i \in 1 .. k |-> IF i = 1 THEN s[i] ELSE f[i - 1] \o s[i]]

\* The meanings of the parts of an element, and of the elements of a list.
Parts(e) == [k \in 1 .. Len(e) |-> Meaning(e[k])]
Elems(l) == [i \in 1 .. Len(l) |-> MeaningOf(l[i])]

\* What the range being counted through has yielded so far.
Counted(p, upTo) == [i \in 1 .. upTo - p.low |-> Padded(p, p.low + i - 1)]
Half == IF n = -1 THEN <<>> ELSE Counted(Component, n)

\* The loops have the meaning of everything before them and have met nothing bad.
Sofar ==
  /\ out = Flat(Elems(list), el - 1)
  /\ \A i \in 1 .. el - 1 : \A k \in 1 .. Len(list[i]) : ~Bad(list[i][k])
  /\ el <= Len(list) =>
       /\ hosts = Flat(Parts(list[el]), part - 1) \o Half
       /\ \A k \in 1 .. part - 1 : ~Bad(list[el][k])
       /\ n # -1 => ~Bad(Component)

Faithful ==
  /\ result # "error" => Sofar
  /\ result = "error" => Unreadable(list)
  /\ result = "ok" => el > Len(list)

\* What decoded is typed, and nothing is recorded before it is.
TypeInv ==
  /\ GatherTypeOK
  /\ ListOK(list) /\ JobsOK(doc)
  /\ phase = "run" => at = 1 /\ records = <<>>
  /\ jobIdentifier \in {"auto", "job_id", "sluid"}

\* Records as the property speaks of them, and what the jobs contribute.
Entries(s)     == [i \in DOMAIN s |-> <<<<s[i].job, s[i].sluid>>, s[i].node>>]
Contribs(jobs) == [i \in 1 .. Len(jobs) |-> Contribution(jobs[i])]

\* The loop has the contribution of every job before the one it is at.
GatherInv ==
  /\ JobsSafe(doc)
  /\ IsSeq(records)
  /\ Entries(records) = Flat(Contribs(doc), at - 1)
  /\ phase = "expand" =>
       /\ ExpandedNames(Job.resources) = <<>>
       /\ list = DecodeNodes(Job.resources.nodes).list
  /\ phase = "done" => at = Len(doc) + 1

AllInv == TypeInv /\ ExpandInv /\ Faithful /\ GatherInv

\* The nodes named, one sequence for each allocation.
NodesOf(a) == [i \in 1 .. Len(a) |-> NodeOf(a[i])]

\* The function Names is made of.
IsNames(f, a) ==
  f = [k \in 0 .. Len(a) |-> IF k = 0 THEN <<>>
                             ELSE IF Name(a[k]) = NoName THEN f[k - 1]
                             ELSE Append(f[k - 1], Name(a[k]))]

NamesAt(f, a, k) == IF k = 0 THEN <<>>
                    ELSE IF Name(a[k]) = NoName THEN f[k - 1]
                    ELSE Append(f[k - 1], Name(a[k]))

\* What a job that is kept contributes, by the names it is found to have.
JobEntries(j, names) == [i \in DOMAIN names |-> <<KeyOf(j), names[i]>>]

-------------------------------------------------------------------------------
(***************************************************************************)
(* Sequences and products.                                                 *)
(***************************************************************************)
LEMMA SeqOfAny == ASSUME NEW S, NEW s \in Seq(S) PROVE IsSeq(s)
BY DEF IsSeq, Range

LEMMA AnySeq == ASSUME NEW s, IsSeq(s) PROVE \E S : s \in Seq(S)
BY DEF IsSeq

LEMMA Appended ==
  ASSUME NEW s, IsSeq(s), NEW e
  PROVE  IsSeq(Append(s, e)) /\ Len(s) \in Nat /\ Len(Append(s, e)) = Len(s) + 1
<1>1. PICK S : s \in Seq(S) /\ e \in S
  <2>1. PICK T : s \in Seq(T)
    BY AnySeq
  <2>2. s \in Seq(T \cup {e}) /\ e \in T \cup {e}
    BY <2>1
  <2> QED
    BY <2>2
<1>2. Append(s, e) \in Seq(S) /\ Len(s) \in Nat /\ Len(Append(s, e)) = Len(s) + 1
  BY <1>1
<1> QED
  BY <1>2, SeqOfAny

LEMMA ProductGrows ==
  ASSUME NEW m \in Nat, NEW a \in Int, NEW b \in Int, a <= b
  PROVE  m * a <= m * b
BY SMT

LEMMA ProductStep ==
  ASSUME NEW m \in Int, NEW a \in Int
  PROVE  m * (a + 1 - 1) = m * (a - 1) + m
BY SMT

LEMMA Least ==
  ASSUME NEW T, T \subseteq Nat, T # {}
  PROVE  \E m \in T : \A k \in T : m <= k
<1> DEFINE R == OpToRel(<, Nat)
<1>1. IsWellFoundedOn(R, Nat)
  BY NatLessThanWellFounded
<1>2. \A x, y \in Nat : x < y => <<x, y>> \in R
  BY DEF OpToRel
<1> HIDE DEF R
<1>3. PICK m \in T : \A y \in T : ~(<<y, m>> \in R)
  BY <1>1, WFMin
<1>4. ASSUME NEW k \in T PROVE m <= k
  <2>1. k \in Nat /\ m \in Nat /\ <<k, m>> \notin R
    BY <1>3
  <2>2. ~(k < m)
    BY <1>2, <2>1
  <2> QED
    BY <2>1, <2>2
<1> QED
  BY <1>4

LEMMA Induction ==
  ASSUME NEW S, 0 \in S, \A k \in Nat : k \in S => k + 1 \in S
  PROVE  Nat \subseteq S
<1> SUFFICES ASSUME Nat \ S # {} PROVE FALSE
  OBVIOUS
<1>1. PICK m \in Nat \ S : \A k \in Nat \ S : m <= k
  BY Least
<1>2. m # 0 /\ m - 1 \in Nat
  BY <1>1
<1>3. m - 1 \in S
  BY <1>1, <1>2
<1> QED
  BY <1>1, <1>2, <1>3

LEMMA Elements ==
  ASSUME NEW s, IsSeq(s)
  PROVE  Len(s) \in Nat /\ DOMAIN s = 1 .. Len(s) /\ s = [i \in 1 .. Len(s) |-> s[i]]
BY AnySeq

LEMMA Listing ==
  ASSUME NEW f, NEW k \in Nat
  PROVE  IsSeq([i \in 1 .. k |-> f[i]]) /\ Len([i \in 1 .. k |-> f[i]]) = k
<1> DEFINE S == {f[i] : i \in 1 .. k}
<1>1. \A i \in 1 .. k : f[i] \in S
  OBVIOUS
<1> HIDE DEF S
<1>2. [i \in 1 .. k |-> f[i]] \in Seq(S)
  BY <1>1
<1>3. IsSeq([i \in 1 .. k |-> f[i]])
  BY <1>2, SeqOfAny
<1> QED
  BY <1>2, <1>3

LEMMA SameElements ==
  ASSUME NEW s, IsSeq(s), NEW t, IsSeq(t), Len(s) = Len(t),
         \A i \in 1 .. Len(s) : s[i] = t[i]
  PROVE  s = t
BY Elements

LEMMA Concatenated ==
  ASSUME NEW s, IsSeq(s), NEW t, IsSeq(t)
  PROVE  /\ IsSeq(s \o t) /\ Len(s) \in Nat /\ Len(t) \in Nat
         /\ Len(s \o t) = Len(s) + Len(t)
         /\ \A i \in 1 .. Len(s \o t) : IF i <= Len(s) THEN (s \o t)[i] = s[i]
                                        ELSE (s \o t)[i] = t[i - Len(s)]
<1>1. PICK S : s \in Seq(S)
  BY AnySeq
<1>2. PICK T : t \in Seq(T)
  BY AnySeq
<1>3. PICK U : s \in Seq(U) /\ t \in Seq(U)
  <2>1. s \in Seq(S \cup T) /\ t \in Seq(S \cup T)
    BY <1>1, <1>2
  <2> QED
    BY <2>1
<1>4. s \o t \in Seq(U)
  BY <1>3
<1>5. IsSeq(s \o t)
  BY <1>4, SeqOfAny
<1> QED
  BY <1>3, <1>5

LEMMA EmptyIsSeq == IsSeq(<<>>) /\ Len(<<>>) = 0
<1>1. <<>> \in Seq({})
  OBVIOUS
<1> QED
  BY <1>1, SeqOfAny

LEMMA ConcatEmpty ==
  ASSUME NEW s, IsSeq(s)
  PROVE  <<>> \o s = s /\ s \o <<>> = s
BY AnySeq

LEMMA ConcatAssociates ==
  ASSUME NEW s, IsSeq(s), NEW t, IsSeq(t), NEW u, IsSeq(u)
  PROVE  (s \o t) \o u = s \o (t \o u)
<1>1. /\ IsSeq(s \o t) /\ IsSeq(t \o u) /\ IsSeq((s \o t) \o u) /\ IsSeq(s \o (t \o u))
  BY Concatenated
<1>2. Len((s \o t) \o u) = Len(s \o (t \o u))
  <2>1. Len(s \o t) = Len(s) + Len(t) /\ Len(t \o u) = Len(t) + Len(u)
    BY Concatenated
  <2>2. Len((s \o t) \o u) = Len(s \o t) + Len(u)
    BY <1>1, Concatenated
  <2>3. Len(s \o (t \o u)) = Len(s) + Len(t \o u)
    BY <1>1, Concatenated
  <2> QED
    BY <2>1, <2>2, <2>3, Elements
<1>3. PICK S : s \in Seq(S)
  BY AnySeq
<1>4. PICK T : t \in Seq(T)
  BY AnySeq
<1>5. PICK U : u \in Seq(U)
  BY AnySeq
<1>6. s \in Seq(S \cup T \cup U) /\ t \in Seq(S \cup T \cup U) /\ u \in Seq(S \cup T \cup U)
  BY <1>3, <1>4, <1>5
<1>7. ASSUME NEW i \in 1 .. Len((s \o t) \o u)
      PROVE  ((s \o t) \o u)[i] = (s \o (t \o u))[i]
  BY <1>6
<1> QED
  BY <1>1, <1>2, <1>7, SameElements

-------------------------------------------------------------------------------
(***************************************************************************)
(* What FlattenSeq computes, for sequences of any length.                  *)
(***************************************************************************)
LEMMA FlatExists ==
  ASSUME NEW s
  PROVE  \A k \in Nat : \E f : IsFlat(f, s, k)
<1> DEFINE S == {k \in Nat : \E f : IsFlat(f, s, k)}
<1>1. 0 \in S
  <2>1. IsFlat([i \in {} |-> 0], s, 0)
    BY DEF IsFlat
  <2> QED
    BY <2>1
<1>2. ASSUME NEW k \in Nat, k \in S PROVE k + 1 \in S
  <2>1. PICK f : IsFlat(f, s, k)
    BY <1>2
  <2> DEFINE g == [i \in 1 .. k + 1 |-> IF i <= k THEN f[i]
                                         ELSE IF i = 1 THEN s[i] ELSE f[i - 1] \o s[i]]
  <2>2. \A i \in 1 .. k : f[i] = IF i = 1 THEN s[i] ELSE f[i - 1] \o s[i]
    BY <2>1 DEF IsFlat
  <2>3. \A i \in 1 .. k + 1 : g[i] = IF i = 1 THEN s[i] ELSE g[i - 1] \o s[i]
    BY <2>2
  <2>4. g = [i \in 1 .. k + 1 |-> g[i]]
    OBVIOUS
  <2>5. IsFlat(g, s, k + 1)
    BY <2>3, <2>4 DEF IsFlat
  <2> QED
    BY <2>5
<1> HIDE DEF S
<1>3. Nat \subseteq S
  BY <1>1, <1>2, Induction
<1> QED
  BY <1>3 DEF S

LEMMA FlatAt ==
  ASSUME NEW f, NEW s, NEW k \in Nat, IsFlat(f, s, k), NEW i \in 1 .. k
  PROVE  f[i] = IF i = 1 THEN s[i] ELSE f[i - 1] \o s[i]
<1> DEFINE R(j) == IF j = 1 THEN s[j] ELSE f[j - 1] \o s[j]
<1>1. f = [j \in 1 .. k |-> R(j)]
  BY DEF IsFlat
<1> HIDE DEF R
<1>2. f[i] = R(i)
  BY <1>1
<1> QED
  BY <1>2 DEF R

LEMMA FlatUnique ==
  ASSUME NEW s, NEW t, NEW k \in Nat, NEW m \in 0 .. k, NEW f, NEW g,
         \A i \in 1 .. m : s[i] = t[i],
         IsFlat(f, s, m), IsFlat(g, t, k)
  PROVE  \A i \in 1 .. m : f[i] = g[i]
<1> DEFINE T == {i \in 1 .. m : f[i] # g[i]}
<1> SUFFICES ASSUME T # {} PROVE FALSE
  OBVIOUS
<1>0. T \subseteq Nat
  OBVIOUS
<1> HIDE DEF T
<1>1. PICK i \in T : \A j \in T : i <= j
  BY <1>0, Least
<1>5. i \in 1 .. m /\ i \in 1 .. k /\ f[i] # g[i] /\ m \in Nat
  BY DEF T
<1>2. /\ f[i] = IF i = 1 THEN s[i] ELSE f[i - 1] \o s[i]
      /\ g[i] = IF i = 1 THEN t[i] ELSE g[i - 1] \o t[i]
  BY <1>5, FlatAt
<1>3. i # 1 => f[i - 1] = g[i - 1]
  BY <1>1, <1>5 DEF T
<1> QED
  BY <1>2, <1>3, <1>5

LEMMA FlatOfNone == ASSUME NEW F PROVE Flat(F, 0) = <<>>
<1>1. Prefix(F, 0) = <<>>
  BY DEF Prefix
<1> QED
  BY <1>1, EmptyIsSeq DEF Flat, FlattenSeq

LEMMA FlatFunction ==
  ASSUME NEW F, NEW k \in Nat \ {0}
  PROVE  \E f : IsFlat(f, Prefix(F, k), k) /\ Flat(F, k) = f[k]
<1>1. Len(Prefix(F, k)) = k
  BY Listing DEF Prefix
<1> DEFINE s == Prefix(F, k)
           f == CHOOSE f : IsFlat(f, s, k)
<1>2. IsFlat(f, s, k)
  BY FlatExists
<1>3. FlattenSeq(s) = f[k]
  BY <1>1 DEF FlattenSeq, IsFlat
<1> QED
  BY <1>2, <1>3 DEF Flat

LEMMA FlatStep ==
  ASSUME NEW F, NEW k \in Nat, IsSeq(F[k + 1])
  PROVE  Flat(F, k + 1) = Flat(F, k) \o F[k + 1]
<1>1. PICK f : IsFlat(f, Prefix(F, k + 1), k + 1) /\ Flat(F, k + 1) = f[k + 1]
  BY FlatFunction
<1>2. f[k + 1] = IF k + 1 = 1 THEN F[k + 1] ELSE f[k] \o F[k + 1]
  BY <1>1, FlatAt DEF Prefix
<1>3. CASE k = 0
  <2>1. Flat(F, k) = <<>>
    BY <1>3, FlatOfNone
  <2>2. <<>> \o F[k + 1] = F[k + 1]
    BY ConcatEmpty
  <2>3. f[k + 1] = F[k + 1]
    BY <1>2, <1>3
  <2> QED
    BY <1>1, <2>1, <2>2, <2>3
<1>4. CASE k # 0
  <2>1. PICK g : IsFlat(g, Prefix(F, k), k) /\ Flat(F, k) = g[k]
    BY <1>4, FlatFunction
  <2>2. \A i \in 1 .. k : Prefix(F, k)[i] = Prefix(F, k + 1)[i]
    BY DEF Prefix
  <2>3. g[k] = f[k]
    <3>1. k + 1 \in Nat /\ k \in 0 .. k + 1 /\ k \in 1 .. k
      BY <1>4
    <3> QED
      BY <3>1, <1>1, <2>1, <2>2, FlatUnique
  <2>4. ~(k + 1 = 1)
    BY <1>4
  <2>5. f[k + 1] = f[k] \o F[k + 1]
    BY <1>2, <2>4, Zenon
  <2> QED
    BY <1>1, <2>1, <2>3, <2>5
<1> QED
  BY <1>3, <1>4

LEMMA FlatIsSeq ==
  ASSUME NEW F, NEW m \in Nat, \A i \in 1 .. m : IsSeq(F[i])
  PROVE  \A k \in 0 .. m : IsSeq(Flat(F, k))
<1> DEFINE S == {k \in Nat : k <= m => IsSeq(Flat(F, k))}
<1>1. 0 \in S
  BY FlatOfNone, EmptyIsSeq
<1>2. ASSUME NEW k \in Nat, k \in S PROVE k + 1 \in S
  <2> SUFFICES ASSUME k + 1 <= m PROVE IsSeq(Flat(F, k + 1))
    OBVIOUS
  <2>1. IsSeq(Flat(F, k)) /\ IsSeq(F[k + 1])
    BY <1>2
  <2>2. Flat(F, k + 1) = Flat(F, k) \o F[k + 1]
    BY <2>1, FlatStep
  <2>3. IsSeq(Flat(F, k) \o F[k + 1])
    BY <2>1, Concatenated
  <2> QED
    BY <2>2, <2>3
<1> HIDE DEF S
<1>3. Nat \subseteq S
  BY <1>1, <1>2, Induction
<1> QED
  BY <1>3 DEF S

LEMMA FlatGrows ==
  ASSUME NEW F, NEW m \in Nat, \A i \in 1 .. m : IsSeq(F[i]), NEW j \in 0 .. m
  PROVE  Len(Flat(F, j)) <= Len(Flat(F, m))
<1> DEFINE S == {k \in Nat : k >= j /\ k <= m => Len(Flat(F, j)) <= Len(Flat(F, k))}
<1>1. 0 \in S
  <2> SUFFICES ASSUME 0 >= j PROVE Len(Flat(F, j)) <= Len(Flat(F, 0))
    OBVIOUS
  <2>1. j = 0
    OBVIOUS
  <2> QED
    BY <2>1, FlatOfNone, EmptyIsSeq
<1>2. ASSUME NEW k \in Nat, k \in S PROVE k + 1 \in S
  <2> SUFFICES ASSUME k + 1 >= j, k + 1 <= m PROVE Len(Flat(F, j)) <= Len(Flat(F, k + 1))
    OBVIOUS
  <2>1. IsSeq(Flat(F, k)) /\ IsSeq(F[k + 1]) /\ IsSeq(Flat(F, j))
    BY FlatIsSeq
  <2>2. Len(Flat(F, k + 1)) = Len(Flat(F, k)) + Len(F[k + 1])
    BY <2>1, FlatStep, Concatenated
  <2>3. Len(Flat(F, k)) \in Nat /\ Len(F[k + 1]) \in Nat /\ Len(Flat(F, j)) \in Nat
    BY <2>1, Elements
  <2>4. CASE j = k + 1
    BY <2>3, <2>4
  <2>5. CASE j # k + 1
    <3>1. Len(Flat(F, j)) <= Len(Flat(F, k))
      BY <1>2, <2>5
    <3> QED
      BY <3>1, <2>2, <2>3
  <2> QED
    BY <2>4, <2>5
<1> HIDE DEF S
<1>3. Nat \subseteq S
  BY <1>1, <1>2, Induction
<1> QED
  BY <1>3 DEF S

\* ... and a part is no longer than the whole.
LEMMA FlatHolds ==
  ASSUME NEW F, NEW m \in Nat, \A i \in 1 .. m : IsSeq(F[i]), NEW j \in 1 .. m
  PROVE  Len(F[j]) <= Len(Flat(F, m))
<1>0. j - 1 \in 0 .. m /\ j - 1 \in Nat /\ j \in 0 .. m /\ (j - 1) + 1 = j
  OBVIOUS
<1>1. IsSeq(Flat(F, j - 1)) /\ IsSeq(F[j]) /\ IsSeq(Flat(F, j)) /\ IsSeq(Flat(F, m))
  BY <1>0, FlatIsSeq
<1>2. Flat(F, j) = Flat(F, j - 1) \o F[j]
  BY <1>0, <1>1, FlatStep
<1>3. Len(Flat(F, j)) = Len(Flat(F, j - 1)) + Len(F[j])
  BY <1>1, <1>2, Concatenated
<1>4. Len(Flat(F, j)) <= Len(Flat(F, m))
  BY <1>0, FlatGrows
<1>5. Len(F[j]) \in Nat /\ Len(Flat(F, j - 1)) \in Nat
  BY <1>1, Elements
<1>6. Len(Flat(F, j)) \in Nat /\ Len(Flat(F, m)) \in Nat
  BY <1>1, Elements
<1>7. \A a, b, c, d \in Nat : a = b + c /\ a <= d => c <= d
  OBVIOUS
<1> QED
  BY <1>3, <1>4, <1>5, <1>6, <1>7, Zenon

-------------------------------------------------------------------------------
(***************************************************************************)
(* The expansion.                                                          *)
(***************************************************************************)
LEMMA ExpandStepInv ==
  ASSUME ExpandInv, Next
  PROVE  ExpandInv' /\ list' = list
<1> USE SizeAssumption
<1>0. list' = list
  BY DEF Next, Reject, AddSingle, EnterRange, AddFromRange, CloseElement, Return, Fail
<1> SUFFICES ExpandInv'
  BY <1>0
<1>L. Len(hosts) \in Nat /\ Len(out) \in Nat /\ Len(list) \in Nat
  BY EmptyIsSeq, Appended DEF ExpandInv, ListSafe
<1>F. ASSUME Fail PROVE ExpandInv'
  BY <1>F, EmptyIsSeq DEF ExpandInv, Fail, InRange, Component
<1>1. CASE Reject
  BY <1>1, <1>F DEF Reject
<1>2. CASE AddSingle
  <2>1. /\ el \in 1 .. Len(list) /\ part \in 1 .. Len(list[el]) /\ Len(list[el]) \in Nat
        /\ Component.kind = "single"
    BY <1>2 DEF AddSingle, Expanding, ExpandInv, ListSafe
  <2>2. n = -1
    BY <2>1 DEF ExpandInv, InRange
  <2>3. part' = part + 1 /\ n' = -1 /\ UNCHANGED <<list, el, out, result>>
    BY <1>2 DEF AddSingle, NextPart
  <2>4. IsSeq(hosts') /\ Len(hosts') = Len(hosts) + 1
    BY <1>2, Appended DEF AddSingle, ExpandInv
  <2>5. Len(hosts) + 1 <= MaxHosts * (part' - 1)
    <3>1. Len(hosts) <= MaxHosts * (part - 1)
      BY <2>1, <2>2 DEF ExpandInv
    <3> QED
      BY <3>1, <2>1, <2>3, <1>L, ProductStep
  <2> QED
    BY <2>1, <2>2, <2>3, <2>4, <2>5 DEF ExpandInv, InRange
<1>3. CASE EnterRange
  <2>1. CASE Component.high < Component.low \/ TooLong(Component)
    BY <1>3, <2>1, <1>F DEF EnterRange
  <2>2. CASE ~(Component.high < Component.low \/ TooLong(Component))
    <3>1. /\ el \in 1 .. Len(list) /\ part \in 1 .. Len(list[el]) /\ Len(list[el]) \in Nat
          /\ Component.kind = "range" /\ n = -1
      BY <1>3 DEF EnterRange, Expanding, ExpandInv, ListSafe
    <3>2. Component.low \in 0 .. Modulus - 1 /\ Component.high \in 0 .. Modulus - 2
      BY <3>1 DEF ExpandInv, ListSafe, PartSafe, Component
    <3>3. Component.high - Component.low < MaxHosts
      <4>1. Component.high - Component.low + 1 \in 0 .. Modulus - 1
        BY <2>2, <3>2
      <4>2. (Component.high - Component.low + 1) % Modulus
              = Component.high - Component.low + 1
        BY <4>1
      <4> QED
        BY <2>2, <3>2, <4>2 DEF TooLong
    <3>4. n' = Component.low /\ UNCHANGED <<list, el, part, hosts, out, result>>
      BY <1>3, <2>2 DEF EnterRange
    <3>5. Component' = Component
      BY <3>4 DEF Component
    <3>6. Len(hosts) <= MaxHosts * (part - 1)
      BY <3>1 DEF ExpandInv
    <3>7. InRange'
      BY <3>1, <3>2, <3>3, <3>4, <3>5, <3>6, <1>L, <2>2 DEF InRange
    <3> QED
      BY <3>1, <3>2, <3>4, <3>7 DEF ExpandInv
  <2> QED
    BY <2>1, <2>2
<1>4. CASE AddFromRange
  <2>1. /\ el \in 1 .. Len(list) /\ part \in 1 .. Len(list[el]) /\ Len(list[el]) \in Nat
        /\ Component.kind = "range" /\ n \in Component.low .. Component.high + 1
        /\ Component.high - Component.low < MaxHosts
        /\ Len(hosts) <= MaxHosts * (part - 1) + (n - Component.low)
    BY <1>4 DEF AddFromRange, Expanding, ExpandInv, InRange, ListSafe
  <2>2. Component.low \in 0 .. Modulus - 1 /\ Component.high \in 0 .. Modulus - 2
    BY <2>1 DEF ExpandInv, ListSafe, PartSafe, Component
  <2>3. CASE n <= Component.high
    <3>1. n' = n + 1
      <4>1. n' = (n + 1) % Modulus
        BY <1>4, <2>3 DEF AddFromRange
      <4>2. n + 1 \in 0 .. Modulus - 1
        BY <2>1, <2>2, <2>3
      <4> QED
        BY <4>1, <4>2
    <3>2. UNCHANGED <<list, el, part, out, result>>
      BY <1>4, <2>3 DEF AddFromRange
    <3>3. IsSeq(hosts') /\ Len(hosts') = Len(hosts) + 1
      BY <1>4, <2>3, Appended DEF AddFromRange, ExpandInv
    <3>4. Component' = Component
      BY <3>2 DEF Component
    <3>5. n' \in Component.low .. Component.high + 1
      BY <2>1, <2>2, <2>3, <3>1
    <3>6. Len(hosts') <= MaxHosts * (part - 1) + (n' - Component.low)
      <4> DEFINE held == MaxHosts * (part - 1)
      <4>1. held \in Int /\ Len(hosts) <= held + (n - Component.low)
        BY <2>1
      <4> HIDE DEF held
      <4>3. n \in Int /\ Component.low \in Int /\ Len(hosts) \in Nat
        BY <1>L, <2>1, <2>2
      <4>2. Len(hosts') <= held + (n' - Component.low)
        BY <3>1, <3>3, <4>1, <4>3
      <4> QED
        BY <4>2 DEF held
    <3>7. InRange'
      BY <2>1, <3>2, <3>4, <3>5, <3>6 DEF InRange
    <3> QED
      BY <2>1, <2>2, <3>1, <3>2, <3>3, <3>7 DEF ExpandInv
  <2>4. CASE ~(n <= Component.high)
    <3>1. part' = part + 1 /\ n' = -1 /\ UNCHANGED <<list, el, hosts, out, result>>
      BY <1>4, <2>4 DEF AddFromRange, NextPart
    <3>2. Len(hosts) <= MaxHosts * (part - 1) + MaxHosts
      <4>1. n - Component.low <= MaxHosts
        BY <2>1, <2>2
      <4>2. MaxHosts * (part - 1) \in Int
        BY <2>1
      <4> QED
        BY <2>1, <2>2, <4>1, <4>2, <1>L
    <3>3. Len(hosts) <= MaxHosts * (part' - 1)
      BY <3>1, <3>2, <2>1, ProductStep
    <3> QED
      BY <2>1, <3>1, <3>3 DEF ExpandInv, InRange
  <2> QED
    BY <2>1, <2>2, <2>3, <2>4
<1>5. CASE CloseElement
  <2>1. CASE Overfull
    BY <1>5, <2>1, <1>F DEF CloseElement
  <2>2. CASE ~Overfull
    <3>1. /\ out' = out \o hosts /\ el' = el + 1 /\ part' = 1 /\ hosts' = <<>>
          /\ UNCHANGED <<list, n, result>>
      BY <1>5, <2>2 DEF CloseElement
    <3>2. el \in 1 .. Len(list) /\ n = -1
      BY <1>5 DEF CloseElement, Expanding, ExpandInv, InRange, ListSafe
    <3>3. IsSeq(out') /\ Len(out') <= MaxHosts
      BY <3>1, <2>2, <1>L, Concatenated DEF Overfull, ExpandInv
    <3>4. \A i \in 1 .. Len(list) : Len(list[i]) \in Nat
      BY DEF ExpandInv, ListSafe
    <3> QED
      BY <3>1, <3>2, <3>3, <3>4, <1>L, EmptyIsSeq DEF ExpandInv, InRange
  <2> QED
    BY <2>1, <2>2
<1>6. CASE Return
  BY <1>6 DEF Return, ExpandInv, InRange, Component
<1> QED
  BY <1>0, <1>1, <1>2, <1>3, <1>4, <1>5, <1>6 DEF Next

LEMMA BoundFollows == ExpandInv => AllocationBounded
<1> USE SizeAssumption
<1> SUFFICES ASSUME ExpandInv, el <= Len(list)
             PROVE  Len(hosts) <= MaxHosts * Len(list[el])
  BY DEF AllocationBounded, ExpandInv
<1>1. /\ Len(list[el]) \in Nat /\ part \in 1 .. Len(list[el]) + 1 /\ Len(hosts) \in Nat
      /\ el \in 1 .. Len(list) /\ n \in Int
  BY Appended DEF ExpandInv, ListSafe
<1>2. CASE n = -1
  <2>1. Len(hosts) <= MaxHosts * (part - 1)
    BY <1>2 DEF ExpandInv
  <2>2. MaxHosts * (part - 1) <= MaxHosts * Len(list[el])
    BY <1>1, ProductGrows
  <2> QED
    BY <1>1, <2>1, <2>2
<1>3. CASE n # -1
  <2>1. /\ part \in 1 .. Len(list[el]) /\ Component.kind = "range"
        /\ n \in Component.low .. Component.high + 1
        /\ Component.high - Component.low < MaxHosts
        /\ Len(hosts) <= MaxHosts * (part - 1) + (n - Component.low)
    BY <1>1, <1>3 DEF ExpandInv, InRange
  <2>2. Component.low \in 0 .. Modulus - 1 /\ Component.high \in 0 .. Modulus - 2
    BY <1>1, <2>1 DEF ExpandInv, ListSafe, PartSafe, Component
  <2>3. MaxHosts * (part - 1) + MaxHosts = MaxHosts * part
    BY <2>1
  <2>4. MaxHosts * part <= MaxHosts * Len(list[el])
    BY <1>1, <2>1, ProductGrows
  <2>5. n - Component.low <= MaxHosts
    BY <2>1, <2>2
  <2> DEFINE held == MaxHosts * (part - 1)
             all  == MaxHosts * Len(list[el])
  <2>6. /\ held \in Int /\ all \in Int /\ held + MaxHosts <= all
        /\ Len(hosts) <= held + (n - Component.low)
    BY <1>1, <2>1, <2>3, <2>4
  <2> HIDE DEF held, all
  <2>7. Len(hosts) <= all
    BY <1>1, <2>2, <2>5, <2>6
  <2> QED
    BY <2>7 DEF all
<1> QED
  BY <1>2, <1>3

-------------------------------------------------------------------------------
(***************************************************************************)
(* What an expansion has so far is what its list means so far.             *)
(***************************************************************************)
LEMMA Singleton == ASSUME NEW x PROVE IsSeq(<<x>>) /\ Len(<<x>>) = 1 /\ <<x>>[1] = x
<1>1. <<x>> \in Seq({x})
  OBVIOUS
<1> QED
  BY <1>1, SeqOfAny

LEMMA AppendedEnd ==
  ASSUME NEW s, IsSeq(s), NEW x
  PROVE  Append(s, x) = s \o <<x>> /\ IsSeq(<<x>>)
<1>1. PICK S : s \in Seq(S)
  BY AnySeq
<1>2. s \in Seq(S \cup {x}) /\ <<x>> \in Seq(S \cup {x})
  BY <1>1
<1>3. Append(s, x) = s \o <<x>>
  BY <1>2
<1> QED
  BY <1>3, Singleton

LEMMA MeaningIsSeq ==
  ASSUME NEW p, PartSafe(p)
  PROVE  /\ IsSeq(Meaning(p))
         /\ p.kind = "range" /\ p.high >= p.low => Len(Meaning(p)) = p.high - p.low + 1
<1>1. CASE p.kind = "single"
  <2>1. Meaning(p) = <<p.host>> /\ <<p.host>> \in Seq({p.host})
    BY <1>1 DEF Meaning
  <2>2. IsSeq(Meaning(p))
    BY <2>1, SeqOfAny
  <2> QED
    BY <2>2, <1>1
<1>2. CASE p.kind = "range"
  <2>1. p.low \in Int /\ p.high \in Int
    BY <1>2, SizeAssumption DEF PartSafe
  <2> DEFINE f == [i \in 1 .. p.high - p.low + 1 |-> Padded(p, p.low + i - 1)]
  <2>2. Meaning(p) = f
    BY <1>2 DEF Meaning
  <2>3. CASE p.high >= p.low
    <3> DEFINE k == p.high - p.low + 1
    <3>1. k \in Nat
      BY <2>1, <2>3
    <3>2. f = [i \in 1 .. k |-> f[i]]
      OBVIOUS
    <3> HIDE DEF f, k
    <3>3. IsSeq(f) /\ Len(f) = k
      BY <3>1, <3>2, Listing
    <3> QED
      BY <2>2, <3>3 DEF k
  <2>4. CASE ~(p.high >= p.low)
    <3>1. 1 .. p.high - p.low + 1 = {}
      BY <2>1, <2>4
    <3>2. f = <<>>
      BY <3>1
    <3> QED
      BY <2>2, <2>4, <3>2, EmptyIsSeq
  <2> QED
    BY <2>3, <2>4
<1>3. CASE p.kind \notin {"single", "range"}
  <2>1. Meaning(p) = <<>>
    BY <1>3 DEF Meaning
  <2> QED
    BY <1>3, <2>1, EmptyIsSeq
<1> QED
  BY <1>1, <1>2, <1>3

LEMMA ElementMeaning ==
  ASSUME NEW l, ListSafe(l), NEW i \in 1 .. Len(l)
  PROVE  /\ IsSeq(l[i]) /\ Len(l[i]) \in Nat
         /\ MeaningOf(l[i]) = Flat(Parts(l[i]), Len(l[i]))
         /\ \A k \in 1 .. Len(l[i]) :
              IsSeq(Parts(l[i])[k]) /\ Parts(l[i])[k] = Meaning(l[i][k])
         /\ IsSeq(MeaningOf(l[i]))
         /\ \A k \in 1 .. Len(l[i]) : Len(Meaning(l[i][k])) <= Len(MeaningOf(l[i]))
<1> DEFINE e == l[i]
<1>1. IsSeq(e) /\ \A k \in 1 .. Len(e) : PartSafe(e[k])
  BY DEF ListSafe
<1> HIDE DEF e
<1>2. Len(e) \in Nat /\ DOMAIN e = 1 .. Len(e)
  BY <1>1, Elements
<1>3. \A k \in 1 .. Len(e) : IsSeq(Parts(e)[k]) /\ Parts(e)[k] = Meaning(e[k])
  BY <1>1, MeaningIsSeq DEF Parts
<1>4. MeaningOf(e) = Flat(Parts(e), Len(e))
  <2>1. Prefix(Parts(e), Len(e)) = [k \in DOMAIN e |-> Meaning(e[k])]
    BY <1>2 DEF Prefix, Parts
  <2> QED
    BY <2>1 DEF MeaningOf, Flat
<1>5. IsSeq(MeaningOf(e))
  <2>1. Len(e) \in 0 .. Len(e)
    BY <1>2
  <2> QED
    BY <1>2, <1>3, <1>4, <2>1, FlatIsSeq
<1>6. \A k \in 1 .. Len(e) : Len(Meaning(e[k])) <= Len(MeaningOf(e))
  BY <1>2, <1>3, <1>4, FlatHolds
<1> QED
  BY <1>1, <1>2, <1>3, <1>4, <1>5, <1>6 DEF e

LEMMA ListMeaning ==
  ASSUME NEW l, ListSafe(l)
  PROVE  /\ Len(l) \in Nat
         /\ ExpansionOf(l) = Flat(Elems(l), Len(l))
         /\ \A i \in 1 .. Len(l) : IsSeq(Elems(l)[i]) /\ Elems(l)[i] = MeaningOf(l[i])
         /\ IsSeq(ExpansionOf(l))
         /\ \A i \in 1 .. Len(l) : Len(MeaningOf(l[i])) <= Len(ExpansionOf(l))
<1>1. Len(l) \in Nat /\ DOMAIN l = 1 .. Len(l)
  BY Elements DEF ListSafe
<1>2. \A i \in 1 .. Len(l) : IsSeq(Elems(l)[i]) /\ Elems(l)[i] = MeaningOf(l[i])
  BY ElementMeaning DEF Elems
<1>3. ExpansionOf(l) = Flat(Elems(l), Len(l))
  <2>1. Prefix(Elems(l), Len(l)) = [i \in DOMAIN l |-> MeaningOf(l[i])]
    BY <1>1 DEF Prefix, Elems
  <2> QED
    BY <2>1 DEF ExpansionOf, Flat
<1>4. IsSeq(ExpansionOf(l))
  <2>1. Len(l) \in 0 .. Len(l)
    BY <1>1
  <2> QED
    BY <1>1, <1>2, <1>3, <2>1, FlatIsSeq
<1>5. \A i \in 1 .. Len(l) : Len(MeaningOf(l[i])) <= Len(ExpansionOf(l))
  BY <1>1, <1>2, <1>3, FlatHolds
<1> QED
  BY <1>1, <1>2, <1>3, <1>4, <1>5

\* A part with too many hosts makes the list too long.
LEMMA LongPart ==
  ASSUME NEW l, ListSafe(l), NEW i \in 1 .. Len(l), NEW k \in 1 .. Len(l[i]),
         Len(Meaning(l[i][k])) > MaxHosts
  PROVE  Unreadable(l)
<1>1. Len(Meaning(l[i][k])) <= Len(MeaningOf(l[i])) /\ IsSeq(MeaningOf(l[i]))
      /\ IsSeq(Meaning(l[i][k]))
  BY ElementMeaning
<1>2. Len(MeaningOf(l[i])) <= Len(ExpansionOf(l)) /\ IsSeq(ExpansionOf(l))
  BY ListMeaning
<1>3. /\ Len(ExpansionOf(l)) \in Nat /\ Len(MeaningOf(l[i])) \in Nat
      /\ Len(Meaning(l[i][k])) \in Nat
  BY <1>1, <1>2, Elements
<1>4. \A a, b, c \in Nat : a > MaxHosts /\ a <= b /\ b <= c => c > MaxHosts
  BY SizeAssumption
<1>5. Len(ExpansionOf(l)) > MaxHosts
  BY <1>1, <1>2, <1>3, <1>4, Zenon
<1> QED
  BY <1>5 DEF Unreadable

LEMMA BadPart ==
  ASSUME NEW l, ListSafe(l), NEW i \in 1 .. Len(l), NEW k \in 1 .. Len(l[i]), Bad(l[i][k])
  PROVE  Unreadable(l)
<1>1. DOMAIN l = 1 .. Len(l) /\ DOMAIN l[i] = 1 .. Len(l[i])
  BY Elements DEF ListSafe
<1> QED
  BY <1>1 DEF Unreadable

LEMMA CountedStep ==
  ASSUME NEW p, PartSafe(p), p.kind = "range", NEW m \in p.low .. p.high
  PROVE  /\ IsSeq(Counted(p, m)) /\ Counted(p, m) \o <<Padded(p, m)>> = Counted(p, m + 1)
         /\ IsSeq(Counted(p, m + 1))
<1>1. p.low \in Int /\ p.high \in Int /\ m \in Int
  BY SizeAssumption DEF PartSafe
<1> DEFINE k == m - p.low
           f == [i \in 1 .. k |-> Padded(p, p.low + i - 1)]
           g == [i \in 1 .. k + 1 |-> Padded(p, p.low + i - 1)]
           h == <<Padded(p, m)>>
<1>2. k \in Nat /\ k + 1 = (m + 1) - p.low
  BY <1>1
<1>3. Counted(p, m) = f /\ Counted(p, m + 1) = g
  BY <1>2 DEF Counted
<1>4. f = [i \in 1 .. k |-> f[i]] /\ g = [i \in 1 .. k + 1 |-> g[i]]
  OBVIOUS
<1>5. /\ \A i \in 1 .. k : f[i] = g[i]
      /\ g[k + 1] = Padded(p, m)
  BY <1>1, <1>2
<1>6. IsSeq(h) /\ Len(h) = 1 /\ h[1] = Padded(p, m)
  BY Singleton
<1> HIDE DEF f, g, k, h
<1>7. IsSeq(f) /\ Len(f) = k /\ IsSeq(g) /\ Len(g) = k + 1
  BY <1>2, <1>4, Listing
<1>8. /\ IsSeq(f \o h) /\ Len(f \o h) = k + 1
      /\ \A i \in 1 .. k + 1 : IF i <= k THEN (f \o h)[i] = f[i] ELSE (f \o h)[i] = h[i - k]
  <2>1. Len(f \o h) = Len(f) + Len(h) /\ IsSeq(f \o h)
    BY <1>6, <1>7, Concatenated
  <2>2. Len(f \o h) = k + 1
    BY <1>6, <1>7, <2>1, Zenon
  <2>3. \A i \in 1 .. Len(f \o h) : IF i <= Len(f) THEN (f \o h)[i] = f[i]
                                    ELSE (f \o h)[i] = h[i - Len(f)]
    BY <1>6, <1>7, Concatenated
  <2> QED
    BY <1>7, <2>1, <2>2, <2>3
<1>9. \A i \in 1 .. k + 1 : (f \o h)[i] = g[i]
  <2> TAKE i \in 1 .. k + 1
  <2>1. CASE i <= k
    BY <1>2, <1>5, <1>8, <2>1
  <2>2. CASE ~(i <= k)
    <3>1. i = k + 1 /\ i - k = 1
      BY <1>2, <2>2
    <3> QED
      BY <1>5, <1>6, <1>8, <2>2, <3>1
  <2> QED
    BY <2>1, <2>2
<1>10. f \o h = g
  BY <1>7, <1>8, <1>9, SameElements
<1> QED
  BY <1>3, <1>7, <1>10 DEF h

LEMMA CountedWhole ==
  ASSUME NEW p, PartSafe(p), p.kind = "range", ~Bad(p)
  PROVE  /\ Counted(p, p.low) = <<>>
         /\ Counted(p, p.high + 1) = Meaning(p)
<1>1. p.low \in Int /\ p.high \in Int
  BY SizeAssumption DEF PartSafe
<1>2. p.low - p.low = 0 /\ (p.high + 1) - p.low = p.high - p.low + 1
  BY <1>1
<1>3. Counted(p, p.low) = <<>>
  BY <1>2 DEF Counted
<1> QED
  BY <1>2, <1>3 DEF Counted, Meaning

LEMMA FaithfulStep ==
  ASSUME ExpandInv, Faithful, Next
  PROVE  Faithful'
<1>0. list' = list /\ result = "running"
  BY DEF Next, Reject, AddSingle, EnterRange, AddFromRange, CloseElement, Return, Fail,
         Expanding
<1>A. /\ Sofar /\ ListSafe(list) /\ Len(list) \in Nat /\ el \in 1 .. Len(list) + 1
      /\ IsSeq(hosts) /\ IsSeq(out)
  BY <1>0, ListMeaning DEF Faithful, ExpandInv
<1> DEFINE e == list[el]
<1>B. ASSUME el <= Len(list)
      PROVE  /\ el \in 1 .. Len(list) /\ IsSeq(e) /\ Len(e) \in Nat /\ part \in 1 .. Len(e) + 1
             /\ \A k \in 1 .. Len(e) : /\ IsSeq(Parts(e)[k]) /\ Parts(e)[k] = Meaning(e[k])
                                       /\ PartSafe(e[k])
             /\ \A k \in 0 .. Len(e) : IsSeq(Flat(Parts(e), k))
             /\ hosts = Flat(Parts(e), part - 1) \o Half
             /\ \A k \in 1 .. part - 1 : ~Bad(e[k])
  <2>1. el \in 1 .. Len(list)
    BY <1>A, <1>B
  <2>2. /\ IsSeq(e) /\ Len(e) \in Nat
        /\ \A k \in 1 .. Len(e) : IsSeq(Parts(e)[k]) /\ Parts(e)[k] = Meaning(e[k])
    BY <1>A, <2>1, ElementMeaning
  <2>3. \A k \in 1 .. Len(e) : PartSafe(e[k])
    BY <1>A, <2>1 DEF ListSafe
  <2>4. part \in 1 .. Len(e) + 1
    BY <1>B DEF ExpandInv
  <2>5. hosts = Flat(Parts(e), part - 1) \o Half /\ \A k \in 1 .. part - 1 : ~Bad(e[k])
    BY <1>A, <1>B DEF Sofar
  <2>6. \A k \in 0 .. Len(e) : IsSeq(Flat(Parts(e), k))
    BY <2>2, FlatIsSeq
  <2> QED
    BY <2>1, <2>2, <2>3, <2>4, <2>5, <2>6
<1> HIDE DEF e
<1>F. ASSUME Fail, Unreadable(list) PROVE Faithful'
  BY <1>F, <1>0 DEF Fail, Faithful
\* The part that ends has yielded its meaning.
<1>N. ASSUME el <= Len(list), part <= Len(e), ~Bad(e[part]),
             hosts' = Flat(Parts(e), part - 1) \o Meaning(e[part]),
             NextPart, UNCHANGED <<list, el, out, result>>
      PROVE  Faithful'
  <2>1. /\ el \in 1 .. Len(list) /\ part \in 1 .. Len(e)
        /\ part - 1 \in Nat /\ (part - 1) + 1 = part /\ part \in 0 .. Len(e)
    BY <1>B, <1>N
  <2>2. Flat(Parts(e), part) = Flat(Parts(e), part - 1) \o Parts(e)[part]
    BY <1>B, <1>N, <2>1, FlatStep
  <2>3. hosts' = Flat(Parts(e), part)
    BY <1>B, <1>N, <2>1, <2>2
  <2>4. part' = part + 1 /\ n' = -1 /\ part' - 1 = part /\ list'[el'] = e
    BY <1>N, <2>1 DEF NextPart, e
  <2>5. Half' = <<>>
    BY <2>4 DEF Half
  <2>6. Flat(Parts(e), part) \o <<>> = Flat(Parts(e), part)
    BY <1>B, <1>N, <2>1, ConcatEmpty
  <2>7. hosts' = Flat(Parts(list'[el']), part' - 1) \o Half'
    BY <2>3, <2>4, <2>5, <2>6
  <2>8. \A k \in 1 .. part' - 1 : ~Bad(list'[el'][k])
    BY <1>B, <1>N, <2>1, <2>4
  <2>9. Sofar'
    BY <1>A, <1>N, <2>4, <2>7, <2>8 DEF Sofar
  <2> QED
    BY <1>0, <1>N, <2>9 DEF Faithful
<1>1. CASE Reject
  <2>1. /\ el <= Len(list) /\ part <= Len(list[el]) /\ Component.kind = "malformed"
        /\ Fail
    BY <1>1 DEF Reject, Expanding
  <2>2. el \in 1 .. Len(list) /\ part \in 1 .. Len(list[el]) /\ Bad(list[el][part])
    BY <1>B, <2>1 DEF Bad, Component, e
  <2> QED
    BY <1>A, <1>F, <2>1, <2>2, BadPart
<1>2. CASE AddSingle
  <2>1. /\ el <= Len(list) /\ part <= Len(e) /\ Component = e[part]
        /\ Component.kind = "single"
        /\ hosts' = Append(hosts, Component.host)
        /\ NextPart /\ UNCHANGED <<list, el, out, result>>
    BY <1>2 DEF AddSingle, Expanding, Component, e
  <2>2. n = -1
    BY <2>1 DEF ExpandInv, InRange
  <2>3. part - 1 \in 0 .. Len(e)
    BY <1>B, <2>1
  <2>4. hosts = Flat(Parts(e), part - 1)
    <3>1. Half = <<>>
      BY <2>2 DEF Half
    <3> QED
      BY <1>B, <2>1, <2>3, <3>1, ConcatEmpty
  <2>5. ~Bad(e[part]) /\ Meaning(e[part]) = <<Component.host>>
    BY <2>1 DEF Bad, Meaning
  <2>6. hosts' = Flat(Parts(e), part - 1) \o Meaning(e[part])
    BY <1>A, <2>1, <2>4, <2>5, AppendedEnd
  <2> QED
    BY <1>N, <2>1, <2>5, <2>6
<1>3. CASE EnterRange
  <2>1. /\ el <= Len(list) /\ part <= Len(e) /\ Component = e[part] /\ n = -1
        /\ Component.kind = "range"
    BY <1>3 DEF EnterRange, Expanding, Component, e
  <2>2. el \in 1 .. Len(list) /\ part \in 1 .. Len(e) /\ PartSafe(Component)
    BY <1>B, <2>1
  <2>3. Component.low \in 0 .. Modulus - 1 /\ Component.high \in 0 .. Modulus - 2
    BY <2>1, <2>2 DEF PartSafe
  <2>4. CASE Component.high < Component.low
    <3>1. Fail
      BY <1>3, <2>4 DEF EnterRange
    <3>2. Bad(list[el][part]) /\ part \in 1 .. Len(list[el])
      BY <2>1, <2>2, <2>4 DEF Bad, e
    <3> QED
      BY <1>A, <1>F, <2>2, <3>1, <3>2, BadPart
  <2>5. CASE ~(Component.high < Component.low) /\ TooLong(Component)
    <3>1. Fail
      BY <1>3, <2>5 DEF EnterRange
    <3>2. Len(Meaning(Component)) = Component.high - Component.low + 1
      BY <2>1, <2>2, <2>3, <2>5, MeaningIsSeq, SizeAssumption
    <3>3. (Component.high - Component.low + 1) % Modulus
            = Component.high - Component.low + 1
      <4>1. Component.high - Component.low + 1 \in 0 .. Modulus - 1
        BY <2>3, <2>5, SizeAssumption
      <4> QED
        BY <4>1, SizeAssumption
    <3>4. Len(Meaning(list[el][part])) > MaxHosts /\ part \in 1 .. Len(list[el])
      BY <2>1, <2>2, <2>5, <3>2, <3>3 DEF TooLong, e
    <3> QED
      BY <1>A, <1>F, <2>2, <3>1, <3>4, LongPart
  <2>6. CASE ~(Component.high < Component.low) /\ ~TooLong(Component)
    <3>1. n' = Component.low /\ UNCHANGED <<list, el, part, hosts, out, result>>
      BY <1>3, <2>6 DEF EnterRange
    <3>2. Component' = Component /\ ~Bad(Component)
      BY <2>1, <2>6, <3>1 DEF Component, Bad
    <3>3. Half = <<>> /\ Half' = <<>>
      <4>1. Half = <<>>
        BY <2>1 DEF Half
      <4>2. Half' = Counted(Component, Component.low)
        BY <2>3, <3>1, <3>2, SizeAssumption DEF Half
      <4> QED
        BY <2>1, <2>2, <3>2, <4>1, <4>2, CountedWhole
    <3>4. list'[el'] = e
      BY <3>1 DEF e
    <3>5. hosts' = Flat(Parts(list'[el']), part' - 1) \o Half'
      BY <1>B, <2>1, <3>1, <3>3, <3>4
    <3>6. \A k \in 1 .. part' - 1 : ~Bad(list'[el'][k])
      BY <1>B, <2>1, <3>1, <3>4
    <3>7. Sofar'
      BY <1>A, <3>1, <3>2, <3>5, <3>6 DEF Sofar
    <3> QED
      BY <1>0, <3>1, <3>7 DEF Faithful
  <2> QED
    BY <2>4, <2>5, <2>6
<1>4. CASE AddFromRange
  <2>1. /\ el <= Len(list) /\ n # -1 /\ part <= Len(e) /\ Component = e[part]
        /\ Component.kind = "range" /\ n \in Component.low .. Component.high + 1
    BY <1>4 DEF AddFromRange, Expanding, ExpandInv, InRange, Component, e
  <2>2. /\ el \in 1 .. Len(list) /\ part \in 1 .. Len(e) /\ part - 1 \in 0 .. Len(e)
        /\ PartSafe(Component) /\ ~Bad(Component)
    <3>1. ~Bad(Component)
      BY <1>A, <2>1 DEF Sofar
    <3> QED
      BY <1>B, <2>1, <3>1
  <2>3. Component.low \in 0 .. Modulus - 1 /\ Component.high \in 0 .. Modulus - 2
    BY <2>1, <2>2 DEF PartSafe
  <2>4. hosts = Flat(Parts(e), part - 1) \o Counted(Component, n)
    BY <1>B, <2>1 DEF Half
  <2>5. CASE n <= Component.high
    <3>1. n' = n + 1
      <4>1. n' = (n + 1) % Modulus
        BY <1>4, <2>5 DEF AddFromRange
      <4>2. n + 1 \in 0 .. Modulus - 1
        BY <2>1, <2>3, <2>5, SizeAssumption
      <4> QED
        BY <4>1, <4>2, SizeAssumption
    <3>2. /\ hosts' = Append(hosts, Padded(Component, n))
          /\ UNCHANGED <<list, el, part, out, result>>
      BY <1>4, <2>5 DEF AddFromRange
    <3>3. Component' = Component /\ list'[el'] = e
      BY <3>2 DEF Component, e
    <3>4. Half' = Counted(Component, n + 1)
      <4>1. n' # -1
        BY <2>1, <2>3, <3>1, SizeAssumption
      <4> QED
        BY <3>1, <3>3, <4>1 DEF Half
    <3>5. n \in Component.low .. Component.high
      BY <2>1, <2>3, <2>5, SizeAssumption
    <3>6. /\ IsSeq(Counted(Component, n))
          /\ Counted(Component, n) \o <<Padded(Component, n)>> = Counted(Component, n + 1)
      BY <2>1, <2>2, <3>5, CountedStep
    <3>7. hosts' = Flat(Parts(e), part - 1) \o Counted(Component, n + 1)
      <4>1. hosts' = hosts \o <<Padded(Component, n)>> /\ IsSeq(<<Padded(Component, n)>>)
        BY <1>A, <3>2, AppendedEnd
      <4>2. IsSeq(Flat(Parts(e), part - 1))
        BY <1>B, <2>1, <2>2
      <4> DEFINE before == Flat(Parts(e), part - 1)
                 half   == Counted(Component, n)
                 host   == <<Padded(Component, n)>>
      <4>3. hosts = before \o half
        BY <2>4
      <4> HIDE DEF before, half, host
      <4>4. (before \o half) \o host = before \o (half \o host)
        BY <3>6, <4>1, <4>2, ConcatAssociates DEF before, half, host
      <4>5. hosts' = before \o (half \o host)
        BY <4>1, <4>3, <4>4 DEF host
      <4> QED
        BY <3>6, <4>5 DEF before, half, host
    <3>8. hosts' = Flat(Parts(list'[el']), part' - 1) \o Half'
      BY <3>2, <3>3, <3>4, <3>7
    <3>9. \A k \in 1 .. part' - 1 : ~Bad(list'[el'][k])
      BY <1>B, <2>1, <3>2, <3>3
    <3>10. Sofar'
      BY <1>A, <2>2, <3>2, <3>3, <3>8, <3>9 DEF Sofar
    <3> QED
      BY <1>0, <3>2, <3>10 DEF Faithful
  <2>6. CASE ~(n <= Component.high)
    <3>1. NextPart /\ UNCHANGED <<hosts, list, el, out, result>>
      BY <1>4, <2>6 DEF AddFromRange
    <3>2. n = Component.high + 1
      BY <2>1, <2>3, <2>6, SizeAssumption
    <3>3. hosts' = Flat(Parts(e), part - 1) \o Meaning(e[part])
      BY <2>1, <2>2, <2>4, <3>1, <3>2, CountedWhole
    <3> QED
      BY <1>N, <2>1, <2>2, <3>1, <3>3
  <2> QED
    BY <2>5, <2>6
<1>5. CASE CloseElement
  <2>1. el \in 1 .. Len(list) /\ part = Len(e) + 1 /\ Len(e) \in Nat /\ el <= Len(list)
    <3>1. el <= Len(list) /\ part > Len(e)
      BY <1>5 DEF CloseElement, Expanding, e
    <3> QED
      BY <1>A, <1>B, <3>1
  <2>2. n = -1
    BY <1>A, <2>1 DEF ExpandInv, InRange, e
  <2>3. hosts = MeaningOf(e)
    <3>1. Half = <<>> /\ part - 1 = Len(e) /\ Len(e) \in 0 .. Len(e)
      BY <2>1, <2>2 DEF Half
    <3>2. MeaningOf(e) = Flat(Parts(e), Len(e))
      BY <1>A, <2>1, ElementMeaning DEF e
    <3>3. IsSeq(Flat(Parts(e), Len(e))) /\ hosts = Flat(Parts(e), Len(e)) \o <<>>
      BY <1>B, <2>1, <3>1
    <3> QED
      BY <3>2, <3>3, ConcatEmpty
  <2>4. out \o hosts = Flat(Elems(list), el)
    <3>1. el - 1 \in Nat /\ (el - 1) + 1 = el
      BY <2>1
    <3>2. IsSeq(Elems(list)[el]) /\ Elems(list)[el] = hosts
      BY <1>A, <2>1, <2>3, ListMeaning DEF e
    <3>3. Flat(Elems(list), el) = Flat(Elems(list), el - 1) \o Elems(list)[el]
      BY <3>1, <3>2, FlatStep
    <3> QED
      BY <1>A, <3>2, <3>3 DEF Sofar
  <2>5. CASE Overfull
    <3>1. Fail
      BY <1>5, <2>5 DEF CloseElement
    <3>2. Len(out \o hosts) = Len(out) + Len(hosts)
      BY <1>A, Concatenated
    <3>3. /\ Len(Flat(Elems(list), el)) <= Len(Flat(Elems(list), Len(list)))
          /\ IsSeq(Flat(Elems(list), Len(list)))
      <4>1. /\ \A i \in 1 .. Len(list) : IsSeq(Elems(list)[i])
            /\ el \in 0 .. Len(list) /\ Len(list) \in 0 .. Len(list)
        BY <1>A, <2>1, ListMeaning
      <4> QED
        BY <1>A, <4>1, FlatGrows, FlatIsSeq
    <3>4. Len(ExpansionOf(list)) > MaxHosts
      <4>1. \A a, b \in Nat : a > MaxHosts /\ a <= b => b > MaxHosts
        BY SizeAssumption
      <4>2. Len(Flat(Elems(list), el)) > MaxHosts
        BY <2>4, <2>5, <3>2 DEF Overfull
      <4>3. Len(Flat(Elems(list), el)) \in Nat /\ Len(Flat(Elems(list), Len(list))) \in Nat
        BY <1>A, <2>4, <3>3, Concatenated, Elements
      <4> QED
        BY <1>A, <3>3, <4>1, <4>2, <4>3, ListMeaning, Zenon
    <3>5. Unreadable(list)
      BY <3>4 DEF Unreadable
    <3> QED
      BY <1>F, <3>1, <3>5
  <2>6. CASE ~Overfull
    <3>1. /\ out' = out \o hosts /\ el' = el + 1 /\ part' = 1 /\ hosts' = <<>>
          /\ UNCHANGED <<list, n, result>>
      BY <1>5, <2>6 DEF CloseElement
    <3>2. out' = Flat(Elems(list'), el' - 1)
      BY <2>1, <2>4, <3>1
    <3>3. \A i \in 1 .. el' - 1 : \A k \in 1 .. Len(list'[i]) : ~Bad(list'[i][k])
      <4>1. \A k \in 1 .. Len(e) : ~Bad(e[k])
        BY <1>B, <2>1
      <4>2. \A i \in 1 .. el - 1 : \A k \in 1 .. Len(list[i]) : ~Bad(list[i][k])
        BY <1>A DEF Sofar
      <4> QED
        BY <2>1, <3>1, <4>1, <4>2 DEF e
    <3>4. hosts' = Flat(Parts(list'[el']), part' - 1) \o Half'
      <4>1. Half' = <<>> /\ part' - 1 = 0
        BY <2>2, <3>1 DEF Half
      <4>2. Flat(Parts(list'[el']), 0) = <<>>
        BY FlatOfNone
      <4>3. <<>> \o <<>> = <<>>
        BY EmptyIsSeq, ConcatEmpty
      <4> QED
        BY <3>1, <4>1, <4>2, <4>3
    <3>5. \A k \in 1 .. part' - 1 : ~Bad(list'[el'][k])
      BY <3>1
    <3>6. n' = -1
      BY <2>2, <3>1
    <3>7. Sofar'
      BY <3>2, <3>3, <3>4, <3>5, <3>6 DEF Sofar
    <3> QED
      BY <1>0, <3>1, <3>7 DEF Faithful
  <2> QED
    BY <2>5, <2>6
<1>6. CASE Return
  <2>1. /\ el > Len(list) /\ result' = "ok"
        /\ UNCHANGED <<list, el, part, n, hosts, out>>
    BY <1>6 DEF Return
  <2>2. Sofar'
    BY <1>A, <2>1 DEF Sofar, Half, Component
  <2> QED
    BY <2>1, <2>2 DEF Faithful
<1> QED
  BY <1>1, <1>2, <1>3, <1>4, <1>5, <1>6 DEF Next

LEMMA ExactFollows == ASSUME ExpandInv, Faithful PROVE ExpandsExactly
<1>1. ListSafe(list) /\ el \in 1 .. Len(list) + 1
  BY DEF ExpandInv
<1>2. ASSUME result = "ok" PROVE out = ExpansionOf(list) /\ ~Unreadable(list)
  <2>1. Sofar /\ el = Len(list) + 1 /\ Len(list) \in Nat /\ el - 1 = Len(list)
    BY <1>1, <1>2, ListMeaning DEF Faithful
  <2>2. out = ExpansionOf(list)
    BY <1>1, <2>1, ListMeaning DEF Sofar
  <2>3. \A i \in 1 .. Len(list) : \A k \in 1 .. Len(list[i]) : ~Bad(list[i][k])
    BY <2>1 DEF Sofar
  <2>4. /\ DOMAIN list = 1 .. Len(list)
        /\ \A i \in 1 .. Len(list) : DOMAIN list[i] = 1 .. Len(list[i])
    BY <1>1, Elements DEF ListSafe
  <2>5. Len(out) \in Nat /\ Len(out) <= MaxHosts
    BY Elements DEF ExpandInv
  <2>6. ~(Len(ExpansionOf(list)) > MaxHosts)
    <3>1. \A a \in Nat : a <= MaxHosts => ~(a > MaxHosts)
      BY SizeAssumption
    <3> QED
      BY <2>2, <2>5, <3>1
  <2> QED
    BY <2>2, <2>3, <2>4, <2>6 DEF Unreadable
<1>3. result \in {"running", "ok", "error"}
  BY DEF ExpandInv
<1> QED
  BY <1>2, <1>3 DEF ExpandsExactly, Faithful

-------------------------------------------------------------------------------
(***************************************************************************)
(* Types.                                                                  *)
(***************************************************************************)
LEMMA ExpandTypes ==
  ASSUME TypeOK, ListOK(list), Next
  PROVE  TypeOK' /\ list' = list
<1> USE SizeAssumption
<1>0. list' = list /\ result = "running" /\ result' \in {"running", "ok", "error"}
  BY DEF Next, Reject, AddSingle, EnterRange, AddFromRange, CloseElement, Return, Fail,
         Expanding, TypeOK
<1>L. Len(list) \in Nat /\ DOMAIN list = 1 .. Len(list)
  BY Elements DEF ListOK
<1>E. ASSUME el <= Len(list)
      PROVE  /\ el \in 1 .. Len(list) /\ Len(list[el]) \in Nat /\ part \in 1 .. Len(list[el]) + 1
             /\ \A k \in 1 .. Len(list[el]) : PartOK(list[el][k])
  <2>1. el \in 1 .. Len(list) /\ part \in 1 .. Len(list[el]) + 1
    BY <1>E, <1>L DEF TypeOK
  <2>2. IsSeq(list[el]) /\ \A k \in DOMAIN list[el] : PartOK(list[el][k])
    BY <1>L, <2>1 DEF ListOK
  <2> QED
    BY <2>1, <2>2, Elements
<1>F. ASSUME UNCHANGED <<list, el, part, n>> PROVE TypeOK'
  BY <1>0, <1>F DEF TypeOK, Component
<1>N. ASSUME el <= Len(list), part <= Len(list[el]), NextPart, UNCHANGED <<list, el, result>>
      PROVE  TypeOK'
  <2>1. part' \in 1 .. Len(list[el]) + 1 /\ n' = -1 /\ el' = el
    BY <1>E, <1>N DEF NextPart
  <2> QED
    BY <1>0, <1>E, <1>N, <2>1 DEF TypeOK
<1>1. CASE Reject
  BY <1>1, <1>F DEF Reject, Fail
<1>2. CASE AddSingle
  BY <1>2, <1>N DEF AddSingle, Expanding
<1>3. CASE EnterRange
  <2>1. CASE Component.high < Component.low \/ TooLong(Component)
    BY <1>3, <2>1, <1>F DEF EnterRange, Fail
  <2>2. CASE ~(Component.high < Component.low \/ TooLong(Component))
    <3>1. /\ el <= Len(list) /\ part <= Len(list[el]) /\ Component.kind = "range"
          /\ n' = Component.low /\ UNCHANGED <<list, el, part, result>>
      BY <1>3, <2>2 DEF EnterRange, Expanding
    <3>2. Component.low \in Uint
      BY <1>E, <3>1 DEF Component, PartOK
    <3>3. Component' = Component
      BY <3>1 DEF Component
    <3> QED
      BY <1>0, <1>E, <3>1, <3>2, <3>3 DEF TypeOK
  <2> QED
    BY <2>1, <2>2
<1>4. CASE AddFromRange
  <2>1. /\ el <= Len(list) /\ n \in Uint /\ part <= Len(list[el]) /\ Component.kind = "range"
        /\ UNCHANGED <<list, el, out, result>>
    BY <1>4 DEF AddFromRange, Expanding, TypeOK
  <2>2. CASE n <= Component.high
    <3>1. n' = (n + 1) % Modulus /\ part' = part
      BY <1>4, <2>2 DEF AddFromRange
    <3>2. n' \in Uint
      <4>1. n + 1 \in Int /\ Modulus \in Int /\ Modulus > 0
        BY <2>1 DEF Uint
      <4>2. (n + 1) % Modulus \in 0 .. Modulus - 1
        BY <4>1
      <4> QED
        BY <3>1, <4>2 DEF Uint
    <3>3. Component' = Component
      BY <2>1, <3>1 DEF Component
    <3> QED
      BY <1>0, <1>E, <2>1, <3>1, <3>2, <3>3 DEF TypeOK
  <2>3. CASE ~(n <= Component.high)
    BY <1>4, <1>N, <2>1, <2>3 DEF AddFromRange
  <2> QED
    BY <2>2, <2>3
<1>5. CASE CloseElement
  <2>1. CASE Overfull
    BY <1>5, <2>1, <1>F DEF CloseElement, Fail
  <2>2. CASE ~Overfull
    <3>1. /\ el <= Len(list) /\ part > Len(list[el])
          /\ el' = el + 1 /\ part' = 1 /\ UNCHANGED <<list, n, result>>
      BY <1>5, <2>2 DEF CloseElement, Expanding
    <3>2. n = -1 /\ el' \in 1 .. Len(list) + 1
      BY <1>E, <1>L, <3>1 DEF TypeOK
    <3>3. el' <= Len(list) => Len(list[el']) \in Nat
      <4> SUFFICES ASSUME el' <= Len(list) PROVE Len(list[el']) \in Nat
        OBVIOUS
      <4>1. el' \in DOMAIN list
        BY <1>L, <3>2
      <4>2. IsSeq(list[el'])
        BY <4>1 DEF ListOK
      <4> QED
        BY <4>2, Elements
    <3> QED
      BY <1>0, <3>1, <3>2, <3>3 DEF TypeOK
  <2> QED
    BY <2>1, <2>2
<1>6. CASE Return
  BY <1>6, <1>F DEF Return
<1> QED
  BY <1>0, <1>1, <1>2, <1>3, <1>4, <1>5, <1>6 DEF Next

LEMMA EmptyList == ListOK(<<>>) /\ JobsOK(<<>>) /\ DOMAIN <<>> = {}
<1>1. DOMAIN <<>> = 1 .. 0
  BY EmptyIsSeq, Elements
<1>2. 1 .. 0 = {}
  OBVIOUS
<1> QED
  BY <1>1, <1>2, EmptyIsSeq DEF ListOK, JobsOK

LEMMA InitTypes == ASSUME GatherInit PROVE TypeInv
<1>1. Len(<<>>) = 0
  BY EmptyIsSeq
<1> QED
  BY <1>1, EmptyList DEF GatherInit, TypeInv, GatherTypeOK, TypeOK

LEMMA StepTypes ==
  ASSUME TypeInv, [GatherNext]_<<gatherVars, vars>>
  PROVE  TypeInv'
<1>A. Len(doc) \in Nat /\ DOMAIN doc = 1 .. Len(doc)
  BY Elements DEF TypeInv, JobsOK
<1>R. ASSUME UNCHANGED vars PROVE TypeOK' /\ ListOK(list)' /\ (result' = result)
  BY <1>R DEF vars, TypeInv, GatherTypeOK, TypeOK, Component
<1>1. CASE RunFails
  BY <1>1, <1>R DEF RunFails, TypeInv, GatherTypeOK
<1>2. CASE RunPrints
  <2>1. PICK document \in Documents :
          IF Decodes(document) THEN phase' = "parse" /\ doc' = document.jobs
                               ELSE phase' = "failed" /\ UNCHANGED doc
    BY <1>2 DEF RunPrints
  <2>2. JobsOK(doc')
    BY <2>1, DocumentsAssumption DEF TypeInv
  <2>3. at' = at /\ at = 1 /\ phase' \in {"parse", "failed"} /\ result # "running"
    BY <1>2, <2>1 DEF RunPrints, TypeInv, GatherTypeOK
  <2>4. at' \in 1 .. Len(doc') + 1
    <3>1. Len(doc') \in Nat
      BY <2>2, Elements DEF JobsOK
    <3> QED
      BY <2>3, <3>1
  <2> QED
    BY <1>2, <1>R, <2>2, <2>3, <2>4 DEF RunPrints, TypeInv, GatherTypeOK
<1>3. CASE SkipJob
  BY <1>3, <1>R, <1>A DEF SkipJob, Parsing, TypeInv, GatherTypeOK
<1>4. CASE TakeExpanded
  BY <1>4, <1>R, <1>A DEF TakeExpanded, Parsing, TypeInv, GatherTypeOK
<1>5. CASE CallExpand
  <2>1. Kept(Job) /\ Job.resources # NoResources /\ at \in DOMAIN doc
    BY <1>5, <1>A DEF CallExpand, Parsing, Kept, TypeInv, GatherTypeOK
  <2>2. ListOK(list')
    BY <1>5, <2>1 DEF CallExpand, TypeInv, JobsOK, ResourcesOK, Job
  <2>3. /\ el' = 1 /\ part' = 1 /\ n' = -1 /\ result' = "running" /\ phase' = "expand"
        /\ UNCHANGED <<jobIdentifier, doc, at, records>> /\ at <= Len(doc)
    BY <1>5 DEF CallExpand, Parsing
  <2>4. Len(list') \in Nat /\ (1 <= Len(list') => Len(list'[1]) \in Nat)
    <3>1. Len(list') \in Nat /\ DOMAIN list' = 1 .. Len(list')
      BY <2>2, Elements DEF ListOK
    <3>2. ASSUME 1 <= Len(list') PROVE Len(list'[1]) \in Nat
      <4>1. IsSeq(list'[1])
        BY <2>2, <3>1, <3>2 DEF ListOK
      <4> QED
        BY <4>1, Elements
    <3> QED
      BY <3>1, <3>2
  <2>5. TypeOK'
    BY <2>3, <2>4 DEF TypeOK
  <2>6. Kept(Job)' /\ (at \in 1 .. Len(doc) + 1)'
    BY <2>1, <2>3 DEF Kept, Job, identify, TypeInv, GatherTypeOK
  <2> QED
    BY <2>2, <2>3, <2>5, <2>6 DEF TypeInv, GatherTypeOK
<1>6. CASE ExpandStep
  <2>1. phase = "expand" /\ Next /\ UNCHANGED gatherVars
    BY <1>6 DEF ExpandStep
  <2>2. TypeOK' /\ list' = list
    BY <2>1, ExpandTypes DEF TypeInv, GatherTypeOK
  <2>3. Kept(Job)' <=> Kept(Job)
    BY <2>1 DEF gatherVars, Kept, Job, identify
  <2> QED
    BY <2>1, <2>2, <2>3 DEF gatherVars, TypeInv, GatherTypeOK
<1>7. CASE TakeExpansion
  BY <1>7, <1>R, <1>A DEF TakeExpansion, TypeInv, GatherTypeOK
<1>8. CASE ReturnHosts
  BY <1>8, <1>R DEF ReturnHosts, TypeInv, GatherTypeOK
<1>9. CASE UNCHANGED <<gatherVars, vars>>
  BY <1>9, <1>R DEF gatherVars, TypeInv, GatherTypeOK, Kept, Job, identify
<1> QED
  BY <1>1, <1>2, <1>3, <1>4, <1>5, <1>6, <1>7, <1>8, <1>9 DEF GatherNext, Parse

(***************************************************************************)
(* Whatever squeue prints, the indexes stay within what they index, the    *)
(* loop variable of a range is an unsigned number (it wraps rather than    *)
(* leaves its type), only a job that is kept is expanded, and no expansion *)
(* is under way outside its call (squeue.go 199-264, hostlist.go).         *)
(***************************************************************************)
THEOREM GatherTypesCorrect == GatherSpec => []GatherTypeOK
<1>1. GatherInit => TypeInv
  BY InitTypes
<1>2. TypeInv /\ [GatherNext]_<<gatherVars, vars>> => TypeInv'
  BY StepTypes
<1>3. TypeInv => GatherTypeOK
  BY DEF TypeInv
<1> QED
  BY <1>1, <1>2, <1>3, PTL DEF GatherSpec

-------------------------------------------------------------------------------
(***************************************************************************)
(* The helpers of the loop compute what the properties define.             *)
(***************************************************************************)
LEMMA NamesDiffer == Blank # NoName
BY DEF Blank, NoName

LEMMA NodeOfName ==
  ASSUME NEW a
  PROVE  NodeOf(a) = IF Name(a) = NoName THEN <<>> ELSE <<Name(a)>>
<1>1. CASE a.name = Blank
  BY <1>1, NamesDiffer DEF NodeOf, Name, TrimSpace
<1>2. CASE a.name # Blank /\ a.name # NoName
  BY <1>2, NamesDiffer DEF NodeOf, Name, TrimSpace
<1>3. CASE a.name = NoName
  BY <1>3, NamesDiffer DEF NodeOf, Name, TrimSpace
<1> QED
  BY <1>1, <1>2, <1>3

LEMMA NamedIs ==
  ASSUME NEW a, IsSeq(a)
  PROVE  /\ Named(a) = Flat(NodesOf(a), Len(a))
         /\ \A i \in 1 .. Len(a) : IsSeq(NodesOf(a)[i])
         /\ IsSeq(Named(a))
<1>1. Len(a) \in Nat /\ DOMAIN a = 1 .. Len(a)
  BY Elements
<1>2. \A i \in 1 .. Len(a) : IsSeq(NodesOf(a)[i])
  BY NodeOfName, Singleton, EmptyIsSeq DEF NodesOf
<1>3. Named(a) = Flat(NodesOf(a), Len(a))
  <2>1. Prefix(NodesOf(a), Len(a)) = [i \in DOMAIN a |-> NodeOf(a[i])]
    BY <1>1 DEF Prefix, NodesOf
  <2> QED
    BY <2>1 DEF Named, Flat
<1>4. IsSeq(Named(a))
  <2>1. Len(a) \in 0 .. Len(a)
    BY <1>1
  <2> QED
    BY <1>1, <1>2, <1>3, <2>1, FlatIsSeq
<1> QED
  BY <1>2, <1>3, <1>4

LEMMA NamesFlat ==
  ASSUME NEW a, IsSeq(a), NEW k \in 0 .. Len(a)
  PROVE  Flat(NodesOf(a), k) =
           IF k = 0 THEN <<>>
           ELSE IF Name(a[k]) = NoName THEN Flat(NodesOf(a), k - 1)
           ELSE Append(Flat(NodesOf(a), k - 1), Name(a[k]))
<1>1. Len(a) \in Nat
  BY Elements
<1>2. CASE k = 0
  BY <1>2, FlatOfNone
<1>3. CASE k # 0
  <2>1. k - 1 \in Nat /\ (k - 1) + 1 = k /\ k \in 1 .. Len(a) /\ k - 1 \in 0 .. Len(a)
    BY <1>1, <1>3
  <2>2. IsSeq(NodesOf(a)[k]) /\ NodesOf(a)[k] = NodeOf(a[k])
    BY <2>1, NamedIs DEF NodesOf
  <2>3. IsSeq(Flat(NodesOf(a), k - 1))
    BY <1>1, <2>1, NamedIs, FlatIsSeq
  <2>4. Flat(NodesOf(a), k) = Flat(NodesOf(a), k - 1) \o NodeOf(a[k])
    BY <2>1, <2>2, FlatStep
  <2>5. CASE Name(a[k]) = NoName
    <3>1. NodeOf(a[k]) = <<>>
      BY <2>5, NodeOfName
    <3> QED
      BY <1>3, <2>3, <2>4, <2>5, <3>1, ConcatEmpty
  <2>6. CASE Name(a[k]) # NoName
    <3>1. NodeOf(a[k]) = <<Name(a[k])>>
      BY <2>6, NodeOfName
    <3> QED
      BY <1>3, <2>3, <2>4, <2>6, <3>1, AppendedEnd
  <2> QED
    BY <2>5, <2>6
<1> QED
  BY <1>2, <1>3

LEMMA NamesAreNamed ==
  ASSUME NEW a, IsSeq(a)
  PROVE  Names(a) = Named(a)
<1>1. Len(a) \in Nat
  BY Elements
<1> DEFINE g == [k \in 0 .. Len(a) |-> Flat(NodesOf(a), k)]
<1>2. IsNames(g, a)
  <2>1. \A k \in 0 .. Len(a) : g[k] = NamesAt(g, a, k)
    <3> TAKE k \in 0 .. Len(a)
    <3>1. k # 0 => k - 1 \in 0 .. Len(a)
      BY <1>1
    <3>2. k # 0 => g[k - 1] = Flat(NodesOf(a), k - 1)
      BY <3>1
    <3>3. g[k] = Flat(NodesOf(a), k)
      OBVIOUS
    <3> HIDE DEF g
    <3> QED
      BY <3>2, <3>3, NamesFlat DEF NamesAt
  <2>2. g = [k \in 0 .. Len(a) |-> g[k]]
    OBVIOUS
  <2> HIDE DEF g
  <2>3. g = [k \in 0 .. Len(a) |-> NamesAt(g, a, k)]
    BY <2>1, <2>2
  <2> QED
    BY <2>3 DEF IsNames, NamesAt
<1> DEFINE f == CHOOSE f : IsNames(f, a)
<1>3. IsNames(f, a)
  <2> HIDE DEF g
  <2> QED
    BY <1>2
<1>4. Names(a) = f[Len(a)]
  BY DEF Names, IsNames
<1>5. ASSUME NEW h, IsNames(h, a), NEW k \in 0 .. Len(a)
      PROVE  h[k] = NamesAt(h, a, k)
  <2>1. h = [i \in 0 .. Len(a) |-> NamesAt(h, a, i)]
    BY <1>5 DEF IsNames, NamesAt
  <2> QED
    BY <2>1
<1> HIDE DEF f
<1>6. \A k \in 0 .. Len(a) : f[k] = Flat(NodesOf(a), k)
  <2> DEFINE T == {k \in 0 .. Len(a) : f[k] # Flat(NodesOf(a), k)}
  <2> SUFFICES ASSUME T # {} PROVE FALSE
    OBVIOUS
  <2>1. T \subseteq Nat
    BY <1>1
  <2> HIDE DEF T
  <2>2. PICK k \in T : \A j \in T : k <= j
    BY <2>1, Least
  <2>3. k \in 0 .. Len(a) /\ f[k] # Flat(NodesOf(a), k)
    BY DEF T
  <2>4. f[k] = NamesAt(f, a, k)
    BY <1>3, <1>5, <2>3
  <2>5. k # 0 => f[k - 1] = Flat(NodesOf(a), k - 1)
    BY <1>1, <2>2, <2>3 DEF T
  <2> QED
    BY <2>3, <2>4, <2>5, NamesFlat DEF NamesAt
<1>7. Len(a) \in 0 .. Len(a)
  BY <1>1
<1> QED
  BY <1>4, <1>6, <1>7, NamedIs

LEMMA CoresAgree == ASSUME NEW r PROVE coreAllocated(r) <=> HoldsCores(r)
<1> DEFINE nested == DecodeNodes(r.nodes).selectType
<1>1. nested = IF r.nodes.shape = "object" THEN r.nodes.selectType ELSE {}
  BY DEF DecodeNodes
<1> HIDE DEF nested
<1>2. coreAllocated(r) <=>
        IF (IF r.selectType = {} THEN nested ELSE r.selectType) # {}
        THEN (IF r.selectType = {} THEN nested ELSE r.selectType) \cap CoreTypes # {}
        ELSE r.allocatedCores > 0
  BY DEF coreAllocated, nested
<1>3. HoldsCores(r) <=>
        \/ \E t \in CoreTypes : t \in r.selectType \/ (r.selectType = {} /\ t \in nested)
        \/ r.selectType = {} /\ nested = {} /\ r.allocatedCores > 0
  BY <1>1 DEF HoldsCores
<1>4. CASE r.selectType # {}
  BY <1>2, <1>3, <1>4
<1>5. CASE r.selectType = {}
  BY <1>2, <1>3, <1>5
<1> QED
  BY <1>4, <1>5

LEMMA KeysAgree ==
  ASSUME jobIdentifier \in {"auto", "job_id", "sluid"}, NEW j
  PROVE  /\ <<identify(j).job, identify(j).sluid>> = KeyOf(j)
         /\ identify(j) # Unidentified <=> KeyOf(j) # <<None, None>>
<1>1. CASE jobIdentifier = "job_id"
  BY <1>1 DEF identify, KeyOf, Unidentified
<1>2. CASE jobIdentifier = "sluid"
  BY <1>2 DEF identify, KeyOf, Unidentified
<1>3. CASE jobIdentifier = "auto" /\ j.sluid # None
  BY <1>3 DEF identify, KeyOf, Unidentified
<1>4. CASE jobIdentifier = "auto" /\ j.sluid = None
  BY <1>4 DEF identify, KeyOf, Unidentified
<1> QED
  BY <1>1, <1>2, <1>3, <1>4

-------------------------------------------------------------------------------
(***************************************************************************)
(* What is recorded for a job is what the job contributes.                 *)
(***************************************************************************)
LEMMA KeptContributes ==
  ASSUME jobIdentifier \in {"auto", "job_id", "sluid"}, NEW j
  PROVE  Contribution(j) = IF Kept(j) THEN JobEntries(j, Nodes(j.resources)) ELSE <<>>
<1>1. /\ Kept(j) <=> /\ j.running /\ j.resources # NoResources
                     /\ coreAllocated(j.resources) /\ identify(j) # Unidentified
  BY DEF Kept
<1>2. /\ coreAllocated(j.resources) <=> HoldsCores(j.resources)
      /\ identify(j) # Unidentified <=> KeyOf(j) # <<None, None>>
  BY CoresAgree, KeysAgree
<1>3. Kept(j) <=> /\ j.running /\ j.resources # NoResources /\ KeyOf(j) # <<None, None>>
                  /\ HoldsCores(j.resources)
  BY <1>1, <1>2
<1>4. Contribution(j) = IF /\ j.running /\ j.resources # NoResources
                           /\ KeyOf(j) # <<None, None>> /\ HoldsCores(j.resources)
                        THEN JobEntries(j, Nodes(j.resources)) ELSE <<>>
  BY DEF Contribution, JobEntries
<1> QED
  BY <1>3, <1>4, Zenon

LEMMA NodesFound ==
  ASSUME NEW r, ResourcesOK(r)
  PROVE  /\ IsSeq(ExpandedNames(r))
         /\ Nodes(r) = IF ExpandedNames(r) # <<>> THEN ExpandedNames(r)
                       ELSE IF Unreadable(DecodeNodes(r.nodes).list) THEN <<>>
                       ELSE ExpansionOf(DecodeNodes(r.nodes).list)
<1> DEFINE allocation == DecodeNodes(r.nodes).allocation
           inNodes == IF r.nodes.shape = "object" THEN Named(r.nodes.allocation) ELSE <<>>
<1>1. IsSeq(allocation) /\ IsSeq(r.allocatedNodes)
  BY DEF ResourcesOK
<1>2. /\ Names(allocation) = Named(allocation)
      /\ Names(r.allocatedNodes) = Named(r.allocatedNodes)
  BY <1>1, NamesAreNamed
<1>3. IsSeq(Named(allocation)) /\ IsSeq(Named(r.allocatedNodes))
  BY <1>1, NamedIs
<1>4. Named(allocation) = inNodes
  <2>1. CASE r.nodes.shape = "object"
    BY <2>1 DEF DecodeNodes
  <2>2. CASE r.nodes.shape # "object"
    <3>1. allocation = <<>>
      BY <2>2 DEF DecodeNodes
    <3>2. DOMAIN <<>> = {}
      BY EmptyList
    <3>3. Named(<<>>) = Flat(NodesOf(<<>>), 0)
      BY EmptyIsSeq, NamedIs
    <3> QED
      BY <2>2, <3>1, <3>3, FlatOfNone
  <2> QED
    BY <2>1, <2>2
<1>5. Hostlist(r) = DecodeNodes(r.nodes).list
  BY DEF Hostlist, DecodeNodes
<1>6. ExpandedNames(r) = IF Named(allocation) # <<>> THEN Named(allocation)
                         ELSE Named(r.allocatedNodes)
  BY <1>2 DEF ExpandedNames
<1>7. Nodes(r) = IF inNodes # <<>> THEN inNodes
                 ELSE IF Named(r.allocatedNodes) # <<>> THEN Named(r.allocatedNodes)
                 ELSE IF Unreadable(Hostlist(r)) THEN <<>> ELSE ExpansionOf(Hostlist(r))
  BY DEF Nodes
<1> HIDE DEF allocation, inNodes
<1> QED
  BY <1>3, <1>4, <1>5, <1>6, <1>7

\* What is recorded for the names of a job.
LEMMA Recorded ==
  ASSUME jobIdentifier \in {"auto", "job_id", "sluid"}, NEW j, NEW names, IsSeq(names)
  PROVE  /\ IsSeq(JobHosts(j, names)) /\ Entries(JobHosts(j, names)) = JobEntries(j, names)
         /\ IsSeq(JobEntries(j, names))
<1>1. Len(names) \in Nat /\ DOMAIN names = 1 .. Len(names)
  BY Elements
<1> DEFINE f == [i \in 1 .. Len(names) |->
                   [job |-> identify(j).job, sluid |-> identify(j).sluid, node |-> names[i]]]
           g == [i \in 1 .. Len(names) |-> <<KeyOf(j), names[i]>>]
<1>2. JobHosts(j, names) = f /\ JobEntries(j, names) = g
  BY <1>1 DEF JobHosts, JobEntries
<1>3. DOMAIN f = 1 .. Len(names) /\ f = [i \in 1 .. Len(names) |-> f[i]]
      /\ g = [i \in 1 .. Len(names) |-> g[i]]
  OBVIOUS
<1>4. \A i \in 1 .. Len(names) : <<<<f[i].job, f[i].sluid>>, f[i].node>> = g[i]
  <2> TAKE i \in 1 .. Len(names)
  <2>1. f[i].job = identify(j).job /\ f[i].sluid = identify(j).sluid /\ f[i].node = names[i]
    OBVIOUS
  <2>2. g[i] = <<KeyOf(j), names[i]>>
    OBVIOUS
  <2> HIDE DEF f, g
  <2>3. <<identify(j).job, identify(j).sluid>> = KeyOf(j)
    BY KeysAgree
  <2> QED
    BY <2>1, <2>2, <2>3
<1> HIDE DEF f, g
<1>5. IsSeq(f) /\ IsSeq(g)
  BY <1>1, <1>3, Listing
<1>6. Entries(f) = g
  BY <1>3, <1>4 DEF Entries
<1> QED
  BY <1>2, <1>5, <1>6

LEMMA EntriesConcat ==
  ASSUME NEW s, IsSeq(s), NEW t, IsSeq(t)
  PROVE  Entries(s \o t) = Entries(s) \o Entries(t) /\ IsSeq(Entries(s))
<1> DEFINE E(r) == <<<<r.job, r.sluid>>, r.node>>
           u == s \o t
<1>1. /\ Len(s) \in Nat /\ Len(t) \in Nat /\ IsSeq(u) /\ Len(u) = Len(s) + Len(t)
      /\ \A i \in 1 .. Len(u) : IF i <= Len(s) THEN u[i] = s[i] ELSE u[i] = t[i - Len(s)]
  BY Concatenated
<1>2. ASSUME NEW v, IsSeq(v)
      PROVE  /\ IsSeq(Entries(v)) /\ Len(Entries(v)) = Len(v)
             /\ \A i \in 1 .. Len(v) : Entries(v)[i] = E(v[i])
  <2>1. Len(v) \in Nat /\ DOMAIN v = 1 .. Len(v)
    BY <1>2, Elements
  <2> DEFINE f == [i \in 1 .. Len(v) |-> E(v[i])]
  <2>2. Entries(v) = f
    BY <2>1 DEF Entries
  <2>3. f = [i \in 1 .. Len(v) |-> f[i]] /\ \A i \in 1 .. Len(v) : f[i] = E(v[i])
    OBVIOUS
  <2> HIDE DEF f
  <2>4. IsSeq(f) /\ Len(f) = Len(v)
    BY <2>1, <2>3, Listing
  <2> QED
    BY <2>2, <2>3, <2>4
<1> HIDE DEF u, E
<1>3. /\ IsSeq(Entries(u)) /\ Len(Entries(u)) = Len(u)
      /\ \A i \in 1 .. Len(u) : Entries(u)[i] = E(u[i])
  BY <1>1, <1>2
<1>4. /\ IsSeq(Entries(s)) /\ Len(Entries(s)) = Len(s)
      /\ \A i \in 1 .. Len(s) : Entries(s)[i] = E(s[i])
      /\ IsSeq(Entries(t)) /\ Len(Entries(t)) = Len(t)
      /\ \A i \in 1 .. Len(t) : Entries(t)[i] = E(t[i])
  BY <1>2
<1> DEFINE a == Entries(s)
           b == Entries(t)
           w == Entries(u)
<1>5. IsSeq(a) /\ IsSeq(b) /\ IsSeq(w)
  BY <1>3, <1>4
<1> HIDE DEF a, b, w
<1>6. /\ IsSeq(a \o b) /\ Len(a \o b) = Len(a) + Len(b)
      /\ \A i \in 1 .. Len(a \o b) : IF i <= Len(a) THEN (a \o b)[i] = a[i]
                                     ELSE (a \o b)[i] = b[i - Len(a)]
  BY <1>5, Concatenated
<1>7. Len(w) = Len(a \o b)
  BY <1>1, <1>3, <1>4, <1>6 DEF a, b, w
<1>8. \A i \in 1 .. Len(w) : w[i] = (a \o b)[i]
  <2> TAKE i \in 1 .. Len(w)
  <2>1. i \in 1 .. Len(u) /\ w[i] = E(u[i]) /\ i \in 1 .. Len(a \o b)
    BY <1>3, <1>7 DEF w
  <2>2. CASE i <= Len(s)
    <3>1. i \in 1 .. Len(s) /\ u[i] = s[i] /\ i <= Len(a)
      BY <1>1, <1>4, <2>1, <2>2 DEF a
    <3>2. (a \o b)[i] = a[i] /\ a[i] = E(s[i])
      BY <1>4, <1>6, <2>1, <3>1 DEF a
    <3> QED
      BY <2>1, <3>1, <3>2
  <2>3. CASE ~(i <= Len(s))
    <3>1. u[i] = t[i - Len(s)] /\ ~(i <= Len(a)) /\ Len(a) = Len(s)
      BY <1>1, <1>4, <2>1, <2>3 DEF a
    <3>2. i - Len(s) \in 1 .. Len(t)
      BY <1>1, <2>1, <2>3
    <3>3. (a \o b)[i] = b[i - Len(s)] /\ b[i - Len(s)] = E(t[i - Len(s)])
      BY <1>4, <1>6, <2>1, <3>1, <3>2 DEF b
    <3> QED
      BY <2>1, <3>1, <3>3
  <2> QED
    BY <2>2, <2>3
<1>9. w = a \o b
  BY <1>5, <1>6, <1>7, <1>8, SameElements
<1> QED
  BY <1>4, <1>9 DEF a, b, w, u

-------------------------------------------------------------------------------
(***************************************************************************)
(* The gather: after every job it has what the jobs so far contribute.     *)
(***************************************************************************)
LEMMA Safe == ASSUME NEW l, ListOK(l), NoTop(l) PROVE ListSafe(l)
<1>1. IsSeq(l) /\ DOMAIN l = 1 .. Len(l)
  BY Elements DEF ListOK
<1>2. ASSUME NEW i \in 1 .. Len(l)
      PROVE  IsSeq(l[i]) /\ \A k \in 1 .. Len(l[i]) : PartSafe(l[i][k])
  <2>1. IsSeq(l[i]) /\ DOMAIN l[i] = 1 .. Len(l[i])
    BY <1>1, <1>2, Elements DEF ListOK
  <2>2. ASSUME NEW k \in 1 .. Len(l[i]) PROVE PartSafe(l[i][k])
    <3>1. PartOK(l[i][k]) /\ (l[i][k].kind = "range" => l[i][k].high # Modulus - 1)
      BY <1>1, <1>2, <2>1, <2>2 DEF ListOK, NoTop
    <3> QED
      BY <3>1, SizeAssumption DEF PartOK, PartSafe, Uint
  <2> QED
    BY <2>1, <2>2
<1> QED
  BY <1>1, <1>2 DEF ListSafe

LEMMA InitInv == ASSUME GatherInit PROVE AllInv
<1>1. TypeInv
  BY InitTypes
<1>2. Len(<<>>) = 0 /\ ListSafe(<<>>)
  BY EmptyIsSeq DEF ListSafe
<1>3. ExpandInv
  BY <1>2, SizeAssumption, EmptyIsSeq DEF GatherInit, ExpandInv, InRange
<1>4. Faithful
  <2>1. out = Flat(Elems(list), el - 1)
    <3>1. el - 1 = 0
      BY DEF GatherInit
    <3> QED
      BY <3>1, FlatOfNone DEF GatherInit
  <2> QED
    BY <1>2, <2>1 DEF GatherInit, Faithful, Sofar
<1>5. GatherInv
  <2>1. Entries(<<>>) = <<>>
    BY EmptyList DEF Entries
  <2>2. at - 1 = 0
    BY DEF GatherInit
  <2> QED
    BY <2>1, <2>2, EmptyIsSeq, EmptyList, FlatOfNone DEF GatherInit, GatherInv, JobsSafe
<1> QED
  BY <1>1, <1>3, <1>4, <1>5 DEF AllInv

LEMMA StepInv ==
  ASSUME NoTopRanges, AllInv, [GatherNext]_<<gatherVars, vars>>
  PROVE  AllInv'
<1>T. TypeInv'
  BY StepTypes DEF AllInv
<1>U. /\ TypeInv /\ ExpandInv /\ Faithful /\ GatherInv
      /\ jobIdentifier \in {"auto", "job_id", "sluid"} /\ JobsOK(doc)
  BY DEF AllInv, TypeInv
<1>A. /\ Len(doc) \in Nat /\ DOMAIN doc = 1 .. Len(doc) /\ at \in 1 .. Len(doc) + 1
      /\ at - 1 \in Nat /\ (at - 1) + 1 = at
  <2>1. Len(doc) \in Nat /\ DOMAIN doc = 1 .. Len(doc) /\ at \in 1 .. Len(doc) + 1
    BY <1>U, Elements DEF TypeInv, GatherTypeOK, JobsOK
  <2> QED
    BY <2>1
<1>R. ASSUME UNCHANGED vars PROVE ExpandInv' /\ Faithful'
  BY <1>R, <1>U DEF vars, ExpandInv, InRange, Component, Faithful, Sofar, Half
\* The identifier does not change, and with it what a job contributes.
<1>C. ASSUME UNCHANGED <<jobIdentifier, doc>> PROVE Contribs(doc)' = Contribs(doc)
  BY <1>C DEF Contribs, Contribution, KeyOf
<1>S. ASSUME UNCHANGED <<jobIdentifier, doc, at, records>>, phase # "run",
             phase' = "expand" => list' = list /\ phase = "expand",
             phase' = "done" => at = Len(doc) + 1
      PROVE  GatherInv'
  <2>1. Entries(records)' = Entries(records) /\ JobsSafe(doc)'
    BY <1>S, <1>U DEF Entries, GatherInv, JobsSafe
  <2> QED
    BY <1>C, <1>S, <1>U, <2>1 DEF GatherInv, Job
\* The loop goes on from a job with what the job contributes.
<1>G. ASSUME NEW added, IsSeq(added), Entries(added) = Contribution(Job),
             at <= Len(doc), records' = records \o added, at' = at + 1, phase' = "parse",
             UNCHANGED <<jobIdentifier, doc>>
      PROVE  GatherInv'
  <2>1. Contribs(doc)[at] = Contribution(Job) /\ IsSeq(Contribs(doc)[at])
    <3>1. Contribs(doc)[at] = Contribution(Job)
      BY <1>A, <1>G DEF Contribs, Job
    <3> QED
      BY <1>G, <3>1, EntriesConcat
  <2>2. Flat(Contribs(doc), at) = Flat(Contribs(doc), at - 1) \o Contribution(Job)
    BY <1>A, <2>1, FlatStep
  <2>3. /\ IsSeq(records \o added)
        /\ Entries(records \o added) = Entries(records) \o Entries(added)
    BY <1>G, <1>U, Concatenated, EntriesConcat DEF GatherInv
  <2>4. Entries(records') = Flat(Contribs(doc), at)
    BY <1>G, <1>U, <2>2, <2>3 DEF GatherInv
  <2>5. at' - 1 = at
    BY <1>A, <1>G
  <2>6. Entries(records)' = Flat(Contribs(doc)', at' - 1)
    BY <1>C, <1>G, <2>4, <2>5
  <2> QED
    BY <1>G, <1>U, <2>3, <2>6 DEF GatherInv, JobsSafe
<1>E. /\ Entries(<<>>) = <<>> /\ IsSeq(<<>>)
      /\ \A s : IsSeq(s) => s \o <<>> = s
  BY EmptyList, EmptyIsSeq, ConcatEmpty DEF Entries
<1>J. ASSUME at <= Len(doc), Kept(Job)
      PROVE  ResourcesOK(Job.resources) /\ NoTop(DecodeNodes(Job.resources.nodes).list)
  <2>1. Job.resources # NoResources /\ at \in DOMAIN doc
    BY <1>A, <1>J DEF Kept
  <2> QED
    BY <1>U, <2>1 DEF JobsOK, GatherInv, JobsSafe, Job
<1>1. CASE RunFails
  <2>1. /\ UNCHANGED <<jobIdentifier, doc, at, records>> /\ UNCHANGED vars
        /\ phase' = "failed"
    BY <1>1 DEF RunFails
  <2>2. Entries(records)' = Entries(records) /\ JobsSafe(doc)'
    BY <1>U, <2>1 DEF Entries, GatherInv, JobsSafe
  <2>3. GatherInv'
    BY <1>C, <1>U, <2>1, <2>2 DEF GatherInv
  <2> QED
    BY <1>R, <1>T, <2>1, <2>3 DEF AllInv
<1>2. CASE RunPrints
  <2>1. PICK document \in Documents :
          IF Decodes(document) THEN phase' = "parse" /\ doc' = document.jobs
                               ELSE phase' = "failed" /\ UNCHANGED doc
    BY <1>2 DEF RunPrints
  <2>2. /\ UNCHANGED <<jobIdentifier, at, records>> /\ UNCHANGED vars
        /\ at = 1 /\ records = <<>> /\ at' - 1 = 0
    BY <1>2, <1>U DEF RunPrints, TypeInv
  <2>3. JobsSafe(doc')
    <3>1. CASE Decodes(document)
      BY <2>1, <3>1 DEF NoTopRanges, JobsSafe
    <3>2. CASE ~Decodes(document)
      BY <1>U, <2>1, <3>2 DEF GatherInv, JobsSafe
    <3> QED
      BY <3>1, <3>2
  <2>4. Entries(records)' = Flat(Contribs(doc)', at' - 1)
    <3>1. Flat(Contribs(doc)', 0) = <<>>
      BY FlatOfNone
    <3> QED
      BY <1>E, <2>2, <3>1
  <2>5. phase' \in {"parse", "failed"}
    BY <2>1
  <2>6. GatherInv'
    BY <1>E, <2>2, <2>3, <2>4, <2>5 DEF GatherInv
  <2> QED
    BY <1>R, <1>T, <2>2, <2>6 DEF AllInv
<1>3. CASE SkipJob
  <2>1. Contribution(Job) = <<>> /\ at <= Len(doc)
    BY <1>3, <1>U, KeptContributes DEF SkipJob, Parsing
  <2>2. records' = records \o <<>>
    BY <1>3, <1>E, <1>U DEF SkipJob, GatherInv
  <2>3. GatherInv'
    BY <1>3, <1>E, <1>G, <2>1, <2>2 DEF SkipJob, Parsing
  <2> QED
    BY <1>3, <1>R, <1>T, <2>3 DEF AllInv, SkipJob
<1>4. CASE TakeExpanded
  <2> DEFINE names == ExpandedNames(Job.resources)
             added == JobHosts(Job, names)
  <2>1. /\ at <= Len(doc) /\ Kept(Job) /\ names # <<>> /\ records' = records \o added
        /\ at' = at + 1 /\ phase' = "parse"
        /\ UNCHANGED <<jobIdentifier, doc>> /\ UNCHANGED vars
    BY <1>4 DEF TakeExpanded, Parsing
  <2>2. IsSeq(names) /\ Nodes(Job.resources) = names
    BY <1>J, <2>1, NodesFound
  <2>3. Contribution(Job) = JobEntries(Job, names)
    BY <1>U, <2>1, <2>2, KeptContributes
  <2>4. IsSeq(added) /\ Entries(added) = Contribution(Job)
    BY <1>U, <2>2, <2>3, Recorded
  <2> HIDE DEF names, added
  <2>5. GatherInv'
    BY <1>G, <2>1, <2>4
  <2> QED
    BY <1>R, <1>T, <2>1, <2>5 DEF AllInv
<1>5. CASE CallExpand
  <2>1. /\ at <= Len(doc) /\ Kept(Job) /\ ExpandedNames(Job.resources) = <<>>
        /\ phase' = "expand" /\ list' = DecodeNodes(Job.resources.nodes).list
        /\ el' = 1 /\ part' = 1 /\ n' = -1
        /\ hosts' = <<>> /\ out' = <<>> /\ result' = "running"
        /\ UNCHANGED <<jobIdentifier, doc, at, records>>
    BY <1>5 DEF CallExpand, Parsing
  <2>2. ListSafe(list')
    BY <1>J, <2>1, Safe DEF ResourcesOK
  <2>3. ExpandInv'
    <3>1. Len(list') \in Nat /\ (1 <= Len(list') => Len(list'[1]) \in Nat)
      BY <2>2, Elements DEF ListSafe
    <3> QED
      BY <2>1, <2>2, <3>1, EmptyIsSeq, SizeAssumption DEF ExpandInv, InRange
  <2>4. Faithful'
    <3>1. el' - 1 = 0 /\ part' - 1 = 0 /\ Half' = <<>> /\ n' = -1
      BY <2>1 DEF Half
    <3>2. Flat(Elems(list'), 0) = <<>> /\ Flat(Parts(list'[el']), 0) = <<>>
      BY FlatOfNone
    <3>3. <<>> \o <<>> = <<>>
      BY <1>E
    <3>4. Sofar'
      BY <2>1, <3>1, <3>2, <3>3 DEF Sofar
    <3> QED
      BY <2>1, <3>4 DEF Faithful
  <2>5. GatherInv'
    <3>1. Entries(records)' = Entries(records) /\ JobsSafe(doc)'
      BY <1>U, <2>1 DEF Entries, GatherInv, JobsSafe
    <3>2. Job' = Job
      BY <2>1 DEF Job
    <3> QED
      BY <1>C, <1>U, <2>1, <3>1, <3>2 DEF GatherInv
  <2> QED
    BY <1>T, <2>3, <2>4, <2>5 DEF AllInv
<1>6. CASE ExpandStep
  <2>1. phase = "expand" /\ Next /\ UNCHANGED gatherVars
    BY <1>6 DEF ExpandStep
  <2>2. ExpandInv' /\ list' = list /\ Faithful'
    BY <1>U, <2>1, ExpandStepInv, FaithfulStep
  <2>3. GatherInv'
    BY <1>S, <2>1, <2>2 DEF gatherVars
  <2> QED
    BY <1>T, <2>2, <2>3 DEF AllInv
<1>7. CASE TakeExpansion
  <2>1. /\ phase = "expand" /\ result # "running" /\ phase' = "parse" /\ at' = at + 1
        /\ records' = IF result = "ok" THEN records \o JobHosts(Job, out) ELSE records
        /\ UNCHANGED <<jobIdentifier, doc>> /\ UNCHANGED vars
    BY <1>7 DEF TakeExpansion
  <2>2. /\ at <= Len(doc) /\ Kept(Job) /\ ExpandedNames(Job.resources) = <<>>
        /\ list = DecodeNodes(Job.resources.nodes).list
    BY <1>U, <2>1 DEF TypeInv, GatherTypeOK, GatherInv
  <2>3. Nodes(Job.resources) = IF Unreadable(list) THEN <<>> ELSE ExpansionOf(list)
    BY <1>J, <2>2, NodesFound
  <2>4. Contribution(Job) = JobEntries(Job, Nodes(Job.resources))
    BY <1>U, <2>2, KeptContributes
  <2>5. /\ result = "ok" => out = ExpansionOf(list)
        /\ result = "error" <=> Unreadable(list)
        /\ result \in {"ok", "error"}
    BY <1>U, <2>1, ExactFollows DEF ExpandsExactly, ExpandInv
  <2>6. GatherInv'
    <3>1. CASE result = "ok"
      <4>1. Nodes(Job.resources) = out /\ IsSeq(out)
        BY <1>U, <2>3, <2>5, <3>1 DEF ExpandInv
      <4>2. IsSeq(JobHosts(Job, out)) /\ Entries(JobHosts(Job, out)) = Contribution(Job)
        BY <1>U, <2>4, <4>1, Recorded
      <4> QED
        BY <1>G, <2>1, <2>2, <3>1, <4>2
    <3>2. CASE result = "error"
      <4>1. Contribution(Job) = <<>>
        <5>1. Nodes(Job.resources) = <<>>
          BY <2>3, <2>5, <3>2
        <5>2. JobEntries(Job, <<>>) = <<>>
          BY EmptyList DEF JobEntries
        <5> QED
          BY <2>4, <5>1, <5>2
      <4>2. records' = records \o <<>>
        BY <1>E, <1>U, <2>1, <3>2 DEF GatherInv
      <4> QED
        BY <1>E, <1>G, <2>1, <2>2, <4>1, <4>2
    <3> QED
      BY <2>5, <3>1, <3>2
  <2> QED
    BY <1>R, <1>T, <2>1, <2>6 DEF AllInv
<1>8. CASE ReturnHosts
  <2>1. at = Len(doc) + 1
    BY <1>8, <1>A DEF ReturnHosts
  <2>2. GatherInv'
    BY <1>8, <1>S, <2>1 DEF ReturnHosts
  <2> QED
    BY <1>8, <1>R, <1>T, <2>2 DEF AllInv, ReturnHosts
<1>9. CASE UNCHANGED <<gatherVars, vars>>
  <2>1. UNCHANGED <<jobIdentifier, phase, doc, at, records>> /\ UNCHANGED vars
    BY <1>9 DEF gatherVars
  <2>2. Entries(records)' = Entries(records) /\ JobsSafe(doc)' /\ Job' = Job /\ list' = list
    BY <1>U, <2>1 DEF Entries, GatherInv, JobsSafe, Job, vars
  <2>3. GatherInv'
    BY <1>C, <1>U, <2>1, <2>2 DEF GatherInv
  <2> QED
    BY <1>R, <1>T, <2>1, <2>3 DEF AllInv
<1> QED
  BY <1>1, <1>2, <1>3, <1>4, <1>5, <1>6, <1>7, <1>8, <1>9 DEF GatherNext, Parse

LEMMA AllFollows == ASSUME AllInv PROVE AllocationBounded /\ ExpandsExactly /\ EachJobOnItsOwn
<1>1. EachJobOnItsOwn
  <2> SUFFICES ASSUME phase = "done"
               PROVE  Entries(records) = FlattenSeq([i \in DOMAIN doc |-> Contribution(doc[i])])
    BY DEF EachJobOnItsOwn, Entries
  <2>1. Len(doc) \in Nat /\ DOMAIN doc = 1 .. Len(doc)
    BY Elements DEF AllInv, TypeInv, JobsOK
  <2>2. at - 1 = Len(doc)
    BY <2>1 DEF AllInv, GatherInv
  <2>3. Prefix(Contribs(doc), Len(doc)) = [i \in DOMAIN doc |-> Contribution(doc[i])]
    BY <2>1 DEF Prefix, Contribs
  <2> QED
    BY <2>2, <2>3 DEF AllInv, GatherInv, Flat
<1> QED
  BY <1>1, BoundFollows, ExactFollows DEF AllInv

LEMMA AllAlways ==
  ASSUME NoTopRanges
  PROVE  GatherSpec => []AllInv
<1>1. GatherInit => AllInv
  BY InitInv
<1>2. AllInv /\ [GatherNext]_<<gatherVars, vars>> => AllInv'
  BY StepInv
<1> QED
  BY <1>1, <1>2, PTL DEF GatherSpec

(***************************************************************************)
(* However long the lists squeue prints, an expansion never holds more     *)
(* than the bound per component and never returns more than the bound,     *)
(* unless a range ends at the largest number (hostlist.go 9-12, 148-157).  *)
(***************************************************************************)
THEOREM ExpansionBounded ==
  ASSUME NoTopRanges
  PROVE  GatherSpec => []AllocationBounded
<1>1. AllInv => AllocationBounded
  BY AllFollows
<1> QED
  BY <1>1, AllAlways, PTL

(***************************************************************************)
(* Every list is refused exactly if it is malformed or stands for too many *)
(* hosts, and otherwise expands to the hosts it stands for, in order,      *)
(* whatever the list, the bound and the width of numbers, unless a range   *)
(* ends at the largest number (hostlist.go 9-30).                          *)
(***************************************************************************)
THEOREM ExpansionExact ==
  ASSUME NoTopRanges
  PROVE  GatherSpec => []ExpandsExactly
<1>1. AllInv => ExpandsExactly
  BY AllFollows
<1> QED
  BY <1>1, AllAlways, PTL

(***************************************************************************)
(* Whatever squeue prints, a gather that returns has for every job what    *)
(* that job alone calls for, in the order of the jobs: by one identifier,  *)
(* its nodes or nothing (jobhost.go 10-12, squeue.go 193-195).             *)
(***************************************************************************)
THEOREM JobsAreIndependent ==
  ASSUME NoTopRanges
  PROVE  GatherSpec => []EachJobOnItsOwn
<1>1. AllInv => EachJobOnItsOwn
  BY AllFollows
<1> QED
  BY <1>1, AllAlways, PTL
===============================================================================
