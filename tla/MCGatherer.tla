------------------------------ MODULE MCGatherer ------------------------------
(***************************************************************************)
(* Documents of one job over every hostlist, of one job over every shape   *)
(* of its fields, and of two jobs, one of them with a list that does not   *)
(* expand.  Numbers are below 16, and a list has at most three hosts.      *)
(***************************************************************************)
EXTENDS Gatherer

SeqsOf(S, from, to) == UNION {[1 .. k -> S] : k \in from .. to}

Ranges == {RangePart("node", low, high, 2) : low \in {0, 9}, high \in {2, 3, 10}}

Hostlists ==
  SeqsOf(SeqsOf(Ranges \cup {Malformed, Single("node", "7")}, 1, 2), 0, 2)

Two    == << <<RangePart("node", 9, 10, 1)>> >>
Broken == << <<Single("node", "7")>>, <<RangePart("node", 3, 2, 1)>> >>

Alloc(name, nodename) == [name |-> name, nodename |-> nodename]

Allocations == {<<>>,
                <<Alloc(NoName, NoName), Alloc(Blank, <<"a">>)>>,
                <<Alloc(<<"a">>, NoName), Alloc(NoName, <<"b">>), Alloc(NoName, Blank)>>}

NodesField(l, types, allocations) ==
  [shape : {"object"}, list : {l}, selectType : types, allocation : allocations]
    \cup {[shape |-> "string", list |-> l], [shape |-> "null"]}

Resources(types, cores, allocated, fields) ==
  [selectType : types, allocatedCores : cores, allocatedNodes : allocated, nodes : fields]

JobOf(running, jobID, sluid, resources) ==
  [running |-> running, jobID |-> jobID, sluid |-> sluid, resources |-> resources]

Printed(jobs) == [json |-> TRUE, jobs |-> jobs]

AnyResources ==
  {NoResources} \cup
  Resources({{}, {"CORE"}, {"SOCKET", "CR_CORE_MEMORY"}, {"SOCKET"}}, {0, 2}, Allocations,
            NodesField(Two, {{}, {"CR_CORE"}, {"SOCKET"}}, Allocations))

Some(l) == [selectType |-> {"CORE"}, allocatedCores |-> 0, allocatedNodes |-> <<>>,
            nodes |-> [shape |-> "string", list |-> l]]

PairMembers ==
  {JobOf(running, jobID, sluid, resources) :
     running \in BOOLEAN, jobID \in {"1"}, sluid \in {None, "s"},
     resources \in {Some(Two), Some(Broken), NoResources,
                    [Some(Two) EXCEPT !.nodes = [shape |-> "number"]]}}

MCDocuments ==
  {[json |-> FALSE, jobs |-> <<>>], Printed(<<>>)}
    \cup {Printed(<<JobOf(TRUE, "1", "s", Some(l))>>) : l \in Hostlists}
    \cup {Printed(<<JobOf(TRUE, jobID, sluid, r)>>) :
            jobID \in {None, "1"}, sluid \in {None, "s"}, r \in AnyResources}
    \cup {Printed(jobs) : jobs \in SeqsOf(PairMembers, 2, 2)}

\* The documents are those the theorems of GathererProofs speak of.
ASSUME InstanceAssumption == NoTopRanges
===============================================================================
