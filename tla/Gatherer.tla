------------------------------- MODULE Gatherer -------------------------------
(***************************************************************************)
(* slurm.Gatherer: one Gather, from the squeue run to the job hosts it     *)
(* returns, over the steps of the hostlist expansion.  A document is what  *)
(* squeue prints: whether it is JSON at all, and a sequence of jobs.       *)
(*                                                                         *)
(* A job carries whether its states include RUNNING, its two identifiers   *)
(* and its job_resources, NoResources where that is absent.  Names are     *)
(* tuples, of one word where they stand for themselves; the nodes field is *)
(* kept in the shape in which it was printed.                              *)
(***************************************************************************)
EXTENDS HostList

CONSTANT Documents   \* what squeue may print

VARIABLES
  jobIdentifier,   \* g.jobIdentifier: "auto", "job_id" or "sluid"
  phase,           \* "run", "parse", "expand", "done" or "failed"
  doc,             \* doc.Jobs
  at,              \* the job the loop is at
  records          \* parse's hosts: [job, sluid, node]

gatherVars == <<jobIdentifier, phase, doc, at, records>>

None        == ""            \* an identifier that is missing or blank
NoName      == <<>>
Blank       == <<" ">>       \* a name of spaces only
NoResources == [absent |-> TRUE]

TrimSpace(name) == IF name = Blank THEN NoName ELSE name

\* nodes.UnmarshalJSON: null, a bare hostlist, or the object; nothing else decodes.
DecodeNodes(raw) ==
  CASE raw.shape = "object" -> [list |-> raw.list, selectType |-> raw.selectType,
                                allocation |-> raw.allocation]
    [] raw.shape = "string" -> [list |-> raw.list, selectType |-> {}, allocation |-> <<>>]
    [] OTHER                -> [list |-> <<>>, selectType |-> {}, allocation |-> <<>>]

Decodes(document) ==
  /\ document.json
  /\ \A i \in DOMAIN document.jobs :
       LET r == document.jobs[i].resources
       IN  r # NoResources => r.nodes.shape \in {"null", "string", "object"}

\* What decodes is typed: sequences, and unsigned numbers in the ranges.
IsSeq(s) == s \in Seq(Range(s))

PartOK(p) == p.kind = "range" => p.low \in Uint /\ p.high \in Uint

ListOK(l) == IsSeq(l) /\ \A i \in DOMAIN l : /\ IsSeq(l[i])
                                            /\ \A k \in DOMAIN l[i] : PartOK(l[i][k])

ResourcesOK(r) ==
  LET nodes == DecodeNodes(r.nodes)
  IN  IsSeq(r.allocatedNodes) /\ IsSeq(nodes.allocation) /\ ListOK(nodes.list)

JobsOK(jobs) ==
  /\ IsSeq(jobs)
  /\ \A i \in DOMAIN jobs : jobs[i].resources # NoResources => ResourcesOK(jobs[i].resources)

ASSUME DocumentsAssumption ==
  \A document \in Documents : Decodes(document) => JobsOK(document.jobs)

\* No range ends at the largest number, where the loop variable would wrap.
NoTop(l) == \A i \in DOMAIN l : \A k \in DOMAIN l[i] :
              l[i][k].kind = "range" => l[i][k].high # Modulus - 1

NoTopRanges ==
  \A document \in Documents : Decodes(document) =>
    \A i \in DOMAIN document.jobs :
      LET r == document.jobs[i].resources
      IN  r # NoResources => NoTop(DecodeNodes(r.nodes).list)

GatherInit ==
  /\ jobIdentifier \in {"auto", "job_id", "sluid"}
  /\ phase = "run"
  /\ doc = <<>> /\ at = 1 /\ records = <<>>
  /\ list = <<>> /\ el = 1 /\ part = 1 /\ n = -1
  /\ hosts = <<>> /\ out = <<>> /\ result = "ok"

\* The command fails, or the timeout or a cancellation kills it.
RunFails ==
  /\ phase = "run"
  /\ phase' = "failed"
  /\ UNCHANGED <<jobIdentifier, doc, at, records>> /\ UNCHANGED vars

RunPrints ==
  /\ phase = "run"
  /\ \E document \in Documents :
       IF Decodes(document) THEN phase' = "parse" /\ doc' = document.jobs
                            ELSE phase' = "failed" /\ UNCHANGED doc
  /\ UNCHANGED <<jobIdentifier, at, records>> /\ UNCHANGED vars

-------------------------------------------------------------------------------
(***************************************************************************)
(* The loop over the jobs.                                                 *)
(***************************************************************************)
CoreTypes == {"CORE", "CR_CORE", "CR_CORE_MEMORY"}

\* Mutant: the select types of the nodes are not looked at.
coreAllocatedTopLevel(r) ==
  IF r.selectType # {} THEN r.selectType \cap CoreTypes # {} ELSE r.allocatedCores > 0

coreAllocated(r) ==
  LET nested      == DecodeNodes(r.nodes).selectType
      selectTypes == IF r.selectType = {} THEN nested ELSE r.selectType
  IN  IF selectTypes # {} THEN selectTypes \cap CoreTypes # {} ELSE r.allocatedCores > 0

\* Mutant: a job with both identifiers keeps both.
identifyBoth(j) ==
  CASE jobIdentifier = "job_id" -> [job |-> j.jobID, sluid |-> None]
    [] jobIdentifier = "sluid"  -> [job |-> None, sluid |-> j.sluid]
    [] OTHER                    -> [job |-> j.jobID, sluid |-> j.sluid]

\* Neither identifier is set where identify returns ok = false.
identify(j) ==
  IF jobIdentifier = "job_id" \/ (jobIdentifier = "auto" /\ j.sluid = None)
  THEN [job |-> j.jobID, sluid |-> None]
  ELSE [job |-> None, sluid |-> j.sluid]

Unidentified == [job |-> None, sluid |-> None]

Kept(j) == /\ j.running
           /\ j.resources # NoResources
           /\ coreAllocated(j.resources)
           /\ identify(j) # Unidentified

Name(a) == TrimSpace(IF a.name # NoName THEN a.name ELSE a.nodename)

\* One after the other, those without a name left out.
Names(allocation) ==
  LET names[k \in 0 .. Len(allocation)] ==
        IF k = 0 THEN <<>>
        ELSE IF Name(allocation[k]) = NoName THEN names[k - 1]
        ELSE Append(names[k - 1], Name(allocation[k]))
  IN  names[Len(allocation)]

\* The first expanded list that names a node; empty where there is none.
ExpandedNames(r) ==
  LET ofNodes == Names(DecodeNodes(r.nodes).allocation)
  IN  IF ofNodes # <<>> THEN ofNodes ELSE Names(r.allocatedNodes)

JobHosts(j, names) ==
  [i \in DOMAIN names |-> [job |-> identify(j).job, sluid |-> identify(j).sluid,
                           node |-> names[i]]]

Job == doc[at]

Parsing == phase = "parse" /\ at <= Len(doc)

SkipJob ==
  /\ Parsing
  /\ ~Kept(Job)
  /\ at' = at + 1
  /\ UNCHANGED <<jobIdentifier, phase, doc, records>> /\ UNCHANGED vars

TakeExpanded ==
  /\ Parsing
  /\ Kept(Job)
  /\ ExpandedNames(Job.resources) # <<>>
  /\ records' = records \o JobHosts(Job, ExpandedNames(Job.resources))
  /\ at' = at + 1
  /\ UNCHANGED <<jobIdentifier, phase, doc>> /\ UNCHANGED vars

\* ExpandHostList is called.
CallExpand ==
  /\ Parsing
  /\ Kept(Job)
  /\ ExpandedNames(Job.resources) = <<>>
  /\ phase' = "expand"
  /\ list' = DecodeNodes(Job.resources.nodes).list
  /\ el' = 1 /\ part' = 1 /\ n' = -1
  /\ hosts' = <<>> /\ out' = <<>> /\ result' = "running"
  /\ UNCHANGED <<jobIdentifier, doc, at, records>>

ExpandStep == phase = "expand" /\ Next /\ UNCHANGED gatherVars

\* Mutant: a node list that does not expand fails the whole gather.
TakeExpansionOrFail ==
  /\ phase = "expand" /\ result # "running"
  /\ IF result = "ok"
     THEN phase' = "parse" /\ records' = records \o JobHosts(Job, out) /\ at' = at + 1
     ELSE phase' = "failed" /\ UNCHANGED <<records, at>>
  /\ UNCHANGED <<jobIdentifier, doc>> /\ UNCHANGED vars

\* Mutant: a node list that does not expand yields the hosts before the error.
TakeWhatExpanded ==
  /\ phase = "expand" /\ result # "running"
  /\ phase' = "parse"
  /\ records' = records \o JobHosts(Job, out \o hosts)
  /\ at' = at + 1
  /\ UNCHANGED <<jobIdentifier, doc>> /\ UNCHANGED vars

\* A job whose node list does not expand is skipped.
TakeExpansion ==
  /\ phase = "expand" /\ result # "running"
  /\ phase' = "parse"
  /\ records' = IF result = "ok" THEN records \o JobHosts(Job, out) ELSE records
  /\ at' = at + 1
  /\ UNCHANGED <<jobIdentifier, doc>> /\ UNCHANGED vars

ReturnHosts ==
  /\ phase = "parse" /\ at > Len(doc)
  /\ phase' = "done"
  /\ UNCHANGED <<jobIdentifier, doc, at, records>> /\ UNCHANGED vars

Parse == \/ SkipJob \/ TakeExpanded
         \/ CallExpand \/ ExpandStep \/ TakeExpansion
         \/ ReturnHosts

GatherNext == RunFails \/ RunPrints \/ Parse

GatherSpec == GatherInit /\ [][GatherNext]_<<gatherVars, vars>>

\* Past the squeue run, Gather waits for nothing.
GatherFairSpec == GatherSpec /\ WF_<<gatherVars, vars>>(Parse)

-------------------------------------------------------------------------------
(***************************************************************************)
(* Properties.                                                             *)
(***************************************************************************)
GatherTypeOK ==
  /\ phase \in {"run", "parse", "expand", "done", "failed"}
  /\ at \in 1 .. Len(doc) + 1
  /\ phase = "expand" => at <= Len(doc) /\ Kept(Job)
  /\ phase # "expand" => result # "running"
  /\ TypeOK

\* Whether a job holds cores, by the value of whichever field a version fills.
HoldsCores(r) ==
  LET nested == IF r.nodes.shape = "object" THEN r.nodes.selectType ELSE {}
  IN  \/ \E t \in CoreTypes : \/ t \in r.selectType
                              \/ r.selectType = {} /\ t \in nested
      \/ r.selectType = {} /\ nested = {} /\ r.allocatedCores > 0

\* What a job is known by, one of <<job_id, sluid>>, where it has it.
KeyOf(j) == IF jobIdentifier = "sluid" \/ (jobIdentifier = "auto" /\ j.sluid # None)
            THEN <<None, j.sluid>> ELSE <<j.jobID, None>>

\* The hostlist of a job.
Hostlist(r) == IF r.nodes.shape \in {"string", "object"} THEN r.nodes.list ELSE <<>>

\* The nodes named in a sequence of allocations, those without a name left out.
NodeOf(a) ==
  CASE a.name \notin {NoName, Blank}                          -> <<a.name>>
    [] a.name = NoName /\ a.nodename \notin {NoName, Blank}   -> <<a.nodename>>
    [] OTHER                                                  -> <<>>

Named(allocation) == FlattenSeq([i \in DOMAIN allocation |-> NodeOf(allocation[i])])

Nodes(r) ==
  LET inNodes == IF r.nodes.shape = "object" THEN Named(r.nodes.allocation) ELSE <<>>
  IN  IF inNodes # <<>> THEN inNodes
      ELSE IF Named(r.allocatedNodes) # <<>> THEN Named(r.allocatedNodes)
      ELSE IF Unreadable(Hostlist(r)) THEN <<>>
      ELSE ExpansionOf(Hostlist(r))

\* What one job contributes, whatever the other jobs are.
Contribution(j) ==
  IF j.running /\ j.resources # NoResources /\ KeyOf(j) # <<None, None>> /\ HoldsCores(j.resources)
  THEN [i \in DOMAIN Nodes(j.resources) |-> <<KeyOf(j), Nodes(j.resources)[i]>>]
  ELSE <<>>

(***************************************************************************)
(* A gather that returns has for every job the nodes of that job, by       *)
(* exactly one identifier (jobhost.go 10-12), and nothing for a job it     *)
(* cannot read: what one record is never costs another its hosts           *)
(* (squeue.go 193-195).                                                    *)
(***************************************************************************)
EachJobOnItsOwn ==
  phase = "done" =>
    [i \in DOMAIN records |->
       << <<records[i].job, records[i].sluid>>, records[i].node >>]
      = FlattenSeq([i \in DOMAIN doc |-> Contribution(doc[i])])

(***************************************************************************)
(* Output that decodes is returned in the end: neither a record nor a node *)
(* list makes the gather fail or go on for ever, for then one job would    *)
(* hold up the job list of all others (squeue.go 193-195).                 *)
(***************************************************************************)
DecodedIsReturned == phase = "parse" ~> phase = "done"
===============================================================================
