------------------------------- MODULE MCConfig -------------------------------
(***************************************************************************)
(* Every value of one setting in file and environment; every two values of *)
(* two settings that bear on each other; and every layout of the           *)
(* configuration directory.                                                *)
(***************************************************************************)
EXTENDS Config, TLC

File == <<"slurm-syncer.yaml">>
Dir  == <<"etc">>

MCTrustDomains == {"example.org", "other.org"}
MCClassNames   == {"slurm", "other"}
MCLongHints    == {"bad"}

MCParseDuration == [d \in {"30s", "90s", "0s", "-5s"} |->
                      CASE d = "30s" -> 30000 [] d = "90s" -> 90000
                        [] d = "0s"  -> 0     [] d = "-5s" -> -5000]

ByJobID  == "spiffe://{{.TrustDomain}}/{{.JobID}}"
BySLUID  == "spiffe://{{.TrustDomain}}/{{.SLUID}}"
Prefixed == "spiffe://{{.TrustDomain}}/{{.ClassName}}/job-{{.SLUID}}"
Mistyped == "spiffe://{{.TrustDomain}}/{{.Jobid}}"

Literal(text)  == [literal |-> text, fields |-> {}]
Field(field) == [literal |-> "", fields |-> {field}]

Segments(t) ==
  CASE t = Default.parentIDTemplate -> {Literal("node"), Field("Node")}
    [] t = Default.spiffeIDTemplate -> {Literal("slurm"), Field("Account")}
    [] t = ByJobID  -> {Field("JobID")}
    [] t = BySLUID  -> {Field("SLUID")}
    [] t = Prefixed -> {Field("ClassName"), [literal |-> "job-", fields |-> {"SLUID"}]}
    [] t = Mistyped -> {Field("Jobid")}

MCParseTemplate ==
  [t \in {Default.parentIDTemplate, Default.spiffeIDTemplate, ByJobID, BySLUID, Prefixed, Mistyped} |->
     {Field("TrustDomain")} \cup Segments(t)]

MCPathTexts == MCTrustDomains \cup MCClassNames
                 \cup {"node", "job-", "12345", "example-account", "node01"}

Values(s) ==
  CASE s = "trustDomain"   -> {"", "bad", "other.org", "${V}", "'${V}'"}
    [] s = "jobIdentifier" -> {"", "bad", "job_id", "sluid", "${V}"}
    [] s \in {"parentIDTemplate", "spiffeIDTemplate"} -> {"", " ", "bad", ByJobID, BySLUID, Prefixed, Mistyped}
    [] s \in MayBeEmpty \cup NonEmpty -> {"", "bad", "other", "${V}", "'${V}'"}
    [] s \in Durations     -> {"", " ", "soon", "0s", "-5s", "30s", "90s", "${V}"}
    [] s = "squeueCommand" -> {<<>>, <<"squeue">>}
    [] s = "dryRun"        -> BOOLEAN

InEnv(s) == IF s = "dryRun" THEN {"", "true", "maybe"} ELSE Values(s)

Base == "trustDomain" :> "example.org"

\* A function of at most one key, which is s.
AtMost(s, values) == {[k \in {} |-> ""]} \cup {s :> v : v \in values}

OneFile(text, environment, var, expand, check) ==
  [flags |-> [path |-> File, instance |-> "", expandEnv |-> expand, validate |-> check],
   files |-> File :> text, env |-> environment, shell |-> var]

Precedence ==
  UNION {{OneFile(f @@ Base, e, var, expand, check) :
            f \in AtMost(s, Values(s)), e \in AtMost(s, InEnv(s)),
            var \in {"", "other.org"}, expand \in BOOLEAN, check \in BOOLEAN} : s \in Settings}

Pairs ==
  UNION {{OneFile(f @@ g @@ Base, [k \in {} |-> ""], "", FALSE, check) :
            f \in AtMost(p[1], Values(p[1])), g \in AtMost(p[2], Values(p[2])),
            check \in BOOLEAN} :
           p \in ({"interval"} \X (Loops \cup {"squeueTimeout"}))
                   \cup ({"jobIdentifier"} \X {"spiffeIDTemplate", "trustDomain"})}

Nobody == OneFile([classname |-> "oops"], [k \in {} |-> ""], "", FALSE, FALSE)

Layouts ==
  {[flags |-> [path |-> path, instance |-> instance, expandEnv |-> FALSE, validate |-> FALSE],
    files |-> present, env |-> "trustDomain" :> "other.org", shell |-> ""] :
     path \in {NoFile, File, Dir}, instance \in {"", "main"},
     present \in
       {(Dir :> Directory) @@ [p \in only |-> IF p \in dirs THEN Directory ELSE "dryRun" :> TRUE] :
          only \in SUBSET {Dir \o <<"main", "config">>, Dir \o <<"main", ".conf">>,
                           Dir \o <<"default.conf">>},
          dirs \in SUBSET {Dir \o <<"main", "config">>}}}

MCInvocations == Precedence \cup Pairs \cup {Nobody} \cup Layouts
===============================================================================
