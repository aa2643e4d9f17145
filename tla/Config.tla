-------------------------------- MODULE Config --------------------------------
(***************************************************************************)
(* From the command line to a running daemon: config.ResolvePath, Load and *)
(* validate, main.run and -validate.  A file is a function from the keys   *)
(* it sets to their text; a key whose value is null is none of them.  The  *)
(* SLURM_SPIRE_SYNCER_* environment is a function of the same kind.        *)
(*                                                                         *)
(* Text is a string, a command a sequence of words, a duration a string    *)
(* that ParseDuration maps to milliseconds; what the parsers of SPIFFE     *)
(* trust domains, durations and templates accept is a constant.  A         *)
(* template is the set of the segments of the SPIFFE ID it renders to, and *)
(* a segment the literal text and the fields it is put together from.      *)
(***************************************************************************)
EXTENDS Integers, Sequences, Functions

CONSTANTS
  Invocations,      \* [flags, files, env, shell]: see the variables
  TrustDomains,     \* what spiffeid.TrustDomainFromString accepts
  ClassNames,       \* what classNamePattern matches
  LongHints,        \* hints over hintMaximumLength
  ParseDuration,    \* from the texts time.ParseDuration accepts to milliseconds
  ParseTemplate,    \* from the texts that parse to segments [literal, fields]
  PathTexts         \* the texts that may stand in a SPIFFE ID's segment

\* A duration is a number and not blank, and a trust domain is not empty.
ASSUME ParsersAssumption ==
  /\ ParseDuration \in [DOMAIN ParseDuration -> Int]
  /\ "" \notin DOMAIN ParseDuration /\ " " \notin DOMAIN ParseDuration
  /\ "" \notin TrustDomains

VARIABLES
  flags,      \* [path, instance, expandEnv, validate]
  files,      \* what is in the file system: Directory, or the text of a file
  env,        \* SLURM_SPIRE_SYNCER_*
  shell,      \* the variable that files refer to, "" where it is undefined
  stage,      \* "locate", "load", "loaded", "running", "valid" or "failed"
  resolved,   \* the file to load
  cfg,        \* the Config, or NoConfig
  culprit     \* what the error names

vars == <<flags, files, env, shell, stage, resolved, cfg, culprit>>

Directory == [directory |-> TRUE]
NoConfig  == [none |-> TRUE]
NoFile    == <<>>

Loops       == {"squeueInterval", "spireInterval", "reconcileInterval"}
Lifetimes   == {"x509SVIDTTL", "jwtSVIDTTL"}
Durations   == {"interval", "squeueTimeout"} \cup Loops \cup Lifetimes
MayBeEmpty  == {"trustDomain", "hint", "metricsAddr"}
NonEmpty    == {"className", "spireServerSocket", "jobIdentifier",
                "parentIDTemplate", "spiffeIDTemplate"}
Settings    == MayBeEmpty \cup NonEmpty \cup Durations \cup {"squeueCommand", "dryRun"}

Default == [trustDomain |-> "", hint |-> "slurm", metricsAddr |-> "", className |-> "slurm",
            spireServerSocket |-> "unix:///tmp/spire-server/private/api.sock",
            jobIdentifier |-> "auto",
            parentIDTemplate |-> "spiffe://{{.TrustDomain}}/node/{{.Node}}",
            spiffeIDTemplate |-> "spiffe://{{.TrustDomain}}/slurm/{{.Account}}",
            squeueCommand |-> <<"squeue", "--json">>, dryRun |-> FALSE,
            interval |-> 10000, squeueTimeout |-> 30000, x509SVIDTTL |-> 0, jwtSVIDTTL |-> 0]

\* What validate has for patterns and parsers accepts the defaults.
ASSUME DefaultsAssumption ==
  /\ Default.className \in ClassNames /\ Default.hint \notin LongHints
  /\ {Default.parentIDTemplate, Default.spiffeIDTemplate} \subseteq DOMAIN ParseTemplate

Init ==
  /\ \E i \in Invocations :
       flags = i.flags /\ files = i.files /\ env = i.env /\ shell = i.shell
  /\ stage = "locate" /\ resolved = NoFile /\ cfg = NoConfig /\ culprit = "none"

Fail(what) == stage' = "failed" /\ culprit' = what

\* Going through order, x is the first found in S.
IsFirst(order, S, x) ==
  \E i \in DOMAIN order : /\ order[i] = x /\ x \in S
                          /\ \A j \in 1 .. i - 1 : order[j] \notin S

-------------------------------------------------------------------------------
(***************************************************************************)
(* ResolvePath.                                                            *)
(***************************************************************************)
IsFile(p) == p \in DOMAIN files /\ files[p] # Directory

\* Mutant: the shipped defaults come before an instance's own files.
DefaultsFirst ==
  <<flags.path \o <<"default.conf">>, flags.path \o <<flags.instance, "config">>,
    flags.path \o <<flags.instance, ".conf">> >>

Candidates ==
  LET own(kind) == flags.path \o <<flags.instance, kind>>
      shipped   == flags.path \o <<"default.conf">>
  IN  IF flags.instance = "" THEN <<shipped>> ELSE <<own("config"), own(".conf"), shipped>>

ResolvePath ==
  /\ stage = "locate"
  /\ LET there == {p \in Range(Candidates) : IsFile(p)}
         isDir == flags.path \in DOMAIN files /\ files[flags.path] = Directory
         found(p) == resolved' = p /\ stage' = "load" /\ UNCHANGED culprit
     IN  \/ ~isDir /\ found(flags.path)
         \/ isDir /\ \E p \in there : IsFirst(Candidates, there, p) /\ found(p)
         \/ isDir /\ there = {} /\ Fail("path") /\ UNCHANGED resolved
  /\ UNCHANGED <<flags, files, env, shell, cfg>>

-------------------------------------------------------------------------------
(***************************************************************************)
(* Load.                                                                   *)
(***************************************************************************)
References == {"${V}", "'${V}'"}

Texts(file) == DOMAIN file \ {"squeueCommand", "dryRun"}

(***************************************************************************)
(* os.ExpandEnv before the YAML is parsed: an unquoted reference to an     *)
(* undefined variable leaves the key null, a quoted one leaves it empty.   *)
(***************************************************************************)
Expanded(file) ==
  IF ~flags.expandEnv THEN file
  ELSE LET null == {s \in Texts(file) : file[s] = "${V}" /\ shell = ""}
       IN  [s \in DOMAIN file \ null |->
              IF s \in Texts(file) /\ file[s] \in References THEN shell ELSE file[s]]

\* An empty document is an error to the decoder, and so is an unknown key.
Decodes(file) == DOMAIN file # {} /\ DOMAIN file \subseteq Settings

\* Mutant: the environment overrides the file.
resolveStringEnvFirst(fc, s) ==
  IF s \in DOMAIN env THEN env[s] ELSE IF s \in DOMAIN fc THEN fc[s] ELSE Default[s]

resolveString(fc, s) ==
  IF s \in DOMAIN fc THEN fc[s] ELSE IF s \in DOMAIN env THEN env[s] ELSE Default[s]

resolveNonEmptyString(fc, s) ==
  IF s \in DOMAIN fc /\ fc[s] # "" THEN fc[s]
  ELSE IF s \in DOMAIN env /\ env[s] # "" THEN env[s] ELSE Default[s]

\* The environment's command is split into words before it gets here.
resolveStringSlice(fc, s) == resolveString(fc, s)

BoolTexts == {"", "true", "false"}

resolveBool(fc, s) ==
  IF s \in DOMAIN fc THEN fc[s] ELSE s \in DOMAIN env /\ env[s] = "true"

Blanks == {"", " "}

DurationText(fc, s) ==
  IF s \in DOMAIN fc THEN fc[s] ELSE IF s \in DOMAIN env THEN env[s] ELSE ""

resolveDuration(fc, s, default) ==
  LET raw == DurationText(fc, s) IN IF raw \in Blanks THEN default ELSE ParseDuration[raw]

\* The settings at which resolve gives up, and the order it takes them in.
Unresolvable(fc) ==
  {s \in Durations : DurationText(fc, s) \notin Blanks \cup DOMAIN ParseDuration}
    \cup {s \in {"dryRun"} : s \in DOMAIN env \ DOMAIN fc /\ env[s] \notin BoolTexts}

ResolveOrder == <<"dryRun", "interval", "squeueInterval", "spireInterval", "reconcileInterval",
                  "squeueTimeout", "x509SVIDTTL", "jwtSVIDTTL">>

resolve(fc) ==
  LET base == resolveDuration(fc, "interval", Default.interval)
  IN  [s \in Settings |->
         CASE s \in MayBeEmpty      -> resolveString(fc, s)
           [] s \in NonEmpty        -> resolveNonEmptyString(fc, s)
           [] s = "squeueCommand"   -> resolveStringSlice(fc, s)
           [] s = "dryRun"          -> resolveBool(fc, s)
           [] s = "interval"        -> base
           [] s \in Loops           -> resolveDuration(fc, s, base)
           [] OTHER                 -> resolveDuration(fc, s, Default[s])]

\* Mutant: a zero interval passes.
AcceptedWithZero(c, s) ==
  CASE s = "trustDomain"       -> c[s] \in TrustDomains
    [] s \in Durations         -> c[s] >= 0
    [] OTHER                   -> TRUE

Accepted(c, s) ==
  CASE s = "trustDomain"       -> c[s] \in TrustDomains
    [] s = "className"         -> c[s] \in ClassNames
    [] s = "hint"              -> c[s] \notin LongHints
    [] s = "jobIdentifier"     -> c[s] \in {"auto", "job_id", "sluid"}
    [] s = "spireServerSocket" -> c[s] # ""
    [] s = "squeueCommand"     -> c[s] # <<>>
    [] s \in {"interval", "squeueTimeout"} \cup Loops -> c[s] > 0
    [] s \in Lifetimes         -> c[s] >= 0
    [] s \in {"parentIDTemplate", "spiffeIDTemplate"} ->
         c[s] \notin Blanks /\ c[s] \in DOMAIN ParseTemplate

\* The settings validate refuses, and the order it takes them in.
Refused(c) == {s \in Settings \ {"metricsAddr", "dryRun"} : ~Accepted(c, s)}

\* Mutant: the intervals derived from the base are looked at before it.
ValidateLoopsFirst == <<"trustDomain", "squeueInterval", "interval">>

ValidateOrder == <<"trustDomain", "className", "hint", "jobIdentifier", "spireServerSocket",
                   "squeueCommand", "squeueTimeout", "interval", "squeueInterval",
                   "spireInterval", "reconcileInterval", "x509SVIDTTL", "jwtSVIDTTL",
                   "parentIDTemplate", "spiffeIDTemplate">>

\* What is resolved: the expanded file, or nothing.
Text == IF resolved = NoFile THEN [s \in {} |-> ""] ELSE Expanded(files[resolved])

Reads == resolved = NoFile \/ (resolved \in DOMAIN files /\ Decodes(files[resolved]))

Load ==
  /\ stage = "load"
  /\ LET gaveUp == Unresolvable(Text)
         c      == resolve(Text)
     IN  \/ /\ \/ ~Reads /\ Fail("path")
               \/ /\ Reads
                  /\ \E s \in gaveUp : IsFirst(ResolveOrder, gaveUp, s) /\ Fail(s)
               \/ /\ Reads /\ gaveUp = {}
                  /\ \E s \in Refused(c) : IsFirst(ValidateOrder, Refused(c), s) /\ Fail(s)
            /\ UNCHANGED cfg
         \/ /\ Reads /\ gaveUp = {} /\ Refused(c) = {}
            /\ stage' = "loaded" /\ cfg' = c /\ UNCHANGED culprit
  /\ UNCHANGED <<flags, files, env, shell, resolved>>

-------------------------------------------------------------------------------
(***************************************************************************)
(* What run does with it.                                                  *)
(***************************************************************************)
\* JobHost.Key and JobHost.TemplateData.
Key(h) == IF h.SLUID # "" THEN h.SLUID ELSE h.JobID

TemplateData(h, c) ==
  [TrustDomain |-> c.trustDomain, ClassName |-> c.className, JobID |-> h.JobID,
   SLUID |-> h.SLUID, JobKey |-> Key(h), Account |-> h.Account, Node |-> h.Node]

(***************************************************************************)
(* renderID: a field there is not fails the template, and a segment that   *)
(* comes out empty, or with a character SPIFFE IDs do not have, the ID.    *)
(***************************************************************************)
SegmentRenders(segment, data) ==
  /\ segment.fields \subseteq DOMAIN data
  /\ LET texts == ({segment.literal} \cup {data[f] : f \in segment.fields}) \ {""}
     IN  texts # {} /\ texts \subseteq PathTexts

Renders(c, h) ==
  \A t \in {"parentIDTemplate", "spiffeIDTemplate"} :
    \A segment \in ParseTemplate[c[t]] : SegmentRenders(segment, TemplateData(h, c))

Sample == [JobID |-> "12345", SLUID |-> "", Account |-> "example-account", Node |-> "node01"]

printValidation ==
  /\ stage = "loaded" /\ flags.validate
  /\ IF Renders(cfg, Sample) THEN stage' = "valid" /\ UNCHANGED culprit ELSE Fail("templates")
  /\ UNCHANGED <<flags, files, env, shell, resolved, cfg>>

\* Mutant: the error of Load is not looked at.
RunUnloaded ==
  /\ stage \in {"failed", "loaded"} /\ ~flags.validate
  /\ stage' = "running"
  /\ UNCHANGED <<flags, files, env, shell, resolved, cfg, culprit>>

Run ==
  /\ stage = "loaded" /\ ~flags.validate
  /\ stage' = "running"
  /\ UNCHANGED <<flags, files, env, shell, resolved, cfg, culprit>>

Next == ResolvePath \/ Load \/ printValidation \/ Run

Spec == Init /\ [][Next]_vars

-------------------------------------------------------------------------------
(***************************************************************************)
(* Properties.                                                             *)
(***************************************************************************)
Loaded == cfg # NoConfig

TypeOK ==
  /\ stage \in {"locate", "load", "loaded", "running", "valid", "failed"}
  /\ stage \in {"loaded", "running", "valid"} => Loaded
  /\ culprit \in Settings \cup {"none", "path", "templates"}
  /\ Loaded => DOMAIN cfg = Settings

(***************************************************************************)
(* The file that is read is the most specific one there is: an instance's  *)
(* own before the shipped defaults, never a directory (config.go 138-152). *)
(***************************************************************************)
MostSpecificFile ==
  (stage = "load" /\ flags.path # NoFile) =>
    LET own == {flags.path \o <<flags.instance, kind>> : kind \in {"config", ".conf"}}
        directory == flags.path \in DOMAIN files /\ ~IsFile(flags.path)
    IN  /\ ~directory => resolved = flags.path
        /\ directory  => IsFile(resolved)
        /\ directory /\ flags.instance # "" =>
             /\ (\E p \in own : IsFile(p)) => resolved \in own
             /\ IsFile(flags.path \o <<flags.instance, "config">>) =>
                  resolved = flags.path \o <<flags.instance, "config">>

\* Whether a level gives a setting a value, and which.
Gives(level, s) == /\ s \in DOMAIN level
                   /\ s \in NonEmpty => level[s] # ""
                   /\ s \in Durations => level[s] \in DOMAIN ParseDuration

Meaning(s, text) == IF s \in Durations THEN ParseDuration[text]
                    ELSE IF s = "dryRun" THEN text = "true" ELSE text

Fallback(s) == IF s \in Loops THEN cfg.interval ELSE Default[s]

(***************************************************************************)
(* File before environment before default, for every setting, whichever    *)
(* others are set (README.md 137-138; config.go 197-199, 246-247).         *)
(***************************************************************************)
FileBeatsEnvironment ==
  Loaded => \A s \in Settings :
    /\ Gives(Text, s) =>
         cfg[s] = IF s = "dryRun" THEN Text[s] ELSE Meaning(s, Text[s])
    /\ s \notin DOMAIN Text /\ Gives(env, s) => cfg[s] = Meaning(s, env[s])
    /\ ~Gives(Text, s) /\ ~Gives(env, s) => cfg[s] = Fallback(s)

\* The level that decides a setting, whether its text parses or not, and the text.
Decides(level, s) == s \in DOMAIN level /\ (s \in NonEmpty => level[s] # "")
GivenTo(s) == IF Decides(Text, s) THEN Text[s] ELSE env[s]
IsGiven(s) == Decides(Text, s) \/ Decides(env, s)

\* A daemon could run with the text, whatever the other settings are.
Usable(s, text) ==
  IF s \in Durations
  THEN \/ text \in Blanks
       \/ /\ text \in DOMAIN ParseDuration
          /\ ParseDuration[text] >= (IF s \in Lifetimes THEN 0 ELSE 1)
  ELSE IF s = "dryRun" THEN s \in DOMAIN Text \/ text \in BoolTexts
  ELSE Accepted([x \in {s} |-> text], s)

(***************************************************************************)
(* A load that fails names a setting whose own text, at the level that     *)
(* decides it, no daemon could run with, or the trust domain nobody gave;  *)
(* and never a setting that is only derived from the one at fault, or one  *)
(* whose bad text another level makes good (config.go 208-212, 246-247,    *)
(* 283-344).                                                               *)
(***************************************************************************)
BlamesWhatWasGiven ==
  stage = "failed" /\ culprit \in Settings =>
    IF IsGiven(culprit) THEN ~Usable(culprit, GivenTo(culprit)) ELSE culprit = "trustDomain"

(***************************************************************************)
(* The daemon runs with intervals a ticker can be made of, a command of a  *)
(* word at least and templates that parse, however little was set and      *)
(* whatever expanded to nothing (config.go 283-344).                       *)
(***************************************************************************)
RunsWithUsable ==
  stage = "running" =>
    /\ \A s \in Durations \ Lifetimes : cfg[s] > 0
    /\ \A s \in Lifetimes : cfg[s] >= 0
    /\ cfg.squeueCommand # <<>> /\ cfg.className # "" /\ cfg.trustDomain # ""
    /\ {cfg.parentIDTemplate, cfg.spiffeIDTemplate} \subseteq DOMAIN ParseTemplate
===============================================================================
