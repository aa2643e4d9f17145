----------------------------- MODULE ConfigProofs -----------------------------
(***************************************************************************)
(* Configuration, for every invocation, environment and set of files, and  *)
(* whatever the parsers make of durations, trust domains and templates.    *)
(*                                                                         *)
(* The argument.  ResolvePath and Load are a few steps, each a function of *)
(* what the daemon is started with; so the invariant says which function   *)
(* of it each variable is, and the properties are facts about resolve and  *)
(* the order of the checks in it and in validate.                          *)
(***************************************************************************)
EXTENDS Config, TLAPS

\* What a configuration that was loaded is, and what a failed load blames.
LoadedInv ==
  Loaded => /\ cfg = resolve(Text)
            /\ Unresolvable(Text) = {}
            /\ Refused(cfg) = {}

BlameInv ==
  stage = "failed" /\ culprit \in Settings =>
    \/ culprit \in Unresolvable(Text)
    \/ /\ Unresolvable(Text) = {}
       /\ IsFirst(ValidateOrder, Refused(resolve(Text)), culprit)

StageInv ==
  /\ stage \in {"locate", "load", "loaded", "running", "valid", "failed"}
  /\ stage \in {"loaded", "running", "valid"} => Loaded
  /\ stage \in {"locate", "load"} => ~Loaded
  /\ culprit \in Settings \cup {"none", "path", "templates"}

ConfigInv == StageInv /\ MostSpecificFile /\ LoadedInv /\ BlameInv

-------------------------------------------------------------------------------
(***************************************************************************)
(* The settings.                                                           *)
(***************************************************************************)
LEMMA Kinds ==
  /\ \A s \in MayBeEmpty : /\ s \in Settings /\ s \notin NonEmpty /\ s \notin Durations
                           /\ s # "squeueCommand" /\ s # "dryRun"
  /\ \A s \in NonEmpty : /\ s \in Settings /\ s \notin MayBeEmpty /\ s \notin Durations
                         /\ s # "squeueCommand" /\ s # "dryRun"
  /\ \A s \in Durations : /\ s \in Settings /\ s \notin MayBeEmpty /\ s \notin NonEmpty
                          /\ s # "squeueCommand" /\ s # "dryRun"
  /\ "squeueCommand" \in Settings /\ "dryRun" \in Settings
  /\ \A s \in Loops : s \in Durations /\ s # "interval" /\ s \notin Lifetimes
                      /\ s # "squeueTimeout"
  /\ \A s \in Lifetimes : s \in Durations /\ s # "interval" /\ s \notin Loops
                          /\ s # "squeueTimeout"
BY DEF MayBeEmpty, NonEmpty, Durations, Loops, Lifetimes, Settings

\* What resolve makes of each kind of setting.
LEMMA Resolved ==
  ASSUME NEW fc, NEW s \in Settings
  PROVE  /\ s \in MayBeEmpty => resolve(fc)[s] = resolveString(fc, s)
         /\ s \in NonEmpty => resolve(fc)[s] = resolveNonEmptyString(fc, s)
         /\ s = "squeueCommand" => resolve(fc)[s] = resolveString(fc, s)
         /\ s = "dryRun" => resolve(fc)[s] = resolveBool(fc, s)
         /\ s = "interval" => resolve(fc)[s] = resolveDuration(fc, s, Default.interval)
         /\ s \in Loops => resolve(fc)[s] = resolveDuration(fc, s, resolve(fc).interval)
         /\ s \in Durations \ (Loops \cup {"interval"}) =>
              resolve(fc)[s] = resolveDuration(fc, s, Default[s])
<1> DEFINE base == resolveDuration(fc, "interval", Default.interval)
           of(x) == CASE x \in MayBeEmpty      -> resolveString(fc, x)
                      [] x \in NonEmpty        -> resolveNonEmptyString(fc, x)
                      [] x = "squeueCommand"   -> resolveStringSlice(fc, x)
                      [] x = "dryRun"          -> resolveBool(fc, x)
                      [] x = "interval"        -> base
                      [] x \in Loops           -> resolveDuration(fc, x, base)
                      [] OTHER                 -> resolveDuration(fc, x, Default[x])
<1>1. \A x \in Settings : resolve(fc)[x] = of(x)
  BY DEF resolve
<1>2. "interval" \in Settings /\ "interval" \in Durations /\ "interval" \notin Loops
  BY Kinds DEF Durations
<1> HIDE DEF base
<1>3. resolve(fc).interval = base
  BY <1>1, <1>2, Kinds
<1>4. s \in MayBeEmpty => of(s) = resolveString(fc, s)
  BY <1>2, Kinds
<1>5. s \in NonEmpty => of(s) = resolveNonEmptyString(fc, s)
  BY <1>2, Kinds
<1>6. s = "squeueCommand" => of(s) = resolveString(fc, s)
  BY Kinds DEF resolveStringSlice
<1>7. s = "dryRun" => of(s) = resolveBool(fc, s)
  BY Kinds
<1>8. s = "interval" => of(s) = base
  BY <1>2, Kinds
<1>9. s \in Loops => of(s) = resolveDuration(fc, s, base)
  BY Kinds
<1>10. s \in Durations \ (Loops \cup {"interval"}) =>
         of(s) = resolveDuration(fc, s, Default[s])
  BY Kinds
<1> HIDE DEF of
<1> QED
  BY <1>1, <1>3, <1>4, <1>5, <1>6, <1>7, <1>8, <1>9, <1>10 DEF base

LEMMA ResolvedDomain ==
  ASSUME NEW fc
  PROVE  DOMAIN resolve(fc) = Settings /\ resolve(fc) # NoConfig
<1>1. DOMAIN resolve(fc) = Settings
  BY DEF resolve
<1>2. "interval" \in Settings
  BY DEF Settings, Durations
<1>3. DOMAIN NoConfig = {"none"}
  BY DEF NoConfig
<1> QED
  BY <1>1, <1>2, <1>3

LEMMA DefaultNumbers ==
  /\ Default["interval"] = 10000 /\ Default["squeueTimeout"] = 30000
  /\ Default["x509SVIDTTL"] = 0 /\ Default["jwtSVIDTTL"] = 0
BY DEF Default

LEMMA DefaultChoices ==
  /\ Default["jobIdentifier"] = "auto" /\ Default["spireServerSocket"] # ""
  /\ Default["squeueCommand"] # <<>>
<1>1. Default["squeueCommand"] = <<"squeue", "--json">>
  BY DEF Default
<1>2. /\ Default["jobIdentifier"] = "auto"
      /\ Default["spireServerSocket"] = "unix:///tmp/spire-server/private/api.sock"
  BY DEF Default
<1> QED
  BY <1>1, <1>2

LEMMA DefaultTexts == \A s \in NonEmpty : Default[s] # "" /\ Default[s] # " "
<1>1. /\ Default["className"] = "slurm" /\ Default["jobIdentifier"] = "auto"
      /\ Default["spireServerSocket"] = "unix:///tmp/spire-server/private/api.sock"
      /\ Default["parentIDTemplate"] = "spiffe://{{.TrustDomain}}/node/{{.Node}}"
      /\ Default["spiffeIDTemplate"] = "spiffe://{{.TrustDomain}}/slurm/{{.Account}}"
  BY DEF Default
<1> QED
  BY <1>1 DEF NonEmpty

-------------------------------------------------------------------------------
(***************************************************************************)
(* The invariant.                                                          *)
(***************************************************************************)
LEMMA InitConfig == Init => ConfigInv
<1> SUFFICES ASSUME Init PROVE ConfigInv
  OBVIOUS
<1>1. stage = "locate" /\ cfg = NoConfig /\ culprit = "none"
  BY DEF Init
<1> QED
  BY <1>1 DEF ConfigInv, StageInv, MostSpecificFile, LoadedInv, BlameInv, Loaded

LEMMA SameText ==
  ASSUME UNCHANGED <<flags, files, shell, resolved>>
  PROVE  Text' = Text
BY DEF Text, Expanded

LEMMA SameInput ==
  ASSUME UNCHANGED <<flags, files, env, shell, resolved>>
  PROVE  /\ Text' = Text
         /\ Unresolvable(Text)' = Unresolvable(Text)
         /\ resolve(Text)' = resolve(Text)
<1>1. Text' = Text
  BY SameText
<1> QED
  BY <1>1 DEF Unresolvable, DurationText, resolve, resolveString, resolveNonEmptyString,
              resolveStringSlice, resolveBool, resolveDuration

LEMMA LocatesMostSpecific ==
  ASSUME StageInv, ResolvePath
  PROVE  MostSpecificFile'
<1> DEFINE p == flags.path
           a == p \o <<flags.instance, "config">>
           b == p \o <<flags.instance, ".conf">>
           shipped == p \o <<"default.conf">>
           there == {q \in Range(Candidates) : IsFile(q)}
           isDir == p \in DOMAIN files /\ files[p] = Directory
<1>1. UNCHANGED <<flags, files>>
  BY DEF ResolvePath
<1>2. \/ ~isDir /\ resolved' = p
      \/ isDir /\ IsFirst(Candidates, there, resolved')
      \/ stage' = "failed"
  BY DEF ResolvePath, Fail
<1>3. isDir <=> p \in DOMAIN files /\ ~IsFile(p)
  BY DEF IsFile
<1>4. ASSUME isDir, IsFirst(Candidates, there, resolved')
      PROVE  /\ IsFile(resolved')
             /\ flags.instance # "" =>
                  /\ IsFile(a) \/ IsFile(b) => resolved' = a \/ resolved' = b
                  /\ IsFile(a) => resolved' = a
  <2>1. PICK i \in DOMAIN Candidates :
          /\ Candidates[i] = resolved' /\ resolved' \in there
          /\ \A j \in 1 .. i - 1 : Candidates[j] \notin there
    BY <1>4 DEF IsFirst
  <2>2. IsFile(resolved')
    BY <2>1
  <2>3. ASSUME flags.instance # ""
        PROVE  /\ IsFile(a) \/ IsFile(b) => resolved' = a \/ resolved' = b
               /\ IsFile(a) => resolved' = a
    <3>1. Candidates = <<a, b, shipped>>
      BY <2>3 DEF Candidates
    <3> HIDE DEF a, b, shipped, there
    <3>2. /\ i \in 1 .. 3 /\ Candidates[1] = a /\ Candidates[2] = b
          /\ Range(Candidates) = {a, b, shipped}
      BY <2>1, <3>1 DEF Range
    <3>3. (IsFile(a) => a \in there) /\ (IsFile(b) => b \in there)
      BY <3>2 DEF there
    <3> QED
      BY <2>1, <3>2, <3>3
  <2> QED
    BY <2>2, <2>3
<1>5. \A q : IsFile(q)' <=> IsFile(q)
  BY <1>1 DEF IsFile
<1> HIDE DEF isDir, there
<1>6. CASE stage' = "failed"
  BY <1>6 DEF MostSpecificFile
<1>7. CASE ~isDir /\ resolved' = p
  BY <1>1, <1>3, <1>5, <1>7 DEF MostSpecificFile
<1>8. CASE isDir /\ IsFirst(Candidates, there, resolved')
  BY <1>1, <1>3, <1>4, <1>5, <1>8 DEF MostSpecificFile
<1> QED
  BY <1>2, <1>6, <1>7, <1>8

LEMMA ResolvePathKeeps ==
  ASSUME ConfigInv, ResolvePath
  PROVE  ConfigInv'
<1>1. stage = "locate" /\ cfg' = cfg /\ ~Loaded
  BY DEF ResolvePath, ConfigInv, StageInv
<1>2. \/ stage' = "load" /\ culprit' = culprit
      \/ stage' = "failed" /\ culprit' = "path"
  BY DEF ResolvePath, Fail
<1>3. "path" \notin Settings
  BY DEF Settings, MayBeEmpty, NonEmpty, Durations, Loops, Lifetimes
<1>4. StageInv' /\ LoadedInv' /\ BlameInv'
  BY <1>1, <1>2, <1>3 DEF ConfigInv, StageInv, LoadedInv, BlameInv, Loaded
<1> QED
  BY <1>4, LocatesMostSpecific DEF ConfigInv

LEMMA LoadKeeps ==
  ASSUME ConfigInv, Load
  PROVE  ConfigInv'
<1>1. stage = "load" /\ UNCHANGED <<flags, files, env, shell, resolved>> /\ ~Loaded
  BY DEF Load, ConfigInv, StageInv
<1>2. /\ Text' = Text
      /\ Unresolvable(Text)' = Unresolvable(Text)
      /\ resolve(Text)' = resolve(Text)
  BY <1>1, SameInput
<1>3. \A c : Refused(c)' = Refused(c)
  BY DEF Refused, Accepted
<1>4. CASE stage' = "failed"
  <2>1. cfg' = cfg /\ ~Loaded'
    BY <1>1, <1>4 DEF Load, Loaded
  <2>2. \/ culprit' = "path"
        \/ culprit' \in Unresolvable(Text)
        \/ /\ Unresolvable(Text) = {} /\ culprit' \in Refused(resolve(Text))
           /\ IsFirst(ValidateOrder, Refused(resolve(Text)), culprit')
    BY <1>4 DEF Load, Fail
  <2>3. Unresolvable(Text) \subseteq Settings /\ Refused(resolve(Text)) \subseteq Settings
    BY DEF Unresolvable, Refused, Settings
  <2>4. "path" \notin Settings
    BY DEF Settings, MayBeEmpty, NonEmpty, Durations, Loops, Lifetimes
  <2>5. BlameInv'
    BY <1>2, <1>3, <2>2, <2>4 DEF BlameInv, IsFirst
  <2>6. StageInv' /\ LoadedInv' /\ MostSpecificFile'
    BY <1>4, <2>1, <2>2, <2>3 DEF StageInv, LoadedInv, MostSpecificFile
  <2> QED
    BY <2>5, <2>6 DEF ConfigInv
<1>5. CASE stage' # "failed"
  <2>1. /\ stage' = "loaded" /\ culprit' = culprit /\ cfg' = resolve(Text)
        /\ Unresolvable(Text) = {} /\ Refused(resolve(Text)) = {}
    BY <1>5 DEF Load, Fail
  <2>2. Loaded' /\ LoadedInv'
    BY <1>2, <1>3, <2>1, ResolvedDomain DEF Loaded, LoadedInv, Refused, Accepted
  <2>3. StageInv' /\ BlameInv' /\ MostSpecificFile'
    BY <2>1, <2>2 DEF ConfigInv, StageInv, BlameInv, MostSpecificFile
  <2> QED
    BY <2>2, <2>3 DEF ConfigInv
<1> QED
  BY <1>4, <1>5

\* Once loaded, the configuration stays what it is.
LEMMA LaterKeeps ==
  ASSUME ConfigInv, UNCHANGED <<flags, files, env, shell, resolved, cfg>>,
         \/ stage = "loaded" /\ stage' \in {"running", "valid"} /\ culprit' = culprit
         \/ stage = "loaded" /\ stage' = "failed" /\ culprit' = "templates"
         \/ stage' = stage /\ culprit' = culprit
  PROVE  ConfigInv'
<1>1. /\ Unresolvable(Text)' = Unresolvable(Text)
      /\ resolve(Text)' = resolve(Text) /\ Text' = Text
  BY SameInput
<1>2. /\ Refused(cfg)' = Refused(cfg)
      /\ Refused(resolve(Text))' = Refused(resolve(Text))
  BY <1>1 DEF Refused, Accepted
<1>3. "templates" \notin Settings
  BY DEF Settings, MayBeEmpty, NonEmpty, Durations, Loops, Lifetimes
<1>4. StageInv' /\ LoadedInv'
  BY <1>1, <1>2 DEF ConfigInv, StageInv, LoadedInv, Loaded
<1>5. BlameInv'
  BY <1>1, <1>2, <1>3 DEF ConfigInv, BlameInv, IsFirst
<1>6. MostSpecificFile'
  BY DEF ConfigInv, MostSpecificFile, IsFile
<1> QED
  BY <1>4, <1>5, <1>6 DEF ConfigInv

LEMMA NextConfig == ConfigInv /\ [Next]_vars => ConfigInv'
<1> SUFFICES ASSUME ConfigInv, [Next]_vars PROVE ConfigInv'
  OBVIOUS
<1>1. CASE ResolvePath
  BY <1>1, ResolvePathKeeps
<1>2. CASE Load
  BY <1>2, LoadKeeps
<1>3. CASE printValidation
  BY <1>3, LaterKeeps DEF printValidation, Fail
<1>4. CASE Run
  BY <1>4, LaterKeeps DEF Run
<1>5. CASE UNCHANGED vars
  BY <1>5, LaterKeeps DEF vars
<1> QED
  BY <1>1, <1>2, <1>3, <1>4, <1>5 DEF Next

-------------------------------------------------------------------------------
(***************************************************************************)
(* Levels.                                                                 *)
(***************************************************************************)
LEMMA DurationResolved ==
  ASSUME NEW s \in Durations, NEW default, NEW fc, s \notin Unresolvable(fc)
  PROVE  LET raw   == DurationText(fc, s)
             value == resolveDuration(fc, s, default)
         IN  /\ raw \in DOMAIN ParseDuration => value = ParseDuration[raw]
             /\ raw \notin DOMAIN ParseDuration => value = default
BY ParsersAssumption DEF Unresolvable, resolveDuration, Blanks

LEMMA LevelsOfDurations ==
  ASSUME LoadedInv, Loaded, NEW s \in Durations
  PROVE  /\ Gives(Text, s) => cfg[s] = ParseDuration[Text[s]]
         /\ s \notin DOMAIN Text /\ Gives(env, s) => cfg[s] = ParseDuration[env[s]]
         /\ ~Gives(Text, s) /\ ~Gives(env, s) => cfg[s] = Fallback(s)
<1>1. cfg = resolve(Text) /\ s \notin Unresolvable(Text) /\ s \notin NonEmpty
  BY Kinds DEF LoadedInv
<1>2. Gives(Text, s) => DurationText(Text, s) = Text[s] /\ Text[s] \in DOMAIN ParseDuration
  BY DEF Gives, DurationText
<1>3. s \notin DOMAIN Text /\ Gives(env, s) => /\ DurationText(Text, s) = env[s]
                                              /\ env[s] \in DOMAIN ParseDuration
  BY DEF Gives, DurationText
<1>4. ~Gives(Text, s) /\ ~Gives(env, s) => DurationText(Text, s) \notin DOMAIN ParseDuration
  BY <1>1, ParsersAssumption DEF Gives, DurationText
<1>5. \E default : /\ cfg[s] = resolveDuration(Text, s, default)
                  /\ default = Fallback(s)
  <2>1. CASE s \in Loops
    <3>1. cfg[s] = resolveDuration(Text, s, cfg.interval)
      BY <1>1, <2>1, Kinds, Resolved
    <3> QED
      BY <2>1, <3>1 DEF Fallback
  <2>2. CASE s \notin Loops
    <3>1. cfg[s] = resolveDuration(Text, s, Default[s])
      BY <1>1, <2>2, Kinds, Resolved
    <3> QED
      BY <2>2, <3>1 DEF Fallback
  <2> QED
    BY <2>1, <2>2
<1>6. PICK default : cfg[s] = resolveDuration(Text, s, default) /\ default = Fallback(s)
  BY <1>5
<1> QED
  BY <1>1, <1>2, <1>3, <1>4, <1>6, DurationResolved

LEMMA LevelsOfTexts ==
  ASSUME LoadedInv, Loaded, NEW s \in MayBeEmpty \cup NonEmpty \cup {"squeueCommand"}
  PROVE  /\ Gives(Text, s) => cfg[s] = Text[s]
         /\ s \notin DOMAIN Text /\ Gives(env, s) => cfg[s] = env[s]
         /\ ~Gives(Text, s) /\ ~Gives(env, s) => cfg[s] = Default[s]
<1>1. cfg = resolve(Text)
  BY DEF LoadedInv
<1>2. CASE s \in NonEmpty
  BY <1>1, <1>2, Resolved, Kinds DEF Gives, resolveNonEmptyString
<1>3. CASE s \notin NonEmpty
  BY <1>1, <1>3, Resolved, Kinds DEF Gives, resolveString
<1> QED
  BY <1>2, <1>3

LEMMA LevelsOfDryRun ==
  ASSUME LoadedInv, Loaded, NEW s, s = "dryRun"
  PROVE  /\ Gives(Text, s) => cfg[s] = Text[s]
         /\ s \notin DOMAIN Text /\ Gives(env, s) => cfg[s] = (env[s] = "true")
         /\ ~Gives(Text, s) /\ ~Gives(env, s) => cfg[s] = Default[s]
<1>1. cfg[s] = resolveBool(Text, s) /\ s \notin NonEmpty /\ s \notin Durations
  BY Resolved, Kinds DEF LoadedInv
<1>2. Default[s] = FALSE
  BY DEF Default
<1> QED
  BY <1>1, <1>2 DEF Gives, resolveBool

LEMMA LevelsInOrder == ConfigInv => FileBeatsEnvironment
<1> SUFFICES ASSUME LoadedInv, Loaded, NEW s \in Settings
             PROVE  /\ Gives(Text, s) =>
                         cfg[s] = IF s = "dryRun" THEN Text[s] ELSE Meaning(s, Text[s])
                    /\ s \notin DOMAIN Text /\ Gives(env, s) => cfg[s] = Meaning(s, env[s])
                    /\ ~Gives(Text, s) /\ ~Gives(env, s) => cfg[s] = Fallback(s)
  BY DEF ConfigInv, FileBeatsEnvironment
<1>1. CASE s \in Durations
  BY <1>1, LevelsOfDurations, Kinds DEF Meaning
<1>2. CASE s = "dryRun"
  BY <1>2, LevelsOfDryRun, Kinds DEF Meaning, Fallback
<1>3. CASE s \in MayBeEmpty \cup NonEmpty \cup {"squeueCommand"}
  BY <1>3, LevelsOfTexts, Kinds DEF Meaning, Fallback
<1> QED
  BY <1>1, <1>2, <1>3 DEF Settings

-------------------------------------------------------------------------------
(***************************************************************************)
(* What is accepted and what is refused.                                   *)
(***************************************************************************)
LEMMA AcceptedTexts ==
  ASSUME NEW c
  PROVE  /\ Accepted(c, "trustDomain") <=> c.trustDomain \in TrustDomains
         /\ Accepted(c, "className") <=> c.className \in ClassNames
         /\ Accepted(c, "hint") <=> c.hint \notin LongHints
         /\ Accepted(c, "jobIdentifier") <=> c.jobIdentifier \in {"auto", "job_id", "sluid"}
         /\ Accepted(c, "spireServerSocket") <=> c.spireServerSocket # ""
         /\ Accepted(c, "squeueCommand") <=> c.squeueCommand # <<>>
BY DEF Accepted, Loops, Lifetimes

LEMMA AcceptedIntervals ==
  ASSUME NEW c, NEW s \in {"interval", "squeueTimeout"} \cup Loops
  PROVE  Accepted(c, s) <=> c[s] > 0
BY DEF Accepted, Loops, Lifetimes

LEMMA AcceptedLifetimes ==
  ASSUME NEW c, NEW s \in Lifetimes
  PROVE  Accepted(c, s) <=> c[s] >= 0
BY DEF Accepted, Loops, Lifetimes

LEMMA AcceptedTemplates ==
  ASSUME NEW c, NEW s \in {"parentIDTemplate", "spiffeIDTemplate"}
  PROVE  Accepted(c, s) <=> c[s] \notin Blanks /\ c[s] \in DOMAIN ParseTemplate
BY DEF Accepted, Loops, Lifetimes

LEMMA RunningIsUsable == ConfigInv => RunsWithUsable
<1> SUFFICES ASSUME ConfigInv, stage = "running"
             PROVE  /\ \A s \in Durations \ Lifetimes : cfg[s] > 0
                    /\ \A s \in Lifetimes : cfg[s] >= 0
                    /\ cfg.squeueCommand # <<>> /\ cfg.className # "" /\ cfg.trustDomain # ""
                    /\ {cfg.parentIDTemplate, cfg.spiffeIDTemplate}
                         \subseteq DOMAIN ParseTemplate
  BY DEF RunsWithUsable
<1>1. cfg = resolve(Text) /\ Refused(cfg) = {}
  BY DEF ConfigInv, StageInv, LoadedInv
<1>2. \A s \in Settings \ {"metricsAddr", "dryRun"} : Accepted(cfg, s)
  BY <1>1 DEF Refused
<1>3. /\ \A s \in Durations : s \in Settings \ {"metricsAddr", "dryRun"}
      /\ {"trustDomain", "squeueCommand", "parentIDTemplate", "spiffeIDTemplate"}
           \subseteq Settings \ {"metricsAddr", "dryRun"}
      /\ \A s \in Durations \ Lifetimes : s \in {"interval", "squeueTimeout"} \cup Loops
      /\ Lifetimes \subseteq Durations
  BY DEF Settings, Durations, Loops, Lifetimes, MayBeEmpty, NonEmpty
<1>4. /\ \A s \in Durations \ Lifetimes : cfg[s] > 0
      /\ \A s \in Lifetimes : cfg[s] >= 0
      /\ cfg.squeueCommand # <<>> /\ cfg.trustDomain \in TrustDomains
      /\ {cfg.parentIDTemplate, cfg.spiffeIDTemplate} \subseteq DOMAIN ParseTemplate
  BY <1>2, <1>3, AcceptedTexts, AcceptedIntervals, AcceptedLifetimes, AcceptedTemplates
<1>5. cfg.className # ""
  <2>1. "className" \in NonEmpty /\ "className" \in Settings
    BY DEF NonEmpty, Settings
  <2>2. cfg["className"] = resolveNonEmptyString(Text, "className")
    BY <1>1, <2>1, Resolved
  <2> QED
    BY <2>1, <2>2, DefaultTexts DEF resolveNonEmptyString
<1> QED
  BY <1>4, <1>5, ParsersAssumption

\* What is left at its default passes, but for the trust domain.
LEMMA DefaultsPass ==
  ASSUME NEW fc, NEW s \in Refused(resolve(fc)), resolve(fc)[s] = Default[s]
  PROVE  s = "trustDomain" \/ s \in Loops
<1>1. s \in Settings /\ s \notin {"metricsAddr", "dryRun"} /\ ~Accepted(resolve(fc), s)
  BY DEF Refused
<1> DEFINE c == resolve(fc)
<1> HIDE DEF c
<1>2. s \in {"trustDomain", "hint", "className", "spireServerSocket", "jobIdentifier",
            "parentIDTemplate", "spiffeIDTemplate", "interval", "squeueTimeout",
            "x509SVIDTTL", "jwtSVIDTTL", "squeueCommand"} \cup Loops
  BY <1>1 DEF Settings, MayBeEmpty, NonEmpty, Durations, Lifetimes
<1>3. ~Accepted(c, s) /\ c[s] = Default[s]
  BY <1>1 DEF c
<1>4. CASE s \in {"hint", "className", "spireServerSocket", "jobIdentifier", "squeueCommand"}
  <2>1. /\ Default["jobIdentifier"] = "auto" /\ Default["spireServerSocket"] # ""
        /\ Default["squeueCommand"] # <<>>
    BY DefaultChoices
  <2>2. /\ Accepted(c, "hint") <=> c["hint"] \notin LongHints
        /\ Accepted(c, "className") <=> c["className"] \in ClassNames
        /\ Accepted(c, "spireServerSocket") <=> c["spireServerSocket"] # ""
        /\ Accepted(c, "jobIdentifier") <=>
             c["jobIdentifier"] \in {"auto", "job_id", "sluid"}
        /\ Accepted(c, "squeueCommand") <=> c["squeueCommand"] # <<>>
    BY AcceptedTexts
  <2>3. Default["hint"] \notin LongHints /\ Default["className"] \in ClassNames
    BY DefaultsAssumption
  <2>4. s # "hint"
    BY <1>3, <2>2, <2>3
  <2>5. s # "className"
    BY <1>3, <2>2, <2>3
  <2>6. s # "jobIdentifier"
    BY <1>3, <2>1, <2>2
  <2>7. s # "spireServerSocket"
    BY <1>3, <2>1, <2>2
  <2>8. s # "squeueCommand"
    BY <1>3, <2>1, <2>2
  <2> QED
    BY <1>4, <2>4, <2>5, <2>6, <2>7, <2>8
<1>5. CASE s \in {"parentIDTemplate", "spiffeIDTemplate"}
  <2>1. s \in NonEmpty /\ Default[s] \in DOMAIN ParseTemplate
    BY <1>5, DefaultsAssumption DEF NonEmpty
  <2> QED
    BY <1>3, <1>5, <2>1, AcceptedTemplates, DefaultTexts DEF Blanks
<1>6. CASE s \in {"interval", "squeueTimeout"}
  <2>1. Accepted(c, s) <=> c[s] > 0
    BY <1>6, AcceptedIntervals
  <2> QED
    BY <1>3, <1>6, <2>1, DefaultNumbers
<1>7. CASE s \in {"x509SVIDTTL", "jwtSVIDTTL"}
  <2>1. Accepted(c, s) <=> c[s] >= 0
    BY <1>7, AcceptedLifetimes DEF Lifetimes
  <2> QED
    BY <1>3, <1>7, <2>1, DefaultNumbers
<1> QED
  BY <1>2, <1>4, <1>5, <1>6, <1>7

\* The intervals of the loops are looked at after the one they derive from.
LEMMA IntervalBeforeLoops ==
  ASSUME NEW S, NEW s \in Loops, IsFirst(ValidateOrder, S, s)
  PROVE  "interval" \notin S
<1>1. PICK i \in DOMAIN ValidateOrder :
        ValidateOrder[i] = s /\ \A j \in 1 .. i - 1 : ValidateOrder[j] \notin S
  BY DEF IsFirst
<1>2. DOMAIN ValidateOrder = 1 .. 15 /\ ValidateOrder[8] = "interval"
      /\ \A k \in 1 .. 8 : ValidateOrder[k] \notin Loops
  BY DEF ValidateOrder, Loops
<1>3. i > 8
  BY <1>1, <1>2
<1> QED
  BY <1>1, <1>2, <1>3

\* What validate says of a setting depends on that setting alone.
LEMMA AcceptedAlone ==
  ASSUME NEW c, NEW s \in Settings \ {"dryRun", "metricsAddr"}, NEW text, c[s] = text
  PROVE  Accepted(c, s) <=> Accepted([x \in {s} |-> text], s)
<1> DEFINE d == [x \in {s} |-> text]
<1>1. c[s] = d[s]
  OBVIOUS
<1> HIDE DEF d
<1>2. Accepted(c, s) <=> Accepted(d, s)
  BY <1>1 DEF Accepted
<1> QED
  BY <1>2 DEF d

LEMMA RefusedIsUnusable ==
  ASSUME NEW fc, NEW s \in Durations, NEW text \in DOMAIN ParseDuration,
         s \in Refused(resolve(fc)), resolve(fc)[s] = ParseDuration[text]
  PROVE  ~Usable(s, text)
<1> DEFINE c == resolve(fc)
<1>1. ~Accepted(c, s) /\ ParseDuration[text] \in Int /\ text \notin Blanks
  BY ParsersAssumption DEF Refused, Blanks
<1>2. s \in Lifetimes \/ s \in {"interval", "squeueTimeout"} \cup Loops
  BY DEF Durations
<1>3. c[s] = ParseDuration[text]
  OBVIOUS
<1> HIDE DEF c
<1>4. CASE s \in Lifetimes
  <2>1. ~(ParseDuration[text] >= 0)
    BY <1>1, <1>3, <1>4, AcceptedLifetimes
  <2> QED
    BY <1>1, <1>4, <2>1 DEF Usable
<1>5. CASE s \notin Lifetimes
  <2>1. ~(ParseDuration[text] > 0)
    BY <1>1, <1>2, <1>3, <1>5, AcceptedIntervals
  <2>2. ~(ParseDuration[text] >= 1)
    BY <1>1, <2>1
  <2> QED
    BY <1>1, <1>5, <2>2 DEF Usable
<1> QED
  BY <1>4, <1>5

LEMMA GaveUpIsUnusable ==
  ASSUME NEW s \in Unresolvable(Text)
  PROVE  IsGiven(s) /\ ~Usable(s, GivenTo(s))
<1>1. CASE s \in Durations
  <2>1. DurationText(Text, s) \notin Blanks \cup DOMAIN ParseDuration
    BY <1>1, Kinds DEF Unresolvable
  <2>2. s \notin NonEmpty
    BY <1>1, Kinds
  <2>3. IsGiven(s) /\ GivenTo(s) = DurationText(Text, s)
    BY <2>1, <2>2 DEF DurationText, IsGiven, GivenTo, Decides, Blanks
  <2> QED
    BY <1>1, <2>1, <2>3 DEF Usable
<1>2. CASE s \notin Durations
  <2>1. s = "dryRun" /\ s \in DOMAIN env \ DOMAIN Text /\ env[s] \notin BoolTexts
    BY <1>2 DEF Unresolvable
  <2>2. s \notin NonEmpty
    BY <2>1, Kinds
  <2> QED
    BY <1>2, <2>1, <2>2 DEF Usable, IsGiven, GivenTo, Decides
<1> QED
  BY <1>1, <1>2

\* The level that decides a duration may have nothing to say on it.
Blank(s) == s \in Durations /\ GivenTo(s) \in Blanks

LEMMA RefusedGiven ==
  ASSUME Unresolvable(Text) = {}, NEW s \in Refused(resolve(Text)), IsGiven(s), ~Blank(s)
  PROVE  ~Usable(s, GivenTo(s))
<1> DEFINE c == resolve(Text)
<1>1. s \in Settings \ {"dryRun", "metricsAddr"} /\ ~Accepted(c, s)
  BY DEF Refused
<1>2. CASE s \in Durations
  <2>1. s \notin NonEmpty /\ s \notin Unresolvable(Text)
    BY <1>2, Kinds
  <2>2. DurationText(Text, s) = GivenTo(s)
    BY <2>1 DEF DurationText, IsGiven, GivenTo, Decides
  <2>3. PICK default : c[s] = resolveDuration(Text, s, default)
    BY <1>2, Resolved, Kinds
  <2>4. GivenTo(s) \in DOMAIN ParseDuration
    BY <1>2, <2>1, <2>2 DEF Unresolvable, Blank
  <2>5. c[s] = ParseDuration[GivenTo(s)]
    BY <1>2, <2>1, <2>2, <2>3, <2>4, DurationResolved
  <2> QED
    BY <1>2, <2>4, <2>5, RefusedIsUnusable
<1>3. CASE s \notin Durations
  <2>1. c[s] = GivenTo(s)
    <3>1. CASE s \in NonEmpty
      BY <3>1, Resolved, Kinds DEF resolveNonEmptyString, IsGiven, GivenTo, Decides
    <3>2. CASE s \in MayBeEmpty \cup {"squeueCommand"}
      BY <3>2, Resolved, Kinds DEF resolveString, IsGiven, GivenTo, Decides
    <3> QED
      BY <1>1, <1>3, <3>1, <3>2 DEF Settings
  <2> HIDE DEF c
  <2> QED
    BY <1>1, <1>3, <2>1, AcceptedAlone DEF Usable
<1> QED
  BY <1>2, <1>3

LEMMA RefusedUngiven ==
  ASSUME NEW s, IsFirst(ValidateOrder, Refused(resolve(Text)), s),
         ~IsGiven(s) \/ Blank(s)
  PROVE  s = "trustDomain"
<1> DEFINE c == resolve(Text)
<1>1. s \in Refused(c) /\ s \in Settings
  BY DEF IsFirst, Refused
<1>2. s \in Durations => DurationText(Text, s) \in Blanks
  BY Kinds DEF DurationText, IsGiven, GivenTo, Decides, Blank, Blanks
<1>3. s \notin Durations => ~IsGiven(s)
  BY DEF Blank
<1>4. s \notin Loops
  <2>1. SUFFICES ASSUME s \in Loops PROVE FALSE
    OBVIOUS
  <2>2. c[s] = c.interval
    BY <1>2, <2>1, Resolved, Kinds DEF resolveDuration
  <2>3. "interval" \notin Refused(c) /\ "interval" \in Settings
    BY <2>1, IntervalBeforeLoops DEF Settings, Durations
  <2>4. Accepted(c, "interval")
    BY <2>3 DEF Refused
  <2>5. ~Accepted(c, s)
    BY <1>1 DEF Refused
  <2> HIDE DEF c
  <2> QED
    BY <2>1, <2>2, <2>4, <2>5, AcceptedIntervals
<1>5. c[s] = Default[s]
  <2>1. CASE s \in Durations
    <3>1. \/ c[s] = resolveDuration(Text, s, Default[s])
          \/ s = "interval" /\ c[s] = resolveDuration(Text, s, Default.interval)
      BY <1>4, <2>1, Resolved, Kinds
    <3> QED
      BY <1>2, <2>1, <3>1 DEF resolveDuration
  <2>2. CASE s \in NonEmpty
    BY <1>3, <2>2, Resolved, Kinds DEF resolveNonEmptyString, IsGiven, Decides
  <2>3. CASE s \in MayBeEmpty \cup {"squeueCommand"}
    BY <1>3, <2>3, Resolved, Kinds DEF resolveString, IsGiven, Decides
  <2>4. s # "dryRun"
    BY <1>1 DEF Refused
  <2> QED
    BY <1>1, <2>1, <2>2, <2>3, <2>4 DEF Settings
<1> QED
  BY <1>1, <1>4, <1>5, DefaultsPass

LEMMA TrustDomainIsText == "trustDomain" \notin Durations
BY DEF Durations, Loops, Lifetimes

LEMMA BlameIsDeserved == ConfigInv => BlamesWhatWasGiven
<1> SUFFICES ASSUME ConfigInv, stage = "failed", culprit \in Settings
             PROVE  IF IsGiven(culprit) THEN ~Usable(culprit, GivenTo(culprit))
                                        ELSE culprit = "trustDomain"
  BY DEF BlamesWhatWasGiven
<1>1. CASE culprit \in Unresolvable(Text)
  BY <1>1, GaveUpIsUnusable
<1>2. CASE /\ Unresolvable(Text) = {}
           /\ IsFirst(ValidateOrder, Refused(resolve(Text)), culprit)
  <2>1. culprit \in Refused(resolve(Text))
    BY <1>2 DEF IsFirst
  <2>2. CASE IsGiven(culprit) /\ ~Blank(culprit)
    BY <1>2, <2>1, <2>2, RefusedGiven
  <2>3. CASE ~IsGiven(culprit) \/ Blank(culprit)
    <3>1. culprit = "trustDomain"
      BY <1>2, <2>3, RefusedUngiven
    <3>2. ~Blank(culprit)
      BY <3>1, TrustDomainIsText DEF Blank
    <3> QED
      BY <2>3, <3>1, <3>2
  <2> QED
    BY <2>2, <2>3
<1> QED
  BY <1>1, <1>2 DEF ConfigInv, BlameInv

LEMMA ConfigTypes == ConfigInv => TypeOK
BY ResolvedDomain DEF ConfigInv, StageInv, LoadedInv, TypeOK

-------------------------------------------------------------------------------
(***************************************************************************)
(* The stages are passed in order, and what is loaded has every setting    *)
(* (config.go 166-190, 241-281; main.go 83-150).                           *)
(***************************************************************************)
THEOREM ConfigTypesCorrect == Spec => []TypeOK
BY InitConfig, NextConfig, ConfigTypes, PTL DEF Spec

(***************************************************************************)
(* An instance's own file is read before the shipped defaults, and never a *)
(* directory (config.go 138-152).                                          *)
(***************************************************************************)
THEOREM ReadsMostSpecific == Spec => []MostSpecificFile
<1>1. ConfigInv => MostSpecificFile
  BY DEF ConfigInv
<1> QED
  BY <1>1, InitConfig, NextConfig, PTL DEF Spec

(***************************************************************************)
(* Every setting takes the file before the environment before the default, *)
(* a loop's interval the base interval before the default (config.go       *)
(* 197-199, 246-247).                                                      *)
(***************************************************************************)
THEOREM FileComesFirst == Spec => []FileBeatsEnvironment
BY InitConfig, NextConfig, LevelsInOrder, PTL DEF Spec

(***************************************************************************)
(* A load that fails names what was given a bad value, or the trust domain *)
(* that was not given, and nothing derived from another setting (config.go *)
(* 208-212, 283-344).                                                      *)
(***************************************************************************)
THEOREM BlameIsFair == Spec => []BlamesWhatWasGiven
BY InitConfig, NextConfig, BlameIsDeserved, PTL DEF Spec

(***************************************************************************)
(* No daemon runs with an interval, a command, a name or a template it     *)
(* cannot use (config.go 283-344).                                         *)
(***************************************************************************)
THEOREM RunsOnlyWithUsable == Spec => []RunsWithUsable
BY InitConfig, NextConfig, RunningIsUsable, PTL DEF Spec
===============================================================================
