--------------------------- MODULE BotConfig_proofs ---------------------------
(***************************************************************************)
(* NeverUnlimited for any keys, limits, files and environments the user    *)
(* starts with.  A bot runs only on a configuration that passed Validate,  *)
(* so that what remains to show is that the edits at run time leave it a   *)
(* configuration: the files it reads and the copy the wizard holds have    *)
(* all their fields, whoever wrote them and wherever a crash cut them.     *)
(*                                                                         *)
(* Then what a restart finds.  The three properties about that speak of    *)
(* what Resolve returns, which reads four sources; KeptInv says of each    *)
(* source, and of the wizard between its writes, what makes them true.     *)
(***************************************************************************)
EXTENDS BotConfig, TLAPS

Fields == {"key", "api", "client", "lev", "rest"}

\* c is a configuration, its values aside.
IsConfig(c) == c = [f \in Fields |-> c[f]]

WizardHolds == wizard # NoWizard /\ wizard.step \in {"limits", "relay"}

WholeFiles ==
    /\ Readable => IsConfig(configFile)
    /\ WizardHolds => IsConfig(wizard.cfg)

RunsWhole == pc = "running" => IsConfig(bot)

IInv == WholeFiles /\ RunsWhole /\ NeverUnlimited

-----------------------------------------------------------------------------
(* What the operators of BotConfig return.                                 *)

LEMMA NoConfigWhole == IsConfig(NoConfig)
  BY DEF IsConfig, NoConfig, Fields

LEMMA ConfigsWhole == \A c \in Configs : IsConfig(c)
  BY DEF IsConfig, Configs, Fields

\* Replacing a field keeps a configuration, and the other fields.
LEMMA Edited ==
  ASSUME NEW c, IsConfig(c), NEW f \in Fields, NEW v
  PROVE  /\ IsConfig([c EXCEPT ![f] = v])
         /\ [c EXCEPT ![f] = v][f] = v
         /\ \A g \in Fields \ {f} : [c EXCEPT ![f] = v][g] = c[g]
  BY DEF IsConfig

LEMMA LoadedWhole == WholeFiles => IsConfig(Loaded)
  BY NoConfigWhole DEF WholeFiles, Loaded

LEMMA OverrideWhole ==
  ASSUME NEW c, IsConfig(c), NEW e
  PROVE  IsConfig(Override(c, e))
<1>1. DOMAIN c = Fields
  BY DEF IsConfig
<1>2. QED
  BY <1>1 DEF Override, IsConfig

\* What a process is configured with is a configuration.
LEMMA ResolveWhole ==
  ASSUME WholeFiles, NEW e
  PROVE  IsConfig(Resolve(e))
<1> DEFINE c == Override(Loaded, e)
<1>1. IsConfig(c)
  BY LoadedWhole, OverrideWhole
<1>2. "key" \in Fields
  BY DEF Fields
<1>3. \A v : IsConfig([c EXCEPT !["key"] = v])
  BY <1>1, <1>2, Edited
<1> HIDE DEF c
<1>4. IsConfig([c EXCEPT !.key = IF @ # 0 THEN @ ELSE keystore])
  BY <1>3
<1>5. QED
  BY <1>4 DEF Resolve, c

\* The defaults leave the limits, the key and the client ID as they are.
LEMMA DefaultsKeep ==
  ASSUME NEW c, IsConfig(c)
  PROVE  /\ IsConfig(ApplyDefaults(c))
         /\ ApplyDefaults(c).lev = c.lev
         /\ ApplyDefaults(c).key = c.key
         /\ ApplyDefaults(c).client = c.client
<1>1. "rest" \in Fields /\ {"lev", "key", "client"} \subseteq Fields \ {"rest"}
  BY DEF Fields
<1>2. \A v : /\ IsConfig([c EXCEPT !["rest"] = v])
             /\ \A g \in Fields \ {"rest"} : [c EXCEPT !["rest"] = v][g] = c[g]
  BY <1>1, Edited
<1>3. QED
  BY <1>1, <1>2 DEF ApplyDefaults

\* A save leaves a whole file.
LEMMA SaveWhole ==
  ASSUME NEW c, IsConfig(c), Save(c)
  PROVE  IsConfig(configFile')
<1>1. {"key", "api"} \subseteq Fields
  BY DEF Fields
<1>2. IsConfig([c EXCEPT !["key"] = 0])
  BY <1>1, Edited
<1>3. IsConfig([[c EXCEPT !["key"] = 0] EXCEPT !["api"] = 0])
  BY <1>1, <1>2, Edited
<1>4. QED
  BY <1>3 DEF Save

\* Whether it starts or not, a bot that runs has been validated.
LEMMA RunWhole ==
  ASSUME WholeFiles, NEW e, Run(e)
  PROVE  RunsWhole' /\ NeverUnlimited'
<1>1. CASE Valid(Resolve(e)) /\ Resolve(e).client # 0
  <2>1. bot' = ApplyDefaults(Resolve(e))
    BY <1>1 DEF Run
  <2>2. IsConfig(Resolve(e))
    BY ResolveWhole
  <2>3. QED
    BY <1>1, <2>1, <2>2, DefaultsKeep DEF Valid, RunsWhole, NeverUnlimited
<1>2. CASE ~(Valid(Resolve(e)) /\ Resolve(e).client # 0)
  BY <1>2 DEF Run, RunsWhole, NeverUnlimited
<1>3. QED
  BY <1>1, <1>2

-----------------------------------------------------------------------------
(* The steps.                                                              *)

LEMMA StartsWhole == Init => IInv
<1> SUFFICES ASSUME Init PROVE IInv
  OBVIOUS
<1>1. Readable => IsConfig(configFile)
  BY ConfigAssumption, ConfigsWhole DEF Init, Readable
<1>2. ~WizardHolds /\ pc # "running"
  BY DEF Init, WizardHolds
<1>3. QED
  BY <1>1, <1>2 DEF IInv, WholeFiles, RunsWhole, NeverUnlimited

\* Steps that touch neither config.json nor the wizard, nor what the bot runs with.
LEMMA NothingWritten ==
  ASSUME IInv, UNCHANGED configFile,
         wizard' = wizard \/ ~WizardHolds',
         UNCHANGED <<pc, bot>> \/ pc' # "running"
  PROVE  IInv'
<1>1. WholeFiles'
  BY DEF IInv, WholeFiles, Readable, WizardHolds
<1>2. RunsWhole' /\ NeverUnlimited'
  BY DEF IInv, RunsWhole, NeverUnlimited
<1>3. QED
  BY <1>1, <1>2 DEF IInv

\* Steps that save config.json, or leave it torn, while the bot runs on or stops.
LEMMA FileWritten ==
  ASSUME IInv, IsConfig(configFile') \/ ~Readable',
         wizard' = wizard \/ ~WizardHolds',
         UNCHANGED <<pc, bot>> \/ pc' # "running"
  PROVE  IInv'
<1>1. WholeFiles'
  BY DEF IInv, WholeFiles, WizardHolds
<1>2. RunsWhole' /\ NeverUnlimited'
  BY DEF IInv, RunsWhole, NeverUnlimited
<1>3. QED
  BY <1>1, <1>2 DEF IInv

LEMMA TornUnreadable == Tear => ~Readable'
  BY DEF Tear, Readable

\* A start, before or after setup.
LEMMA RunStep ==
  ASSUME IInv, NEW e, Run(e), UNCHANGED <<configFile, wizard>>
  PROVE  IInv'
<1>1. WholeFiles'
  BY DEF IInv, WholeFiles, Readable, WizardHolds
<1>2. RunsWhole' /\ NeverUnlimited'
  BY RunWhole DEF IInv
<1>3. QED
  BY <1>1, <1>2 DEF IInv

LEMMA EditStep ==
  ASSUME IInv, NEW l \in Levs, EditLimits(l)
  PROVE  IInv'
<1>1. {"lev", "rest", "key", "client"} \subseteq Fields
  BY DEF Fields
<1>2. IsConfig(configFile) /\ IsConfig(bot) /\ pc = "running" /\ l # 0
  BY ConfigAssumption DEF IInv, WholeFiles, RunsWhole, EditLimits
<1>3. IsConfig(configFile')
  <2>1. IsConfig(SavedLimits(l))
    BY <1>1, <1>2, Edited DEF SavedLimits
  <2>2. QED
    BY <2>1, SaveWhole DEF EditLimits
<1>4. WholeFiles'
  BY <1>3 DEF IInv, WholeFiles, WizardHolds, EditLimits
<1>5. RunsWhole' /\ NeverUnlimited'
  <2> DEFINE b == [bot EXCEPT !["lev"] = l]
  <2>1. IsConfig(b) /\ b["lev"] = l /\ b["key"] = bot["key"] /\ b["client"] = bot["client"]
    BY <1>1, <1>2, Edited
  <2> HIDE DEF b
  <2>2. /\ IsConfig([b EXCEPT !["rest"] = 0])
        /\ \A g \in Fields \ {"rest"} : [b EXCEPT !["rest"] = 0][g] = b[g]
    BY <1>1, <2>1, Edited
  <2>3. bot' = [b EXCEPT !["rest"] = 0]
    BY DEF EditLimits, b
  <2>4. /\ IsConfig(bot')
        /\ bot'.lev = l /\ bot'.key = bot.key /\ bot'.client = bot.client
    BY <1>1, <2>1, <2>2, <2>3
  <2>5. bot.key # 0 /\ bot.client # 0
    BY <1>2 DEF IInv, NeverUnlimited
  <2>6. QED
    BY <1>2, <2>4, <2>5 DEF RunsWhole, NeverUnlimited
<1>6. QED
  BY <1>4, <1>5 DEF IInv

LEMMA ReregisterStep ==
  ASSUME IInv, Reregister
  PROVE  IInv'
<1>1. "api" \in Fields /\ {"lev", "key", "client"} \subseteq Fields \ {"api"}
  BY DEF Fields
<1>2. WholeFiles'
  BY DEF IInv, WholeFiles, Readable, WizardHolds, Reregister
<1>3. IsConfig(bot) /\ bot' = [bot EXCEPT !["api"] = regs']
  BY DEF IInv, RunsWhole, Reregister
<1>4. /\ IsConfig(bot')
      /\ bot'.lev = bot.lev /\ bot'.key = bot.key /\ bot'.client = bot.client
  <2>1. IsConfig(bot)
    BY <1>3
  <2>2. \A v : /\ IsConfig([bot EXCEPT !["api"] = v])
               /\ \A g \in Fields \ {"api"} : [bot EXCEPT !["api"] = v][g] = bot[g]
    BY <1>1, <2>1, Edited
  <2>3. IsConfig(bot') /\ \A g \in Fields \ {"api"} : bot'[g] = bot[g]
    BY <1>3, <2>2
  <2>4. QED
    BY <1>1, <2>3
<1>5. RunsWhole' /\ NeverUnlimited'
  BY <1>4 DEF IInv, RunsWhole, NeverUnlimited, Reregister
<1>6. QED
  BY <1>2, <1>5 DEF IInv

\* The wizard holds a copy of config.json that it read whole.
LEMMA OpenStep ==
  ASSUME IInv, NEW step \in {"limits", "relay"}, OpenWizard(step)
  PROVE  IInv'
<1>1. IsConfig(configFile) /\ wizard'.cfg = configFile /\ configFile' = configFile
  BY DEF IInv, WholeFiles, OpenWizard, files
<1>2. WholeFiles'
  BY <1>1 DEF WholeFiles
<1>3. RunsWhole' /\ NeverUnlimited'
  BY DEF IInv, RunsWhole, NeverUnlimited, OpenWizard, process
<1>4. QED
  BY <1>2, <1>3 DEF IInv

LEMMA FreshSaves ==
  ASSUME NEW k, NEW l, NEW r, Fresh(k, l, r)
  PROVE  IsConfig(configFile')
<1>1. {"client", "lev", "rest"} \subseteq Fields
  BY DEF Fields
<1>2. IsConfig([NoConfig EXCEPT !["client"] = r])
  BY <1>1, NoConfigWhole, Edited
<1>3. IsConfig([[NoConfig EXCEPT !["client"] = r] EXCEPT !["lev"] = l])
  BY <1>1, <1>2, Edited
<1>4. IsConfig([[[NoConfig EXCEPT !["client"] = r] EXCEPT !["lev"] = l]
                   EXCEPT !["rest"] = DefaultRest])
  BY <1>1, <1>3, Edited
<1>5. QED
  BY <1>4, SaveWhole DEF Fresh

LEMMA LimitsSaved ==
  ASSUME IInv, NEW l, UpdateRiskLimits(l)
  PROVE  IsConfig(configFile')
<1>1. IsConfig(wizard.cfg)
  BY DEF IInv, WholeFiles, WizardHolds, UpdateRiskLimits
<1>2. "lev" \in Fields
  BY DEF Fields
<1>3. IsConfig([wizard.cfg EXCEPT !.lev = l])
  BY <1>1, <1>2, Edited
<1>4. IsConfig(ApplyDefaults([wizard.cfg EXCEPT !.lev = l]))
  BY <1>3, DefaultsKeep
<1>5. QED
  BY <1>4, SaveWhole DEF UpdateRiskLimits

LEMMA RelaySaved ==
  ASSUME IInv, UpdateRelay
  PROVE  IsConfig(configFile')
<1> DEFINE c == IF wizard.cfg.key # 0 THEN wizard.cfg
                ELSE Override(wizard.cfg, WithDotEnv(shell))
<1>1. IsConfig(wizard.cfg)
  BY DEF IInv, WholeFiles, WizardHolds, UpdateRelay
<1>2. IsConfig(c)
  BY <1>1, OverrideWhole
<1>3. "client" \in Fields
  BY DEF Fields
<1> HIDE DEF c
<1>4. IsConfig([c EXCEPT !.client = regs'])
  BY <1>2, <1>3, Edited
<1>5. Save([c EXCEPT !.client = regs'])
  BY DEF UpdateRelay, c
<1>6. QED
  BY <1>4, <1>5, SaveWhole

LEMMA KeepsWhole == IInv /\ [Next]_vars => IInv'
<1> SUFFICES ASSUME IInv, [Next]_vars PROVE IInv'
  OBVIOUS
<1>1. CASE Start
  <2>1. PICK e : \/ Run(e) /\ UNCHANGED <<configFile, wizard>>
                 \/ pc' = "setup" /\ UNCHANGED <<configFile, wizard>>
    BY <1>1 DEF Start, files
  <2>2. QED
    BY <2>1, RunStep, NothingWritten
<1>2. CASE Resume
  BY <1>2, RunStep DEF Resume, files
<1>3. CASE Exit \/ Upgrade
  <2>1. UNCHANGED configFile /\ pc' # "running"
    BY <1>3 DEF Exit, Stop, Upgrade, files
  <2>2. wizard' = wizard \/ wizard' = NoWizard
    BY <1>3 DEF Exit, Upgrade
  <2>3. QED
    BY <2>1, <2>2, NothingWritten DEF WizardHolds
<1>4. ASSUME NEW l \in Levs, EditLimits(l) \/ UpdateRiskLimits(l) PROVE IInv'
  <2>1. CASE EditLimits(l)
    BY <2>1, EditStep
  <2>2. CASE UpdateRiskLimits(l)
    <3>1. wizard' = NoWizard /\ UNCHANGED <<pc, bot>>
      BY <2>2 DEF UpdateRiskLimits, process
    <3>2. QED
      BY <2>2, <3>1, LimitsSaved, FileWritten DEF WizardHolds
  <2>3. QED
    BY <1>4, <2>1, <2>2
<1>5. CASE SaveTicker
  <2>1. IsConfig(configFile')
    BY <1>5, SaveWhole DEF SaveTicker, IInv, WholeFiles
  <2>2. QED
    BY <1>5, <2>1, FileWritten DEF SaveTicker, process
<1>6. CASE Reregister
  BY <1>6, ReregisterStep
<1>7. CASE EncryptKey \/ EncryptKeyCommand \/ DeleteKey
  BY <1>7, NothingWritten DEF EncryptKey, EncryptKeyCommand, DeleteKey, process
<1>8. CASE CrashWhileSaving
  BY <1>8, TornUnreadable, FileWritten DEF CrashWhileSaving, Stop
<1>9. CASE CrashWhileRegistering
  BY <1>9, NothingWritten DEF CrashWhileRegistering, Stop
<1>10. ASSUME NEW k \in Keys, NEW l \in Levs, NEW r \in 0..MaxRegs, Fresh(k, l, r)
       PROVE  IInv'
  <2>1. ~WizardHolds' /\ UNCHANGED <<pc, bot>>
    BY <1>10 DEF Fresh, WizardHolds, process
  <2>2. QED
    BY <1>10, <2>1, FreshSaves, FileWritten
<1>11. ASSUME NEW step \in {"limits", "relay"}, OpenWizard(step) PROVE IInv'
  BY <1>11, OpenStep
<1>12. CASE CloseWizard
  <2>1. wizard' = NoWizard /\ UNCHANGED <<configFile, pc, bot>>
    BY <1>12 DEF CloseWizard, files, process
  <2>2. QED
    BY <2>1, NothingWritten DEF WizardHolds
<1>13. CASE UpdateRelay
  <2>1. ~WizardHolds' /\ UNCHANGED <<pc, bot>>
    BY <1>13 DEF UpdateRelay, WizardHolds, process
  <2>2. QED
    BY <1>13, <2>1, RelaySaved, FileWritten
<1>14. CASE WriteEnv
  <2>1. /\ wizard' = NoWizard /\ UNCHANGED <<configFile, bot>>
        /\ pc' = pc \/ pc' = "resume"
    BY <1>14 DEF WriteEnv
  <2>2. QED
    BY <2>1, NothingWritten DEF WizardHolds
<1>15. CASE WizardCrashes
  <2>1. wizard' = NoWizard /\ (UNCHANGED configFile \/ ~Readable')
    BY <1>15, TornUnreadable DEF WizardCrashes
  <2>2. UNCHANGED <<pc, bot>> \/ pc' # "running"
    BY <1>15 DEF WizardCrashes, Stop, process
  <2>3. QED
    BY <2>1, <2>2, NothingWritten, FileWritten DEF WizardHolds
<1>16. CASE UNCHANGED vars
  BY <1>16, NothingWritten DEF vars, files, process
<1>17. QED
  BY <1>1, <1>2, <1>3, <1>4, <1>5, <1>6, <1>7, <1>8, <1>9, <1>10, <1>11, <1>12,
     <1>13, <1>14, <1>15, <1>16 DEF Next

\* Whatever the user sets up by hand and wherever a crash cuts a file, the bot
\* never runs without limits, a key and a server (Config.Validate, run).
THEOREM BotNeverUnlimited == Spec => []NeverUnlimited
<1>1. IInv => NeverUnlimited
  BY DEF IInv
<1>2. QED
  BY StartsWhole, KeepsWhole, <1>1, PTL DEF Spec
-----------------------------------------------------------------------------
(* The types, and on top of them where key, limits and registration are    *)
(* kept.                                                                   *)

\* What the wizard has read, or has still to write to .env.
WizardTyped ==
    wizard # NoWizard =>
        \/ /\ wizard.step \in {"limits", "relay"}
           /\ wizard.cfg \in Configs
        \/ /\ wizard.step \in {"freshEnv", "relayEnv"}
           /\ wizard.lines \in Envs
           /\ wizard.lines.api = wizard.lines.client
           /\ wizard.step = "freshEnv" => wizard.lines.key # 0
           /\ Loaded.api = 0

\* The environment that a bot, or its update, hands on holds no secret.
SecretsCleared == pc \in {"running", "reexec"} => osEnv.key = 0 /\ osEnv.api = 0

Typed ==
    /\ TypeOK /\ WizardTyped /\ SecretsCleared
    /\ shell \in Shells
    /\ pc \in {"off", "setup", "resume", "running", "reexec"}

KeyStored == envFile.key # 0 \/ Loaded.key # 0 \/ keystore # 0

\* The advice to delete .env comes after the key is in the keystore.
KeyKept ==
    /\ told => keystore # 0
    /\ pc = "running" /\ ~cut /\ shell.key = 0 => KeyStored

LimitsKept ==
    pc = "running" /\ ~stale /\ osEnv.lev = 0 /\ envFile.lev = 0
        => Loaded.lev = bot.lev

\* .env holds both parts of a registration or no API key, and config.json, when
\* it has an API key, agrees with either.
RegistrationKept ==
    ~mixed /\ ~cut =>
        /\ envFile.api # 0 => envFile.client = envFile.api
        /\ Agree(Loaded.api, Loaded.client)
        /\ envFile.api = 0 => Agree(Loaded.api, envFile.client)

KeptInv == IInv /\ Typed /\ KeyKept /\ LimitsKept /\ RegistrationKept

LEMMA TorableApart == Absent \notin Configs /\ Torn \notin Configs
  BY ConfigAssumption DEF ConfigAssumption

LEMMA NoneTyped == NoConfig \in Configs /\ NoEnv \in Envs
  BY ConfigAssumption DEF ConfigAssumption, NoConfig, NoEnv, Configs, Envs, Vars

LEMMA LoadedTyped ==
  ASSUME TypeOK
  PROVE  Loaded \in Configs
  BY NoneTyped DEF TypeOK, Loaded

\* The variables win over the file, one by one.
LEMMA OverrideTyped ==
  ASSUME NEW c \in Configs, NEW e \in Envs
  PROVE  /\ Override(c, e) \in Configs
         /\ Override(c, e).key = IF e.key # 0 THEN e.key ELSE c.key
         /\ Override(c, e).api = IF e.api # 0 THEN e.api ELSE c.api
         /\ Override(c, e).client = IF e.client # 0 THEN e.client ELSE c.client
         /\ Override(c, e).lev = IF e.lev # 0 THEN e.lev ELSE c.lev
<1>1. /\ DOMAIN c = {"key", "api", "client", "lev", "rest"}
      /\ c.key \in Keys \cup {0} /\ c.api \in 0..MaxRegs /\ c.client \in 0..MaxRegs
      /\ c.lev \in Levs \cup {0} /\ c.rest \in Nat
      /\ e.key \in Keys \cup {0} /\ e.api \in 0..MaxRegs /\ e.client \in 0..MaxRegs
      /\ e.lev \in Levs \cup {0}
  BY DEF Configs, Envs
<1>2. Override(c, e) = [f \in {"key", "api", "client", "lev", "rest"} |->
                           IF f \in Vars /\ e[f] # 0 THEN e[f] ELSE c[f]]
  BY <1>1 DEF Override
<1>3. QED
  BY <1>1, <1>2 DEF Configs, Vars

\* What is set in the environment wins over .env.
LEMMA DotEnvTyped ==
  ASSUME envFile \in Envs, NEW e \in Envs
  PROVE  /\ WithDotEnv(e) \in Envs
         /\ WithDotEnv(e).key = IF e.key # 0 THEN e.key ELSE envFile.key
         /\ WithDotEnv(e).api = IF e.api # 0 THEN e.api ELSE envFile.api
         /\ WithDotEnv(e).client = IF e.client # 0 THEN e.client ELSE envFile.client
         /\ WithDotEnv(e).lev = IF e.lev # 0 THEN e.lev ELSE envFile.lev
  BY DEF WithDotEnv, Envs, Vars

LEMMA ResolveTyped ==
  ASSUME TypeOK, NEW e \in Envs
  PROVE  /\ Resolve(e) \in Configs
         /\ Resolve(e).key = IF Override(Loaded, e).key # 0 THEN Override(Loaded, e).key
                             ELSE keystore
         /\ Resolve(e).api = Override(Loaded, e).api
         /\ Resolve(e).client = Override(Loaded, e).client
         /\ Resolve(e).lev = Override(Loaded, e).lev
<1> DEFINE c == Override(Loaded, e)
<1>1. c \in Configs /\ keystore \in Keys \cup {0}
  BY LoadedTyped, OverrideTyped DEF TypeOK
<1>2. Resolve(e) = [c EXCEPT !.key = IF c.key # 0 THEN c.key ELSE keystore]
  BY DEF Resolve
<1> HIDE DEF c
<1>3. QED
  BY <1>1, <1>2 DEF Configs, c

LEMMA SaveTyped ==
  ASSUME NEW c \in Configs, Save(c)
  PROVE  /\ configFile' \in Configs /\ Readable' /\ Loaded' = configFile'
         /\ Loaded'.key = 0 /\ Loaded'.api = 0
         /\ Loaded'.client = c.client /\ Loaded'.lev = c.lev
         /\ ~cut' => ~cut /\ Loaded.key = 0
<1> DEFINE d == [c EXCEPT !.key = 0, !.api = 0]
<1>1. 0 \in 0..MaxRegs
  BY ConfigAssumption DEF ConfigAssumption
<1>2. /\ d \in Configs /\ d.key = 0 /\ d.api = 0
      /\ d.client = c.client /\ d.lev = c.lev
  BY <1>1 DEF Configs
<1> HIDE DEF d
<1>. configFile' = d
  BY DEF Save, d
<1>3. Readable'
  BY <1>2, TorableApart DEF Readable
<1>4. QED
  BY <1>2, <1>3 DEF Loaded, Save

LEMMA TearLoses ==
  ASSUME Tear
  PROVE  ~Readable' /\ Loaded' = NoConfig /\ (~cut' => ~cut /\ Loaded.key = 0)
  BY DEF Tear, Readable, Loaded

\* What a crash leaves of .env is an environment.
LEMMA PartialTyped ==
  ASSUME NEW e \in Envs, NEW x \in Partial(e)
  PROVE  x \in Envs
  BY NoneTyped DEF Partial, Envs, Vars, NoEnv

LEMMA ZeroBounds == 0 \in 0..MaxRegs /\ 0 \in Nat /\ DefaultRest \in Nat
  BY ConfigAssumption DEF ConfigAssumption

\* A field replaced by one of its type.
LEMMA FieldTyped ==
  ASSUME NEW c \in Configs
  PROVE  /\ \A k \in Keys \cup {0} : [c EXCEPT !.key = k] \in Configs
         /\ \A r \in 0..MaxRegs : /\ [c EXCEPT !.api = r] \in Configs
                                  /\ [c EXCEPT !.client = r] \in Configs
         /\ \A l \in Levs \cup {0} : [c EXCEPT !.lev = l] \in Configs
         /\ \A r \in Nat : [c EXCEPT !.rest = r] \in Configs
  BY DEF Configs

LEMMA FieldReplaced ==
  ASSUME NEW c \in Configs, NEW v
  PROVE  /\ [c EXCEPT !.client = v].client = v /\ [c EXCEPT !.client = v].lev = c.lev
         /\ [c EXCEPT !.lev = v].lev = v /\ [c EXCEPT !.lev = v].client = c.client
         /\ [c EXCEPT !.rest = v].client = c.client /\ [c EXCEPT !.rest = v].lev = c.lev
         /\ [c EXCEPT !.api = v].lev = c.lev
  BY DEF Configs

LEMMA DefaultsTyped ==
  ASSUME NEW c \in Configs
  PROVE  ApplyDefaults(c) \in Configs /\ ApplyDefaults(c).lev = c.lev
<1>1. (IF c.rest = 0 THEN DefaultRest ELSE c.rest) \in Nat
  BY ZeroBounds DEF Configs
<1>2. QED
  BY <1>1, FieldTyped, FieldReplaced DEF ApplyDefaults

LEMMA SameFile ==
  ASSUME UNCHANGED configFile
  PROVE  Loaded' = Loaded /\ Readable' = Readable
  BY DEF Loaded, Readable

\* A start or a restart: the environment it is given is cleared of its secrets.
LEMMA RunTyped ==
  ASSUME Typed, NEW e \in Envs, Run(e), NeverUnlimited',
         UNCHANGED <<configFile, envFile, keystore, shell, wizard, regs>>
  PROVE  Typed' /\ osEnv'.lev \in {0, e.lev}
<1>1. Loaded' = Loaded /\ Readable' = Readable
  BY SameFile
<1>2. WizardTyped'
  BY <1>1 DEF Typed, WizardTyped
<1>3. CASE Valid(Resolve(e)) /\ Resolve(e).client # 0
  <2>1. pc' = "running" /\ bot' = ApplyDefaults(Resolve(e)) /\ osEnv' = Cleared(e)
    BY <1>3 DEF Run
  <2>2. bot' \in Configs
    BY <2>1, ResolveTyped, DefaultsTyped DEF Typed
  <2>3. bot' # NoConfig
    BY <2>1 DEF NeverUnlimited, NoConfig
  <2>4. Cleared(e) \in Envs /\ Cleared(e).key = 0 /\ Cleared(e).api = 0 /\ Cleared(e).lev = e.lev
    BY ZeroBounds DEF Cleared, Envs
  <2>5. QED
    BY <1>1, <1>2, <2>1, <2>2, <2>3, <2>4 DEF Typed, TypeOK, SecretsCleared
<1>4. CASE ~(Valid(Resolve(e)) /\ Resolve(e).client # 0)
  <2>1. pc' = "off" /\ bot' = NoConfig /\ osEnv' = NoEnv
    BY <1>4 DEF Run
  <2>2. NoEnv \in Envs /\ NoConfig \in Configs /\ NoEnv.lev = 0
    BY NoneTyped DEF NoEnv, Vars
  <2>3. QED
    BY <1>1, <1>2, <2>1, <2>2 DEF Typed, TypeOK, SecretsCleared
<1>5. QED
  BY <1>3, <1>4

\* The environment of a start, and that of the bot after setup.
LEMMA StartEnvs ==
  ASSUME Typed
  PROVE  /\ shell \in Envs /\ osEnv \in Envs /\ envFile \in Envs
         /\ WithDotEnv(shell) \in Envs /\ WithDotEnv(osEnv) \in Envs
         /\ [Cleared(osEnv) EXCEPT !.client = 0] \in Envs
         /\ [Cleared(osEnv) EXCEPT !.client = 0].key = 0
         /\ [Cleared(osEnv) EXCEPT !.client = 0].lev = osEnv.lev
         /\ WithDotEnv([Cleared(osEnv) EXCEPT !.client = 0]) \in Envs
<1>1. shell \in Envs /\ osEnv \in Envs /\ envFile \in Envs
  BY DEF Typed, TypeOK
<1> DEFINE d == [Cleared(osEnv) EXCEPT !.client = 0]
<1>2. d \in Envs /\ d.key = 0 /\ d.lev = osEnv.lev
  BY <1>1, ZeroBounds DEF Cleared, Envs
<1> HIDE DEF d
<1>3. QED
  BY <1>1, <1>2, DotEnvTyped DEF d

\* Steps that write none of the sources: the bot or the wizard stops or opens.
LEMMA ProcessTyped ==
  ASSUME Typed, UNCHANGED <<configFile, envFile, keystore, shell, regs>>,
         Exit \/ Upgrade \/ CloseWizard
           \/ \E step \in {"limits", "relay"} : OpenWizard(step)
  PROVE  Typed'
<1>1. Loaded' = Loaded /\ Readable' = Readable
  BY SameFile
<1>2. NoEnv \in Envs /\ NoConfig \in Configs
  BY NoneTyped
<1>3. CASE Exit
  BY <1>1, <1>2, <1>3 DEF Exit, Stop, Typed, TypeOK, WizardTyped, SecretsCleared
<1>4. CASE Upgrade
  BY <1>1, <1>2, <1>4 DEF Upgrade, Typed, TypeOK, WizardTyped, SecretsCleared
<1>5. CASE CloseWizard
  BY <1>1, <1>5 DEF CloseWizard, process, Typed, TypeOK, WizardTyped, SecretsCleared
<1>6. ASSUME NEW step \in {"limits", "relay"}, OpenWizard(step)
      PROVE  Typed'
  <2>1. wizard' = [step |-> step, cfg |-> configFile] /\ configFile \in Configs
    BY <1>6 DEF OpenWizard, Typed, TypeOK
  <2>2. WizardTyped'
    BY <2>1 DEF WizardTyped
  <2>3. QED
    BY <1>1, <1>6, <2>2 DEF OpenWizard, process, Typed, TypeOK, SecretsCleared
<1>7. QED
  BY <1>3, <1>4, <1>5, <1>6

\* Steps of the terminal UI, and of the user.
LEMMA UiTyped ==
  ASSUME Typed, NeverUnlimited',
         \/ \E l \in Levs : EditLimits(l)
         \/ SaveTicker \/ Reregister \/ EncryptKey \/ EncryptKeyCommand \/ DeleteKey
  PROVE  Typed'
<1> USE DEF Typed, SecretsCleared
<1>1. /\ envFile \in Envs /\ bot \in Configs /\ shell \in Envs
      /\ pc = "running" <=> bot # NoConfig
  BY DEF TypeOK
<1>2. ASSUME NEW l \in Levs, EditLimits(l)
      PROVE  Typed'
  <2>1. SavedLimits(l) \in Configs /\ bot' \in Configs
    <3> DEFINE b == [bot EXCEPT !.lev = l]
    <3>1. configFile \in Configs /\ [configFile EXCEPT !.lev = l] \in Configs /\ b \in Configs
      BY <1>1, <1>2, FieldTyped DEF EditLimits, TypeOK
    <3>2. bot' = [b EXCEPT !.rest = 0]
      BY <1>2 DEF EditLimits
    <3> HIDE DEF b
    <3>3. QED
      BY <3>1, <3>2, FieldTyped, ZeroBounds DEF SavedLimits
  <2>2. configFile' \in Configs /\ Readable' /\ Loaded'.api = 0
    BY <1>2, <2>1, SaveTyped DEF EditLimits
  <2>3. bot' # NoConfig /\ pc' = "running"
    BY <1>2 DEF NeverUnlimited, NoConfig, EditLimits
  <2>4. QED
    BY <1>1, <1>2, <2>1, <2>2, <2>3 DEF EditLimits, TypeOK, WizardTyped
<1>3. CASE SaveTicker
  <2>1. configFile' \in Configs /\ Readable' /\ Loaded'.api = 0
    BY <1>3, SaveTyped DEF SaveTicker, TypeOK
  <2>2. QED
    BY <1>3, <2>1 DEF SaveTicker, process, TypeOK, WizardTyped
<1>4. CASE Reregister
  <2>1. Loaded' = Loaded /\ Readable' = Readable /\ UNCHANGED configFile
    BY <1>4, SameFile DEF Reregister
  <2>2. regs' \in 1..MaxRegs /\ regs' \in 0..MaxRegs
    BY <1>4, ConfigAssumption DEF Reregister, TypeOK, ConfigAssumption
  <2>3. bot' \in Configs /\ envFile' \in Envs
    <3>1. [envFile EXCEPT !.api = regs'] \in Envs
      BY <1>1, <2>2 DEF Envs
    <3>2. QED
      BY <1>1, <1>4, <2>2, <3>1, FieldTyped DEF Reregister
  <2>4. bot' # NoConfig /\ pc' = "running"
    BY <1>4 DEF NeverUnlimited, NoConfig, Reregister
  <2>5. QED
    BY <1>4, <2>1, <2>2, <2>3, <2>4 DEF Reregister, TypeOK, WizardTyped
<1>5. CASE EncryptKey \/ EncryptKeyCommand
  <2>1. Loaded' = Loaded /\ Readable' = Readable /\ UNCHANGED configFile
    BY <1>5, SameFile DEF EncryptKey, EncryptKeyCommand
  <2>2. keystore' \in Keys \cup {0}
    BY <1>1, <1>5 DEF EncryptKey, EncryptKeyCommand, StoreKey, Encrypted, Envs
  <2>3. QED
    BY <1>5, <2>1, <2>2 DEF EncryptKey, EncryptKeyCommand, process, TypeOK, WizardTyped
<1>6. CASE DeleteKey
  <2>1. Loaded' = Loaded /\ Readable' = Readable /\ UNCHANGED configFile
    BY <1>6, SameFile DEF DeleteKey
  <2>2. envFile' \in Envs
    <3>1. [envFile EXCEPT !.key = 0] \in Envs
      BY <1>1 DEF Envs
    <3>2. QED
      BY <1>6, <3>1, NoneTyped DEF DeleteKey
  <2>3. QED
    BY <1>6, <2>1, <2>2 DEF DeleteKey, process, TypeOK, WizardTyped
<1>7. QED
  BY <1>2, <1>3, <1>4, <1>5, <1>6

\* Crashes of the bot.
LEMMA CrashTyped ==
  ASSUME Typed, CrashWhileSaving \/ CrashWhileRegistering
  PROVE  Typed'
<1> USE NoneTyped DEF Typed, SecretsCleared
<1>1. pc' = "off" /\ bot' = NoConfig /\ osEnv' = NoEnv /\ UNCHANGED <<keystore, shell, wizard>>
  BY DEF CrashWhileSaving, CrashWhileRegistering, Stop
<1>2. CASE CrashWhileSaving
  <2>1. ~Readable' /\ Loaded'.api = 0
    BY <1>2, TearLoses DEF CrashWhileSaving, NoConfig
  <2>2. QED
    BY <1>1, <1>2, <2>1 DEF CrashWhileSaving, TypeOK, WizardTyped
<1>3. CASE CrashWhileRegistering
  <2>1. Loaded' = Loaded /\ Readable' = Readable /\ UNCHANGED configFile
    BY <1>3, SameFile DEF CrashWhileRegistering
  <2>2. regs' \in 1..MaxRegs /\ regs' \in 0..MaxRegs
    BY <1>3, ConfigAssumption DEF CrashWhileRegistering, TypeOK, ConfigAssumption
  <2>3. envFile' \in Envs
    <3>1. [envFile EXCEPT !.api = regs'] \in Envs
      BY <2>2 DEF TypeOK, Envs
    <3>2. QED
      BY <1>3, <3>1, PartialTyped DEF CrashWhileRegistering
  <2>4. QED
    BY <1>1, <2>1, <2>2, <2>3 DEF TypeOK, WizardTyped
<1>4. QED
  BY <1>2, <1>3

\* The lines for .env name one registration twice.
LEMMA LinesTyped ==
  ASSUME NEW r \in 0..MaxRegs
  PROVE  /\ RelayLines(r) \in Envs /\ RelayLines(r).api = r /\ RelayLines(r).client = r
         /\ \A k \in Keys :
               /\ [RelayLines(r) EXCEPT !.key = k] \in Envs
               /\ [RelayLines(r) EXCEPT !.key = k].key = k
               /\ [RelayLines(r) EXCEPT !.key = k].api = r
               /\ [RelayLines(r) EXCEPT !.key = k].client = r
<1>1. NoEnv \in Envs
  BY NoneTyped
<1> DEFINE d == RelayLines(r)
<1>2. d \in Envs /\ d.api = r /\ d.client = r
  BY <1>1 DEF RelayLines, Envs
<1> HIDE DEF d
<1>3. \A k \in Keys : /\ [d EXCEPT !.key = k] \in Envs /\ [d EXCEPT !.key = k].key = k
                      /\ [d EXCEPT !.key = k].api = r /\ [d EXCEPT !.key = k].client = r
  BY <1>2 DEF Envs
<1>4. QED
  BY <1>2, <1>3 DEF d

\* What .env becomes: all of it is the wizard's, or its registration.
LEMMA NewEnvTyped ==
  ASSUME Typed, wizard # NoWizard, wizard.step \in {"freshEnv", "relayEnv"}
  PROVE  /\ NewEnv \in Envs /\ NewEnv.api = NewEnv.client
         /\ NewEnv.key = IF wizard.step = "freshEnv" THEN wizard.lines.key ELSE envFile.key
         /\ wizard.step = "freshEnv" => NewEnv.key # 0
         /\ Loaded.api = 0
<1>1. /\ wizard.lines \in Envs /\ envFile \in Envs /\ Loaded.api = 0
      /\ wizard.lines.api = wizard.lines.client
      /\ wizard.step = "freshEnv" => wizard.lines.key # 0
  BY DEF Typed, TypeOK, WizardTyped
<1>2. NewEnv = [v \in {"key", "api", "client", "lev"} |->
                  IF wizard.step = "freshEnv" \/ v \in {"api", "client"}
                  THEN wizard.lines[v] ELSE envFile[v]]
  BY DEF NewEnv, Vars
<1>3. QED
  BY <1>1, <1>2 DEF Envs

\* What updateRelay saves is a configuration, the variables of the shell included.
LEMMA RelayTyped ==
  ASSUME Typed, UpdateRelay
  PROVE  \E c \in Configs : Save(c) /\ c.client = regs'
<1> DEFINE c == IF wizard.cfg.key # 0 THEN wizard.cfg
                ELSE Override(wizard.cfg, WithDotEnv(shell))
<1>1. wizard.cfg \in Configs
  BY DEF Typed, WizardTyped, UpdateRelay
<1>2. c \in Configs
  BY <1>1, OverrideTyped, StartEnvs
<1>3. regs' \in 0..MaxRegs
  BY ConfigAssumption DEF UpdateRelay, Typed, TypeOK, ConfigAssumption
<1> HIDE DEF c
<1>4. Save([c EXCEPT !.client = regs'])
  BY DEF UpdateRelay, c
<1>5. [c EXCEPT !.client = regs'] \in Configs
  BY <1>2, <1>3, FieldTyped
<1>6. [c EXCEPT !.client = regs'].client = regs'
  BY <1>2, FieldReplaced
<1>7. QED
  BY ONLY <1>4, <1>5, <1>6

LEMMA FreshTyped ==
  ASSUME NEW k \in Keys, NEW l \in Levs, NEW r \in 0..MaxRegs, Fresh(k, l, r)
  PROVE  \E c \in Configs : Save(c)
<1> DEFINE c == [NoConfig EXCEPT !.client = r]
           d == [c EXCEPT !.lev = l]
<1>1. c \in Configs
  BY NoneTyped, FieldTyped
<1> HIDE DEF c
<1>2. d \in Configs
  BY <1>1, FieldTyped
<1> HIDE DEF d
<1>3. [d EXCEPT !.rest = DefaultRest] \in Configs
  BY <1>2, FieldTyped, ZeroBounds
<1>4. Save([d EXCEPT !.rest = DefaultRest])
  BY DEF Fresh, c, d
<1>5. QED
  BY <1>3, <1>4

\* updateRiskLimits keeps the rest of the file it has read.
LEMMA LimitsTyped ==
  ASSUME Typed, NEW l \in Levs, UpdateRiskLimits(l)
  PROVE  \E c \in Configs : Save(c)
<1>1. wizard.cfg \in Configs
  BY DEF Typed, WizardTyped, UpdateRiskLimits
<1>2. [wizard.cfg EXCEPT !.lev = l] \in Configs
  BY <1>1, FieldTyped
<1>3. QED
  BY <1>2, DefaultsTyped DEF UpdateRiskLimits

\* Steps of the wizard.
LEMMA WizardStepTyped ==
  ASSUME Typed,
         \/ \E l \in Levs : UpdateRiskLimits(l)
         \/ \E k \in Keys, l \in Levs, r \in 0..MaxRegs : Fresh(k, l, r)
         \/ UpdateRelay \/ WriteEnv \/ WizardCrashes
  PROVE  Typed'
<1> USE DEF Typed, SecretsCleared
<1>1. ASSUME NEW l \in Levs, UpdateRiskLimits(l)
      PROVE  Typed'
  <2>1. configFile' \in Configs /\ Readable'
    BY <1>1, LimitsTyped, SaveTyped
  <2>2. QED
    BY <1>1, <2>1 DEF UpdateRiskLimits, process, TypeOK, WizardTyped
<1>2. ASSUME NEW k \in Keys, NEW l \in Levs, NEW r \in 0..MaxRegs, Fresh(k, l, r)
      PROVE  Typed'
  <2>1. configFile' \in Configs /\ Readable' /\ Loaded'.api = 0
    BY <1>2, FreshTyped, SaveTyped
  <2>2. regs' \in 1..MaxRegs
    <3>1. regs \in 1..MaxRegs /\ r \in {0, regs + 1} /\ regs' = IF r = 0 THEN regs ELSE r
      BY <1>2 DEF Fresh, TypeOK
    <3>2. QED
      BY <3>1, ConfigAssumption DEF ConfigAssumption
  <2>3. WizardTyped'
    <3>1. k # 0
      BY ConfigAssumption DEF ConfigAssumption
    <3>2. wizard'.step = "freshEnv" /\ wizard'.lines = [RelayLines(r) EXCEPT !.key = k]
      BY <1>2 DEF Fresh
    <3>3. QED
      BY <2>1, <3>1, <3>2, LinesTyped DEF WizardTyped
  <2>4. pc' = "setup" /\ wizard' # NoWizard => wizard'.step = "freshEnv"
    BY <1>2 DEF Fresh
  <2>5. QED
    BY <1>2, <2>1, <2>2, <2>3, <2>4 DEF Fresh, process, TypeOK
<1>3. CASE UpdateRelay
  <2>1. configFile' \in Configs /\ Readable' /\ Loaded'.api = 0
    BY <1>3, RelayTyped, SaveTyped
  <2>2. regs' \in 1..MaxRegs /\ regs' \in 0..MaxRegs
    BY <1>3, ConfigAssumption DEF UpdateRelay, TypeOK, ConfigAssumption
  <2>3. WizardTyped'
    BY <1>3, <2>1, <2>2, LinesTyped DEF UpdateRelay, WizardTyped
  <2>4. pc # "setup"
    BY <1>3 DEF UpdateRelay, TypeOK
  <2>5. QED
    BY <1>3, <2>1, <2>2, <2>3, <2>4 DEF UpdateRelay, process, TypeOK
<1>4. CASE WriteEnv
  <2>1. Loaded' = Loaded /\ Readable' = Readable
    BY <1>4, SameFile DEF WriteEnv
  <2>2. NewEnv \in Envs
    BY <1>4, NewEnvTyped DEF WriteEnv
  <2>3. QED
    BY <1>4, <2>1, <2>2 DEF WriteEnv, TypeOK, WizardTyped
<1>5. CASE WizardCrashes
  <2>1. envFile' \in Envs /\ (Readable' => configFile' \in Configs)
    <3>1. CASE Tear /\ UNCHANGED envFile
      BY <3>1, TearLoses DEF TypeOK
    <3>2. CASE /\ wizard # NoWizard /\ wizard.step \in {"freshEnv", "relayEnv"}
               /\ envFile' \in Partial(NewEnv) /\ UNCHANGED configFile
      BY <3>2, NewEnvTyped, PartialTyped, SameFile DEF TypeOK
    <3>3. QED
      BY <1>5, <3>1, <3>2 DEF WizardCrashes
  <2>2. wizard' = NoWizard /\ UNCHANGED <<keystore, shell, regs>>
    BY <1>5 DEF WizardCrashes
  <2>3. \/ pc' = "off" /\ bot' = NoConfig /\ osEnv' = NoEnv
        \/ UNCHANGED <<osEnv, pc, bot>>
    BY <1>5 DEF WizardCrashes, Stop, process
  <2>4. QED
    BY <2>1, <2>2, <2>3, NoneTyped DEF TypeOK, WizardTyped
<1>6. QED
  BY <1>1, <1>2, <1>3, <1>4, <1>5

LEMMA TypedInitially == Init => Typed
<1> SUFFICES ASSUME Init PROVE Typed
  OBVIOUS
<1>1. Readable => configFile \in Configs
  BY ConfigAssumption DEF ConfigAssumption, Init, Readable
<1>2. {envFile, osEnv, shell} \subseteq Envs /\ bot = NoConfig /\ NoConfig \in Configs
  BY ConfigAssumption, NoneTyped DEF ConfigAssumption, Init
<1>3. regs \in 1..MaxRegs
  BY ConfigAssumption DEF ConfigAssumption, Init
<1>4. QED
  BY <1>1, <1>2, <1>3 DEF Init, Typed, TypeOK, WizardTyped, SecretsCleared

LEMMA TypedKept ==
  ASSUME Typed, NeverUnlimited', [Next]_vars
  PROVE  Typed'
<1>1. CASE Start
  <2>1. PICK e \in Envs :
           \/ Run(e)
           \/ wizard = NoWizard /\ pc' = "setup" /\ osEnv' = e /\ UNCHANGED bot
    BY <1>1, StartEnvs DEF Start
  <2>2. pc # "running" /\ UNCHANGED <<configFile, envFile, keystore, shell, wizard, regs>>
    BY <1>1 DEF Start, files
  <2>3. CASE Run(e)
    BY <2>2, <2>3, RunTyped
  <2>4. CASE wizard = NoWizard /\ pc' = "setup" /\ osEnv' = e /\ UNCHANGED bot
    BY <2>2, <2>4, SameFile DEF Typed, TypeOK, WizardTyped, SecretsCleared
  <2>5. QED
    BY <2>1, <2>3, <2>4
<1>2. CASE Resume
  BY <1>2, StartEnvs, RunTyped DEF Resume, files
<1>3. CASE UNCHANGED vars
  <2>1. Loaded' = Loaded /\ Readable' = Readable
    BY <1>3, SameFile DEF vars, files
  <2>2. QED
    BY <1>3, <2>1 DEF vars, files, process, Typed, TypeOK, WizardTyped, SecretsCleared
<1>4. CASE Exit \/ Upgrade \/ CloseWizard
             \/ \E step \in {"limits", "relay"} : OpenWizard(step)
  <2>1. UNCHANGED <<configFile, envFile, keystore, shell, regs>>
    BY <1>4 DEF Exit, Upgrade, CloseWizard, OpenWizard, files
  <2>2. QED
    BY <1>4, <2>1, ProcessTyped
<1>5. QED
  BY <1>1, <1>2, <1>3, <1>4, UiTyped, CrashTyped, WizardStepTyped DEF Next

-----------------------------------------------------------------------------
(* The private key.                                                        *)

\* A key that is found without the shell's is in one of the three places.
LEMMA KeyFound ==
  ASSUME Typed, NEW e \in Envs, e.key = 0
  PROVE  Resolve(WithDotEnv(e)).key # 0 <=> KeyStored
<1>1. WithDotEnv(e) \in Envs /\ WithDotEnv(e).key = envFile.key
  BY StartEnvs, DotEnvTyped
<1>2. Override(Loaded, WithDotEnv(e)).key
        = IF envFile.key # 0 THEN envFile.key ELSE Loaded.key
  BY <1>1, LoadedTyped, OverrideTyped DEF Typed
<1>3. QED
  BY <1>1, <1>2, ResolveTyped DEF Typed, KeyStored

LEMMA KeyStays ==
  ASSUME Typed, KeyKept, NeverUnlimited', [Next]_vars
  PROVE  KeyKept'
<1> USE DEF KeyKept, KeyStored
<1>1. ASSUME UNCHANGED <<configFile, envFile, keystore>>
      PROVE  UNCHANGED <<envFile.key, Loaded.key, keystore>>
  BY <1>1, SameFile
<1>2. CASE Start
  <2>1. UNCHANGED <<configFile, envFile, keystore, shell, told, cut>>
    BY <1>2 DEF Start, files
  <2>2. ASSUME pc' = "running", shell.key = 0
        PROVE  KeyStored
    <3>1. PICK e \in {shell, osEnv} : Run(WithDotEnv(e)) /\ (e = osEnv => pc = "reexec" \/ e = shell)
      BY <1>2, <2>2 DEF Start
    <3>2. e.key = 0 /\ e \in Envs
      BY <2>2, <3>1, StartEnvs DEF Typed, SecretsCleared
    <3>3. Resolve(WithDotEnv(e)).key # 0
      BY <2>2, <3>1 DEF Run, Valid
    <3>4. QED
      BY <3>2, <3>3, KeyFound
  <2>3. QED
    BY <1>1, <2>1, <2>2
<1>3. CASE Resume
  <2>1. UNCHANGED <<configFile, envFile, keystore, shell, told, cut>>
    BY <1>3 DEF Resume, files
  <2>2. ASSUME pc' = "running"
        PROVE  KeyStored
    <3>1. Resolve(WithDotEnv([Cleared(osEnv) EXCEPT !.client = 0])).key # 0
      BY <1>3, <2>2 DEF Resume, Run, Valid
    <3>2. QED
      BY <3>1, KeyFound, StartEnvs
  <2>3. QED
    BY <1>1, <2>1, <2>2
<1>4. ASSUME UNCHANGED <<configFile, envFile, keystore, shell, told, cut>>,
             pc' = "running" => pc = "running"
      PROVE  KeyKept'
  BY <1>1, <1>4
<1>5. CASE Exit \/ Upgrade \/ CloseWizard
             \/ \E step \in {"limits", "relay"} : OpenWizard(step)
  BY <1>4, <1>5 DEF Exit, Stop, Upgrade, CloseWizard, OpenWizard, files, process, history
<1>6. CASE UNCHANGED vars
  BY <1>4, <1>6 DEF vars, files, process, history
<1>7. ASSUME NEW c \in Configs, Save(c), UNCHANGED <<envFile, keystore, shell, told, pc>>
      PROVE  KeyKept'
  <2>1. ~cut' => ~cut /\ Loaded.key = 0
    BY <1>7, SaveTyped
  <2>2. QED
    BY <1>7, <2>1
<1>8. CASE (\E l \in Levs : EditLimits(l)) \/ SaveTicker
  <2>1. PICK c \in Configs : Save(c)
    <3>1. configFile \in Configs
      BY <1>8 DEF EditLimits, SaveTicker, Typed, TypeOK
    <3>2. \A l \in Levs : SavedLimits(l) \in Configs
      BY <3>1, FieldTyped DEF SavedLimits
    <3>3. QED
      BY <1>8, <3>1, <3>2 DEF EditLimits, SaveTicker
  <2>2. QED
    BY <1>7, <1>8, <2>1 DEF EditLimits, SaveTicker, process
<1>9. CASE Reregister
  <2>1. Loaded' = Loaded /\ envFile'.key = envFile.key
    BY <1>9, SameFile, StartEnvs DEF Reregister, Envs
  <2>2. QED
    BY <1>9, <2>1 DEF Reregister
<1>10. CASE EncryptKey \/ EncryptKeyCommand
  BY <1>10 DEF EncryptKey, EncryptKeyCommand, StoreKey, Encrypted
<1>11. CASE DeleteKey
  BY <1>11 DEF DeleteKey
<1>12. CASE CrashWhileSaving \/ CrashWhileRegistering
  BY <1>12 DEF CrashWhileSaving, CrashWhileRegistering, Stop
<1>13. ASSUME NEW l \in Levs, UpdateRiskLimits(l)
       PROVE  KeyKept'
  BY <1>7, <1>13, LimitsTyped DEF UpdateRiskLimits, process
<1>14. ASSUME NEW k \in Keys, NEW l \in Levs, NEW r \in 0..MaxRegs, Fresh(k, l, r)
       PROVE  KeyKept'
  BY <1>7, <1>14, FreshTyped DEF Fresh, process
<1>15. CASE UpdateRelay
  BY <1>7, <1>15, RelayTyped DEF UpdateRelay, process
<1>16. CASE WriteEnv
  <2>1. Loaded' = Loaded /\ envFile' = NewEnv /\ UNCHANGED <<keystore, shell, told>>
    BY <1>16, SameFile DEF WriteEnv
  <2>2. pc' = "running" => pc = "running"
    BY <1>16 DEF WriteEnv
  <2>3. \/ wizard.step = "freshEnv" /\ NewEnv.key # 0
        \/ wizard.step # "freshEnv" /\ NewEnv.key = envFile.key /\ (~cut' => ~cut)
    BY <1>16, NewEnvTyped DEF WriteEnv
  <2>4. QED
    BY <2>1, <2>2, <2>3
<1>17. CASE WizardCrashes
  <2>1. UNCHANGED <<keystore, shell, told>> /\ (pc' = "running" => pc = "running")
    BY <1>17 DEF WizardCrashes, Stop, process
  <2>2. cut' \/ (Tear /\ UNCHANGED envFile)
    BY <1>17 DEF WizardCrashes
  <2>3. QED
    BY <2>1, <2>2, TearLoses
<1>18. QED
  BY <1>2, <1>3, <1>5, <1>6, <1>8, <1>9, <1>10, <1>11, <1>12, <1>13, <1>14, <1>15, <1>16,
     <1>17 DEF Next

-----------------------------------------------------------------------------
(* The limits in force.                                                    *)

\* Without a variable the limits come from config.json.
LEMMA LimitsFound ==
  ASSUME Typed, NEW e \in Envs, WithDotEnv(e).lev = 0
  PROVE  e.lev = 0 /\ envFile.lev = 0 /\ Resolve(WithDotEnv(e)).lev = Loaded.lev
<1>1. /\ WithDotEnv(e) \in Envs
      /\ WithDotEnv(e).lev = IF e.lev # 0 THEN e.lev ELSE envFile.lev
  BY StartEnvs, DotEnvTyped
<1>2. Override(Loaded, WithDotEnv(e)).lev = Loaded.lev
  BY <1>1, LoadedTyped, OverrideTyped DEF Typed
<1>3. QED
  BY <1>1, <1>2, ResolveTyped DEF Typed

LEMMA LimitsStay ==
  ASSUME Typed, LimitsKept, [Next]_vars
  PROVE  LimitsKept'
<1> USE DEF LimitsKept
<1>1. ASSUME NEW e \in Envs, Run(WithDotEnv(e)), UNCHANGED <<configFile, envFile>>
      PROVE  LimitsKept'
  <2>1. SUFFICES ASSUME pc' = "running", osEnv'.lev = 0
                 PROVE  Loaded'.lev = bot'.lev
    OBVIOUS
  <2>2. Valid(Resolve(WithDotEnv(e))) /\ bot' = ApplyDefaults(Resolve(WithDotEnv(e)))
        /\ osEnv' = Cleared(WithDotEnv(e))
    BY <1>1, <2>1 DEF Run
  <2>3. WithDotEnv(e) \in Envs
    BY StartEnvs, DotEnvTyped
  <2>4. WithDotEnv(e).lev = 0
    BY <2>1, <2>2, <2>3 DEF Cleared, Envs
  <2>5. bot'.lev = Loaded.lev
    BY <2>2, <2>3, <2>4, LimitsFound, ResolveTyped, DefaultsTyped DEF Typed
  <2>6. QED
    BY <1>1, <2>5, SameFile
<1>2. CASE Start
  <2>1. CASE pc' = "setup"
    BY <2>1
  <2>2. CASE pc' # "setup"
    <3>1. Run(WithDotEnv(shell)) \/ Run(WithDotEnv(osEnv))
      BY <1>2, <2>2 DEF Start
    <3>2. QED
      BY <1>1, <1>2, <3>1, StartEnvs DEF Start, files
  <2>3. QED
    BY <2>1, <2>2
<1>3. CASE Resume
  BY <1>1, <1>3, StartEnvs DEF Resume, files
<1>4. ASSUME pc' = "running" => UNCHANGED <<pc, bot, osEnv, configFile, envFile.lev, stale>>
      PROVE  LimitsKept'
  BY <1>4, SameFile
<1>5. CASE Exit \/ Upgrade \/ CloseWizard
             \/ \E step \in {"limits", "relay"} : OpenWizard(step)
  BY <1>4, <1>5 DEF Exit, Stop, Upgrade, CloseWizard, OpenWizard, files, process, history
<1>6. CASE UNCHANGED vars \/ EncryptKey \/ EncryptKeyCommand
  BY <1>4, <1>6 DEF EncryptKey, EncryptKeyCommand, vars, files, process, history
<1>7. ASSUME NEW l \in Levs, EditLimits(l)
      PROVE  LimitsKept'
  <2>1. SavedLimits(l) \in Configs /\ SavedLimits(l).lev = l
    <3>1. configFile \in Configs
      BY <1>7 DEF EditLimits, Typed, TypeOK
    <3>2. QED
      BY <3>1, FieldTyped, FieldReplaced DEF SavedLimits
  <2>2. Loaded'.lev = l
    BY <1>7, <2>1, SaveTyped DEF EditLimits
  <2>3. bot'.lev = l
    <3>1. bot \in Configs
      BY DEF Typed, TypeOK
    <3>2. [bot EXCEPT !.lev = l] \in Configs /\ [bot EXCEPT !.lev = l].lev = l
      BY <3>1, FieldTyped, FieldReplaced
    <3>3. bot' = [[bot EXCEPT !.lev = l] EXCEPT !.rest = 0]
      BY <1>7 DEF EditLimits
    <3>4. QED
      BY <3>2, <3>3, FieldReplaced
  <2>4. QED
    BY <2>2, <2>3
<1>8. CASE SaveTicker
  <2>1. configFile \in Configs /\ Loaded.lev = configFile.lev
    BY <1>8 DEF SaveTicker, Typed, TypeOK, Loaded
  <2>2. Loaded'.lev = Loaded.lev
    BY <1>8, <2>1, SaveTyped DEF SaveTicker
  <2>3. QED
    BY <1>8, <2>2 DEF SaveTicker, process
<1>9. CASE Reregister
  <2>1. bot'.lev = bot.lev
    BY <1>9, FieldReplaced DEF Reregister, Typed, TypeOK
  <2>2. envFile'.lev = envFile.lev
    BY <1>9, StartEnvs DEF Reregister, Envs
  <2>3. QED
    BY <1>9, <2>1, <2>2, SameFile DEF Reregister
<1>10. CASE CrashWhileSaving \/ CrashWhileRegistering
  BY <1>10 DEF CrashWhileSaving, CrashWhileRegistering, Stop
<1>11. CASE \/ DeleteKey \/ UpdateRelay \/ WriteEnv \/ WizardCrashes
            \/ \E l \in Levs : UpdateRiskLimits(l)
            \/ \E k \in Keys, l \in Levs, r \in 0..MaxRegs : Fresh(k, l, r)
  BY <1>11 DEF DeleteKey, UpdateRelay, WriteEnv, WizardCrashes, UpdateRiskLimits, Fresh
<1>12. QED
  BY <1>2, <1>3, <1>5, <1>6, <1>7, <1>8, <1>9, <1>10, <1>11 DEF Next

-----------------------------------------------------------------------------
(* The registration.                                                       *)

LEMMA RegistrationStays ==
  ASSUME Typed, RegistrationKept, [Next]_vars
  PROVE  RegistrationKept'
<1> USE DEF RegistrationKept, Agree
<1>1. ASSUME UNCHANGED <<configFile, envFile>>, ~mixed' /\ ~cut' => ~mixed /\ ~cut
      PROVE  RegistrationKept'
  BY <1>1, SameFile
<1>2. CASE Start \/ Resume \/ Exit \/ Upgrade \/ EncryptKey \/ EncryptKeyCommand \/ CloseWizard
             \/ (\E step \in {"limits", "relay"} : OpenWizard(step)) \/ UNCHANGED vars
  BY <1>1, <1>2 DEF Start, Resume, Exit, Upgrade, EncryptKey, EncryptKeyCommand, CloseWizard,
                    OpenWizard, vars, files, history
<1>3. ASSUME Loaded'.api = 0, UNCHANGED <<envFile, mixed>>, ~cut' => ~cut
      PROVE  RegistrationKept'
  BY <1>3
<1>4. ASSUME NEW c \in Configs, Save(c), UNCHANGED <<envFile, mixed>>
      PROVE  RegistrationKept'
  BY <1>3, <1>4, SaveTyped
<1>5. CASE (\E l \in Levs : EditLimits(l)) \/ SaveTicker
  <2>1. PICK c \in Configs : Save(c)
    <3>1. configFile \in Configs
      BY <1>5 DEF EditLimits, SaveTicker, Typed, TypeOK
    <3>2. \A l \in Levs : SavedLimits(l) \in Configs
      BY <3>1, FieldTyped DEF SavedLimits
    <3>3. QED
      BY <1>5, <3>1, <3>2 DEF EditLimits, SaveTicker
  <2>2. QED
    BY <1>4, <1>5, <2>1 DEF EditLimits, SaveTicker
<1>6. ASSUME NEW l \in Levs, UpdateRiskLimits(l)
      PROVE  RegistrationKept'
  BY <1>4, <1>6, LimitsTyped DEF UpdateRiskLimits
<1>7. ASSUME NEW k \in Keys, NEW l \in Levs, NEW r \in 0..MaxRegs, Fresh(k, l, r)
      PROVE  RegistrationKept'
  BY <1>4, <1>7, FreshTyped DEF Fresh
<1>8. CASE UpdateRelay
  BY <1>4, <1>8, RelayTyped DEF UpdateRelay
<1>9. CASE Reregister \/ CrashWhileRegistering
  BY <1>9 DEF Reregister, CrashWhileRegistering
<1>10. CASE DeleteKey
  <2>1. UNCHANGED <<mixed, cut>> /\ Loaded' = Loaded
    BY <1>10, SameFile DEF DeleteKey
  <2>2. \/ envFile' = NoEnv
        \/ envFile'.api = envFile.api /\ envFile'.client = envFile.client
    BY <1>10, StartEnvs DEF DeleteKey, Envs
  <2>3. NoEnv.api = 0 /\ NoEnv.client = 0
    BY DEF NoEnv, Vars
  <2>4. QED
    BY <2>1, <2>2, <2>3
<1>11. CASE CrashWhileSaving
  <2>1. Loaded'.api = 0 /\ (~cut' => ~cut)
    BY <1>11, TearLoses DEF CrashWhileSaving, NoConfig
  <2>2. QED
    BY <1>3, <1>11, <2>1 DEF CrashWhileSaving
<1>12. CASE WriteEnv
  BY <1>12, NewEnvTyped, SameFile DEF WriteEnv
<1>13. CASE WizardCrashes
  <2>1. mixed' = mixed /\ (cut' \/ (Tear /\ UNCHANGED envFile))
    BY <1>13 DEF WizardCrashes
  <2>2. CASE cut'
    BY <2>2
  <2>3. CASE Tear /\ UNCHANGED envFile
    <3>1. Loaded'.api = 0 /\ (~cut' => ~cut)
      BY <2>3, TearLoses DEF NoConfig
    <3>2. QED
      BY <1>3, <2>1, <2>3, <3>1
  <2>4. QED
    BY <2>1, <2>2, <2>3
<1>14. QED
  BY <1>2, <1>5, <1>6, <1>7, <1>8, <1>9, <1>10, <1>11, <1>12, <1>13 DEF Next

-----------------------------------------------------------------------------
LEMMA KeptInitially == Init => KeptInv
<1> SUFFICES ASSUME Init PROVE KeptInv
  OBVIOUS
<1>1. KeyKept /\ LimitsKept
  BY DEF Init, KeyKept, LimitsKept
<1>2. RegistrationKept
  <2>1. /\ envFile \in InitialEnvs /\ configFile \in InitialFiles
        /\ NoConfig.api = 0
    BY DEF Init, NoConfig
  <2>2. QED
    BY <2>1, RegistrationAssumption
    DEF RegistrationAssumption, RegistrationKept, Loaded, Readable, Agree
<1>3. QED
  BY <1>1, <1>2, StartsWhole, TypedInitially DEF KeptInv

LEMMA KeptStays == KeptInv /\ [Next]_vars => KeptInv'
<1> SUFFICES ASSUME KeptInv, [Next]_vars PROVE KeptInv'
  OBVIOUS
<1>1. IInv' /\ NeverUnlimited'
  BY KeepsWhole DEF KeptInv, IInv
<1>2. QED
  BY <1>1, TypedKept, KeyStays, LimitsStay, RegistrationStays DEF KeptInv

LEMMA KeptImplies ==
  ASSUME KeptInv
  PROVE  TypeOK /\ KeySurvives /\ LimitsAgree /\ RegistrationWhole
<1>1. Typed /\ TypeOK /\ shell \in Shells
  BY DEF KeptInv, Typed
<1>2. KeySurvives
  <2>1. SUFFICES ASSUME pc = "running", ~cut, shell.key = 0, NEW e \in {shell, osEnv}
                 PROVE  Resolve(WithDotEnv(e)).key # 0
    BY DEF KeySurvives
  <2>2. KeyStored /\ e.key = 0 /\ e \in Envs
    BY <1>1, <2>1, StartEnvs DEF KeptInv, KeyKept, Typed, SecretsCleared
  <2>3. QED
    BY <1>1, <2>2, KeyFound
<1>3. LimitsAgree
  BY <1>1, LimitsFound, StartEnvs DEF KeptInv, LimitsKept, LimitsAgree
<1>4. RegistrationWhole
  <2> DEFINE stored == Resolve(WithDotEnv(shell))
  <2>1. shell.api = 0 /\ shell.client = 0
    BY <1>1, RegistrationAssumption DEF RegistrationAssumption
  <2>2. /\ WithDotEnv(shell) \in Envs
        /\ WithDotEnv(shell).api = envFile.api /\ WithDotEnv(shell).client = envFile.client
    BY <1>1, <2>1, StartEnvs, DotEnvTyped
  <2>3. /\ stored.api = IF envFile.api # 0 THEN envFile.api ELSE Loaded.api
        /\ stored.client = IF envFile.client # 0 THEN envFile.client ELSE Loaded.client
    BY <1>1, <2>2, LoadedTyped, OverrideTyped, ResolveTyped
  <2>4. QED
    BY <2>3 DEF KeptInv, RegistrationKept, Agree, RegistrationWhole
<1>5. QED
  BY <1>1, <1>2, <1>3, <1>4

LEMMA SpecKeeps == Spec => []KeptInv
  BY KeptInitially, KeptStays, PTL DEF Spec

\* Every source of the settings, the bot and the wizard hold what they should,
\* and no more of the secrets than they may (run clears its environment).
THEOREM BotTypeCorrect == Spec => []TypeOK
  BY SpecKeeps, KeptImplies, PTL

\* A running bot finds its private key when it is started again, whatever was
\* edited, encrypted, deleted as told or set up again meanwhile
\* (doEncrypt, SaveToFile, runFresh).
THEOREM BotKeySurvives == Spec => []KeySurvives
  BY SpecKeeps, KeptImplies, PTL

\* The limits in force are those that are stored (saveRiskLimitsToConfig).
THEOREM BotLimitsAgree == Spec => []LimitsAgree
  BY SpecKeeps, KeptImplies, PTL

\* API key and client ID come from one registration, also between the wizard's
\* two writes, if those that the user set up by hand do (updateRelay, runFresh).
THEOREM BotRegistrationWhole == Spec => []RegistrationWhole
  BY SpecKeeps, KeptImplies, PTL
=============================================================================
