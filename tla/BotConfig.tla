------------------------------ MODULE BotConfig ------------------------------
(***************************************************************************)
(* Where the settings and secrets of a bot come from and where they go:    *)
(* config.json, .env, the keystore and the environment (internal/config,   *)
(* cmd/bot/helpers.go, cmd_run.go), read when the bot starts, written by   *)
(* its terminal UI (tui.go, view_edit.go), by the setup wizard, in the     *)
(* same process or in another (cmd_setup.go), and by the user, across      *)
(* crashes and the restart that ends an update.  Zero stands for a value   *)
(* that is not set.  `lev' stands for the two limits that can be edited,   *)
(* `rest' for the limits that have a default or mean "none" (orders per    *)
(* step, steps per instruction, exposure, positions per market), `client'  *)
(* for the client ID with the URL of the server.                           *)
(***************************************************************************)
EXTENDS Naturals

CONSTANTS
    Keys, Levs, DefaultRest, MaxRegs,   \* MaxRegs: bound of the model
    Absent, Torn, NoWizard,
    InitialFiles, InitialEnvs, Shells   \* what the user sets up by hand

Vars == {"key", "api", "client", "lev"}
NoEnv == [v \in Vars |-> 0]
NoConfig == [key |-> 0, api |-> 0, client |-> 0, lev |-> 0, rest |-> 0]

Envs == [key : Keys \cup {0}, api : 0..MaxRegs, client : 0..MaxRegs,
         lev : Levs \cup {0}]
Configs == [key : Keys \cup {0}, api : 0..MaxRegs, client : 0..MaxRegs,
            lev : Levs \cup {0}, rest : Nat]

ASSUME ConfigAssumption ==
    /\ 0 \notin Keys \cup Levs /\ DefaultRest \in Nat \ {0}
    /\ MaxRegs \in Nat \ {0}
    /\ Absent # Torn /\ {Absent, Torn} \cap Configs = {}
    /\ InitialFiles \subseteq Configs \cup {Absent}
    /\ InitialEnvs \cup Shells \subseteq Envs

\* No API key, or one of the same registration as the client ID.
Agree(api, client) == api # 0 /\ client # 0 => api = client

\* What the user sets up by hand comes from one registration: the shell names
\* none, and .env has both of its variables or no API key.
ASSUME RegistrationAssumption ==
    /\ \A s \in Shells : s.api = 0 /\ s.client = 0
    /\ \A e \in InitialEnvs : e.api # 0 => e.client = e.api
    /\ \A f \in InitialFiles \ {Absent} :
          /\ Agree(f.api, f.client)
          /\ \A e \in InitialEnvs : e.api = 0 => Agree(f.api, e.client)

VARIABLES
    configFile, \* Absent, Torn or a configuration
    envFile,    \* .env
    keystore,   \* .keystore.json: the key in it
    shell,      \* the environment the bot is started in
    osEnv,      \* the environment of its process
    pc,         \* "off", "setup", "resume", "running" or "reexec"
    bot,        \* what it runs with: signer, API key, client ID, limits
    wizard,     \* the setup wizard, in the bot's process or another
    regs,       \* the server: the number of registrations, the last API key
    told,       \* history: the bot said that .env may be deleted
    cut,        \* history: a torn .env, or a key stripped from config.json
    mixed,      \* history: .env may hold the API key of another registration
    stale       \* history: a source changed behind the running bot

files == <<configFile, envFile, keystore>>
process == <<osEnv, pc, bot>>
history == <<told, cut, mixed, stale>>
vars == <<files, shell, process, wizard, regs, history>>

-----------------------------------------------------------------------------
(* internal/config.                                                        *)

Readable == configFile \notin {Absent, Torn}

\* A config.json that cannot be parsed counts as none.
Loaded == IF Readable THEN configFile ELSE NoConfig

\* LoadFromEnv.
Override(c, e) == [f \in DOMAIN c |-> IF f \in Vars /\ e[f] # 0 THEN e[f] ELSE c[f]]

\* loadDotEnv does not replace what is set.
WithDotEnv(e) == [v \in Vars |-> IF e[v] # 0 THEN e[v] ELSE envFile[v]]

\* The configuration of a process with environment e; with a wrong passphrase
\* for the keystore it does not start at all.
Resolve(e) ==
    LET c == Override(Loaded, e)
    IN  [c EXCEPT !.key = IF @ # 0 THEN @ ELSE keystore]

FaultyValid(c) == c.key # 0

Valid(c) == c.key # 0 /\ c.lev # 0

ApplyDefaults(c) == [c EXCEPT !.rest = IF @ = 0 THEN DefaultRest ELSE @]

\* SaveToFile keeps the secrets out of the file.
Save(c) ==
    /\ configFile' = [c EXCEPT !.key = 0, !.api = 0]
    /\ cut' = (cut \/ Loaded.key # 0)

Tear == configFile' = Torn /\ cut' = (cut \/ Loaded.key # 0)

\* keystore.Encrypt writes another file and renames it: never a part of it.
StoreKey(k) == keystore' = k

\* os.WriteFile truncates first, so a crash leaves any part of what was to be kept.
Partial(e) == {[v \in Vars |-> IF v \in kept THEN e[v] ELSE 0] : kept \in SUBSET Vars}

-----------------------------------------------------------------------------
Init ==
    /\ configFile \in InitialFiles /\ envFile \in InitialEnvs /\ keystore = 0
    /\ shell \in Shells
    /\ osEnv = NoEnv /\ pc = "off" /\ bot = NoConfig
    /\ wizard = NoWizard /\ regs = 1
    /\ told = FALSE /\ cut = FALSE /\ mixed = FALSE /\ stale = FALSE

FaultyCleared(e) == [e EXCEPT !.key = 0]

Cleared(e) == [e EXCEPT !.key = 0, !.api = 0]

\* run: needs a server, and takes the secrets out of the environment.
Run(e) ==
    /\ stale' = FALSE
    /\ IF Valid(Resolve(e)) /\ Resolve(e).client # 0
       THEN /\ pc' = "running"
            /\ bot' = ApplyDefaults(Resolve(e))
            /\ osEnv' = Cleared(e)
       ELSE pc' = "off" /\ bot' = NoConfig /\ osEnv' = NoEnv

\* cmdRun; the setup wizard takes over when there is no key or no limit.
Start ==
    /\ pc \in {"off", "reexec"}
    /\ LET e == WithDotEnv(IF pc = "off" THEN shell ELSE osEnv)
       IN  \/ Valid(Resolve(e)) /\ Run(e)
           \/ /\ ~Valid(Resolve(e)) /\ wizard = NoWizard
              /\ pc' = "setup" /\ osEnv' = e
              /\ UNCHANGED <<bot, stale>>
    /\ UNCHANGED <<files, shell, wizard, regs, told, cut, mixed>>

\* After setup; the limits in the environment are not among what is unset.
Resume ==
    /\ pc = "resume"
    /\ Run(WithDotEnv([Cleared(osEnv) EXCEPT !.client = 0]))
    /\ UNCHANGED <<files, shell, wizard, regs, told, cut, mixed>>

Stop ==
    /\ pc' = "off" /\ bot' = NoConfig /\ osEnv' = NoEnv

Exit ==
    /\ pc # "off" /\ Stop
    /\ wizard' = IF pc = "setup" THEN NoWizard ELSE wizard
    /\ UNCHANGED <<files, shell, regs, history>>

\* reExecSelf hands its own environment over.
Upgrade ==
    /\ pc = "running"
    /\ pc' = "reexec" /\ bot' = NoConfig
    /\ UNCHANGED <<files, shell, osEnv, wizard, regs, history>>

-----------------------------------------------------------------------------
(* The terminal UI.                                                        *)

FaultySavedLimits(l) == configFile

SavedLimits(l) == [configFile EXCEPT !.lev = l]

\* saveRiskLimitsToConfig, then the validator's limits; the UI has no other
\* limits to hand over than those it shows.
EditLimits(l) ==
    /\ pc = "running" /\ Readable
    /\ Save(SavedLimits(l))
    /\ bot' = [bot EXCEPT !.lev = l, !.rest = 0]
    /\ UNCHANGED <<envFile, keystore, shell, osEnv, pc, wizard, regs, told, mixed, stale>>

\* saveTickerAssetsToConfig.
SaveTicker ==
    /\ pc = "running" /\ Readable
    /\ Save(configFile)
    /\ UNCHANGED <<envFile, keystore, shell, process, wizard, regs, told, mixed, stale>>

\* Only the API key of the registration is kept; saving it may fail unnoticed.
Reregister ==
    /\ pc = "running" /\ regs < MaxRegs
    /\ regs' = regs + 1
    /\ bot' = [bot EXCEPT !.api = regs']
    /\ envFile' \in {envFile, [envFile EXCEPT !.api = regs']}
    /\ mixed' = TRUE
    /\ UNCHANGED <<configFile, keystore, shell, osEnv, pc, wizard, told, cut, stale>>

FaultyEncrypted == keystore

Encrypted == envFile.key

\* doEncrypt.
EncryptKey ==
    /\ pc = "running" /\ envFile.key # 0
    /\ StoreKey(Encrypted)
    /\ told' = TRUE
    /\ UNCHANGED <<configFile, envFile, shell, process, wizard, regs, cut, mixed, stale>>

\* The command encrypt-key, which does not read .env.
EncryptKeyCommand ==
    /\ shell.key # 0
    /\ StoreKey(shell.key)
    /\ told' = TRUE
    /\ UNCHANGED <<configFile, envFile, shell, process, wizard, regs, cut, mixed, stale>>

\* The user follows the advice: .env, or the key in it, is deleted.
DeleteKey ==
    /\ told
    /\ envFile' \in {NoEnv, [envFile EXCEPT !.key = 0]}
    /\ told' = FALSE /\ stale' = TRUE
    /\ UNCHANGED <<configFile, keystore, shell, process, wizard, regs, cut, mixed>>

\* os.WriteFile truncates first: a crash in EditLimits or SaveTicker leaves a part.
CrashWhileSaving ==
    /\ pc = "running" /\ Readable /\ Stop
    /\ Tear
    /\ UNCHANGED <<envFile, keystore, shell, wizard, regs, told, mixed, stale>>

\* The same in Reregister; the variables are written in any order.
CrashWhileRegistering ==
    /\ pc = "running" /\ regs < MaxRegs /\ Stop
    /\ regs' = regs + 1
    /\ envFile' \in Partial([envFile EXCEPT !.api = regs'])
    /\ cut' = TRUE /\ mixed' = TRUE
    /\ UNCHANGED <<configFile, keystore, shell, wizard, told, stale>>

-----------------------------------------------------------------------------
(* The setup wizard: it loads config.json, asks, and writes config.json    *)
(* and then .env.                                                          *)

FaultyRelayLines(r) == [NoEnv EXCEPT !.api = r]

RelayLines(r) == [NoEnv EXCEPT !.api = r, !.client = r]

\* runFresh up to config.json; the registration r may have failed.
Fresh(k, l, r) ==
    /\ wizard = NoWizard /\ r \in {0, regs + 1}
    /\ regs' = IF r = 0 THEN regs ELSE r
    /\ Save([NoConfig EXCEPT !.client = r, !.lev = l, !.rest = DefaultRest])
    /\ wizard' = [step |-> "freshEnv", lines |-> [RelayLines(r) EXCEPT !.key = k]]
    /\ stale' = TRUE
    /\ UNCHANGED <<envFile, keystore, shell, process, told, mixed>>

OpenWizard(step) ==
    /\ wizard = NoWizard /\ pc # "setup" /\ Readable
    /\ wizard' = [step |-> step, cfg |-> configFile]
    /\ UNCHANGED <<files, shell, process, regs, history>>

CloseWizard ==
    /\ wizard # NoWizard
    /\ wizard' = NoWizard
    /\ pc # "setup"
    /\ UNCHANGED <<files, shell, process, regs, history>>

\* updateRiskLimits.
UpdateRiskLimits(l) ==
    /\ wizard # NoWizard /\ wizard.step = "limits"
    /\ Save(ApplyDefaults([wizard.cfg EXCEPT !.lev = l]))
    /\ wizard' = NoWizard
    /\ stale' = TRUE
    /\ UNCHANGED <<envFile, keystore, shell, process, regs, told, mixed>>

\* updateRelay up to config.json; looking for the key it loads the environment
\* into what it saves.
UpdateRelay ==
    /\ wizard # NoWizard /\ wizard.step = "relay" /\ regs < MaxRegs
    /\ regs' = regs + 1
    /\ LET c == IF wizard.cfg.key # 0 THEN wizard.cfg
                ELSE Override(wizard.cfg, WithDotEnv(shell))
       IN  Save([c EXCEPT !.client = regs'])
    /\ wizard' = [step |-> "relayEnv", lines |-> RelayLines(regs')]
    /\ stale' = TRUE
    /\ UNCHANGED <<envFile, keystore, shell, process, told, mixed>>

\* What is written to .env: all of it, or the HL_RELAY_ variables.
NewEnv ==
    [v \in Vars |-> IF wizard.step = "freshEnv" \/ v \in {"api", "client"}
                    THEN wizard.lines[v] ELSE envFile[v]]

WriteEnv ==
    /\ wizard # NoWizard /\ wizard.step \in {"freshEnv", "relayEnv"}
    /\ envFile' = NewEnv
    /\ wizard' = NoWizard
    /\ pc' = IF pc = "setup" THEN "resume" ELSE pc
    /\ mixed' = FALSE /\ stale' = TRUE
    /\ cut' = (cut /\ wizard.step # "freshEnv")
    /\ UNCHANGED <<configFile, keystore, shell, osEnv, bot, regs, told>>

\* The wizard's process crashes while it saves; it may be the bot's.
WizardCrashes ==
    /\ \/ wizard = NoWizard /\ Tear /\ UNCHANGED envFile
       \/ /\ wizard # NoWizard /\ wizard.step \in {"limits", "relay"}
          /\ Tear /\ UNCHANGED envFile
       \/ /\ wizard # NoWizard /\ wizard.step \in {"freshEnv", "relayEnv"}
          /\ envFile' \in Partial(NewEnv)
          /\ UNCHANGED configFile /\ cut' = TRUE
    /\ wizard' = NoWizard /\ stale' = TRUE
    /\ IF pc = "setup" THEN Stop ELSE UNCHANGED process
    /\ UNCHANGED <<keystore, shell, regs, told, mixed>>

Next ==
    \/ Start \/ Resume \/ Exit \/ Upgrade
    \/ \E l \in Levs : EditLimits(l) \/ UpdateRiskLimits(l)
    \/ SaveTicker \/ Reregister \/ EncryptKey \/ EncryptKeyCommand \/ DeleteKey
    \/ CrashWhileSaving \/ CrashWhileRegistering
    \/ \E k \in Keys, l \in Levs, r \in 0..MaxRegs : Fresh(k, l, r)
    \/ \E step \in {"limits", "relay"} : OpenWizard(step)
    \/ CloseWizard \/ UpdateRelay \/ WriteEnv \/ WizardCrashes

Spec == Init /\ [][Next]_vars

-----------------------------------------------------------------------------
\* The values of every field and the agreement of bot and wizard with pc.
TypeOK ==
    /\ Readable => configFile \in Configs
    /\ {envFile, osEnv, shell} \subseteq Envs
    /\ keystore \in Keys \cup {0} /\ regs \in 1..MaxRegs
    /\ bot \in Configs /\ (bot # NoConfig <=> pc = "running")
    /\ pc = "running" => osEnv.key = 0 /\ osEnv.api = 0
    /\ pc = "setup" /\ wizard # NoWizard => wizard.step = "freshEnv"

\* Whatever a crash leaves of config.json and .env, and whoever wrote them, the
\* bot never runs without limits, a key and a server (Config.Validate, run).
NeverUnlimited ==
    pc = "running" => bot.lev # 0 /\ bot.key # 0 /\ bot.client # 0

\* A running bot finds a private key when it is started again, from the shell or
\* by its own update: encrypting the key and deleting it from .env as told does
\* not lose it.  Excepted are a .env cut off by a crash, a key that only
\* config.json or the shell holds (initEncryptEdit, doEncrypt, SaveToFile).
KeySurvives ==
    pc = "running" /\ ~cut /\ shell.key = 0 =>
        \A e \in {shell, osEnv} : Resolve(WithDotEnv(e)).key # 0

\* The limits in force are those a restart would bring back, unless the wizard or
\* the user changed a file meanwhile or a variable overrides them: a failed or an
\* interrupted save does not leave the validator with limits of its own.
LimitsAgree ==
    pc = "running" /\ ~stale /\ osEnv.lev = 0 /\ WithDotEnv(shell).lev = 0 =>
        Resolve(WithDotEnv(shell)).lev = bot.lev

\* The stored API key and client ID come from one registration, also between the
\* wizard's two writes, until the UI replaces the API key alone or a write is cut.
RegistrationWhole ==
    LET stored == Resolve(WithDotEnv(shell))
    IN  ~mixed /\ ~cut /\ stored.api # 0 /\ stored.client # 0
            => stored.api = stored.client

\* Editing the limits at run time (validator.go: "UpdateLimits hot-swaps the risk
\* limits at runtime") leaves the limits that were not edited in force.
EditKeepsRest ==
    [][pc = "running" /\ pc' = "running" => bot'.rest = bot.rest]_vars

\* Deleting .env as told (tui.go: "you can delete .env") leaves what the bot needs
\* to start again: not only its private key, also its API key.
AdviceKeepsApiKey ==
    [][told /\ ~told' /\ Resolve(WithDotEnv(shell)).api # 0
          => Resolve(WithDotEnv(shell))'.api # 0]_vars
=============================================================================
