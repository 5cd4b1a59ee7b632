------------------------------ MODULE ConfigFiles ------------------------------
(***************************************************************************)
(* config.json and the commands that read and write it.  A command maps    *)
(* the file onto its environment before anything else; doctor --fix fills  *)
(* what is missing and saves; install rewrites the file in today's form.   *)
(* One user edits the file and runs one command at a time; a command may   *)
(* be killed while it writes.                                              *)
(***************************************************************************)
EXTENDS Integers, Sequences

CONSTANTS MaxEdits, MaxCommands, \* bounds; 0: nobody touches the file
          ShellValues            \* what the user's shell may export: [key, token]

\* Provider "g" is the default one, "m" one that has an alias.
ProviderNames == {"g", "m"}

ASSUME ConfigAssumption ==
    /\ MaxEdits \in Nat /\ MaxCommands \in Nat
    /\ ShellValues \subseteq [key : [ProviderNames -> STRING], token : STRING]

VARIABLES
    file,     \* config.json: [state, c], state of "missing", "broken", "there"
    shell,    \* the variables exported where commands are started
    command,  \* the command at work: [does, at, env, c]
    wrote,    \* history: what the user last left in the file, Defaults: nothing; in
              \*          today's fields once doctor has moved it
    fixed,    \* history: nothing has touched the file since a doctor --fix
    nEdits, nCommands

configVars == <<file, shell, command, wrote, fixed, nEdits, nCommands>>

-----------------------------------------------------------------------------
\* Contents.  The section under the alias, the fields in snake case and `env` are of
\* older releases.

\* default_config.  A key and a token have no default; the model of "m", as the base
\* address of some providers, and the bridge's url have one, which stands in for a
\* field that is not in the file.
Defaults == [on |-> [p \in ProviderNames |-> p = "g"], key |-> [p \in ProviderNames |-> ""],
             model |-> "default", aliasOn |-> FALSE, aliasKey |-> "", aliasModel |-> "", oldKey |-> "",
             telegram |-> FALSE, token |-> "", oldToken |-> "", url |-> "default", oldUrl |-> "",
             local |-> TRUE, oldEnv |-> ""]

\* normalize_config: only the keys of the schema are kept.
Normalized(c) == [c EXCEPT !.aliasOn = FALSE, !.aliasKey = "", !.aliasModel = "", !.oldKey = "",
                           !.oldToken = "", !.oldUrl = "", !.oldEnv = ""]

\* load_config
Loaded(f) == IF f.state = "there" THEN Normalized(f.c) ELSE Defaults

\* The file as doctor reads it beside load_config.
Raw(f) == IF f.state = "there" THEN f.c ELSE Defaults

-----------------------------------------------------------------------------
\* The environment of a command.

Or(value, other) == IF value # "" THEN value ELSE other

\* _resolve_provider: the first that is enabled.
ActiveProvider(c) == IF c.on["g"] \/ ~c.on["m"] THEN "g" ELSE "m"
ProviderEnabled(c) == c.on["g"] \/ c.on["m"]

\* _resolve_enabled_channels
EnabledChannels(c) ==
    LET on == (IF c.local THEN {"local"} ELSE {}) \cup (IF c.telegram THEN {"telegram"} ELSE {})
    IN  IF on = {} THEN {"local"} ELSE on

\* _channel_env_values: every field of every channel, empty ones too.
ChannelEnv(c) == c.token

\* config_to_env: the keys of the providers that are not active map to nothing.
Mapped(c) ==
    [provider |-> ActiveProvider(c), enabled |-> ProviderEnabled(c), channels |-> EnabledChannels(c),
     key |-> [p \in ProviderNames |-> IF ProviderEnabled(c) /\ p = ActiveProvider(c) THEN c.key[p] ELSE ""],
     token |-> ChannelEnv(c)]

\* _active_provider_fallback_api_key_env
Fallback(c) == IF ProviderEnabled(c) /\ c.key[ActiveProvider(c)] = "" THEN {ActiveProvider(c)} ELSE {}

\* apply_config_to_env: what maps to nothing is removed, but for the fallback.
Applied(c, env) ==
    [Mapped(c) EXCEPT
        !.key = [p \in ProviderNames |-> IF p \in Fallback(c) THEN env.key[p] ELSE Mapped(c).key[p]]]

\* bootstrap_env_from_config
Boot(f, env) == IF f.state = "there" THEN Applied(Normalized(f.c), env) ELSE env

\* What a process has before it reads the file.
ShellEnv == [provider |-> "g", enabled |-> TRUE, channels |-> {"local"},
             key |-> shell.key, token |-> shell.token]

-----------------------------------------------------------------------------
\* doctor --fix.  Each fix takes the content and gives it back.

\* _doctor_apply_provider_legacy_migrations: first the alias, then snake case, and
\* only into what load_config has left empty.
MigratedProvider(c, raw) ==
    [c EXCEPT !.on["m"] = @ \/ raw.aliasOn, !.key["m"] = Or(@, Or(raw.aliasKey, raw.oldKey)),
              !.model = Or(@, raw.aliasModel)]

\* _doctor_ensure_active_provider
EnsuredProvider(c) == IF ProviderEnabled(c) THEN c ELSE [c EXCEPT !.on["g"] = TRUE]

\* _doctor_backfill_provider_api_key_from_env
BackfilledKey(c, env) == [c EXCEPT !.key[ActiveProvider(c)] = Or(@, env.key[ActiveProvider(c)])]

MigratedChannel_OldFirst(c, raw) == [c EXCEPT !.token = Or(raw.oldToken, @), !.url = Or(@, raw.oldUrl)]

\* _doctor_apply_channel_legacy_migrations
MigratedChannel(c, raw) == [c EXCEPT !.token = Or(@, raw.oldToken), !.url = Or(@, raw.oldUrl)]

\* _doctor_ensure_at_least_one_enabled_channel
EnsuredChannel(c) == [c EXCEPT !.local = @ \/ ~c.telegram]

\* _doctor_backfill_channel_fields_from_env
BackfilledToken(c, env) == IF c.telegram THEN [c EXCEPT !.token = Or(@, env.token)] ELSE c

\* _doctor_apply_minimal_fixes up to the save
Fixed(f, env) ==
    LET provider == BackfilledKey(EnsuredProvider(MigratedProvider(Loaded(f), Raw(f))), env)
        channel  == EnsuredChannel(MigratedChannel(provider, Raw(f)))
    IN  BackfilledToken(channel, env)

-----------------------------------------------------------------------------
\* What a content says, in today's fields or in those of older releases.
KeyOf(c, p) == IF p = "g" THEN c.key["g"] ELSE Or(c.key["m"], Or(c.aliasKey, c.oldKey))
IsOn(c, p) == IF p = "g" THEN c.on["g"] ELSE c.on["m"] \/ c.aliasOn
ModelOf(c) == Or(c.model, c.aliasModel)
TokenOf(c) == Or(c.token, c.oldToken)
UrlOf(c) == Or(c.url, c.oldUrl)

\* The same in today's fields alone.
Today(c) == [Normalized(c) EXCEPT !.key = [p \in ProviderNames |-> KeyOf(c, p)],
                                  !.on = [p \in ProviderNames |-> IsOn(c, p)],
                                  !.model = ModelOf(c), !.token = TokenOf(c), !.url = UrlOf(c)]

-----------------------------------------------------------------------------
\* Steps.

NoCommand == [does |-> "none", at |-> "none", env |-> [token |-> ""], c |-> Defaults]
Missing == [state |-> "missing", c |-> Defaults]

ConfigInit ==
    /\ file = Missing /\ wrote = Defaults /\ fixed = FALSE
    /\ shell \in ShellValues
    /\ command = NoCommand /\ nEdits = 0 /\ nCommands = 0

\* The user changes one thing in the file, or leaves it unparsable.
OneChange(c) ==
    {[c EXCEPT !.on["g"] = ~@], [c EXCEPT !.on["m"] = ~@], [c EXCEPT !.aliasOn = ~@],
     [c EXCEPT !.telegram = ~@], [c EXCEPT !.local = ~@],
     [c EXCEPT !.key["g"] = "written"], [c EXCEPT !.key["m"] = "written"], [c EXCEPT !.token = "written"],
     [c EXCEPT !.model = "written"], [c EXCEPT !.model = ""], [c EXCEPT !.url = ""],
     [c EXCEPT !.aliasKey = "alias"], [c EXCEPT !.aliasModel = "alias"], [c EXCEPT !.oldKey = "old"],
     [c EXCEPT !.oldToken = "old"], [c EXCEPT !.oldUrl = "old"], [c EXCEPT !.oldEnv = "old"]}

Edits ==
    /\ command = NoCommand /\ nEdits < MaxEdits
    /\ \E c \in OneChange(Raw(file)) : file' = [state |-> "there", c |-> c] /\ wrote' = c
    /\ nEdits' = nEdits + 1 /\ fixed' = FALSE
    /\ UNCHANGED <<shell, command, nCommands>>

Mistypes ==
    /\ command = NoCommand /\ nEdits < MaxEdits /\ file.state = "there"
    /\ file' = [state |-> "broken", c |-> Defaults] /\ wrote' = Defaults
    /\ nEdits' = nEdits + 1 /\ fixed' = FALSE
    /\ UNCHANGED <<shell, command, nCommands>>

\* main: every command but install starts with the environment of the file.
Starts(does) ==
    /\ command = NoCommand /\ nCommands < MaxCommands
    /\ nCommands' = nCommands + 1
    /\ command' = [does |-> does, at |-> "started", c |-> Defaults,
                   env |-> IF does \in {"install", "force"} THEN ShellEnv ELSE Boot(file, ShellEnv)]
    /\ UNCHANGED <<file, shell, wrote, fixed, nEdits>>

\* _doctor_apply_minimal_fixes: saves if something changed and it is no dry run.
DoctorFixes ==
    /\ command.at = "started" /\ command.does \in {"doctor", "dry"}
    /\ LET c == Fixed(file, command.env) IN
       IF c # Loaded(file) /\ command.does = "doctor"
       THEN command' = [command EXCEPT !.at = "saving", !.c = c] /\ UNCHANGED fixed
       ELSE command' = NoCommand /\ fixed' = (fixed \/ command.does = "doctor")
    /\ UNCHANGED <<file, shell, wrote, nEdits, nCommands>>

\* _run_install_init_setup: defaults with --force or where there is no file, else
\* what load_config made of it.
Installs ==
    /\ command.at = "started" /\ command.does \in {"install", "force"}
    /\ command' = [command EXCEPT
          !.at = "saving", !.c = IF command.does = "force" THEN Defaults ELSE Loaded(file)]
    /\ UNCHANGED <<file, shell, wrote, fixed, nEdits, nCommands>>

\* save_config: write_text truncates the file, then writes it.
Truncates ==
    /\ command.at = "saving"
    /\ command' = [command EXCEPT !.at = "truncated"]
    /\ file' = [state |-> "broken", c |-> Defaults] /\ fixed' = FALSE
    /\ wrote' = CASE command.does = "force"   -> Defaults
                  [] command.does = "install" -> Normalized(wrote)
                  [] OTHER                    -> wrote
    /\ UNCHANGED <<shell, nEdits, nCommands>>

Saves ==
    /\ command.at = "truncated"
    /\ file' = [state |-> "there", c |-> command.c]
    /\ fixed' = (command.does = "doctor") /\ command' = NoCommand
    /\ wrote' = IF command.does = "doctor" THEN Today(wrote) ELSE wrote
    /\ UNCHANGED <<shell, nEdits, nCommands>>

Killed ==
    /\ command # NoCommand
    /\ wrote' = IF command.at = "truncated" THEN Defaults ELSE wrote
    /\ command' = NoCommand
    /\ UNCHANGED <<file, shell, fixed, nEdits, nCommands>>

ConfigNext ==
    \/ Edits \/ Mistypes \/ Killed
    \/ \E does \in {"doctor", "dry", "install", "force"} : Starts(does)
    \/ DoctorFixes \/ Installs \/ Truncates \/ Saves

ConfigSpec == ConfigInit /\ [][ConfigNext]_configVars

-----------------------------------------------------------------------------
\* Properties.

ConfigTypeOK ==
    /\ file.state \in {"missing", "broken", "there"} /\ DOMAIN file.c = DOMAIN Defaults
    /\ command.at \in {"none", "started", "saving", "truncated"}
    /\ DOMAIN wrote = DOMAIN Defaults /\ fixed \in BOOLEAN
    /\ nEdits \in 0 .. MaxEdits /\ nCommands \in 0 .. MaxCommands

\* Whatever fixes and refreshes an intact file goes through, what the user wrote stays:
\* a value is never replaced, what is enabled stays enabled, no channel is enabled that
\* reaches outside, and a value of an older release whose field of today is empty is
\* moved, not lost (but by an install, which drops it).  A field of today that has a
\* default is not empty unless the user made it so: LegacyFieldsMove.
UserValuesStay ==
    file.state = "there" =>
        /\ \A p \in ProviderNames : /\ KeyOf(wrote, p) # "" => KeyOf(file.c, p) = KeyOf(wrote, p)
                                   /\ IsOn(wrote, p) => IsOn(file.c, p)
        /\ ModelOf(wrote) # "" => ModelOf(file.c) = ModelOf(wrote)
        /\ TokenOf(wrote) # "" => TokenOf(file.c) = TokenOf(wrote)
        /\ UrlOf(wrote) # "" => UrlOf(file.c) = UrlOf(wrote)
        /\ file.c.telegram = wrote.telegram /\ (wrote.local => file.c.local)

\* After doctor --fix has gone through, the next process has what the user meant: the
\* first provider enabled, under whichever name, with its key from the file or else
\* from the shell, and a channel enabled; and a process that this one starts (gateway
\* start) sees the same as one started by hand.
FixedConfigRuns ==
    fixed =>
        LET env   == Boot(file, ShellEnv)
            meant == IF ~IsOn(wrote, "g") /\ IsOn(wrote, "m") THEN "m" ELSE "g"
        IN  /\ env.enabled /\ env.provider = meant
            /\ env.key[meant] = Or(KeyOf(wrote, meant), shell.key[meant])
            /\ wrote.telegram => "telegram" \in env.channels
            /\ Boot(file, env) = env

\* _doctor_apply_minimal_fixes says that it fills missing fields of the enabled channels
\* when a matching environment value is present.
ShellFillsTheGap == (fixed /\ file.state = "there" /\ file.c.telegram) => (shell.token # "" => file.c.token # "")

\* _doctor_apply_minimal_fixes says that legacy fields are migrated "from raw config
\* before normalized defaults drop unknown keys": what it saves has the older value of
\* a field for which the user wrote none of today's.
LegacyFieldsMove ==
    command.at = "saving" /\ command.does = "doctor" =>
        LET raw == Raw(file)
        IN  /\ raw.aliasModel # "" /\ raw.model \in {"", "default"} => command.c.model = raw.aliasModel
            /\ raw.oldUrl # "" /\ raw.url \in {"", "default"} => command.c.url = raw.oldUrl

\* save_config says that it migrates the legacy `env` of config.json into runtime.json:
\* what it is given to write over a file with `env` has it.
LegacyEnvMoves ==
    command.at = "saving" /\ command.does \in {"doctor", "install"} => command.c.oldEnv = Raw(file).oldEnv
================================================================================
