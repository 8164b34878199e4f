----------------------------- MODULE MCBotConfig -----------------------------
EXTENDS BotConfig

\* None; as the wizard leaves it; and written by hand, with the secrets.
MCFiles ==
    { Absent,
      [NoConfig EXCEPT !.client = 1, !.lev = 1, !.rest = 2],
      [key |-> 1, api |-> 1, client |-> 1, lev |-> 1, rest |-> 0] }

\* None; as the wizard leaves it; and with a limit added by hand.
Wizards == [NoEnv EXCEPT !.key = 1, !.api = 1, !.client = 1]
MCEnvs == {NoEnv, Wizards, [Wizards EXCEPT !.lev = 2]}

\* A plain shell, and a container that passes the key.
MCShells == {NoEnv, [NoEnv EXCEPT !.key = 1]}
=============================================================================
