------------------------------ MODULE MCStartup ------------------------------
(* Instances of Startup for TLC. *)
EXTENDS Startup

CONSTANTS i1, i2

\* The two migrations of the repository, one of its five integrations and one of its four
\* links.
MCFiles  == <<"0001_init.sql", "0002_seed_redaction_rules.sql">>
MCKinds  == <<"collector">>
MCTitles == <<"Ophir Overview">>
===============================================================================
