------------------------------ MODULE MCRedaction ------------------------------
(* An instance of Redaction for TLC. *)
EXTENDS Redaction

CONSTANTS n1, n2, n3

\* One key holds a sensitive word among others, the other a part of the word only.
MCKeys == {<<"x", "-", "api", "_", "key">>, <<"api", "-", "id">>}
MCSensitiveWords == {<<"api", "key">>}
===============================================================================
