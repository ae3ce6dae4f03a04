------------------------------ MODULE MCRegistry ------------------------------
(* Two linked files; another version of one of them, of which a field is     *)
(* gone; a file of its own.                                                  *)
EXTENDS Registry, TLC

CONSTANTS linked, rules, version, dynamic, message, string, other, value, pattern

MCFiles == {linked, rules, version, dynamic}
MCGlobalFiles == {linked, rules}
MCTypes == {message, string, other}
MCFieldNames == {value, pattern}
MCMessage == linked :> {message} @@ rules :> {string}
    @@ version :> {string} @@ dynamic :> {other, message}
MCFieldsOf == [f \in MCFiles |-> [t \in MCTypes |->
    IF t \notin MCMessage[f] THEN {}
    ELSE IF f = version THEN {value} ELSE {value, pattern}]]
==============================================================================
