------------------------------ MODULE MCRulePaths ------------------------------
(* Violations of fields and of parts of lists and maps, in a message that is  *)
(* validated itself, embedded, or embedded twice.                             *)
EXTENDS RulePaths, TLC

MCCelPath == "minLen" :> <<"string", "min_len">>

MCElements == {"required", "enum", "defined_only", "any", "in", "not_in", "repeated",
               "items", "map", "keys", "values", "string", "min_len"}

At(v, r, outer) == [value |-> v, rule |-> r, within |-> outer]

MCSites ==
    { At("field", "definedOnly", <<"items">>), At("items", "definedOnly", <<"items">>),
      At("field", "required", <<"values", "field">>), At("values", "anyIn", <<"field">>),
      At("keys", "minLen", << >>), At("field", "minLen", <<"values">>) }
==============================================================================
