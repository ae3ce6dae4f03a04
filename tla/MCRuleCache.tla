----------------------------- MODULE MCRuleCache ------------------------------
(* Small instances of RuleCache.                                            *)
EXTENDS RuleCache

CONSTANTS v1, v2, f1, f2, gt, ext1, ext2

With(options, known, unknown) ==
    [match |-> "match", rules |-> [known |-> known, unknown |-> unknown],
     options |-> options]
Absent == [With("concrete", {}, << >>) EXCEPT !.match = "absent"]

(* A standard rule and two predefined ones: one compiles, the other is of  *)
(* any kind.                                                               *)
MCKinds ==
    {k \in [Rules -> Kind] :
        k[gt] = "rule" /\ k[ext1] = "plain" /\ k[ext2] # "rule"}

(* One field with the rules known or on the wire, in either order, another  *)
(* that shares some of them or has none that apply.                         *)
MCDescriptors ==
    {[f \in Fields |-> IF f = f1 THEN a ELSE b] :
        a \in {With("concrete", {gt, ext1}, << >>),
               With("dynamic", {gt}, << ext1, ext2 >>),
               With("concrete", {}, << ext2, ext1 >>)},
        b \in {Absent, [Absent EXCEPT !.match = "mismatch"],
               With("malformed", {gt}, << >>),
               With("unknown", {gt, ext1, ext2}, << >>),
               With("concrete", {gt}, << ext1 >>)}}

MCResolvers ==
    {r \in Resolver : /\ r[gt] = "known"
                      /\ <<r[ext1], r[ext2]>> \in {<<"known", "missing">>,
                            <<"missing", "malformed">>, <<"malformed", "known">>}}

(* Two validators that build the same field with one predefined rule, which *)
(* only some of them can resolve.                                           *)
OneKind == {[r \in Rules |-> "plain"]}
OneUnknown == {[f \in Fields |-> With("concrete", {gt}, << ext1 >>)]}
OneMalformed == {[f \in Fields |-> With("malformed", {gt}, << >>)]}
KnownOrMissing == {r \in Resolver : \A x \in Rules : r[x] # "malformed"}
==============================================================================
