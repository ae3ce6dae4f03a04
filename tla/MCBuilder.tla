------------------------------ MODULE MCBuilder -------------------------------
(* Small instances of Builder: the schemas, and what a run starts from.     *)
EXTENDS BuilderRefinement, TLC

CONSTANTS A, B, W, t1, t2, new

Values(cel, std) == [ignore |-> "unset", cel |-> cel, std |-> std]
Plain == [Values("none", "none") EXCEPT !.ignore = "noRules"]
Std == Values("none", "some")

Scalar(rules) ==
    [shape |-> "singular", target |-> NoMessage, required |-> FALSE,
     inOneof |-> FALSE, rules |-> rules, keys |-> Plain, items |-> Plain]
Of(m) == [Scalar(Plain) EXCEPT !.target = m]
Items(shape, m, rules, items) ==
    [Of(m) EXCEPT !.shape = shape, !.rules = rules, !.items = items]

Msg(exprs, fields) ==
    [exprs |-> exprs, oneofs |-> << >>, protoOneofs |-> << >>,
     fields |-> fields]

(* google.protobuf.Int32Value: one field without rules.                     *)
WrapperMsg == Msg("none", << Scalar(Plain) >>)

Pair(a, b) == (A :> a) @@ (B :> b) @@ (W :> WrapperMsg)

(* Mutually recursive messages: one, the other, both or none of them with   *)
(* rules that do not compile.                                               *)
Recursive ==
    {Pair(Msg(a, << Scalar(Std), Items(shape, B, Plain, Plain) >>),
          Msg(b, << Of(A), Of(B) >>)) :
        a \in Outcome, b \in {"some", "error"}, shape \in Shape}

(* A message oneof rule that is bad, after one that is good.                *)
BadOneof ==
    {Pair([Msg("some", << Of(B), [Scalar(Std) EXCEPT !.inOneof = TRUE] >>)
              EXCEPT !.oneofs = oneofs, !.protoOneofs = << FALSE, TRUE >>],
          Msg("none", << Of(A), [Scalar(Plain) EXCEPT !.required = TRUE] >>)) :
        oneofs \in {<< TRUE, TRUE >>, << TRUE, FALSE >>, << FALSE, TRUE >>}}

(* Every way one field can fail, before or after the field's own message is *)
(* built, between two fields that embed it.                                 *)
OneFailing ==
    {Pair(Msg("none", << f, Of(B) >>), Msg("none", << Of(A), Scalar(Std) >>)) :
        f \in {[Of(B) EXCEPT !.rules = Values("error", "none")],
               [Of(B) EXCEPT !.rules = Values("some", "error")],
               [Of(B) EXCEPT !.rules =
                    [Values("error", "error") EXCEPT !.ignore = "always"]],
               Items("list", B, Values("some", "some"), Values("some", "error")),
               Items("list", B, Values("some", "error"), Std),
               Items("list", B, Std,
                     [Values("error", "some") EXCEPT !.ignore = "always"]),
               [Items("map", B, Values("some", "some"), Std)
                    EXCEPT !.keys = Values("error", "none")],
               [Items("map", B, Std, Values("some", "some"))
                    EXCEPT !.keys = Std],
               [Items("map", NoMessage, Plain, Plain)
                    EXCEPT !.keys.ignore = "always",
                           !.keys.std = "error"]}}

(* Wrapper fields, singular and as elements.                                *)
Wrapped ==
    {Pair(Msg("none", << [Of(W) EXCEPT !.rules = r], f >>),
          Msg("none", << >>)) :
        r \in {Plain, Values("some", "none"), Values("some", "some"),
               Values("some", "error")},
        f \in {Items("list", W, Values("some", "none"), Std),
               Items("map", W, Std, Values("some", "some"))}}

MCSchemas == Recursive \cup BadOneof \cup OneFailing \cup Wrapped

(* None of these schemas has rules on a list of wrappers.                   *)
ASSUME Whole ==
    \A s \in MCSchemas, d \in Messages :
        \A i \in DOMAIN s[d].fields : Carried(s[d].fields[i])

MCSeeds == {<< >>, << A >>, << B, A, B >>}

(* A repeated wrapper field with rules on the list itself, e.g. min_items.  *)
RepeatedWrapper ==
    {Pair(Msg("none", << Items("list", W, Std, Std) >>), Msg("none", << >>))}

==============================================================================
