--------------------------- MODULE MCFeatureRules ---------------------------
(* Instances of FeatureRules: one rule of many patterns, and pairs of rules. *)
EXTENDS FeatureRules

F(name, val) == [name |-> name, val |-> val, temp |-> FALSE]
Lit(name) == [name |-> name, val |-> NoVal, neg |-> FALSE]
Not(name) == [name |-> name, val |-> NoVal, neg |-> TRUE]

One(cond) == [cond |-> cond, star |-> FALSE]
Many(cond) == [cond |-> cond, star |-> TRUE]

Some == One({})
SomeMany == Many({})
IsA == {{Lit("a")}}
NotA == {{Not("a")}}
AorB == {{Lit("a")}, {Lit("b"), Not("a")}}

Assign(name, val) == [kind |-> "assign", name |-> name, val |-> val, by |-> 0]
Delete(name) == [kind |-> "delete", name |-> name, val |-> NoVal, by |-> 0]
Spread(name, by) == [kind |-> "spread", name |-> name, val |-> NoVal, by |-> by]

Rules(pres, selves, posts, acts, brks) ==
    [pre : pres, self : selves, post : posts, acts : acts, brk : brks]

(* One rule, applied once. *)
Pres == {<<>>, <<SomeMany>>, <<SomeMany, One(IsA)>>, <<Many(NotA), Some>>}
Selves == {<<>>, <<Some>>, <<One(IsA), Many(IsA)>>, <<Many(IsA), Some>>,
           <<Many(AorB), One(NotA)>>, <<One(AorB), SomeMany, One(IsA)>>}
Posts == {<<>>, <<SomeMany>>, <<One(IsA), SomeMany>>, <<Many(NotA), One(IsA)>>, <<Some, Many(NotA)>>}

Marks == {<<F("a", NoVal)>>, <<F("b", NoVal)>>}

NoStruct == [e \in Elements |-> {}]

Singles(acts, brk, dir) ==
    [rules : {<<r>> : r \in Rules(Pres, Selves, Posts, {acts}, {"none"})},
     given : [Elements -> Marks], mode : {"MRM"}, brk : {brk}, dir : {dir},
     data : {"mrph"}, nbest : {FALSE}, structs : {<<NoStruct>>}]

Single ==
    Singles(<<Assign("x", NoVal)>>, "jump", "LtoR")
    \cup Singles(<<Delete("a"), Assign("b", "new")>>, "none", "RtoL")

(* Two rules, for two structures printed or for none. *)
Free == {<<SomeMany>>}
Conds == {IsA, {{Lit("x"), Not("t")}}, {{Not("x")}}, {{Lit("t")}}}
Acts == {<<Assign("x", NoVal)>>, <<Assign("a", "new")>>, <<Delete("a")>>,
         <<Assign("y", NoVal), Assign("x", "new")>>}

PairRules ==
    Rules(Free, {<<One(c)>> : c \in Conds} \cup {<<One(NotA), SomeMany>>}, Free, Acts, {"none"})

Pairs(kind) ==
    [rules : {<<r, s>> : r, s \in PairRules},
     given : {g \in [Elements -> {<<F("a", NoVal)>>, <<F("b", NoVal), F("a", "old")>>, <<F("x", "old")>>}] :
                 g[1] # g[2] /\ g[3] = g[1]},
     mode : {"MRM", "RMM"}, brk : {"none"}, dir : {"RtoL"},
     data : {kind}, nbest : {TRUE},
     structs : {<<NoStruct, [NoStruct EXCEPT ![2] = {"t"}]>>}]

(* A feature handed on to the element before. *)
Spreads ==
    [rules : {<<[pre |-> <<SomeMany, Some>>, self |-> <<One(c)>>, post |-> p, acts |-> <<Spread("a", -1), Assign("x", NoVal)>>, brk |-> b]>> :
                c \in {IsA, NotA}, p \in Posts, b \in {"none", "normal"}},
     given : [Elements -> Marks], mode : {"MRM", "RMM"}, brk : {"none", "normal"},
     dir : {"LtoR", "RtoL"}, data : {"tag"}, nbest : {TRUE}, structs : {<<NoStruct, NoStruct>>}]

(* Two rules some of which jump behind what they have matched; the first may
   change what the second one looks at. *)
JumpRules ==
    Rules(Free, {<<One(IsA), Many(IsA)>>, <<Some, One(NotA)>>, <<One(IsA)>>},
          {<<SomeMany>>, <<One(IsA), SomeMany>>}, {<<Assign("x", NoVal)>>, <<Delete("a")>>},
          {"jump", "none"})

Jumps ==
    [rules : {<<r, s>> : r, s \in JumpRules}, given : [Elements -> Marks], mode : {"MRM"},
     brk : {"none", "jump"}, dir : {"LtoR"}, data : {"mrph"}, nbest : {FALSE}, structs : {<<NoStruct>>}]

const_Inputs == Single \cup Pairs("tag") \cup Pairs("bnst") \cup Spreads \cup Jumps
=============================================================================
