----------------------------- MODULE MCInduction -----------------------------
(* Values for checking Induction: a number, texts of every look, values with *)
(* texts inside, and URLs with and without a parameter after their first.    *)
EXTENDS Induction

MCa == Text("a", "plain")
MCb == Text("b", "plain")
MCe == Text("e", "embeds")

MCToken(v) == Dict([k \in {"token"} |-> v])

MCAddress == Text("://", "address")

MCLeaves == {Number(1), MCa, MCb, MCe, MCAddress, Text("c", "credential"), Text("o", "opens"),
             Url("token", MCa, TRUE, "absolute"), Url("token", MCa, FALSE, "absolute"),
             Url("token", MCa, TRUE, "relative"), Url("token", MCa, FALSE, "relative"),
             Url("token", MCa, TRUE, "query"), Url("token", MCa, TRUE, "anchor"),
             Url("name", MCe, TRUE, "absolute"), Url("name", Text("c", "credential"), TRUE, "absolute")}

MCDeep == {List(<<Leaf(MCa), MCToken(Leaf(MCa))>>), Json(MCToken(Leaf(MCb)))}

MCFieldValues == {Leaf(x) : x \in MCLeaves} \cup MCDeep

\* Each value alone under a plain key; the ordinary ones under a sensitive key;
\* and those that change the text around them beside one that is a secret.
MCName(v)     == [k \in {"name"} |-> v]
MCSecret(v)   == [k \in {"token"} |-> v]
MCBoth(v, w)  == [k \in {"name", "token"} |-> IF k = "name" THEN v ELSE w]

MCSent == {MCName(v) : v \in MCFieldValues}
          \cup {MCSecret(Leaf(x)) : x \in {Number(1), MCa, MCb, MCe}}
          \cup {MCBoth(Leaf(x), Leaf(MCa)) :
                  x \in {MCa, Text("o", "opens"), Url("token", MCa, FALSE, "absolute")}}
          \cup {MCBoth(Leaf(x), Leaf(MCAddress)) :
                  x \in {Url("token", MCa, FALSE, "relative"), Url("token", MCa, TRUE, "query")}}
=============================================================================
