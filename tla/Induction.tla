------------------------------- MODULE Induction -------------------------------
(***************************************************************************)
(* From the bodies an application sends to what its observation says of    *)
(* their fields: append_frames redacts each frame (Redaction), and         *)
(* observation_from_group, _induce_shape and shape_signature               *)
(* (apire/normalize.py) induce a shape from what was stored.               *)
(*                                                                         *)
(* The observation is an HTTP response, whose body is the JSON text of a   *)
(* dictionary (a function from some of the fields to values) or of an      *)
(* array, or some other text.  Neither the order of the frames nor a body  *)
(* that comes again matters to a shape, so the state is the set of bodies, *)
(* each as it was sent and as it is stored.  The status, the signatures of *)
(* items and of what is below the top level, and the cuts of long texts    *)
(* are left out.                                                           *)
(***************************************************************************)
EXTENDS Redaction

CONSTANTS
    Fields,        \* keys of response bodies
    FieldValues,   \* what they may hold: functions from places to leaves
    Sent,          \* the dictionaries that the application sends
    MaxDistinct,   \* values that an enum_sample keeps: 8 in the code
    MaxBodies      \* bound on the different bodies of the observation

\* A leaf that an application may send.
IsLeaf(x) ==
    \/ x.is \in {"number", "dict", "list"}
    \/ x.is = "text" /\ x = Text(x.word, x.looks)
    \/ /\ x.is = "url" /\ x = Url(x.param, x.val, x.tail, x.form)
       /\ x.form \in {"absolute", "query", "relative", "anchor"}
       /\ x.val.is = "text" /\ x.val = Text(x.val.word, x.val.looks)

\* A place is a sequence, and a value a function from places to leaves.
IsPlace(p) == p \in Seq({p[i] : i \in DOMAIN p})
IsValue(v) == /\ DOMAIN v # {} /\ v = [p \in DOMAIN v |-> v[p]]
              /\ \A p \in DOMAIN v : IsPlace(p) /\ IsLeaf(v[p])

\* Bodies as the application sends them.  With two URLs in one text only the
\* first would be rewritten: there is at most one.
Urls(v) == {p \in DOMAIN v : v[p].is = "url"}
Dicts   == {d \in UNION {[fields -> FieldValues] : fields \in SUBSET Fields} :
               Cardinality(Urls(Dict(d))) <= 1}
Bodies  == {Json(Dict(d)) : d \in Sent} \cup {Json(List(<<>>)), Leaf(Text("page", "plain"))}

ASSUME InductionAssumption ==
    /\ MaxDistinct \in Nat \ {0} /\ MaxBodies \in Nat
    /\ \A v \in FieldValues : IsValue(v)
    /\ Sent \subseteq Dicts

VARIABLES
    salted,    \* Store.salt is set
    frames     \* of the observation: records [sent, stored]

bodyVars == <<salted, frames>>

-----------------------------------------------------------------------------
\* The frame that a transport hands to append_frames, and the body that is
\* stored of it.
FrameOf(b) ==
    Dict([k \in {"headers", "body_sample"} |->
             IF k = "body_sample" THEN b
             ELSE Dict([h \in {"authorization", "accept"} |-> Leaf(Text(h, "plain"))])])

Walked    == [b \in Bodies |-> [s \in BOOLEAN |-> Walk(FrameOf(b), s)]]
Stored(b) == Walked[b][salted]

\* Of bodies, the JSON values, as _parse_json_sample decodes them.
Parsed(bodies) == {Below(b, <<"json", 1>>) : b \in {c \in bodies : Kind(c) = "json"}}

Decoded(F)    == Parsed({Below(f.stored, <<"dict", "body_sample">>) : f \in F})
DictBodies(F) == {v \in Decoded(F) : Kind(v) = "dict"}

\* The keys of a dictionary, and the values of field f in the payloads ps that
\* have it.
FieldsOf(v)     == {p[1][2] : p \in DOMAIN v \ {<<>>}}
ValuesOf(ps, f) == {Below(p, <<"dict", f>>) : p \in {q \in ps : f \in FieldsOf(q)}}

\* The values that are compared: isinstance of str, int, float, bool.
Scalar(v)    == IsString(v) \/ Kind(v) = "number"
Signature(v) == IF IsString(v) THEN "str" ELSE Kind(v)

\* Python orders numbers among themselves and texts among themselves, and
\* raises TypeError for a number and a text.
Sortable(vs) == Cardinality({Signature(v) : v \in vs}) = 1

\* The entry of one field in _induce_shape.
Entry(vs) ==
    LET of(how) == [types |-> {Signature(v) : v \in vs}, how |-> how] IN
    IF \E v \in vs : ~Scalar(v)           THEN of("variable")
    ELSE IF Cardinality(vs) = 1           THEN of("constant")
    ELSE IF Cardinality(vs) > MaxDistinct THEN of("variable")
    ELSE of("enum")

\* The shape: one entry for each key that some payload has.
InducedFrom(ps) == [f \in UNION {FieldsOf(p) : p \in ps} |-> Entry(ValuesOf(ps, f))]

\* Few values of a field that cannot be sorted: the error is nobody's, and no
\* observation is built any more, of whatever key.
Raises(ps) ==
    \E f \in DOMAIN InducedFrom(ps) :
       InducedFrom(ps)[f].how = "enum" /\ ~Sortable(ValuesOf(ps, f))

\* Mutant: one array hides the dictionaries.
ShapeOfArray(F) ==
    IF \E v \in Decoded(F) : Kind(v) = "list" THEN [from |-> "array"]
    ELSE IF Raises(DictBodies(F)) THEN [from |-> "TypeError"]
    ELSE IF DictBodies(F) # {}
         THEN [from |-> "dict", fields |-> InducedFrom(DictBodies(F))]
    ELSE [from |-> "payload"]

\* The shape that the frames F give.  The bodies decide: dictionaries if there are
\* any, else arrays, else the payload around the body.
Shape(F) ==
    IF Raises(DictBodies(F)) THEN [from |-> "TypeError"]
    ELSE IF DictBodies(F) # {}
         THEN [from |-> "dict", fields |-> InducedFrom(DictBodies(F))]
    ELSE IF Decoded(F) # {} THEN [from |-> "array"]
    ELSE [from |-> "payload"]

-----------------------------------------------------------------------------
Init == salted \in BOOLEAN /\ frames = {}

\* A frame of the observation is appended.
AppendFrame(b) ==
    /\ Cardinality({f.sent : f \in frames} \cup {b}) <= MaxBodies
    /\ frames' = frames \cup {[sent |-> b, stored |-> Stored(b)]}
    /\ UNCHANGED salted

\* A session without a salt is followed by one that has it; no other salt can
\* replace the first (OneSalt of KbSessions).
AddSalt == ~salted /\ salted' = TRUE /\ UNCHANGED frames

Next == AddSalt \/ \E b \in Bodies : AppendFrame(b)

Spec == Init /\ [][Next]_bodyVars

-----------------------------------------------------------------------------
(* Properties.                                                              *)

\* The type of the state; a conjunct of StoredIsClean.
TypeOK == salted \in BOOLEAN /\ \A f \in frames : f.sent \in Bodies

\* A string is secret by what it looks like, or by the key it stands under: that
\* of a dictionary, or its name in a query.
Named(key)     == key \in SensitiveKeys \cup HeaderKeys
Secret(x, key) ==
    \/ /\ x.is = "text" /\ x # Redacted
       /\ x.looks \in {"credential", "embeds", "opens"} \/ Named(key)
    \/ /\ x.is = "url" /\ x.val \notin {NoText, Redacted}
       /\ x.val.looks \in {"credential", "embeds", "opens"} \/ x.param \in SensitiveKeys \/ Named(key)

\* What is stored at place p, be it in what is left of a broken JSON text.
StoredAt(w, p) ==
    {w[t] : t \in DOMAIN w \cap {p}}
       \cup {w[t].left[p] : t \in {r \in DOMAIN w : w[r].is = "fragment" /\ p \in DOMAIN w[r].left}}

\* y still shows the secret of x.
Shows(y, x) == IF x.is = "url" THEN y.is = "url" /\ y.val = x.val ELSE y = x

\* Where the code lets a secret through: in a JSON text that redaction itself
\* broke; in a query, under a name that says nothing, or in a URL that is not
\* seen to be one.  What the embedded patterns find is let through nowhere.
Scrubbed(x) == (IF x.is = "url" THEN x.val ELSE x).looks \in {"embeds", "opens"}
LetThrough(v, p) ==
    /\ ~Scrubbed(v[p])
    /\ \/ p \in Broken(v)
       \/ /\ v[p].is = "url" /\ ~Named(KeyAt(p))
          /\ v[p].param \in SensitiveKeys =>
                \/ v[p].form = "anchor"
                \/ v[p].form = "relative" /\ \A i \in Texts(p) : ~Addressed(v, p, i)

\* "There is no window in which the secret is stored" (redaction.py), but for the
\* three that LetThrough names: however deep in dictionaries, lists, queries and
\* JSON texts within JSON texts a secret was sent, nothing stored shows it.
StoredIsClean ==
    TypeOK /\ \A f \in frames :
       LET sent == FrameOf(f.sent) IN
       \A p \in DOMAIN sent :
          Secret(sent[p], KeyAt(p)) /\ (\E y \in StoredAt(f.stored, p) : Shows(y, sent[p]))
             => LetThrough(sent, p)

\* Whether something of a stored value was taken out for good, and perhaps what
\* was left of it replaced by a pseudonym.
Base(x)   == IF x.is = "pseudonym" THEN x.of ELSE x
Erased(v) == \E p \in DOMAIN v : LET x == Base(v[p]) IN
                x = Redacted \/ (x.is = "url" /\ Base(x.val) = Redacted)

\* Whether a value is stored alike wherever it stands: a URL that is not seen to
\* be one by itself is rewritten if the text around it has an address.
Steady(v) == \A p \in Urls(v) : v[p].param \in SensitiveKeys => v[p].form \notin {"query", "relative"}

\* "Equality survives; the value does not": what an observation says of a field
\* whose values were kept or replaced by pseudonyms is what the application
\* sent.  It is called constant exactly if all bodies that are still JSON
\* agree about it, in value and in type.
EqualitySurvives ==
    LET whole == {v \in Parsed({f.sent : f \in {g \in frames : Broken(g.sent) = {}}}) :
                     Kind(v) = "dict"}
        shape == Shape(frames)
    IN  shape.from = "dict" =>
           \A f \in DOMAIN shape.fields :
              /\ \A v \in ValuesOf(DictBodies(frames), f) : ~Erased(v)
              /\ \A v \in ValuesOf(whole, f) : Steady(v)
              => (shape.fields[f].how = "constant"
                  <=> \E v \in ValuesOf(whole, f) : Scalar(v) /\ ValuesOf(whole, f) = {v})

\* What frames taught is never taken back by those that came later: a field that
\* varies is not constant again, a type once seen stays, no field vanishes, and a
\* body that was a dictionary is not described as an array.  That a number and a
\* text may stop every induction is the one thing that can happen to it, and it
\* has gone once the field has more values.
LearnsOnly ==
    \A F \in SUBSET frames :
       Shape(F).from = "dict" /\ ~Raises(DictBodies(frames)) =>
          /\ Shape(frames).from = "dict"
          /\ \A f \in DOMAIN Shape(F).fields :
                /\ f \in DOMAIN Shape(frames).fields
                /\ Shape(F).fields[f].types \subseteq Shape(frames).fields[f].types
                /\ Shape(F).fields[f].how # "constant" => Shape(frames).fields[f].how # "constant"

=============================================================================
