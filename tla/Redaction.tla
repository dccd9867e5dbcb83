------------------------------- MODULE Redaction -------------------------------
(***************************************************************************)
(* Redaction at ingestion (apire/redaction.py): what append_frames makes   *)
(* of a frame before anything of it is written.                            *)
(*                                                                         *)
(* A value is a function from the places of its leaves to the leaves.  A   *)
(* place is the sequence of the steps that lead there: <<"dict", k>> into  *)
(* a dictionary at key k, <<"list", i>> into a list, <<"json", 1>> into a  *)
(* string that is the JSON text of a value.  _walk goes down the steps;    *)
(* here it is said of each leaf what that makes of it.  A leaf is          *)
(*   - a number, an empty dictionary, an empty list,                       *)
(*   - a text, with what the patterns for credentials see in it,           *)
(*   - a URL, of which one parameter is kept, with whether others follow   *)
(*     it, and with the form of the URL,                                   *)
(*   - what redaction leaves: <REDACTED>, a pseudonym, and the fragment of *)
(*     a JSON text that is not JSON any more.                              *)
(* Only URLs have the characters ? & = # in them.  HMAC under one salt is  *)
(* taken to be injective.  The report of what fired is left out.           *)
(***************************************************************************)
EXTENDS Naturals, Sequences, FiniteSets

CONSTANTS
    SensitiveKeys,   \* keys with a fragment of SENSITIVE_KEY_FRAGMENTS
    HeaderKeys       \* authorization, proxy-authorization, cookie, set-cookie

\* `looks`: "credential" is all a credential (_looks_credential), "embeds" has
\* one inside (_EMBEDDED_RE), "opens" has one that the pattern extends to the
\* next space of the text around it (Bearer, Basic or token and a word);
\* "address" has "://" in it.
Text(w, l) == [is |-> "text", word |-> w, looks |-> l]
Number(n)  == [is |-> "number", n |-> n]
NoText     == Text("", "plain")
Redacted   == Text("<REDACTED>", "redacted")

\* `form`: "absolute" has "://", "query" starts with "?", "relative" neither; in
\* an "anchor" the parameter comes after the "#" of an absolute URL.
Url(p, v, t, f) == [is |-> "url", param |-> p, val |-> v, tail |-> t, form |-> f]

\* What `left` has of a JSON text: a function from places to leaves.
Fragment(left) == [is |-> "fragment", left |-> left]

\* The pseudonym of a leaf; what has one already gets another.
Pseudonym(x) ==
    IF x.is = "pseudonym" THEN [x EXCEPT !.times = @ + 1]
    ELSE [is |-> "pseudonym", of |-> x, times |-> 1]

Leaf(x) == [p \in {<<>>} |-> x]

\* The place q below a step.
Under(step, q) == <<step>> \o q

\* A dictionary or list with f[k] at k.
Branch(kind, f) ==
    IF DOMAIN f = {} THEN Leaf([is |-> kind])
    ELSE [p \in UNION {{Under(<<kind, k>>, q) : q \in DOMAIN f[k]} : k \in DOMAIN f}
            |-> f[p[1][2]][Tail(p)]]

Dict(f) == Branch("dict", f)
List(s) == Branch("list", s)
Json(v) == Branch("json", <<v>>)

\* What stands below a step, and what a value is.
Below(v, step) ==
    [q \in {Tail(p) : p \in {r \in DOMAIN v : r # <<>> /\ r[1] = step}}
       |-> v[Under(step, q)]]

Kind(v) == IF <<>> \in DOMAIN v THEN v[<<>>].is ELSE (CHOOSE p \in DOMAIN v : TRUE)[1][1]

IsString(v) == Kind(v) \notin {"dict", "list", "number"}

-----------------------------------------------------------------------------
\* The key that a place stands under: a dictionary gives each value its own, a
\* list passes its key on, and so does a JSON text.
KeyAt(p) ==
    LET at == {i \in DOMAIN p : p[i][1] = "dict"}
    IN  IF at = {} THEN "" ELSE p[CHOOSE i \in at : \A j \in at : j <= i][2]

\* The JSON texts that a place is in.
Texts(p) == {i \in DOMAIN p : p[i][1] = "json"}
Outer(p) == CHOOSE i \in Texts(p) : \A j \in Texts(p) : i <= j

\* The leaves in the i-th step of p, and whether there is "://" in it.
Inside(v, p, i)    == {q \in DOMAIN v : Len(q) >= i /\ SubSeq(q, 1, i) = SubSeq(p, 1, i)}
HasAddress(x)      == \/ x.is = "text" /\ x.looks = "address"
                      \/ x.is = "url" /\ x.form \in {"absolute", "anchor"}
Addressed(v, p, i) == \E q \in Inside(v, p, i) : HasAddress(v[q])

\* _strip_embedded of a text; each of its credentials becomes <REDACTED>.
Scrub(x) == IF x.is = "text" /\ x.looks \in {"embeds", "opens"} THEN Redacted ELSE x

\* Mutant: the pseudonym is taken of the key.
RedactByKey(x, key, salted) ==
    IF \/ x.is = "text" /\ x.looks = "credential"
       \/ key \in HeaderKeys
       \/ key \in SensitiveKeys /\ ~salted
    THEN Redacted
    ELSE IF key \in SensitiveKeys THEN Pseudonym(Text(key, "plain")) ELSE x

\* _redact_value
RedactValue(x, key, salted) ==
    IF \/ x.is = "text" /\ x.looks = "credential"
       \/ key \in HeaderKeys
       \/ key \in SensitiveKeys /\ ~salted
    THEN Redacted
    ELSE IF key \in SensitiveKeys THEN Pseudonym(x) ELSE x

\* The texts with the URL at p that _walk hands to _redact_url_query: those with
\* "://", and the URL alone if it starts with "?".  What comes after a "#" is
\* never looked at.
Turns(v, p) ==
    IF v[p].form = "anchor" THEN 0
    ELSE Cardinality({i \in Texts(p) : Addressed(v, p, i)})
           + (IF v[p].form \in {"absolute", "query"} THEN 1 ELSE 0)

\* _strip_embedded and _redact_url_query; an empty value is left alone.
ScrubUrl(u) == [u EXCEPT !.val = Scrub(u.val)]
RedactUrl(u, salted) ==
    LET x == Scrub(u.val)
    IN  IF u.param \in SensitiveKeys /\ x # NoText
        THEN [u EXCEPT !.val = RedactValue(x, u.param, salted)]
        ELSE [u EXCEPT !.val = x]

\* A URL after n turns.
Rewritten(u, n, salted) ==
    LET pass[i \in 0..n] == IF i = 0 THEN ScrubUrl(u) ELSE RedactUrl(pass[i - 1], salted)
    IN  pass[n]

\* A JSON text is scrubbed and rewritten as one text before it is parsed: a
\* credential that extends to the next space, and the value of the last
\* parameter of a query, take the rest of the text with them.
Breaks(v, q) ==
    \/ v[q].is = "text" /\ v[q].looks = "opens"
    \/ /\ v[q].is = "url" /\ v[q].form # "anchor" /\ Addressed(v, q, Outer(q))
       /\ v[q].param \in SensitiveKeys /\ ~v[q].tail

\* The places in outermost JSON texts that are no JSON any more.
Broken(v) ==
    {p \in DOMAIN v : Texts(p) # {} /\ \E q \in Inside(v, p, Outer(p)) : Breaks(v, q)}

\* Mutant: a string that is JSON is treated like any other text.
RedactLeafNoJson(v, p, salted) ==
    CASE v[p].is \in {"number", "dict", "list"} -> v[p]
      [] v[p].is = "url" -> RedactValue(Rewritten(v[p], Turns(v, p), salted), KeyAt(p), salted)
      [] Texts(p) # {} -> Scrub(v[p])
      [] OTHER -> RedactValue(Scrub(v[p]), KeyAt(p), salted)

\* What becomes of the leaf at place p.
RedactLeaf(v, p, salted) ==
    CASE v[p].is \in {"number", "dict", "list"} -> v[p]
      [] v[p].is = "url" -> RedactValue(Rewritten(v[p], Turns(v, p), salted), KeyAt(p), salted)
      [] OTHER -> RedactValue(Scrub(v[p]), KeyAt(p), salted)

\* What the scrubbing and the rewriting of a broken JSON text leave of the leaf at
\* p, unless it is behind what broke the text: it is not parsed, so no key counts.
LeaveLeaf(v, p, salted) ==
    CASE v[p].is = "text" -> Scrub(v[p])
      [] v[p].is = "url" ->
            Rewritten(v[p], IF v[p].form # "anchor" /\ Addressed(v, p, Outer(p)) THEN 1 ELSE 0, salted)
      [] OTHER -> v[p]

\* The JSON text at t, of which that is left.
LeftOf(v, t, salted) ==
    Fragment([p \in {q \in Broken(v) : SubSeq(q, 1, Outer(q) - 1) = t} |-> LeaveLeaf(v, p, salted)])

\* _walk: a broken JSON text is redacted like any other string, and otherwise
\* each leaf by what it is and the key it stands under.
Walk(v, salted) ==
    LET fragments == {SubSeq(p, 1, Outer(p) - 1) : p \in Broken(v)}
    IN  [p \in (DOMAIN v \ Broken(v)) \cup fragments |->
           IF p \in fragments THEN RedactValue(LeftOf(v, p, salted), KeyAt(p), salted)
           ELSE RedactLeaf(v, p, salted)]

=============================================================================
