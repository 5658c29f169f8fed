--------------------------- MODULE SchemaSynthesis ---------------------------
(***************************************************************************)
(* Structured outputs (internal/adapter/structured_output.go): the answer  *)
(* a response_format makes of a scenario's content, with the bounded walk  *)
(* that synthesizes a value from a JSON Schema; and the engine's own       *)
(* reader of schemas, ToolValidator (internal/engine/tool_validator.go).   *)
(*                                                                         *)
(* A schema node and a value are records of one shape each; a field that   *)
(* is absent is empty.  Numbers are counted in halves, a string is its     *)
(* length.  Go ranges over a map in any order: `order` is the one taken.   *)
(***************************************************************************)
EXTENDS Integers, Sequences, FiniteSets, SequencesExt

CONSTANTS maxSynthDepth, maxSynthArrayItems, maxSynthNodes

VARIABLES schema, defs, order,   \* the request's schema, its $defs, the map order
          format,                \* response_format.type
          resp,                  \* the engine's response: content, toolCalls, refusal, finish
          answer, left, done     \* the response adjusted, the walk's budget left
vars == <<schema, defs, order, format, resp, answer, left, done>>

V(t, n) == [t |-> t, n |-> n, e |-> << >>, f |-> << >>]
Null == V("null", 0)
Obj(f) == [Null EXCEPT !.t = "object", !.f = f]
Arr(e) == [Null EXCEPT !.t = "array", !.e = e]
Node(type) == [type |-> type, const |-> << >>, enum |-> << >>, ref |-> "", anyOf |-> << >>, allOf |-> << >>,
               props |-> << >>, required |-> {}, closed |-> FALSE, items |-> << >>, tuple |-> << >>, minItems |-> 0,
               minimum |-> << >>, exclusiveMinimum |-> << >>, maximum |-> << >>, exclusiveMaximum |-> << >>,
               minLength |-> 0, maxLength |-> 99, format |-> 0]
NoSchema == Node("")

typeOf(s) == CASE s.type # "" -> s.type
               [] s.type = "" /\ s.props # << >> -> "object"
               [] s.type = "" /\ s.props = << >> /\ s.items # << >> -> "array"
               [] OTHER -> ""
resolveRef(ref) == IF ref \in DOMAIN defs THEN <<defs[ref]>> ELSE << >>

\* Halves to whole numbers, in halves.
Floor(h) == 2 * (h \div 2)
Ceil(h) == 2 * ((h + 1) \div 2)
clampMaxInt(v, s) ==
  CASE s.maximum # << >> /\ v > s.maximum[1] -> Floor(s.maximum[1])
    [] ~(s.maximum # << >> /\ v > s.maximum[1]) /\ s.exclusiveMaximum # << >> /\ v >= s.exclusiveMaximum[1]
         -> Ceil(s.exclusiveMaximum[1]) - 2
    [] OTHER -> v
lowerBoundIntFloor(s) == IF s.minimum # << >> THEN Floor(s.minimum[1]) ELSE 0
lowerBoundInt(s) == CASE s.minimum # << >> -> clampMaxInt(Ceil(s.minimum[1]), s)
                      [] s.minimum = << >> /\ s.exclusiveMinimum # << >> -> clampMaxInt(Floor(s.exclusiveMinimum[1]) + 2, s)
                      [] OTHER -> 0
lowerBoundNum(s) == CASE s.minimum # << >> -> s.minimum[1]
                      [] s.minimum = << >> /\ s.exclusiveMinimum # << >> -> s.exclusiveMinimum[1] + 2
                      [] OTHER -> 0
synthString(s) == V("string", s.format)
zeroForSchema(s) ==
  LET target == IF s.ref # "" /\ resolveRef(s.ref) # << >> THEN resolveRef(s.ref)[1] ELSE s
      type == typeOf(target)
  IN  CASE type = "object" -> Obj(<< >>) [] type = "array" -> Arr(<< >>) [] type = "string" -> V("string", 0)
        [] type \in {"integer", "number"} -> V("number", 0) [] type = "boolean" -> V("boolean", 0) [] OTHER -> Null

RECURSIVE collectAllOfProps(_, _)
\* The properties of every branch, a later branch over an earlier one.
collectAllOfProps(branches, depth) ==
  IF depth > maxSynthDepth \/ branches = << >> THEN << >>
  ELSE LET last == branches[Len(branches)]
           sub == IF last.ref = "" THEN <<last>> ELSE resolveRef(last.ref)
           before == collectAllOfProps(SubSeq(branches, 1, Len(branches) - 1), depth)
           own == IF sub = << >> THEN << >> ELSE sub[1].props
           nested == IF sub = << >> THEN << >> ELSE collectAllOfProps(sub[1].allOf, depth + 1)
       IN  [k \in DOMAIN before \cup DOMAIN own \cup DOMAIN nested |->
              IF k \in DOMAIN nested THEN nested[k] ELSE IF k \in DOMAIN own THEN own[k] ELSE before[k]]

\* The first schema of the remaining ones is tried only while budget is left.
ExhaustedNever(budget) == budget < 0 - 1000
Exhausted(budget) == budget <= 0
Keys(props) == SelectSeq(order, LAMBDA k : k \in DOMAIN props)
Elements(s) == IF s.tuple # << >> THEN s.tuple
               ELSE IF s.items = << >> THEN << >>
               ELSE LET want == IF s.minItems > 1 THEN s.minItems ELSE 1
                    IN  [i \in 1..(IF want > maxSynthArrayItems THEN maxSynthArrayItems ELSE want) |-> s.items[1]]

RECURSIVE synth(_, _, _), synthEach(_, _, _)
\* One value per schema of the sequence, until the budget is spent.
synthEach(schemas, depth, budget) ==
  IF schemas = << >> \/ Exhausted(budget) THEN [vals |-> << >>, budget |-> budget]
  ELSE LET first == synth(Head(schemas), depth, budget)
           rest == synthEach(Tail(schemas), depth, first.budget)
       IN  [vals |-> <<first.val>> \o rest.vals, budget |-> rest.budget]
synthObject(props, depth, budget) ==
  LET keys == Keys(props)
      r == synthEach([i \in DOMAIN keys |-> props[keys[i]]], depth, budget)
      At(k) == CHOOSE i \in DOMAIN keys : keys[i] = k
  IN  [val |-> Obj([k \in {keys[i] : i \in DOMAIN r.vals} |-> r.vals[At(k)]]), budget |-> r.budget]
synthArray(s, depth, budget) ==
  LET r == synthEach(Elements(s), depth, budget) IN [val |-> Arr(r.vals), budget |-> r.budget]
synth(s, depth, given) ==
  LET budget == given - 1
      type == typeOf(s)
      merged == LET under == collectAllOfProps(s.allOf, depth)
                IN  [k \in DOMAIN under \cup DOMAIN s.props |-> IF k \in DOMAIN under THEN under[k] ELSE s.props[k]]
      Leaf(v) == [val |-> v, budget |-> budget]
  IN  IF Exhausted(budget) \/ depth >= maxSynthDepth THEN Leaf(zeroForSchema(s))
      ELSE IF s.const # << >> THEN Leaf(s.const[1])
      ELSE IF s.enum # << >> THEN Leaf(s.enum[1])
      ELSE IF s.ref # "" THEN IF resolveRef(s.ref) = << >> THEN Leaf(Null) ELSE synth(resolveRef(s.ref)[1], depth + 1, budget)
      ELSE IF s.anyOf # << >> THEN synth(s.anyOf[1], depth + 1, budget)
      ELSE IF s.allOf # << >> THEN IF merged = << >> THEN synth(s.allOf[1], depth + 1, budget)
                                   ELSE synthObject(merged, depth + 1, budget)
      ELSE CASE type = "object" -> synthObject(s.props, depth + 1, budget)
             [] type = "array"  -> synthArray(s, depth + 1, budget)
             [] type = "string" -> Leaf(synthString(s))
             [] type = "integer" -> Leaf(V("number", lowerBoundInt(s)))
             [] type = "number" -> Leaf(V("number", lowerBoundNum(s)))
             [] type = "boolean" -> Leaf(V("boolean", 0))
             [] OTHER -> Leaf(Null)

SynthesizeFromSchema(s) ==
  IF s = NoSchema THEN [val |-> Obj(<< >>), budget |-> maxSynthNodes] ELSE synth(s, 0, maxSynthNodes)

\* A refusal clears the content and filters the finish unless one is planted.
NoText == [json |-> FALSE, val |-> Null]
refuseKeepsContent(r) == [r EXCEPT !.finish = "content_filter"]
refuse(r) == [r EXCEPT !.content = NoText, !.finish = IF @ = "" THEN "content_filter" ELSE @]
Json(v) == [json |-> TRUE, val |-> v]
contentMatchesRoot(content, s) ==
  content.json /\ (typeOf(s) \in {"object", "array"} => content.val.t = typeOf(s))
Structured(r, s, made) ==
  CASE r.toolCalls -> r
    [] ~r.toolCalls /\ r.refusal -> refuse(r)
    [] ~r.toolCalls /\ ~r.refusal /\ format = "json_object" ->
         IF r.content.json /\ r.content.val.t = "object" THEN r ELSE [r EXCEPT !.content = Json(Obj(<< >>))]
    [] ~r.toolCalls /\ ~r.refusal /\ format = "json_schema" ->
         IF contentMatchesRoot(r.content, s) THEN r ELSE [r EXCEPT !.content = Json(made)]
    [] OTHER -> r

-----------------------------------------------------------------------------
(* ToolValidator: does a value pass a schema.                              *)

equalScalar(a, b) == IF "number" \in {a.t, b.t} THEN a.t = b.t /\ a.n = b.n ELSE a = b
inEnum(v, allowed) == \E i \in DOMAIN allowed : equalScalar(allowed[i], v)
checkType(v, type) == CASE type \in {"string", "boolean", "array", "object", "number"} -> v.t = type
                        [] type = "integer" -> v.t = "number" /\ v.n % 2 = 0
                        [] OTHER -> TRUE
RECURSIVE validateValue(_, _)
validateObjectAt(s, v) ==
  /\ s.required \subseteq DOMAIN v.f
  /\ \A k \in DOMAIN s.props \cap DOMAIN v.f : validateValue(s.props[k], v.f[k])
  /\ s.closed => DOMAIN v.f \subseteq DOMAIN s.props
validateArray(s, v) == s.items # << >> => \A i \in DOMAIN v.e : validateValue(s.items[1], v.e[i])
validateValue(s, v) ==
  /\ checkType(v, s.type)
  /\ s.enum # << >> => inEnum(v, s.enum)
  /\ s.type = "string" /\ v.t = "string" => v.n >= s.minLength /\ v.n <= s.maxLength
  /\ s.type = "object" /\ v.t = "object" => validateObjectAt(s, v)
  /\ s.type = "array" /\ v.t = "array" => validateArray(s, v)
ValidateParameters(s, v) == s.type = "object" => validateObjectAt(s, v)

-----------------------------------------------------------------------------
Init == answer = resp /\ left = maxSynthNodes /\ done = FALSE
applyResponseFormat ==
  /\ ~done /\ done' = TRUE
  /\ LET r == SynthesizeFromSchema(schema)
     IN  IF format \in {"", "text"} THEN UNCHANGED <<answer, left>>
         ELSE answer' = Structured(resp, schema, r.val) /\ left' = r.budget
  /\ UNCHANGED <<schema, defs, order, format, resp>>

\* The schemas of strict structured outputs: every required property is
\* declared and no string has a length to reach.
RECURSIVE Declared(_, _)
Declared(s, len) == /\ s.required \subseteq DOMAIN s.props /\ s.minLength <= len
                    /\ \A k \in DOMAIN s.props : Declared(s.props[k], len)
                    /\ \A i \in DOMAIN s.items : Declared(s.items[i], len)
                    /\ \A i \in DOMAIN s.tuple : Declared(s.tuple[i], len)
Strict(s) == Declared(s, 0)
\* The bounds of an integer, when some integer is within them.
InBounds(s, n) ==
  /\ s.minimum # << >> => n >= s.minimum[1]
  /\ s.exclusiveMinimum # << >> => n > s.exclusiveMinimum[1]
  /\ s.maximum # << >> => n <= s.maximum[1]
  /\ s.exclusiveMaximum # << >> => n < s.exclusiveMaximum[1]
RECURSIVE Bounded(_, _), Typed(_, _)
Bounded(s, v) ==
  /\ (s.type = "integer" /\ (s.minimum # << >> \/ s.exclusiveMinimum # << >>) /\ \E n \in -10..10 : InBounds(s, 2 * n))
       => InBounds(s, v.n)
  /\ \A k \in DOMAIN s.props \cap DOMAIN v.f : Bounded(s.props[k], v.f[k])
\* Every value present has the type its node, or the node it refers to, declares.
Typed(s, v) ==
  LET target == IF s.ref \in DOMAIN defs THEN defs[s.ref] ELSE s
  IN  /\ checkType(v, target.type)
      /\ \A k \in DOMAIN target.props \cap DOMAIN v.f : Typed(target.props[k], v.f[k])
      /\ target.items # << >> => \A i \in DOMAIN v.e : Typed(target.items[1], v.e[i])
Synthesized == /\ done /\ format = "json_schema" /\ ~resp.toolCalls /\ ~resp.refusal
               /\ ~contentMatchesRoot(resp.content, schema)

\* Structured outputs keep their promise: a strict schema small enough to be
\* walked whole is answered by a value the server's own validator accepts and
\* whose integers respect their bounds.
SynthesizedConforms ==
  (Synthesized /\ Strict(schema) /\ left > 0) =>
    answer.content.json /\ ValidateParameters(schema, answer.content.val) /\ Bounded(schema, answer.content.val)

\* Whatever the schema, recursive or wide, the walk visits no more nodes than
\* its budget, and where depth or budget cut it short every value present still
\* has the type its schema declares.
CutShortButTyped ==
  Synthesized => left >= 0 /\ Typed(schema, answer.content.val)

\* Every value synthesized from a schema walked whole conforms to it, strings
\* with a least length included.
AlwaysConforms ==
  (Synthesized /\ Declared(schema, 1) /\ left > 0) => ValidateParameters(schema, answer.content.val)

\* JSON mode and structured outputs always answer JSON, or a refusal with no
\* content beside it, or tool calls untouched.  JSON mode answers an object, and a
\* schema whose root is an object or an array gets one; under another root any
\* JSON the scenario supplies is kept (contentMatchesRoot).
AnswerIsStructured ==
  (done /\ format \in {"json_object", "json_schema"}) =>
    CASE resp.toolCalls -> answer = resp
      [] ~resp.toolCalls /\ resp.refusal -> answer.content = NoText /\ answer.finish # ""
      [] OTHER -> /\ answer.content.json
                  /\ format = "json_object" => answer.content.val.t = "object"
                  /\ format = "json_schema" /\ typeOf(schema) \in {"object", "array"}
                       => answer.content.val.t = typeOf(schema)
=============================================================================
