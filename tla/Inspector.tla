------------------------------- MODULE Inspector -------------------------------
(***************************************************************************)
(* The inspection of one request, app/rules/inspector.py.                  *)
(*                                                                         *)
(* A string is what the rules find in it once it is decoded: a set of      *)
(* attack types.  So is a key, of the query, of a form or of a JSON        *)
(* object, though of these three the code looks at the first only.  A JSON *)
(* document is what json.loads returns.  The order of the threats matters: *)
(* the first one names the attack in the answer and in the event.  A       *)
(* threat's field_name goes nowhere from here and is left out.             *)
(***************************************************************************)
EXTENDS Naturals, Sequences

CONSTANTS
  Inputs,     \* the requests that may be inspected
  Documents,  \* the JSON documents there are, with all that is in them
  MaxDepth,   \* the most calls of _inspect_dict, one in another, that Python allows
  Paths       \* where the properties look for strings that were missed

Attacks == {"sqli", "xss"}
Text == SUBSET Attacks

\* Documents are records: a string has a text, a list items, a dict the texts of its
\* keys and items.
Str(text) == [kind |-> "str", text |-> text]
Other == [kind |-> "other"]           \* a number, true, false, null
List(items) == [kind |-> "list", items |-> items]
Dict(keys, items) == [kind |-> "dict", keys |-> keys, items |-> items]
Malformed == [kind |-> "malformed"]   \* no JSON document at all

Container(data) == data.kind \in {"dict", "list"}

Request ==
  [query   : Seq([key_text : Text, text : Text]),
   headers : Seq([skipped : BOOLEAN, text : Text]),
   body    : [type  : {"none", "json", "form", "text"},
              raw   : Text,   \* read of bodies that are inspected as text
              doc   : Documents \cup {Malformed},
              pairs : Seq([key : STRING, key_text : Text, text : Text])]]

ASSUME InspectorAssumption ==
  /\ Inputs \subseteq Request
  /\ MaxDepth \in Nat \ {0}
  /\ Paths \subseteq Seq(Nat \ {0})
  /\ Malformed \notin Documents
  /\ LET Items == Seq(Documents) IN
     \A d \in Documents :
       /\ d.kind \in {"str", "other", "list", "dict"}
       /\ d.kind = "str" => d.text \in Text
       /\ Container(d) => d.items \in Items
       /\ d.kind = "dict" => d.keys \in Seq(Text) /\ Len(d.keys) = Len(d.items)

VARIABLES
  request,  \* what is inspected
  pc,       \* the loop inspect_request is in
  at,       \* where in that loop
  stack,    \* the calls of _inspect_dict that have not returned, the first one first
  threats   \* what has been found

vars == <<request, pc, at, stack, threats>>

Init ==
  /\ request \in Inputs
  /\ pc = "query"
  /\ at = <<1, 1>>
  /\ stack = <<>>
  /\ threats = <<>>

-----------------------------------------------------------------------------
(* Strings.                                                                *)

\* The threat that one set of rules reports.  The path is history: which string it is.
Match(attack, text, location, path) ==
  IF attack \in text
  THEN <<[attack_type |-> attack, location |-> location, path |-> path]>>
  ELSE <<>>

\* Mutant of CheckValue: the second set of rules runs only where the first is silent.
CheckValueOnce(text, location, path) ==
  Match(IF "sqli" \in text THEN "sqli" ELSE "xss", text, location, path)

\* A threat for each set of rules that matches, SQL injection first.
CheckValue(text, location, path) ==
  Match("sqli", text, location, path) \o Match("xss", text, location, path)

Inspect(text, location, path) == threats' = threats \o CheckValue(text, location, path)

\* inspect_request goes to another loop.
Enter(loop, position) ==
  /\ pc' = loop
  /\ at' = position
  /\ UNCHANGED <<request, stack>>

\* The loop goes on.
Continue(position) == Enter(pc, position)

-----------------------------------------------------------------------------
(* Query, headers and bodies that are not JSON.                            *)

InspectKey ==
  /\ pc = "query" /\ at[1] <= Len(request.query) /\ at[2] = 1
  /\ LET item == request.query[at[1]] IN
     Inspect(item.key_text, "query_param", at)
  /\ Continue(<<at[1], 2>>)

InspectParameter ==
  /\ pc = "query" /\ at[1] <= Len(request.query) /\ at[2] = 2
  /\ LET item == request.query[at[1]] IN
     Inspect(item.text, "query_param", at)
  /\ Continue(<<at[1] + 1, 1>>)

EndQuery ==
  /\ pc = "query" /\ at[1] > Len(request.query)
  /\ Enter("headers", <<1>>)
  /\ UNCHANGED threats

InspectHeader ==
  /\ pc = "headers" /\ at[1] <= Len(request.headers)
  /\ LET header == request.headers[at[1]] IN
     IF header.skipped THEN UNCHANGED threats
     ELSE Inspect(header.text, "header", at)
  /\ Continue(<<at[1] + 1>>)

EndHeaders ==
  /\ pc = "headers" /\ at[1] > Len(request.headers)
  /\ Enter("body", <<>>)
  /\ UNCHANGED threats

AtBody(type) == pc = "body" /\ request.body.type = type

\* A request without a body.
NoBody == AtBody("none") /\ Enter("done", <<>>) /\ UNCHANGED threats

InspectRaw ==
  /\ Inspect(request.body.raw, "body_raw", <<>>)
  /\ Enter("done", <<>>)

InspectText == AtBody("text") /\ InspectRaw

\* Mutant of InspectMalformed: what cannot be parsed is skipped.
SkipMalformed ==
  /\ AtBody("json")
  /\ request.body.doc = Malformed
  /\ Enter("done", <<>>)
  /\ UNCHANGED threats

\* What json.loads refuses is inspected as text.
InspectMalformed ==
  /\ AtBody("json")
  /\ request.body.doc = Malformed
  /\ InspectRaw

ParseForm == AtBody("form") /\ Enter("form", <<1, 1>>) /\ UNCHANGED threats

\* urllib's parse_qs: the values of a key stand together, where the key first occurs.
Gathers(pairs, first, i) ==
  /\ pairs[i].key = pairs[first].key
  /\ \A j \in 1 .. first - 1 : pairs[j].key # pairs[first].key

InspectForm ==
  /\ pc = "form" /\ at[1] <= Len(request.body.pairs)
  /\ LET pairs == request.body.pairs IN
     /\ IF Gathers(pairs, at[1], at[2])
        THEN Inspect(pairs[at[2]].text, "body_form", at)
        ELSE UNCHANGED threats
     /\ Continue(IF at[2] < Len(pairs) THEN <<at[1], at[2] + 1>>
                 ELSE <<at[1] + 1, at[1] + 1>>)

EndForm ==
  /\ pc = "form" /\ at[1] > Len(request.body.pairs)
  /\ Enter("done", <<>>)
  /\ UNCHANGED threats

-----------------------------------------------------------------------------
(* JSON bodies.                                                            *)

\* A call of _inspect_dict, before its loop.
Frame(data) == [data |-> data, next |-> 1]

Top == stack[Len(stack)]

\* What the calls are working on, from the document: the way to the last one's data.
Way == [k \in 1 .. Len(stack) - 1 |-> stack[k].next - 1]

ParseJson ==
  /\ AtBody("json")
  /\ request.body.doc # Malformed
  /\ pc' = "json"
  /\ stack' = <<Frame(request.body.doc)>>
  /\ UNCHANGED <<request, at, threats>>

HasNext == pc = "json" /\ Container(Top.data) /\ Top.next <= Len(Top.data.items)

Call ==
  /\ HasNext
  /\ Len(stack) < MaxDepth
  /\ stack' = Append([stack EXCEPT ![Len(stack)].next = @ + 1],
                     Frame(Top.data.items[Top.next]))
  /\ UNCHANGED <<request, pc, at, threats>>

\* RecursionError, of the traversal or of the parser before it, is none of the errors
\* that are caught: no result is returned.
TooDeep ==
  /\ HasNext
  /\ Len(stack) >= MaxDepth
  /\ Enter("raised", <<>>)
  /\ UNCHANGED threats

Return ==
  /\ stack' = SubSeq(stack, 1, Len(stack) - 1)
  /\ pc' = IF Len(stack) = 1 THEN "done" ELSE pc
  /\ UNCHANGED <<request, at>>

InspectString ==
  /\ pc = "json" /\ Top.data.kind = "str"
  /\ Inspect(Top.data.text, "body_json", Way)
  /\ Return

\* A loop that ends, or a value that is neither a container nor a string.
EndCall ==
  /\ pc = "json" /\ Top.data.kind # "str" /\ ~HasNext
  /\ Return
  /\ UNCHANGED threats

Rest == pc \in {"done", "raised"} /\ UNCHANGED vars

Next ==
  \/ InspectKey \/ InspectParameter \/ EndQuery \/ InspectHeader \/ EndHeaders
  \/ NoBody \/ InspectText \/ InspectMalformed \/ ParseForm \/ InspectForm \/ EndForm
  \/ ParseJson \/ Call \/ TooDeep \/ InspectString \/ EndCall
  \/ Rest

Spec == Init /\ [][Next]_vars

-----------------------------------------------------------------------------
(* Properties.                                                             *)

\* What stands on the way along a path of positions, Other where nothing does.
Item(data, i) ==
  IF Container(data) /\ i \in 1 .. Len(data.items) THEN data.items[i] ELSE Other

Trail(doc, path) ==
  LET trail[n \in 0 .. Len(path)] == IF n = 0 THEN doc ELSE Item(trail[n - 1], path[n])
  IN  trail

At(doc, path) == Trail(doc, path)[Len(path)]

\* Where there are attacks in the parts of a request that are inspected: query keys
\* and values, headers, the values of a form, the strings of a document.
Contains(location, path, attack) ==
  \/ /\ location = "query_param"
     /\ \E i \in 1 .. Len(request.query) :
          \/ path = <<i, 1>> /\ attack \in request.query[i].key_text
          \/ path = <<i, 2>> /\ attack \in request.query[i].text
  \/ /\ location = "header"
     /\ \E i \in 1 .. Len(request.headers) :
          /\ path = <<i>> /\ attack \in request.headers[i].text
          /\ ~request.headers[i].skipped
  \/ LET body == request.body IN
     \/ /\ location = "body_raw" /\ path = <<>> /\ attack \in body.raw
        /\ body.type = "text" \/ (body.type = "json" /\ body.doc = Malformed)
     \/ /\ location = "body_form" /\ body.type = "form"
        /\ \E first, i \in 1 .. Len(body.pairs) :
             /\ path = <<first, i>> /\ attack \in body.pairs[i].text
             /\ first <= i /\ Gathers(body.pairs, first, i)
     \/ /\ location = "body_json" /\ body.type = "json" /\ body.doc # Malformed
        /\ At(body.doc, path).kind = "str" /\ attack \in At(body.doc, path).text

\* A path comes before those it begins, and before those that differ from it first at a
\* greater position.
Precedes(p, q) ==
  \E n \in 1 .. Len(q) :
    /\ n <= Len(p) + 1
    /\ \A m \in 1 .. n - 1 : p[m] = q[m]
    /\ n <= Len(p) => p[n] < q[n]

Pass(location) ==
  CASE location = "query_param" -> 1
    [] location = "header"      -> 2
    [] OTHER                    -> 3

Before(s, t) ==
  \/ Pass(s.location) < Pass(t.location)
  \/ s.location = t.location /\ Precedes(s.path, t.path)
  \/ /\ s.location = t.location /\ s.path = t.path
     /\ s.attack_type = "sqli" /\ t.attack_type = "xss"

\* Of the strings that are inspected, which the keys of forms and of JSON objects are
\* not, each is reported once for each set of rules that matches, nothing else is,
\* and the first threat is of the first string, however deep in a document it is
\* (inspector.py:137-184): what the client is told of an attack depends on nothing but
\* the order of the request.
FindsAllInOrder ==
  /\ \A i \in 1 .. Len(threats) :
       Contains(threats[i].location, threats[i].path, threats[i].attack_type)
  /\ \A i, j \in 1 .. Len(threats) : i < j => Before(threats[i], threats[j])
  /\ pc = "done" =>
       \A location \in {"query_param", "header", "body_raw", "body_form", "body_json"},
          path \in Paths, attack \in Attacks :
         Contains(location, path, attack) =>
           \E i \in 1 .. Len(threats) :
             /\ threats[i].location = location /\ threats[i].path = path
             /\ threats[i].attack_type = attack

-----------------------------------------------------------------------------
(* What the documentation and the tests say.                               *)

\* The attacks in the keys of the body.
KeyAttacks(body) ==
  CASE body.type = "form" -> UNION {body.pairs[i].key_text : i \in DOMAIN body.pairs}
    [] body.type = "json" /\ body.doc # Malformed ->
         UNION {UNION {At(body.doc, path).keys[i] : i \in DOMAIN At(body.doc, path).keys} :
                  path \in {p \in Paths : At(body.doc, p).kind = "dict"}}
    [] OTHER -> {}

\* inspector.py:4: "Inspects all parts of an incoming HTTP request (query params,
\* headers, body)", so that no request with an attack in a key of its body passes.
InspectsAllParts ==
  pc = "done" /\ KeyAttacks(request.body) # {} => threats # <<>>
=============================================================================
