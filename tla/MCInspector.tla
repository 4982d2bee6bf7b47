------------------------------ MODULE MCInspector ------------------------------
(***************************************************************************)
(* Inspector on small requests.                                            *)
(***************************************************************************)
EXTENDS Inspector

Widest == 2  \* the greatest number of items in a container

Leaves == {Str(text) : text \in Text} \cup {Other}
Keys == {{}, {"xss"}}

Seqs(S) == UNION {[1 .. n -> S] : n \in 0 .. Widest}

\* The containers with the given items.
Over(S) ==
  {List(items) : items \in Seqs(S)}
  \cup UNION {{Dict(keys, items) : keys \in [1 .. n -> Keys], items \in [1 .. n -> S]} :
                 n \in 0 .. Widest}

Shallow == Leaves \cup Over(Leaves)
Some == {Str({}), Str({"xss"}), List(<<Str({"sqli"}), Str({"xss"})>>),
         Dict(<<{}>>, <<Str({"sqli"})>>), Dict(<<{"sqli"}, {}>>, <<Other, Str({"xss"})>>),
         List(<<Dict(<<{}>>, <<Str({"sqli", "xss"})>>)>>)}
AllDocuments ==
  Shallow \cup Some \cup Over(Some)
  \cup {List(<<d, e>>) : d \in Shallow, e \in Some}
  \cup {Dict(<<{}, {}>>, <<d, e>>) : d \in Shallow, e \in Some}

\* Where there may be strings in a form of three pairs, or in a document that is read.
AllPaths == UNION {[1 .. n -> 1 .. 3] : n \in 0 .. 2}

NoBodyAtAll == [type |-> "none", raw |-> {}, doc |-> Malformed, pairs |-> <<>>]
JsonBodies == {[NoBodyAtAll EXCEPT !.type = "json", !.doc = d] : d \in AllDocuments}
\* The rules find something in one key of a form, and nothing in the other.
Pairs == {p \in [key : {"a", "b"}, key_text : Keys, text : {{}, {"sqli"}, {"xss"}}] :
            p.key_text = IF p.key = "a" THEN {"xss"} ELSE {}}

FormBodies ==
  {[NoBodyAtAll EXCEPT !.type = "form", !.pairs = p] : p \in [1 .. 3 -> Pairs]}
RawBodies ==
  {[NoBodyAtAll EXCEPT !.type = t, !.raw = r] : t \in {"text", "json"}, r \in Text}

Items == [key_text : {{}, {"sqli"}}, text : {{}, {"xss"}, {"sqli", "xss"}}]
HeaderSet == [skipped : BOOLEAN, text : {{}, {"sqli"}, {"xss"}}]

Plain == [query |-> <<>>, headers |-> <<>>, body |-> NoBodyAtAll]

\* Bodies alone, and heads with a body of every kind.
AnyInput ==
  {[Plain EXCEPT !.body = b] : b \in JsonBodies \cup FormBodies \cup RawBodies}
  \cup {[query |-> q, headers |-> h, body |-> b] :
          q \in Seqs(Items), h \in Seqs(HeaderSet),
          b \in {NoBodyAtAll,
                 [NoBodyAtAll EXCEPT !.type = "text", !.raw = {"xss"}],
                 [NoBodyAtAll EXCEPT !.type = "json",
                                     !.doc = Dict(<<{}>>, <<Str({"sqli"})>>)]}}
=============================================================================
