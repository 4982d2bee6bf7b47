---------------------------- MODULE InspectorProofs ----------------------------
(***************************************************************************)
(* Theorems about Inspector, for requests and documents of any size.       *)
(***************************************************************************)
EXTENDS Inspector, WellFoundedInduction, TLAPS

-----------------------------------------------------------------------------
(* Induction over numbers, from the well-foundedness of < : a set that     *)
(* holds 0 and what follows each of its elements is Nat.                   *)

LEMMA LessIsWellFounded ==
  \E R : IsWellFoundedOn(R, Nat) /\ \A m, n \in Nat : m < n => <<m, n>> \in R
<1>1. \A m, n \in Nat : m < n => <<m, n>> \in OpToRel(<, Nat)
  BY DEF OpToRel
<1> QED
  BY <1>1, NatLessThanWellFounded, Zenon

LEMMA LeastElement ==
  ASSUME NEW T \in SUBSET Nat, T # {}
  PROVE  \E n \in T : \A m \in T : n <= m
<1>1. PICK R : IsWellFoundedOn(R, Nat) /\ \A m, n \in Nat : m < n => <<m, n>> \in R
  BY LessIsWellFounded
<1>2. IsWellFoundedOn(R, Nat)
  BY <1>1
<1>3. \A S : S \subseteq Nat /\ S # {} => \E n \in S : \A m \in S : ~(<<m, n>> \in R)
  <2> SUFFICES ASSUME NEW S, S \subseteq Nat, S # {}
               PROVE  \E n \in S : \A m \in S : ~(<<m, n>> \in R)
    OBVIOUS
  <2> HIDE <1>1
  <2> QED
    BY <1>2, WFMin
<1>4. PICK n \in T : \A m \in T : ~(<<m, n>> \in R)
  BY <1>3
<1>5. \A m \in T : ~(m < n)
  BY <1>1, <1>4, Zenon
<1> QED
  BY <1>5

LEMMA SetInduction ==
  ASSUME NEW T \in SUBSET Nat, 0 \in T, \A n \in T : n + 1 \in T
  PROVE  T = Nat
<1> SUFFICES ASSUME T # Nat
             PROVE  FALSE
  OBVIOUS
<1>1. PICK n \in Nat \ T : \A m \in Nat \ T : n <= m
  BY LeastElement
<1>2. n # 0 /\ n - 1 \in Nat /\ n - 1 \notin Nat \ T
  BY <1>1
<1> QED
  BY <1>1, <1>2

-----------------------------------------------------------------------------
(* Trails.                                                                 *)

\* A trail goes from the document to what each position denotes.
LEMMA TrailSteps ==
  ASSUME NEW doc, NEW path \in Seq(Nat \ {0})
  PROVE  Trail(doc, path) =
           [n \in 0 .. Len(path) |->
             IF n = 0 THEN doc ELSE Item(Trail(doc, path)[n - 1], path[n])]
<1> DEFINE Step(t, m) ==
      [n \in 0 .. m |-> IF n = 0 THEN doc ELSE Item(t[n - 1], path[n])]
    T == {m \in Nat : m <= Len(path) => \E t : t = Step(t, m)}
<1>1. 0 \in T
  <2>1. [n \in 0 .. 0 |-> doc] = Step([n \in 0 .. 0 |-> doc], 0)
    OBVIOUS
  <2> QED
    BY <2>1
<1>2. ASSUME NEW m \in T
      PROVE  m + 1 \in T
  <2> SUFFICES ASSUME m + 1 <= Len(path)
               PROVE  \E t : t = Step(t, m + 1)
    OBVIOUS
  <2>1. PICK t : t = Step(t, m)
    OBVIOUS
  <2> DEFINE u == [n \in 0 .. m + 1 |-> IF n <= m THEN t[n] ELSE Item(t[m], path[m + 1])]
  <2>2. u = Step(u, m + 1)
    <3> SUFFICES ASSUME NEW n \in 0 .. m + 1
                 PROVE  u[n] = IF n = 0 THEN doc ELSE Item(u[n - 1], path[n])
      OBVIOUS
    <3>1. CASE n <= m
      BY <2>1, <3>1
    <3>2. CASE n = m + 1
      BY <2>1, <3>2
    <3> QED
      BY <3>1, <3>2
  <2> QED
    BY <2>2
<1>3. Len(path) \in T
  <2> HIDE DEF T
  <2>1. T \in SUBSET Nat
    BY DEF T
  <2>2. \A m \in T : m + 1 \in T
    BY <1>2
  <2>3. T = Nat
    BY <1>1, <2>1, <2>2, SetInduction
  <2> QED
    BY <2>3
<1>4. \E t : t = Step(t, Len(path))
  BY <1>3
<1> QED
  BY <1>4 DEF Trail

\* What goes as a trail goes, for its first steps.
Follows(c, doc, path, m) ==
  \A n \in 0 .. m : c[n] = IF n = 0 THEN doc ELSE Item(c[n - 1], path[n])

\* Nothing else goes as a trail goes.
LEMMA TrailFollows ==
  ASSUME NEW doc, NEW path \in Seq(Nat \ {0}), NEW m \in 0 .. Len(path), NEW c,
         Follows(c, doc, path, m)
  PROVE  \A n \in 0 .. m : Trail(doc, path)[n] = c[n]
<1> DEFINE t == Trail(doc, path)
           T == {n \in Nat : n <= m => t[n] = c[n]}
<1>1. \A n \in 0 .. m : t[n] = IF n = 0 THEN doc ELSE Item(t[n - 1], path[n])
  BY TrailSteps
<1> HIDE DEF t
<1>2. 0 \in T
  BY <1>1 DEF Follows
<1>3. \A n \in T : n + 1 \in T
  BY <1>1 DEF Follows
<1>4. T = Nat
  <2>1. T \in SUBSET Nat
    OBVIOUS
  <2> HIDE DEF T
  <2> QED
    BY <1>2, <1>3, <2>1, SetInduction
<1> QED
  BY <1>4 DEF t

\* There is nothing beyond what is no item of a container.
LEMMA TrailEnds ==
  ASSUME NEW doc, NEW path \in Seq(Nat \ {0}), NEW m \in 0 .. Len(path) - 1,
         Item(Trail(doc, path)[m], path[m + 1]) = Other
  PROVE  At(doc, path) = Other
<1> DEFINE t == Trail(doc, path)
           T == {n \in Nat : m + 1 + n <= Len(path) => t[m + 1 + n] = Other}
<1>1. \A n \in 1 .. Len(path) : t[n] = Item(t[n - 1], path[n])
  BY TrailSteps
<1>2. t[m + 1] = Other
  BY <1>1
<1>3. At(doc, path) = t[Len(path)]
  BY DEF At
<1> HIDE DEF t
<1>4. 0 \in T
  BY <1>2
<1>5. \A n \in T : n + 1 \in T
  <2> SUFFICES ASSUME NEW n \in T, m + 2 + n <= Len(path)
               PROVE  t[m + 2 + n] = Other
    OBVIOUS
  <2>1. t[m + 1 + n] = Other /\ t[m + 2 + n] = Item(t[m + 1 + n], path[m + 2 + n])
    BY <1>1
  <2> QED
    BY <2>1 DEF Item, Container, Other
<1>6. T = Nat
  <2>1. T \in SUBSET Nat
    OBVIOUS
  <2> HIDE DEF T
  <2> QED
    BY <1>4, <1>5, <2>1, SetInduction
<1>7. Len(path) - m - 1 \in T
  <2>1. Len(path) - m - 1 \in Nat
    OBVIOUS
  <2> HIDE DEF T
  <2> QED
    BY <1>6, <2>1
<1>8. t[Len(path)] = Other
  <2> DEFINE n == Len(path) - m - 1
  <2>1. m + 1 + n = Len(path)
    OBVIOUS
  <2> HIDE DEF n
  <2> QED
    BY <1>7, <2>1 DEF n
<1> QED
  BY <1>3, <1>8

-----------------------------------------------------------------------------
(* The invariant.                                                          *)

Positions == Seq(Nat \ {0})
Locations == {"query_param", "header", "body_raw", "body_form", "body_json"}
Threats == [attack_type : Attacks, location : Locations, path : Positions]

Frames == [data : Documents, next : Nat \ {0}]

TypeOK ==
  /\ request \in Inputs
  /\ pc \in {"query", "headers", "body", "form", "json", "done", "raised"}
  /\ pc = "query" => \E i \in Nat \ {0}, j \in 1 .. 2 : at = <<i, j>>
  /\ pc = "headers" => \E i \in Nat \ {0} : at = <<i>>
  /\ pc = "form" => /\ request.body.type = "form"
                    /\ \E i, j \in Nat \ {0} :
                         /\ at = <<i, j>>
                         /\ i <= Len(request.body.pairs) =>
                              i <= j /\ j <= Len(request.body.pairs)
  /\ pc = "json" => /\ request.body.type = "json" /\ request.body.doc # Malformed
                    /\ stack # <<>>
  /\ stack \in Seq(Frames)
  /\ threats \in Seq(Threats)

\* Each call works on the item its caller is at.
Called ==
  pc = "json" =>
    /\ stack[1].data = request.body.doc
    /\ \A k \in 1 .. Len(stack) :
         ~Container(stack[k].data) => k = Len(stack) /\ stack[k].next = 1
    /\ \A k \in 1 .. Len(stack) - 1 :
         /\ stack[k].next - 1 \in 1 .. Len(stack[k].data.items)
         /\ stack[k + 1].data = stack[k].data.items[stack[k].next - 1]

\* The traversal has come past a path.
Passed(path) ==
  \E k \in 1 .. Len(stack) :
    /\ k <= Len(path)
    /\ \A j \in 1 .. k - 1 : path[j] = stack[j].next - 1
    /\ path[k] < IF k = Len(stack) THEN stack[k].next ELSE stack[k].next - 1

\* The inspection has come past a place.
Gone(location, path) ==
  \/ location = "query_param" /\ (pc # "query" \/ Precedes(path, at))
  \/ location = "header" /\ pc # "query" /\ (pc # "headers" \/ Precedes(path, at))
  \/ location = "body_form" /\ pc = "form" /\ Precedes(path, at)
  \/ location = "body_json" /\ pc = "json" /\ Passed(path)
  \/ pc = "done"

Sound ==
  \A i \in 1 .. Len(threats) :
    Contains(threats[i].location, threats[i].path, threats[i].attack_type)

Ordered == \A i, j \in 1 .. Len(threats) : i < j => Before(threats[i], threats[j])

Reported(location, path, attack) ==
  \E i \in 1 .. Len(threats) :
    /\ threats[i].location = location /\ threats[i].path = path
    /\ threats[i].attack_type = attack

\* What has been found so far comes before a place.
AllBefore(location, path) ==
  \A i \in 1 .. Len(threats) :
    \/ Pass(threats[i].location) < Pass(location)
    \/ threats[i].location = location /\ Precedes(threats[i].path, path)

\* What has been found is what the inspection has come past.
Abreast ==
  pc # "raised" =>
    \A location \in Locations, path \in Positions, attack \in Attacks :
      Contains(location, path, attack) =>
        (Reported(location, path, attack) <=> Gone(location, path))

\* The inspection comes past one place that matters, or past none.
Passes(location, path) ==
  \A l \in Locations, p \in Positions, attack \in Attacks :
    Contains(l, p, attack) => (Gone(l, p)' <=> Gone(l, p) \/ (l = location /\ p = path))

PassesNothing ==
  \A l \in Locations, p \in Positions, attack \in Attacks :
    Contains(l, p, attack) => (Gone(l, p)' <=> Gone(l, p))

Right == Sound /\ Ordered /\ Abreast

Inv == TypeOK /\ Called /\ Right

-----------------------------------------------------------------------------
(* A string that is inspected.                                             *)

\* What the two sets of rules report of a string.
LEMMA Checked ==
  ASSUME NEW text \in Text, NEW location \in Locations, NEW path \in Positions,
         NEW c, c = CheckValue(text, location, path)
  PROVE  /\ c \in Seq(Threats)
         /\ \A i \in 1 .. Len(c) :
              /\ c[i].location = location /\ c[i].path = path
              /\ c[i].attack_type \in text
         /\ \A attack \in text : \E i \in 1 .. Len(c) : c[i].attack_type = attack
         /\ \A i, j \in 1 .. Len(c) :
              i < j => c[i].attack_type = "sqli" /\ c[j].attack_type = "xss"
<1> DEFINE threat(attack) == [attack_type |-> attack, location |-> location, path |-> path]
<1>1. threat("sqli") \in Threats /\ threat("xss") \in Threats
  BY DEF Threats, Attacks
<1>2. text \subseteq {"sqli", "xss"}
  BY DEF Text, Attacks
<1>3. CASE "sqli" \in text /\ "xss" \in text
  <2>1. c = <<threat("sqli")>> \o <<threat("xss")>>
    BY <1>3 DEF CheckValue, Match
  <2>2. /\ threat("sqli").location = location /\ threat("xss").location = location
        /\ threat("sqli").path = path /\ threat("xss").path = path
        /\ threat("sqli").attack_type = "sqli" /\ threat("xss").attack_type = "xss"
    OBVIOUS
  <2> HIDE DEF threat
  <2>3. /\ c \in Seq(Threats) /\ Len(c) = 2
        /\ c[1] = threat("sqli") /\ c[2] = threat("xss")
    BY <1>1, <2>1
  <2>4. \A i \in 1 .. Len(c) : i = 1 \/ i = 2
    BY <2>3
  <2> QED
    BY <1>2, <1>3, <2>2, <2>3, <2>4
<1>4. CASE "sqli" \in text /\ "xss" \notin text
  <2>1. c = <<threat("sqli")>>
    BY <1>4 DEF CheckValue, Match
  <2> QED
    BY <1>1, <1>2, <1>4, <2>1
<1>5. CASE "sqli" \notin text /\ "xss" \in text
  <2>1. c = <<threat("xss")>>
    BY <1>5 DEF CheckValue, Match
  <2> QED
    BY <1>1, <1>2, <1>5, <2>1
<1>6. CASE "sqli" \notin text /\ "xss" \notin text
  <2>1. c = <<>>
    BY <1>6 DEF CheckValue, Match
  <2> QED
    BY <1>2, <1>6, <2>1
<1> QED
  BY <1>3, <1>4, <1>5, <1>6

\* A string that comes after what has been found, and whose attacks the request has there,
\* adds its threats and disturbs no other.
LEMMA Inspected ==
  ASSUME NEW text \in Text, NEW location \in Locations, NEW path \in Positions,
         threats \in Seq(Threats), Sound, Ordered, AllBefore(location, path),
         \A attack \in text : Contains(location, path, attack),
         Inspect(text, location, path), request' = request
  PROVE  /\ threats' \in Seq(Threats)
         /\ Sound' /\ Ordered'
         /\ \A i \in 1 .. Len(threats') :
              \/ i \in 1 .. Len(threats) /\ threats'[i] = threats[i]
              \/ threats'[i].location = location /\ threats'[i].path = path
         /\ \A l, p, attack :
              Reported(l, p, attack)' <=>
                \/ Reported(l, p, attack)
                \/ l = location /\ p = path /\ attack \in text
<1> DEFINE c == CheckValue(text, location, path)
           new == threats'
<1>1. /\ c \in Seq(Threats)
      /\ \A i \in 1 .. Len(c) :
           /\ c[i].location = location /\ c[i].path = path
           /\ c[i].attack_type \in text
      /\ \A attack \in text : \E i \in 1 .. Len(c) : c[i].attack_type = attack
      /\ \A i, j \in 1 .. Len(c) :
           i < j => c[i].attack_type = "sqli" /\ c[j].attack_type = "xss"
  BY Checked
<1>2. new = threats \o c
  BY DEF Inspect
<1> HIDE DEF c
<1>3. /\ Len(threats) \in Nat /\ Len(c) \in Nat
      /\ new \in Seq(Threats) /\ Len(new) = Len(threats) + Len(c)
      /\ \A i \in 1 .. Len(threats) : new[i] = threats[i]
      /\ \A i \in 1 .. Len(c) : new[Len(threats) + i] = c[i]
  BY <1>1, <1>2
<1> HIDE DEF new
<1>4. \A i \in 1 .. Len(new) :
        i > Len(threats) => \E k \in 1 .. Len(c) : i = Len(threats) + k /\ new[i] = c[k]
  <2> SUFFICES ASSUME NEW i \in 1 .. Len(new), i > Len(threats)
               PROVE  \E k \in 1 .. Len(c) : i = Len(threats) + k /\ new[i] = c[k]
    OBVIOUS
  <2>1. i - Len(threats) \in 1 .. Len(c) /\ i = Len(threats) + (i - Len(threats))
    BY <1>3
  <2> QED
    BY <1>3, <2>1
<1>5. \A i \in 1 .. Len(new) :
        \/ i \in 1 .. Len(threats) /\ new[i] = threats[i]
        \/ /\ i > Len(threats)
           /\ new[i].location = location /\ new[i].path = path
           /\ new[i].attack_type \in text
  <2> SUFFICES ASSUME NEW i \in 1 .. Len(new), i > Len(threats)
               PROVE  /\ new[i].location = location /\ new[i].path = path
                      /\ new[i].attack_type \in text
    BY <1>3
  <2>1. PICK k \in 1 .. Len(c) : new[i] = c[k]
    BY <1>4
  <2> QED
    BY <1>1, <2>1
<1>6. Sound'
  <2>1. \A l, p, attack : Contains(l, p, attack)' <=> Contains(l, p, attack)
    BY DEF Contains
  <2>2. \A i \in 1 .. Len(new) : Contains(new[i].location, new[i].path, new[i].attack_type)
    BY <1>5 DEF Sound
  <2> QED
    BY <2>1, <2>2 DEF Sound, new
<1>10. Ordered'
  <2> SUFFICES ASSUME NEW i \in 1 .. Len(new), NEW j \in 1 .. Len(new), i < j
               PROVE  Before(new[i], new[j])
    BY DEF Ordered, new
  <2>1. CASE j <= Len(threats)
    BY <1>3, <2>1 DEF Ordered
  <2>2. CASE i <= Len(threats) /\ j > Len(threats)
    <3>1. /\ i \in 1 .. Len(threats) /\ new[i] = threats[i]
          /\ new[j].location = location /\ new[j].path = path
      BY <1>3, <1>5, <2>2
    <3> QED
      BY <3>1 DEF Before, AllBefore
  <2>3. CASE i > Len(threats)
    <3>1. PICK k \in 1 .. Len(c) : i = Len(threats) + k /\ new[i] = c[k]
      BY <1>4, <2>3
    <3>2. PICK m \in 1 .. Len(c) : j = Len(threats) + m /\ new[j] = c[m]
      <4>1. j > Len(threats)
        BY <1>3, <2>3
      <4> QED
        BY <1>4, <4>1
    <3>3. k < m
      BY <1>3, <3>1, <3>2
    <3> QED
      BY <1>1, <3>1, <3>2, <3>3 DEF Before
  <2> QED
    BY <1>3, <2>1, <2>2, <2>3
<1>7. ASSUME NEW l, NEW p, NEW attack
      PROVE  Reported(l, p, attack)' <=>
               \/ Reported(l, p, attack)
               \/ l = location /\ p = path /\ attack \in text
  <2>1. ASSUME NEW i \in 1 .. Len(threats), threats[i].location = l, threats[i].path = p,
               threats[i].attack_type = attack
        PROVE  Reported(l, p, attack)'
    <3>1. i \in 1 .. Len(new) /\ new[i] = threats[i]
      BY <1>3
    <3> QED
      BY <2>1, <3>1 DEF Reported, new
  <2>2. ASSUME l = location, p = path, attack \in text
        PROVE  Reported(l, p, attack)'
    <3>1. PICK i \in 1 .. Len(c) : c[i].attack_type = attack
      BY <1>1, <2>2
    <3>2. Len(threats) + i \in 1 .. Len(new) /\ new[Len(threats) + i] = c[i]
      BY <1>3
    <3> QED
      BY <1>1, <2>2, <3>1, <3>2 DEF Reported, new
  <2>3. ASSUME NEW i \in 1 .. Len(new), new[i].location = l, new[i].path = p,
               new[i].attack_type = attack
        PROVE  Reported(l, p, attack) \/ (l = location /\ p = path /\ attack \in text)
    BY <1>5, <2>3 DEF Reported
  <2> QED
    BY <2>1, <2>2, <2>3 DEF Reported, new
<1> QED
  BY <1>3, <1>5, <1>6, <1>7, <1>10 DEF new

LEMMA PassingNothing ==
  ASSUME TypeOK, Right, pc # "raised", UNCHANGED <<request, threats>>, PassesNothing
  PROVE  Right'
<1>1. \A l, p, attack : /\ Contains(l, p, attack)' <=> Contains(l, p, attack)
                        /\ Reported(l, p, attack)' <=> Reported(l, p, attack)
  BY DEF Contains, Reported
<1>2. Sound'
  BY <1>1 DEF Right, Sound
<1>3. Ordered'
  BY DEF Right, Ordered
<1>5. Abreast'
  BY <1>1 DEF Right, Abreast, PassesNothing
<1> QED
  BY <1>2, <1>3, <1>5 DEF Right

LEMMA PassingOne ==
  ASSUME TypeOK, Right, pc # "raised", NEW text \in Text, NEW location \in Locations,
         NEW path \in Positions,
         AllBefore(location, path), Inspect(text, location, path),
         request' = request, Passes(location, path),
         \A attack \in Attacks : attack \in text <=> Contains(location, path, attack)
  PROVE  threats' \in Seq(Threats) /\ Right'
<1>1. text \subseteq Attacks
  BY DEF Text
<1>2. /\ threats' \in Seq(Threats)
      /\ Sound' /\ Ordered'
      /\ \A i \in 1 .. Len(threats') :
           \/ i \in 1 .. Len(threats) /\ threats'[i] = threats[i]
           \/ threats'[i].location = location /\ threats'[i].path = path
      /\ \A l, p, attack :
           Reported(l, p, attack)' <=>
             \/ Reported(l, p, attack)
             \/ l = location /\ p = path /\ attack \in text
  <2>1. \A attack \in text : Contains(location, path, attack)
    BY <1>1
  <2> QED
    BY <2>1, Inspected DEF Right, TypeOK
<1>3. \A l, p, attack : Contains(l, p, attack)' <=> Contains(l, p, attack)
  BY DEF Contains
<1>4. Abreast'
  <2> SUFFICES ASSUME NEW l \in Locations, NEW p \in Positions, NEW attack \in Attacks,
                      Contains(l, p, attack)
               PROVE  Reported(l, p, attack)' <=> Gone(l, p)'
    BY <1>3 DEF Abreast
  <2>1. Gone(l, p)' <=> Gone(l, p) \/ (l = location /\ p = path)
    BY DEF Passes
  <2>2. Reported(l, p, attack) <=> Gone(l, p)
    BY DEF Right, Abreast
  <2>3. l = location /\ p = path => attack \in text
    OBVIOUS
  <2> QED
    BY <1>2, <2>1, <2>2, <2>3
<1> QED
  BY <1>2, <1>4 DEF Right

\* What has been found comes before a place that is still to come.
LEMMA ComesAfter ==
  ASSUME TypeOK, Right, pc # "raised", NEW location, NEW path,
         \A l \in Locations, p \in Positions, attack \in Attacks :
           Contains(l, p, attack) /\ Gone(l, p) =>
             Pass(l) < Pass(location) \/ (l = location /\ Precedes(p, path))
  PROVE  AllBefore(location, path)
<1> SUFFICES ASSUME NEW i \in 1 .. Len(threats)
             PROVE  \/ Pass(threats[i].location) < Pass(location)
                    \/ threats[i].location = location /\ Precedes(threats[i].path, path)
  BY DEF AllBefore
<1> DEFINE l == threats[i].location
           p == threats[i].path
           attack == threats[i].attack_type
<1>1. l \in Locations /\ p \in Positions /\ attack \in Attacks
  <2>1. threats[i] \in Threats
    BY DEF TypeOK
  <2> QED
    BY <2>1 DEF Threats
<1>2. Contains(l, p, attack) /\ Reported(l, p, attack)
  BY DEF Right, Sound, Reported
<1> HIDE DEF l, p, attack
<1>3. Gone(l, p)
  BY <1>1, <1>2 DEF Right, Abreast
<1> QED
  BY <1>1, <1>2, <1>3 DEF l, p

LEMMA ElementTyped ==
  ASSUME NEW S, NEW s \in Seq(S)
  PROVE  Len(s) \in Nat /\ \A i \in 1 .. Len(s) : s[i] \in S
  OBVIOUS

LEMMA TupleTyped ==
  ASSUME NEW S
  PROVE  <<>> \in Seq(S) /\ \A a, b \in S : <<a>> \in Seq(S) /\ <<a, b>> \in Seq(S)
  OBVIOUS

LEMMA RequestTyped ==
  ASSUME TypeOK
  PROVE  /\ Len(request.query) \in Nat
         /\ \A i \in 1 .. Len(request.query) :
              /\ request.query[i].key_text \in Text /\ request.query[i].text \in Text
         /\ Len(request.headers) \in Nat
         /\ \A i \in 1 .. Len(request.headers) :
              /\ request.headers[i].text \in Text
              /\ request.headers[i].skipped \in BOOLEAN
         /\ request.body.type \in {"none", "json", "form", "text"}
         /\ request.body.raw \in Text /\ request.body.doc \in Documents \cup {Malformed}
         /\ Len(request.body.pairs) \in Nat
         /\ \A i \in 1 .. Len(request.body.pairs) :
              request.body.pairs[i].text \in Text
<1>1. request \in Request
  BY InspectorAssumption DEF TypeOK
<1>2. /\ request.query \in Seq([key_text : Text, text : Text])
      /\ request.headers \in Seq([skipped : BOOLEAN, text : Text])
      /\ request.body.type \in {"none", "json", "form", "text"}
      /\ request.body.raw \in Text /\ request.body.doc \in Documents \cup {Malformed}
      /\ request.body.pairs \in Seq([key : STRING, key_text : Text, text : Text])
  BY <1>1 DEF Request
<1>3. \A i \in 1 .. Len(request.query) :
        request.query[i] \in [key_text : Text, text : Text]
  BY <1>2, ElementTyped
<1>4. \A i \in 1 .. Len(request.headers) :
        request.headers[i] \in [skipped : BOOLEAN, text : Text]
  BY <1>2, ElementTyped
<1>5. \A i \in 1 .. Len(request.body.pairs) :
        request.body.pairs[i] \in [key : STRING, key_text : Text, text : Text]
  BY <1>2, ElementTyped
<1>6. /\ Len(request.query) \in Nat /\ Len(request.headers) \in Nat
      /\ Len(request.body.pairs) \in Nat
  BY <1>2
<1> QED
  BY <1>2, <1>3, <1>4, <1>5, <1>6

LEMMA DocumentsTyped ==
  ASSUME NEW d \in Documents
  PROVE  /\ d.kind \in {"str", "other", "list", "dict"} /\ d # Malformed
         /\ d.kind = "str" => d.text \in Text
         /\ Container(d) => d.items \in Seq(Documents)
         /\ d.kind = "dict" => d.keys \in Seq(Text) /\ Len(d.keys) = Len(d.items)
  BY InspectorAssumption

LEMMA PairPrecedes ==
  ASSUME NEW i \in Nat, NEW j \in Nat, NEW m \in Nat, NEW n \in Nat
  PROVE  Precedes(<<i, j>>, <<m, n>>) <=> i < m \/ (i = m /\ j < n)
<1>1. /\ Len(<<i, j>>) = 2 /\ Len(<<m, n>>) = 2 /\ 1 .. 2 = {1, 2}
      /\ <<i, j>>[1] = i /\ <<i, j>>[2] = j /\ <<m, n>>[1] = m /\ <<m, n>>[2] = n
  OBVIOUS
<1>2. 1 .. 1 - 1 = {} /\ 1 .. 2 - 1 = {1}
  OBVIOUS
<1> QED
  BY <1>1, <1>2 DEF Precedes

LEMMA SinglePrecedes ==
  ASSUME NEW i \in Nat, NEW m \in Nat
  PROVE  Precedes(<<i>>, <<m>>) <=> i < m
<1>1. /\ Len(<<i>>) = 1 /\ Len(<<m>>) = 1 /\ 1 .. 1 = {1} /\ 1 .. 1 - 1 = {}
      /\ <<i>>[1] = i /\ <<m>>[1] = m
  OBVIOUS
<1> QED
  BY <1>1 DEF Precedes

-----------------------------------------------------------------------------
(* Query and headers.                                                      *)

LEMMA QueryStep ==
  ASSUME TypeOK, Right, InspectKey \/ InspectParameter
  PROVE  TypeOK' /\ Right'
<1>1. PICK i \in 1 .. Len(request.query), j \in 1 .. 2 :
        /\ at = <<i, j>> /\ at[1] = i /\ at[2] = j
        /\ j = 1 => InspectKey
        /\ j = 2 => InspectParameter
  BY RequestTyped DEF TypeOK, InspectKey, InspectParameter
<1> DEFINE item == request.query[i]
           text == IF j = 1 THEN item.key_text ELSE item.text
           next == IF j = 1 THEN <<i, 2>> ELSE <<i + 1, 1>>
<1>2. /\ pc = "query" /\ pc' = pc /\ at' = next /\ UNCHANGED <<request, stack>>
      /\ Inspect(text, "query_param", at)
  BY <1>1 DEF InspectKey, InspectParameter, Continue, Enter
<1>3. i \in Nat \ {0} /\ j \in {1, 2} /\ j \in Nat
  BY RequestTyped
<1>4. text \in Text /\ at \in Positions /\ "query_param" \in Locations
  <2>1. item.key_text \in Text /\ item.text \in Text
    BY RequestTyped
  <2>2. at \in Positions
    BY <1>1, <1>3 DEF Positions
  <2> QED
    BY <2>1, <2>2 DEF Locations
<1>5. \A attack \in Attacks : attack \in text <=> Contains("query_param", at, attack)
  BY <1>1, <1>3 DEF Contains
<1>6. ASSUME NEW p, NEW attack, Contains("query_param", p, attack)
      PROVE  /\ Precedes(p, next) <=> Precedes(p, at) \/ p = at
             /\ p \in Positions
  <2>1. PICK m \in 1 .. Len(request.query), n \in 1 .. 2 : p = <<m, n>>
    BY <1>6 DEF Contains
  <2>2. m \in Nat \ {0} /\ n \in Nat \ {0} /\ (n = 1 \/ n = 2)
    BY RequestTyped
  <2>3. Precedes(p, at) <=> m < i \/ (m = i /\ n < j)
    BY <1>1, <1>3, <2>1, <2>2, PairPrecedes
  <2>4. Precedes(p, <<i, 2>>) <=> m < i \/ (m = i /\ n < 2)
    BY <1>3, <2>1, <2>2, PairPrecedes
  <2>5. Precedes(p, <<i + 1, 1>>) <=> m < i + 1 \/ (m = i + 1 /\ n < 1)
    BY <1>3, <2>1, <2>2, PairPrecedes
  <2>6. p = at <=> m = i /\ n = j
    BY <1>1, <2>1
  <2> QED
    BY <1>3, <2>1, <2>2, <2>3, <2>4, <2>5, <2>6 DEF Positions
<1>7. Passes("query_param", at)
  BY <1>2, <1>6 DEF Passes, Gone
<1>8. AllBefore("query_param", at)
  BY <1>2, ComesAfter DEF Gone
<1>9. threats' \in Seq(Threats) /\ Right'
  <2> HIDE DEF text
  <2> QED
    BY <1>2, <1>4, <1>5, <1>7, <1>8, PassingOne
<1>10. \E m \in Nat \ {0}, n \in 1 .. 2 : at' = <<m, n>>
  BY <1>1, <1>2, <1>3
<1>11. TypeOK'
  BY <1>2, <1>9, <1>10 DEF TypeOK
<1> QED
  BY <1>9, <1>11

LEMMA EndQueryStep ==
  ASSUME TypeOK, Right, EndQuery
  PROVE  TypeOK' /\ Right'
<1>1. /\ pc = "query" /\ at[1] > Len(request.query) /\ pc' = "headers" /\ at' = <<1>>
      /\ UNCHANGED <<request, stack, threats>>
  BY DEF EndQuery, Enter
<1>2. PICK i \in Nat \ {0}, j \in 1 .. 2 : at = <<i, j>>
  BY <1>1 DEF TypeOK
<1>3. ASSUME NEW p, NEW attack, Contains("query_param", p, attack)
      PROVE  Precedes(p, at)
  <2>1. PICK m \in 1 .. Len(request.query), n \in 1 .. 2 : p = <<m, n>>
    BY <1>3 DEF Contains
  <2>2. m \in Nat /\ n \in Nat /\ m < i
    BY <1>1, <1>2, RequestTyped
  <2> QED
    BY <1>2, <2>1, <2>2, PairPrecedes
<1>4. ASSUME NEW p, NEW attack, Contains("header", p, attack)
      PROVE  ~Precedes(p, <<1>>)
  <2>1. PICK m \in 1 .. Len(request.headers) : p = <<m>>
    BY <1>4 DEF Contains
  <2>2. m \in Nat /\ ~(m < 1)
    BY RequestTyped
  <2> QED
    BY <2>1, <2>2, SinglePrecedes
<1>5. PassesNothing
  BY <1>1, <1>3, <1>4 DEF PassesNothing, Gone
<1>6. Right'
  BY <1>1, <1>5, PassingNothing
<1>7. TypeOK'
  BY <1>1 DEF TypeOK
<1> QED
  BY <1>6, <1>7

LEMMA HeaderStep ==
  ASSUME TypeOK, Right, InspectHeader
  PROVE  TypeOK' /\ Right'
<1>1. PICK i \in 1 .. Len(request.headers) : at = <<i>> /\ at[1] = i
  BY RequestTyped DEF TypeOK, InspectHeader
<1> DEFINE header == request.headers[i]
<1>2. /\ pc = "headers" /\ pc' = pc /\ at' = <<i + 1>> /\ UNCHANGED <<request, stack>>
      /\ IF header.skipped THEN UNCHANGED threats
         ELSE Inspect(header.text, "header", at)
  BY <1>1 DEF InspectHeader, Continue, Enter
<1>3. i \in Nat \ {0}
  BY RequestTyped
<1>4. header.text \in Text /\ at \in Positions /\ "header" \in Locations
  <2>1. header.text \in Text
    BY RequestTyped
  <2>2. at \in Positions
    BY <1>1, <1>3 DEF Positions
  <2> QED
    BY <2>1, <2>2 DEF Locations
<1>5. ASSUME NEW p, NEW attack, Contains("header", p, attack)
      PROVE  Precedes(p, <<i + 1>>) <=> Precedes(p, at) \/ p = at
  <2>1. PICK m \in 1 .. Len(request.headers) : p = <<m>>
    BY <1>5 DEF Contains
  <2>2. m \in Nat
    BY RequestTyped
  <2>3. Precedes(p, at) <=> m < i
    BY <1>1, <1>3, <2>1, <2>2, SinglePrecedes
  <2>4. Precedes(p, <<i + 1>>) <=> m < i + 1
    BY <1>3, <2>1, <2>2, SinglePrecedes
  <2>5. p = at <=> m = i
    BY <1>1, <2>1
  <2> QED
    BY <1>3, <2>2, <2>3, <2>4, <2>5
<1>6. Passes("header", at)
  BY <1>2, <1>5 DEF Passes, Gone
<1>7. threats' \in Seq(Threats) /\ Right'
  <2>1. CASE header.skipped
    <3>1. \A attack : ~Contains("header", at, attack)
      BY <1>1, <2>1 DEF Contains
    <3>2. PassesNothing
      BY <1>6, <3>1 DEF Passes, PassesNothing
    <3> QED
      BY <1>2, <2>1, <3>2, PassingNothing DEF TypeOK
  <2>2. CASE ~header.skipped
    <3>1. \A attack \in Attacks : attack \in header.text <=> Contains("header", at, attack)
      BY <1>1, <2>2 DEF Contains
    <3>2. AllBefore("header", at)
      BY <1>2, ComesAfter DEF Gone, Pass
    <3>3. Inspect(header.text, "header", at)
      BY <1>2, <2>2
    <3> HIDE DEF header
    <3> QED
      BY <1>2, <1>4, <1>6, <3>1, <3>2, <3>3, PassingOne
  <2> QED
    BY <2>1, <2>2
<1>8. TypeOK'
  BY <1>2, <1>3, <1>7 DEF TypeOK
<1> QED
  BY <1>7, <1>8

LEMMA EndHeadersStep ==
  ASSUME TypeOK, Right, EndHeaders
  PROVE  TypeOK' /\ Right'
<1>1. /\ pc = "headers" /\ at[1] > Len(request.headers) /\ pc' = "body"
      /\ UNCHANGED <<request, stack, threats>>
  BY DEF EndHeaders, Enter
<1>2. PICK i \in Nat \ {0} : at = <<i>>
  BY <1>1 DEF TypeOK
<1>3. ASSUME NEW p, NEW attack, Contains("header", p, attack)
      PROVE  Precedes(p, at)
  <2>1. PICK m \in 1 .. Len(request.headers) : p = <<m>>
    BY <1>3 DEF Contains
  <2>2. m \in Nat /\ m < i
    BY <1>1, <1>2, RequestTyped
  <2> QED
    BY <1>2, <2>1, <2>2, SinglePrecedes
<1>4. PassesNothing
  BY <1>1, <1>3 DEF PassesNothing, Gone
<1>5. Right'
  BY <1>1, <1>4, PassingNothing
<1>6. TypeOK'
  BY <1>1 DEF TypeOK
<1> QED
  BY <1>5, <1>6

-----------------------------------------------------------------------------
(* Bodies that are not JSON.                                               *)

LEMMA BodyStep ==
  ASSUME TypeOK, Right, NoBody \/ ParseForm
  PROVE  TypeOK' /\ Right'
<1>1. /\ pc = "body" /\ UNCHANGED <<request, stack, threats>>
      /\ \/ pc' = "done" /\ request.body.type = "none"
         \/ pc' = "form" /\ request.body.type = "form" /\ at' = <<1, 1>>
  BY DEF NoBody, ParseForm, AtBody, Enter
<1>2. ASSUME NEW p, NEW attack, Contains("body_form", p, attack)
      PROVE  ~Precedes(p, <<1, 1>>)
  <2>1. PICK m, n \in 1 .. Len(request.body.pairs) : p = <<m, n>>
    BY <1>2 DEF Contains
  <2>2. m \in Nat /\ n \in Nat /\ ~(m < 1) /\ ~(n < 1)
    BY RequestTyped
  <2> QED
    BY <2>1, <2>2, PairPrecedes
<1>3. PassesNothing
  <2>1. \A l \in Locations : \A p, attack :
          Contains(l, p, attack) =>
            \/ l \in {"query_param", "header"}
            \/ l = "body_form" /\ request.body.type = "form"
            \/ request.body.type \notin {"none", "form"}
    BY DEF Contains, Locations
  <2> QED
    BY <1>1, <1>2, <2>1 DEF PassesNothing, Gone
<1>4. Right'
  BY <1>1, <1>3, PassingNothing
<1>5. TypeOK'
  BY <1>1 DEF TypeOK
<1> QED
  BY <1>4, <1>5

LEMMA RawStep ==
  ASSUME TypeOK, Right, InspectText \/ InspectMalformed
  PROVE  TypeOK' /\ Right'
<1> DEFINE text == request.body.raw
<1>1. /\ pc = "body" /\ pc' = "done" /\ UNCHANGED <<request, stack>>
      /\ Inspect(text, "body_raw", <<>>)
      /\ \/ request.body.type = "text"
         \/ request.body.type = "json" /\ request.body.doc = Malformed
  BY DEF InspectText, InspectMalformed, InspectRaw, AtBody, Enter
<1>2. text \in Text /\ <<>> \in Positions /\ "body_raw" \in Locations
  <2>1. text \in Text
    BY RequestTyped
  <2>2. <<>> \in Positions
    BY TupleTyped DEF Positions
  <2> QED
    BY <2>1, <2>2 DEF Locations
<1>3. \A attack \in Attacks : attack \in text <=> Contains("body_raw", <<>>, attack)
  BY <1>1 DEF Contains
<1>4. \A l \in Locations : \A p, attack :
        Contains(l, p, attack) =>
          l \in {"query_param", "header"} \/ (l = "body_raw" /\ p = <<>>)
  BY <1>1 DEF Contains, Locations
<1>5. Passes("body_raw", <<>>)
  BY <1>1, <1>4 DEF Passes, Gone
<1>6. AllBefore("body_raw", <<>>)
  BY <1>1, <1>4, ComesAfter DEF Gone, Pass
<1>7. threats' \in Seq(Threats) /\ Right'
  <2> HIDE DEF text
  <2> QED
    BY <1>1, <1>2, <1>3, <1>5, <1>6, PassingOne
<1>8. TypeOK'
  BY <1>1, <1>7 DEF TypeOK
<1> QED
  BY <1>7, <1>8

LEMMA FormStep ==
  ASSUME TypeOK, Right, InspectForm
  PROVE  TypeOK' /\ Right'
<1> DEFINE pairs == request.body.pairs
<1>1. PICK i, j \in Nat \ {0} : /\ at = <<i, j>> /\ at[1] = i /\ at[2] = j
                                /\ i <= j /\ j \in 1 .. Len(pairs)
  <2>1. PICK i, j \in Nat \ {0} :
          at = <<i, j>> /\ (i <= Len(pairs) => i <= j /\ j <= Len(pairs))
    BY DEF TypeOK, InspectForm
  <2>2. at[1] = i /\ at[2] = j /\ i <= Len(pairs)
    BY <2>1 DEF InspectForm
  <2> QED
    BY <2>1, <2>2, RequestTyped
<1> DEFINE next == IF j < Len(pairs) THEN <<i, j + 1>> ELSE <<i + 1, i + 1>>
<1>2. /\ pc = "form" /\ pc' = pc /\ at' = next /\ UNCHANGED <<request, stack>>
      /\ i <= Len(pairs) /\ request.body.type = "form"
      /\ IF Gathers(pairs, i, j)
         THEN Inspect(pairs[j].text, "body_form", at)
         ELSE UNCHANGED threats
  BY <1>1 DEF InspectForm, Continue, Enter, TypeOK
<1>3. Len(pairs) \in Nat /\ at \in Positions /\ "body_form" \in Locations
  BY <1>1, RequestTyped DEF Positions, Locations
<1>4. \A l \in Locations : \A p, attack :
        Contains(l, p, attack) => l \in {"query_param", "header", "body_form"}
  BY <1>2 DEF Contains, Locations
<1>5. ASSUME NEW p, NEW attack, Contains("body_form", p, attack)
      PROVE  Precedes(p, next) <=> Precedes(p, at) \/ p = at
  <2>1. PICK m, n \in 1 .. Len(pairs) : p = <<m, n>> /\ m <= n
    BY <1>5 DEF Contains
  <2>2. m \in Nat \ {0} /\ n \in Nat \ {0} /\ n <= Len(pairs)
    BY <1>3
  <2>3. Precedes(p, at) <=> m < i \/ (m = i /\ n < j)
    BY <1>1, <2>1, <2>2, PairPrecedes
  <2>4. Precedes(p, <<i, j + 1>>) <=> m < i \/ (m = i /\ n < j + 1)
    BY <1>1, <2>1, <2>2, PairPrecedes
  <2>5. Precedes(p, <<i + 1, i + 1>>) <=> m < i + 1 \/ (m = i + 1 /\ n < i + 1)
    BY <1>1, <2>1, <2>2, PairPrecedes
  <2>6. p = at <=> m = i /\ n = j
    BY <1>1, <2>1
  <2>7. CASE j < Len(pairs)
    BY <1>1, <2>2, <2>3, <2>4, <2>6, <2>7
  <2>8. CASE ~(j < Len(pairs))
    BY <1>1, <1>3, <2>1, <2>2, <2>3, <2>5, <2>6, <2>8
  <2> QED
    BY <2>7, <2>8
<1>6. Passes("body_form", at)
  BY <1>2, <1>4, <1>5 DEF Passes, Gone
<1>7. threats' \in Seq(Threats) /\ Right'
  <2>1. CASE Gathers(pairs, i, j)
    <3>1. pairs[j].text \in Text
      BY <1>1, RequestTyped
    <3>2. \A attack \in Attacks :
            attack \in pairs[j].text <=> Contains("body_form", at, attack)
      BY <1>1, <1>2, <1>3, <2>1 DEF Contains
    <3>3. AllBefore("body_form", at)
      BY <1>2, <1>4, ComesAfter DEF Gone, Pass
    <3>4. Inspect(pairs[j].text, "body_form", at)
      BY <1>2, <2>1
    <3> HIDE DEF pairs
    <3> QED
      BY <1>2, <1>3, <1>6, <3>1, <3>2, <3>3, <3>4, PassingOne
  <2>2. CASE ~Gathers(pairs, i, j)
    <3>1. \A attack : ~Contains("body_form", at, attack)
      BY <1>1, <2>2 DEF Contains
    <3>2. PassesNothing
      BY <1>6, <3>1 DEF Passes, PassesNothing
    <3> QED
      BY <1>2, <2>2, <3>2, PassingNothing DEF TypeOK
  <2> QED
    BY <2>1, <2>2
<1>8. \E m, n \in Nat \ {0} :
        at' = <<m, n>> /\ (m <= Len(pairs) => m <= n /\ n <= Len(pairs))
  <2>1. CASE j < Len(pairs)
    BY <1>1, <1>2, <1>3, <2>1
  <2>2. CASE ~(j < Len(pairs))
    BY <1>1, <1>2, <1>3, <2>2
  <2> QED
    BY <2>1, <2>2
<1>9. TypeOK'
  BY <1>2, <1>7, <1>8 DEF TypeOK
<1> QED
  BY <1>7, <1>9

LEMMA EndFormStep ==
  ASSUME TypeOK, Right, EndForm
  PROVE  TypeOK' /\ Right'
<1>1. /\ pc = "form" /\ at[1] > Len(request.body.pairs) /\ pc' = "done"
      /\ UNCHANGED <<request, stack, threats>> /\ request.body.type = "form"
  BY DEF EndForm, Enter, TypeOK
<1>2. PICK i, j \in Nat \ {0} : at = <<i, j>>
  BY <1>1 DEF TypeOK
<1>3. ASSUME NEW p, NEW attack, Contains("body_form", p, attack)
      PROVE  Precedes(p, at)
  <2>1. PICK m, n \in 1 .. Len(request.body.pairs) : p = <<m, n>>
    BY <1>3 DEF Contains
  <2>2. m \in Nat /\ n \in Nat /\ m < i
    BY <1>1, <1>2, RequestTyped
  <2> QED
    BY <1>2, <2>1, <2>2, PairPrecedes
<1>4. \A l \in Locations : \A p, attack :
        Contains(l, p, attack) => l \in {"query_param", "header", "body_form"}
  BY <1>1 DEF Contains, Locations
<1>5. PassesNothing
  BY <1>1, <1>3, <1>4 DEF PassesNothing, Gone
<1>6. Right'
  BY <1>1, <1>5, PassingNothing
<1>7. TypeOK'
  BY <1>1 DEF TypeOK
<1> QED
  BY <1>6, <1>7

-----------------------------------------------------------------------------
(* JSON bodies.                                                            *)

LEMMA StackTyped ==
  ASSUME TypeOK, pc = "json"
  PROVE  /\ Len(stack) \in Nat \ {0} /\ Top = stack[Len(stack)]
         /\ request.body.type = "json" /\ request.body.doc \in Documents
         /\ \A k \in 1 .. Len(stack) :
              /\ stack[k].data \in Documents
              /\ stack[k].next \in Nat \ {0} /\ stack[k] \in Frames
<1>1. stack \in Seq(Frames) /\ stack # <<>>
  BY DEF TypeOK
<1>2. \A f \in Frames : f.data \in Documents /\ f.next \in Nat \ {0}
  BY DEF Frames
<1>3. Len(stack) \in Nat \ {0} /\ \A k \in 1 .. Len(stack) : stack[k] \in Frames
  BY <1>1, ElementTyped
<1> QED
  BY <1>2, <1>3, RequestTyped DEF Top, TypeOK

\* A path that goes where the first calls are gets to what the next one works on.
LEMMA TrailOfCalls ==
  ASSUME TypeOK, Called, pc = "json", NEW path \in Positions, NEW k \in 1 .. Len(stack),
         k - 1 <= Len(path), \A j \in 1 .. k - 1 : path[j] = stack[j].next - 1
  PROVE  Trail(request.body.doc, path)[k - 1] = stack[k].data
<1> DEFINE doc == request.body.doc
           c == [n \in 0 .. k - 1 |-> stack[n + 1].data]
<1>1. path \in Seq(Nat \ {0}) /\ k - 1 \in 0 .. Len(path)
  BY StackTyped DEF Positions
<1>2. ASSUME NEW n \in 1 .. k - 1
      PROVE  stack[n + 1].data = Item(stack[n].data, path[n])
  <2>1. n \in 1 .. Len(stack) - 1 /\ n \in 1 .. Len(stack)
    BY StackTyped
  <2>2. Container(stack[n].data)
    BY <2>1, StackTyped DEF Called
  <2>3. path[n] \in 1 .. Len(stack[n].data.items)
    BY <2>1 DEF Called
  <2> QED
    BY <2>1, <2>2, <2>3 DEF Called, Item
<1>3. Follows(c, doc, path, k - 1)
  BY <1>2, StackTyped DEF Called, Follows
<1>4. c[k - 1] = stack[k].data
  BY StackTyped
<1> HIDE DEF doc, c
<1>5. \A n \in 0 .. k - 1 : Trail(doc, path)[n] = c[n]
  BY <1>1, <1>3, TrailFollows
<1>6. k - 1 \in 0 .. k - 1
  BY StackTyped
<1> QED
  BY <1>4, <1>5, <1>6 DEF doc

\* The way leads to what the last call works on.
LEMMA WayLeads ==
  ASSUME TypeOK, Called, pc = "json"
  PROVE  /\ Way \in Positions /\ Len(Way) = Len(stack) - 1
         /\ \A j \in 1 .. Len(stack) - 1 : Way[j] = stack[j].next - 1
         /\ At(request.body.doc, Way) = Top.data
<1>1. Len(stack) - 1 \in Nat
  BY StackTyped
<1>2. Way \in Positions /\ Len(Way) = Len(stack) - 1
  <2>1. \A k \in 1 .. Len(stack) - 1 : stack[k].next - 1 \in Nat \ {0}
    BY StackTyped DEF Called
  <2> QED
    BY <1>1, <2>1 DEF Way, Positions
<1>3. \A j \in 1 .. Len(stack) - 1 : Way[j] = stack[j].next - 1
  BY DEF Way
<1>4. Trail(request.body.doc, Way)[Len(stack) - 1] = stack[Len(stack)].data
  BY <1>1, <1>2, <1>3, TrailOfCalls
<1> QED
  BY <1>2, <1>3, <1>4 DEF At, Top

\* A document contains no attack outside itself.
LEMMA OnlyJson ==
  ASSUME TypeOK, request.body.type = "json", request.body.doc # Malformed,
         NEW location, NEW path, NEW attack, Contains(location, path, attack)
  PROVE  /\ location \in {"query_param", "header", "body_json"}
         /\ location = "body_json" =>
              /\ At(request.body.doc, path).kind = "str"
              /\ attack \in At(request.body.doc, path).text
  BY DEF Contains

LEMMA ParseJsonStep ==
  ASSUME TypeOK, Right, ParseJson
  PROVE  TypeOK' /\ Called' /\ Right'
<1> DEFINE frame == Frame(request.body.doc)
<1>1. /\ pc = "body" /\ pc' = "json" /\ UNCHANGED <<request, at, threats>>
      /\ stack' = <<frame>>
      /\ request.body.type = "json" /\ request.body.doc # Malformed
  BY DEF ParseJson, AtBody
<1>2. /\ frame.data = request.body.doc /\ frame.next = 1
      /\ frame \in Frames
  <2>1. request.body.doc \in Documents
    BY <1>1, RequestTyped
  <2> QED
    BY <2>1 DEF Frame, Frames
<1> HIDE DEF frame
<1>3. /\ Len(stack') = 1 /\ stack'[1] = frame /\ stack' # <<>>
      /\ stack' \in Seq(Frames)
  BY <1>1, <1>2
<1>4. TypeOK'
  BY <1>1, <1>3 DEF TypeOK
<1>5. Called'
  BY <1>1, <1>2, <1>3 DEF Called
<1>7. \A p \in Positions : ~Passed(p)'
  BY <1>2, <1>3 DEF Passed, Positions
<1>8. PassesNothing
  BY <1>1, <1>7, OnlyJson DEF PassesNothing, Gone
<1>9. Right'
  BY <1>1, <1>8, PassingNothing
<1> QED
  BY <1>4, <1>5, <1>9

\* The item that a call is at.
LEMMA NextItem ==
  ASSUME TypeOK, HasNext
  PROVE  /\ Container(Top.data) /\ Top.next \in 1 .. Len(Top.data.items)
         /\ Top.data.items[Top.next] \in Documents
<1>1. /\ pc = "json" /\ Container(Top.data) /\ Top.next <= Len(Top.data.items)
      /\ Top.data \in Documents /\ Top.next \in Nat \ {0}
  BY StackTyped DEF HasNext
<1>2. Top.data.items \in Seq(Documents)
  BY <1>1, DocumentsTyped
<1>3. Len(Top.data.items) \in Nat /\ Top.next \in 1 .. Len(Top.data.items)
  BY <1>1, <1>2
<1>4. Top.data.items[Top.next] \in Documents
  BY <1>2, <1>3, ElementTyped
<1> QED
  BY <1>1, <1>3, <1>4

LEMMA Pushed ==
  ASSUME NEW S, NEW s \in Seq(S), s # <<>>, NEW a \in S, NEW b \in S,
         NEW t, t = Append([s EXCEPT ![Len(s)] = a], b)
  PROVE  /\ t \in Seq(S) /\ Len(t) = Len(s) + 1
         /\ t[Len(s)] = a /\ t[Len(s) + 1] = b
         /\ \A k \in 1 .. Len(s) - 1 : t[k] = s[k]
<1> DEFINE u == [s EXCEPT ![Len(s)] = a]
<1>1. Len(s) \in Nat \ {0}
  OBVIOUS
<1>2. /\ u \in Seq(S) /\ Len(u) = Len(s) /\ u[Len(s)] = a
      /\ \A k \in 1 .. Len(s) - 1 : u[k] = s[k]
  BY <1>1
<1> HIDE DEF u
<1>3. t = Append(u, b)
  BY DEF u
<1> QED
  BY <1>1, <1>2, <1>3

LEMMA Moved ==
  ASSUME NEW f \in Frames, NEW g, g = [f EXCEPT !.next = @ + 1]
  PROVE  /\ g \in Frames /\ g.next = f.next + 1
         /\ g.data = f.data
<1>1. /\ f = [data |-> f.data, next |-> f.next]
      /\ f.data \in Documents /\ f.next \in Nat \ {0}
  BY DEF Frames
<1>2. g = [data |-> f.data, next |-> f.next + 1]
  BY <1>1
<1> QED
  BY <1>1, <1>2 DEF Frames

LEMMA CallStep ==
  ASSUME TypeOK, Called, Right, Call
  PROVE  TypeOK' /\ Called' /\ Right'
<1>1. /\ HasNext /\ pc = "json" /\ UNCHANGED <<request, pc, at, threats>>
      /\ stack' = Append([stack EXCEPT ![Len(stack)].next = @ + 1],
                         Frame(Top.data.items[Top.next]))
  BY DEF Call, HasNext
<1>0. PICK n \in Nat \ {0} : n = Len(stack)
  BY <1>1, StackTyped
<1>2. /\ n = Len(stack) /\ Top = stack[n] /\ stack \in Seq(Frames) /\ stack # <<>>
      /\ \A k \in 1 .. n : /\ stack[k].data \in Documents /\ stack[k].next \in Nat \ {0}
                           /\ stack[k] \in Frames
  BY <1>0, <1>1, StackTyped DEF TypeOK
<1>4. PICK child \in Frames :
        /\ child.data = Top.data.items[Top.next] /\ child.next = 1
        /\ child = Frame(Top.data.items[Top.next])
  BY <1>1, NextItem DEF Frame, Frames
<1>5. PICK caller \in Frames :
        /\ caller = [stack[n] EXCEPT !.next = @ + 1]
        /\ caller.data = stack[n].data
        /\ caller.next = stack[n].next + 1
  <2>1. PICK f, g : f = stack[n] /\ g = [f EXCEPT !.next = @ + 1]
    OBVIOUS
  <2>2. g \in Frames /\ g.next = f.next + 1 /\ g.data = f.data
    BY <1>2, <2>1, Moved
  <2> QED
    BY <2>1, <2>2
<1>6. /\ stack' \in Seq(Frames) /\ Len(stack') = n + 1 /\ stack' # <<>>
      /\ stack'[n] = caller /\ stack'[n + 1] = child
      /\ \A k \in 1 .. n - 1 : stack'[k] = stack[k]
  <2>1. stack' = Append([stack EXCEPT ![Len(stack)] = caller], child)
    BY <1>1, <1>2, <1>4, <1>5
  <2>2. PICK t : t = stack'
    OBVIOUS
  <2>3. /\ t \in Seq(Frames) /\ Len(t) = n + 1
        /\ t[n] = caller /\ t[n + 1] = child
        /\ \A k \in 1 .. n - 1 : t[k] = stack[k]
    BY <1>2, <2>1, <2>2, Pushed
  <2> QED
    BY <2>2, <2>3
<1>7. TypeOK'
  BY <1>1, <1>6 DEF TypeOK
<1>8. Called'
  <2>1. stack'[1].data = request.body.doc
    BY <1>1, <1>2, <1>5, <1>6 DEF Called
  <2>2. ASSUME NEW k \in 1 .. n + 1, ~Container(stack'[k].data)
        PROVE  k = n + 1 /\ stack'[k].next = 1
    <3>1. k \in 1 .. n - 1 \/ k = n \/ k = n + 1
      BY <1>2
    <3>2. k # n
      BY <1>1, <1>2, <1>5, <1>6, <2>2, NextItem
    <3>3. k \notin 1 .. n - 1
      BY <1>1, <1>2, <1>5, <1>6, <2>2 DEF Called
    <3> QED
      BY <1>4, <1>5, <1>6, <3>1, <3>2, <3>3
  <2>3. ASSUME NEW k \in 1 .. n
        PROVE  /\ stack'[k].next - 1 \in 1 .. Len(stack'[k].data.items)
               /\ stack'[k + 1].data = stack'[k].data.items[stack'[k].next - 1]
    <3>1. CASE k = n
      <4>1. stack'[n].next - 1 = Top.next /\ stack'[n].data = Top.data
        BY <1>2, <1>5, <1>6
      <4> QED
        BY <1>1, <1>4, <1>5, <1>6, <3>1, <4>1, NextItem
    <3>2. CASE k \in 1 .. n - 1
      <4>1. /\ stack[k].next - 1 \in 1 .. Len(stack[k].data.items)
            /\ stack[k + 1].data = stack[k].data.items[stack[k].next - 1]
        BY <1>1, <1>2, <3>2 DEF Called
      <4>2. stack'[k + 1].data = stack[k + 1].data
        <5>1. k + 1 \in 1 .. n - 1 \/ k + 1 = n
          BY <1>2, <3>2
        <5> QED
          BY <1>5, <1>6, <5>1
      <4> QED
        BY <1>5, <1>6, <3>2, <4>1, <4>2
    <3> QED
      BY <1>2, <3>1, <3>2
  <2>4. Len(stack') - 1 = n
    BY <1>6
  <2> QED
    BY <1>1, <1>6, <2>1, <2>2, <2>3, <2>4 DEF Called
<1>10. \A p \in Positions : Passed(p)' <=> Passed(p)
  <2> SUFFICES ASSUME NEW p \in Positions
               PROVE  Passed(p)' <=> Passed(p)
    OBVIOUS
  <2>1. Len(p) \in Nat /\ \A k \in 1 .. Len(p) : p[k] \in Nat \ {0}
    BY DEF Positions
  <2>2. \A k \in 1 .. n + 1 :
          (k <= Len(p) /\ p[k] < IF k = n + 1 THEN stack'[k].next ELSE stack'[k].next - 1)
            <=> (k <= n /\ k <= Len(p)
                 /\ p[k] < IF k = n THEN stack[k].next ELSE stack[k].next - 1)
    <3> SUFFICES ASSUME NEW k \in 1 .. n + 1
                 PROVE  (k <= Len(p)
                         /\ p[k] < IF k = n + 1 THEN stack'[k].next ELSE stack'[k].next - 1)
                          <=> (k <= n /\ k <= Len(p)
                               /\ p[k] < IF k = n THEN stack[k].next ELSE stack[k].next - 1)
      OBVIOUS
    <3>1. CASE k = n + 1
      BY <1>2, <1>4, <1>5, <1>6, <2>1, <3>1
    <3>2. CASE k = n
      <4>1. stack'[n].next - 1 = stack[n].next
        BY <1>2, <1>5, <1>6
      <4> QED
        BY <3>2, <4>1
    <3>3. CASE k \in 1 .. n - 1
      BY <1>2, <1>5, <1>6, <2>1, <3>3
    <3> QED
      BY <1>2, <3>1, <3>2, <3>3
  <2>3. \A k \in 1 .. n : \A j \in 1 .. k - 1 : stack'[j] = stack[j]
    BY <1>2, <1>5, <1>6
  <2>4. ASSUME Passed(p)
        PROVE  Passed(p)'
    <3>1. PICK k \in 1 .. n :
            /\ k <= Len(p) /\ \A j \in 1 .. k - 1 : p[j] = stack[j].next - 1
            /\ p[k] < IF k = n THEN stack[k].next ELSE stack[k].next - 1
      BY <1>2, <2>4 DEF Passed
    <3>2. k \in 1 .. n + 1
      OBVIOUS
    <3>3. \A j \in 1 .. k - 1 : p[j] = stack'[j].next - 1
      BY <2>3, <3>1
    <3> QED
      BY <1>6, <2>2, <3>1, <3>2, <3>3 DEF Passed
  <2>5. ASSUME Passed(p)'
        PROVE  Passed(p)
    <3>1. PICK k \in 1 .. n + 1 :
            /\ k <= Len(p) /\ \A j \in 1 .. k - 1 : p[j] = stack'[j].next - 1
            /\ p[k] < IF k = n + 1 THEN stack'[k].next ELSE stack'[k].next - 1
      BY <1>6, <2>5 DEF Passed
    <3>2. k \in 1 .. n
      BY <2>2, <3>1
    <3>3. \A j \in 1 .. k - 1 : p[j] = stack[j].next - 1
      BY <2>3, <3>1, <3>2
    <3> QED
      BY <1>2, <2>2, <3>1, <3>2, <3>3 DEF Passed
  <2> QED
    BY <2>4, <2>5
<1>11. PassesNothing
  BY <1>1, <1>10 DEF PassesNothing, Gone
<1>12. Right'
  BY <1>1, <1>11, PassingNothing
<1> QED
  BY <1>7, <1>8, <1>12

\* A path through the way to the last call.
Through(path) ==
  /\ Len(stack) - 1 <= Len(path)
  /\ \A j \in 1 .. Len(stack) - 1 : path[j] = stack[j].next - 1

\* A call that returns leaves what it was called for behind, and all that is in it.
LEMMA ReturnStep ==
  ASSUME TypeOK, Called, pc = "json", Return
  PROVE  /\ stack' \in Seq(Frames)
         /\ pc' \in {"json", "done"}
         /\ pc' = "json" => stack' # <<>>
         /\ Called'
         /\ \A p \in Positions :
              (pc' = "done" \/ (pc' = "json" /\ Passed(p)')) <=> Passed(p) \/ Through(p)
<1>1. PICK n \in Nat \ {0} : n = Len(stack)
  BY StackTyped
<1>2. /\ stack' = SubSeq(stack, 1, n - 1) /\ stack \in Seq(Frames)
      /\ pc' = (IF n = 1 THEN "done" ELSE "json") /\ UNCHANGED <<request, at>>
      /\ \A k \in 1 .. n : stack[k].next \in Nat \ {0}
  BY <1>1, StackTyped DEF Return, TypeOK
<1>3. /\ stack' \in Seq(Frames) /\ Len(stack') = n - 1
      /\ \A k \in 1 .. n - 1 : stack'[k] = stack[k]
  <2>1. PICK t : t = stack'
    OBVIOUS
  <2>2. t \in Seq(Frames) /\ Len(t) = n - 1 /\ \A k \in 1 .. n - 1 : t[k] = stack[k]
    BY <1>1, <1>2, <2>1
  <2> QED
    BY <2>1, <2>2
<1>4. n # 1 => stack' # <<>>
  <2>1. Len(<<>>) = 0
    OBVIOUS
  <2> QED
    BY <1>3, <2>1
<1>5. Called'
  <2> SUFFICES ASSUME n # 1
               PROVE  Called'
    BY <1>2 DEF Called
  <2>1. stack'[1].data = request.body.doc
    BY <1>3 DEF Called
  <2>2. \A k \in 1 .. n - 1 : Container(stack'[k].data)
    BY <1>1, <1>3 DEF Called
  <2>3. \A k \in 1 .. n - 1 - 1 :
          /\ stack'[k].next - 1 \in 1 .. Len(stack'[k].data.items)
          /\ stack'[k + 1].data = stack'[k].data.items[stack'[k].next - 1]
    <3> SUFFICES ASSUME NEW k \in 1 .. n - 1 - 1
                 PROVE  /\ stack'[k].next - 1 \in 1 .. Len(stack'[k].data.items)
                        /\ stack'[k + 1].data = stack'[k].data.items[stack'[k].next - 1]
      OBVIOUS
    <3>1. stack'[k] = stack[k] /\ stack'[k + 1] = stack[k + 1] /\ k \in 1 .. n - 1
      BY <1>3
    <3> QED
      BY <1>1, <3>1 DEF Called
  <2> QED
    BY <1>2, <1>3, <2>1, <2>2, <2>3 DEF Called
<1>7. ASSUME NEW p \in Positions
      PROVE  (pc' = "done" \/ (pc' = "json" /\ Passed(p)')) <=> Passed(p) \/ Through(p)
  <2>1. Len(p) \in Nat /\ \A k \in 1 .. Len(p) : p[k] \in Nat \ {0}
    BY DEF Positions
  <2>2. CASE n = 1
    <3>1. Through(p)
      BY <1>1, <2>1, <2>2 DEF Through
    <3> QED
      BY <1>2, <2>2, <3>1
  <2>3. CASE n # 1
    <3>1. n - 1 \in 1 .. n /\ n - 1 \in 1 .. n - 1 /\ pc' = "json"
      BY <1>2, <2>3
    <3>2. ASSUME Through(p)
          PROVE  Passed(p)'
      <4>1. /\ n - 1 <= Len(p) /\ \A j \in 1 .. n - 1 : p[j] = stack'[j].next - 1
        BY <1>1, <1>3, <3>2 DEF Through
      <4>2. p[n - 1] < stack'[n - 1].next
        BY <1>2, <1>3, <3>1, <4>1
      <4> QED
        BY <1>3, <3>1, <4>1, <4>2 DEF Passed
    <3>3. ASSUME Passed(p)
          PROVE  Passed(p)' \/ Through(p)
      <4>1. PICK k \in 1 .. n :
              /\ k <= Len(p) /\ \A j \in 1 .. k - 1 : p[j] = stack[j].next - 1
              /\ p[k] < IF k = n THEN stack[k].next ELSE stack[k].next - 1
        BY <1>1, <3>3 DEF Passed
      <4>2. CASE k = n
        BY <1>1, <2>1, <4>1, <4>2 DEF Through
      <4>3. CASE k # n
        <5>1. k \in 1 .. n - 1 /\ stack'[k] = stack[k] /\ stack[k].next \in Nat
          BY <1>2, <1>3, <4>3
        <5>2. \A j \in 1 .. k - 1 : p[j] = stack'[j].next - 1
          BY <1>3, <4>1, <5>1
        <5>3. p[k] < stack'[k].next - 1 /\ p[k] < stack'[k].next
          BY <2>1, <4>1, <4>3, <5>1
        <5> QED
          BY <1>3, <4>1, <5>1, <5>2, <5>3 DEF Passed
      <4> QED
        BY <4>2, <4>3
    <3>4. ASSUME Passed(p)'
          PROVE  Passed(p) \/ Through(p)
      <4>1. PICK k \in 1 .. n - 1 :
              /\ k <= Len(p) /\ \A j \in 1 .. k - 1 : p[j] = stack[j].next - 1
              /\ p[k] < IF k = n - 1 THEN stack[k].next ELSE stack[k].next - 1
        BY <1>3, <3>4 DEF Passed
      <4>2. k \in 1 .. n /\ k # n /\ stack[k].next \in Nat /\ p[k] \in Nat
        BY <1>2, <2>1, <4>1
      <4>3. CASE p[k] < stack[k].next - 1
        BY <1>1, <4>1, <4>2, <4>3 DEF Passed
      <4>4. CASE ~(p[k] < stack[k].next - 1)
        <5>1. k = n - 1 /\ p[k] = stack[k].next - 1
          BY <4>1, <4>2, <4>4
        <5>2. \A j \in 1 .. n - 1 : p[j] = stack[j].next - 1
          BY <4>1, <5>1
        <5> QED
          BY <1>1, <4>1, <5>1, <5>2 DEF Through
      <4> QED
        BY <4>3, <4>4
    <3> QED
      BY <3>1, <3>2, <3>3, <3>4
  <2> QED
    BY <2>2, <2>3
<1> QED
  BY <1>2, <1>3, <1>4, <1>5, <1>7

\* A string on a path through what the last call works on is that, or in it.
LEMMA StringThrough ==
  ASSUME TypeOK, Called, pc = "json", NEW p \in Positions, Through(p),
         At(request.body.doc, p).kind = "str"
  PROVE  \/ p = Way /\ Top.data.kind = "str"
         \/ /\ Container(Top.data) /\ Len(stack) <= Len(p)
            /\ p[Len(stack)] <= Len(Top.data.items)
<1>1. PICK n \in Nat \ {0} : n = Len(stack)
  BY StackTyped
<1>2. Len(p) \in Nat /\ p \in Seq(Nat \ {0}) /\ n - 1 \in 0 .. Len(p)
  BY <1>1 DEF Positions, Through
<1>3. Trail(request.body.doc, p)[n - 1] = Top.data
  <2>1. n \in 1 .. Len(stack)
    BY <1>1
  <2>2. Trail(request.body.doc, p)[n - 1] = stack[n].data
    BY <1>1, <1>2, <2>1, TrailOfCalls DEF Through
  <2> QED
    BY <1>1, <2>2 DEF Top
<1>4. CASE Len(p) = n - 1
  <2>1. p = Way
    <3>1. Way \in Seq(Nat \ {0}) /\ Len(Way) = n - 1 /\ \A j \in 1 .. n - 1 : Way[j] = p[j]
      BY <1>1, WayLeads DEF Through, Positions
    <3> QED
      BY <1>2, <1>4, <3>1
  <2>2. At(request.body.doc, p) = Top.data
    BY <2>1, WayLeads
  <2> QED
    BY <2>1, <2>2
<1>5. CASE Len(p) # n - 1
  <2>1. n - 1 \in 0 .. Len(p) - 1
    BY <1>2, <1>5
  <2>2. At(request.body.doc, p) # Other
    BY DEF Other
  <2>3. Item(Trail(request.body.doc, p)[n - 1], p[n - 1 + 1]) # Other
    BY <1>2, <2>1, <2>2, TrailEnds
  <2>4. Item(Top.data, p[n]) # Other
    BY <1>3, <2>3
  <2>5. Container(Top.data) /\ p[n] \in 1 .. Len(Top.data.items)
    BY <2>4 DEF Item
  <2>6. Len(Top.data.items) \in Nat
    <3>1. Top.data \in Documents
      BY <1>1, StackTyped
    <3> QED
      BY <2>5, <3>1, DocumentsTyped
  <2> QED
    BY <1>1, <1>2, <1>5, <2>5, <2>6
<1> QED
  BY <1>4, <1>5

LEMMA StringStep ==
  ASSUME TypeOK, Called, Right, InspectString
  PROVE  TypeOK' /\ Called' /\ Right'
<1> DEFINE doc == request.body.doc
           text == Top.data.text
<1>1. /\ pc = "json" /\ Top.data.kind = "str" /\ Return /\ UNCHANGED <<request, at>>
      /\ Inspect(text, "body_json", Way)
  BY DEF InspectString, Return
<1>2. /\ request.body.type = "json" /\ doc # Malformed
      /\ Top.data \in Documents /\ text \in Text
  BY <1>1, StackTyped, DocumentsTyped
<1>4. Way \in Positions /\ Len(Way) = Len(stack) - 1 /\ At(doc, Way) = Top.data
  BY <1>1, WayLeads
<1>5. \A attack \in Attacks : attack \in text <=> Contains("body_json", Way, attack)
  BY <1>1, <1>2, <1>4 DEF Contains
<1>6. ASSUME NEW p \in Positions, Passed(p)
      PROVE  Precedes(p, Way)
  <2>1. PICK n \in Nat \ {0} : n = Len(stack) /\ Top = stack[n]
    BY <1>1, StackTyped
  <2>2. PICK k \in 1 .. n :
          /\ k <= Len(p) /\ \A j \in 1 .. k - 1 : p[j] = stack[j].next - 1
          /\ p[k] < IF k = n THEN stack[k].next ELSE stack[k].next - 1
    BY <1>6, <2>1 DEF Passed
  <2>3. Len(p) \in Nat /\ p[k] \in Nat \ {0}
    BY <2>2 DEF Positions
  <2>4. k # n
    <3>1. stack[n].next = 1
      BY <1>1, <2>1 DEF Called, Container
    <3> QED
      BY <2>2, <2>3, <3>1
  <2>5. k \in 1 .. n - 1
    BY <2>2, <2>4
  <2>6. \A j \in 1 .. n - 1 : Way[j] = stack[j].next - 1
    BY <1>1, <2>1, WayLeads
  <2>7. \A j \in 1 .. k - 1 : p[j] = Way[j]
    <3> SUFFICES ASSUME NEW j \in 1 .. k - 1 PROVE p[j] = Way[j]
      OBVIOUS
    <3>1. j \in 1 .. n - 1
      BY <2>5
    <3> QED
      BY <2>2, <2>6, <3>1
  <2>8. p[k] < Way[k]
    <3>1. p[k] < stack[k].next - 1
      BY <2>2, <2>4
    <3> QED
      BY <2>5, <2>6, <3>1
  <2>9. k \in 1 .. Len(Way)
    BY <1>4, <2>1, <2>5
  <2> QED
    BY <2>2, <2>3, <2>7, <2>8, <2>9 DEF Precedes
<1>7. AllBefore("body_json", Way)
  <2> SUFFICES ASSUME NEW l \in Locations, NEW p \in Positions, NEW attack \in Attacks,
                      Contains(l, p, attack), Gone(l, p)
               PROVE  \/ Pass(l) < Pass("body_json")
                      \/ l = "body_json" /\ Precedes(p, Way)
    BY <1>1, ComesAfter
  <2>1. l \in {"query_param", "header", "body_json"}
    BY <1>2, OnlyJson
  <2> QED
    BY <1>1, <1>6, <2>1 DEF Gone, Pass
<1>8. /\ stack' \in Seq(Frames) /\ pc' \in {"json", "done"} /\ (pc' = "json" => stack' # <<>>)
      /\ Called'
      /\ \A p \in Positions :
           (pc' = "done" \/ (pc' = "json" /\ Passed(p)')) <=> Passed(p) \/ Through(p)
  BY <1>1, ReturnStep
<1>9. Passes("body_json", Way)
  <2> SUFFICES ASSUME NEW l \in Locations, NEW p \in Positions, NEW attack \in Attacks,
                      Contains(l, p, attack)
               PROVE  Gone(l, p)' <=> Gone(l, p) \/ (l = "body_json" /\ p = Way)
    BY DEF Passes
  <2>1. CASE l \in {"query_param", "header"}
    BY <1>1, <1>8, <2>1 DEF Gone
  <2>2. CASE l = "body_json"
    <3>1. At(doc, p).kind = "str"
      BY <1>2, <2>2, OnlyJson
    <3>2. Through(p) => p = Way
      BY <1>1, <3>1, StringThrough DEF Container
    <3>3. Through(Way)
      BY <1>1, WayLeads, StackTyped DEF Through
    <3>4. Gone(l, p)' <=> pc' = "done" \/ (pc' = "json" /\ Passed(p)')
      BY <1>8, <2>2 DEF Gone
    <3>5. Gone(l, p) <=> Passed(p)
      BY <1>1, <2>2 DEF Gone
    <3> QED
      BY <1>8, <2>2, <3>2, <3>3, <3>4, <3>5
  <2> QED
    BY <1>2, <2>1, <2>2, OnlyJson
<1>11. threats' \in Seq(Threats) /\ Right'
  <2>1. "body_json" \in Locations
    BY DEF Locations
  <2> HIDE DEF text
  <2> QED
    BY <1>1, <1>2, <1>4, <1>5, <1>7, <1>9, <2>1, PassingOne
<1>12. TypeOK'
  BY <1>1, <1>2, <1>8, <1>11 DEF TypeOK
<1> QED
  BY <1>8, <1>11, <1>12

LEMMA EndCallStep ==
  ASSUME TypeOK, Called, Right, EndCall
  PROVE  TypeOK' /\ Called' /\ Right'
<1>1. /\ pc = "json" /\ Top.data.kind # "str" /\ ~HasNext /\ Return
      /\ UNCHANGED <<request, at, threats>>
  BY DEF EndCall, Return
<1>2. request.body.type = "json" /\ request.body.doc # Malformed
  BY <1>1, StackTyped, DocumentsTyped
<1>3. /\ stack' \in Seq(Frames) /\ pc' \in {"json", "done"} /\ (pc' = "json" => stack' # <<>>)
      /\ Called'
      /\ \A p \in Positions :
           (pc' = "done" \/ (pc' = "json" /\ Passed(p)')) <=> Passed(p) \/ Through(p)
  BY <1>1, ReturnStep
<1>4. ASSUME NEW p \in Positions, Through(p), At(request.body.doc, p).kind = "str"
      PROVE  Passed(p)
  <2>1. PICK n \in Nat \ {0} : n = Len(stack) /\ Top = stack[n] /\ Top.next \in Nat
    BY <1>1, StackTyped
  <2>2. /\ Container(Top.data) /\ n <= Len(p) /\ p[n] <= Len(Top.data.items)
    BY <1>1, <1>4, <2>1, StringThrough
  <2>3. Len(Top.data.items) \in Nat
    <3>1. Top.data \in Documents
      BY <1>1, StackTyped
    <3> QED
      BY <2>2, <3>1, DocumentsTyped
  <2>4. Top.next > Len(Top.data.items)
    BY <1>1, <2>1, <2>2, <2>3 DEF HasNext
  <2>5. Len(p) \in Nat /\ p[n] \in Nat
    BY <2>1, <2>2 DEF Positions
  <2>6. p[n] < stack[n].next
    BY <2>1, <2>2, <2>3, <2>4, <2>5
  <2>7. \A j \in 1 .. n - 1 : p[j] = stack[j].next - 1
    BY <1>4, <2>1 DEF Through
  <2>8. n \in 1 .. Len(stack) /\ n <= Len(p) /\ p[n] < IF n = Len(stack) THEN stack[n].next
                                                          ELSE stack[n].next - 1
    BY <2>1, <2>2, <2>6
  <2> QED
    BY <2>7, <2>8 DEF Passed
<1>5. PassesNothing
  <2> SUFFICES ASSUME NEW l \in Locations, NEW p \in Positions, NEW attack \in Attacks,
                      Contains(l, p, attack)
               PROVE  Gone(l, p)' <=> Gone(l, p)
    BY DEF PassesNothing
  <2>1. CASE l \in {"query_param", "header"}
    BY <1>1, <1>3, <2>1 DEF Gone
  <2>2. CASE l = "body_json"
    <3>1. At(request.body.doc, p).kind = "str"
      BY <1>2, <2>2, OnlyJson
    <3>2. Through(p) => Passed(p)
      BY <1>4, <3>1
    <3>3. Gone(l, p)' <=> pc' = "done" \/ (pc' = "json" /\ Passed(p)')
      BY <1>3, <2>2 DEF Gone
    <3>4. Gone(l, p) <=> Passed(p)
      BY <1>1, <2>2 DEF Gone
    <3> QED
      BY <1>3, <3>2, <3>3, <3>4
  <2> QED
    BY <1>2, <2>1, <2>2, OnlyJson
<1>6. Right'
  BY <1>1, <1>5, PassingNothing
<1>7. TypeOK'
  BY <1>1, <1>2, <1>3 DEF TypeOK
<1> QED
  BY <1>3, <1>6, <1>7

LEMMA TooDeepStep ==
  ASSUME TypeOK, Called, Right, TooDeep
  PROVE  TypeOK' /\ Called' /\ Right'
<1>1. pc = "json" /\ pc' = "raised" /\ UNCHANGED <<request, stack, threats>>
  BY DEF TooDeep, HasNext, Enter
<1>2. TypeOK' /\ Called'
  BY <1>1 DEF TypeOK, Called
<1>3. Sound' /\ Ordered'
  <2>1. \A l, p, attack : Contains(l, p, attack)' <=> Contains(l, p, attack)
    BY <1>1 DEF Contains
  <2>2. Sound'
    BY <1>1, <2>1 DEF Right, Sound
  <2>3. Ordered'
    BY <1>1 DEF Right, Ordered
  <2> QED
    BY <2>2, <2>3
<1>4. Abreast'
  BY <1>1 DEF Abreast
<1> QED
  BY <1>2, <1>3, <1>4 DEF Right

-----------------------------------------------------------------------------
(* The theorems.                                                           *)

LEMMA InitInv == Init => Inv
<1> SUFFICES ASSUME Init
             PROVE  Inv
  OBVIOUS
<1>1. /\ request \in Inputs /\ pc = "query" /\ at = <<1, 1>> /\ stack = <<>>
      /\ threats = <<>> /\ Len(threats) = 0
  BY DEF Init
<1>2. TypeOK
  <2>1. stack \in Seq(Frames) /\ threats \in Seq(Threats)
    BY <1>1, TupleTyped
  <2>2. \E i \in Nat \ {0}, j \in 1 .. 2 : at = <<i, j>>
    BY <1>1
  <2> QED
    BY <1>1, <2>1, <2>2 DEF TypeOK
<1>3. Called
  BY <1>1 DEF Called
<1>4. Sound /\ Ordered
  BY <1>1 DEF Sound, Ordered
<1>5. ASSUME NEW p, NEW attack, Contains("query_param", p, attack)
      PROVE  ~Precedes(p, at)
  <2>1. PICK m \in 1 .. Len(request.query), n \in 1 .. 2 : p = <<m, n>>
    BY <1>5 DEF Contains
  <2>2. m \in Nat /\ n \in Nat /\ ~(m < 1) /\ ~(n < 1)
    BY <1>2, RequestTyped
  <2> QED
    BY <1>1, <2>1, <2>2, PairPrecedes
<1>6. Abreast
  BY <1>1, <1>5 DEF Abreast, Reported, Gone
<1> QED
  BY <1>2, <1>3, <1>4, <1>6 DEF Inv, Right

LEMMA NextInv == Inv /\ [Next]_vars => Inv'
<1> SUFFICES ASSUME Inv, [Next]_vars
             PROVE  Inv'
  OBVIOUS
<1>1. TypeOK /\ Called /\ Right
  BY DEF Inv
<1>2. ASSUME pc \in {"query", "headers", "body", "form"}, TypeOK' /\ Right', pc' # "json"
      PROVE  Inv'
  BY <1>2 DEF Inv, Called
<1>3. CASE InspectKey \/ InspectParameter
  <2>1. pc = "query" /\ pc' = "query"
    BY <1>3 DEF InspectKey, InspectParameter, Continue, Enter
  <2> QED
    BY <1>1, <1>2, <1>3, <2>1, QueryStep
<1>4. CASE EndQuery
  <2>1. pc = "query" /\ pc' = "headers"
    BY <1>4 DEF EndQuery, Enter
  <2> QED
    BY <1>1, <1>2, <1>4, <2>1, EndQueryStep
<1>5. CASE InspectHeader
  <2>1. pc = "headers" /\ pc' = "headers"
    BY <1>5 DEF InspectHeader, Continue, Enter
  <2> QED
    BY <1>1, <1>2, <1>5, <2>1, HeaderStep
<1>6. CASE EndHeaders
  <2>1. pc = "headers" /\ pc' = "body"
    BY <1>6 DEF EndHeaders, Enter
  <2> QED
    BY <1>1, <1>2, <1>6, <2>1, EndHeadersStep
<1>7. CASE NoBody \/ ParseForm
  <2>1. pc = "body" /\ pc' \in {"done", "form"}
    BY <1>7 DEF NoBody, ParseForm, AtBody, Enter
  <2> QED
    BY <1>1, <1>2, <1>7, <2>1, BodyStep
<1>8. CASE InspectText \/ InspectMalformed
  <2>1. pc = "body" /\ pc' = "done"
    BY <1>8 DEF InspectText, InspectMalformed, InspectRaw, AtBody, Enter
  <2> QED
    BY <1>1, <1>2, <1>8, <2>1, RawStep
<1>9. CASE InspectForm
  <2>1. pc = "form" /\ pc' = "form"
    BY <1>9 DEF InspectForm, Continue, Enter
  <2> QED
    BY <1>1, <1>2, <1>9, <2>1, FormStep
<1>10. CASE EndForm
  <2>1. pc = "form" /\ pc' = "done"
    BY <1>10 DEF EndForm, Enter
  <2> QED
    BY <1>1, <1>2, <1>10, <2>1, EndFormStep
<1>11. CASE ParseJson
  BY <1>1, <1>11, ParseJsonStep DEF Inv
<1>12. CASE Call
  BY <1>1, <1>12, CallStep DEF Inv
<1>13. CASE TooDeep
  BY <1>1, <1>13, TooDeepStep DEF Inv
<1>14. CASE InspectString
  BY <1>1, <1>14, StringStep DEF Inv
<1>15. CASE EndCall
  BY <1>1, <1>15, EndCallStep DEF Inv
<1>16. CASE Rest \/ UNCHANGED vars
  <2>1. UNCHANGED <<request, pc, at, stack, threats>>
    BY <1>16 DEF Rest, vars
  <2>2. TypeOK'
    BY <1>1, <2>1 DEF TypeOK
  <2>3. Called'
    BY <1>1, <2>1 DEF Called
  <2>4. Right'
    <3>1. \A l, p, attack : /\ Contains(l, p, attack)' <=> Contains(l, p, attack)
                            /\ Reported(l, p, attack)' <=> Reported(l, p, attack)
                            /\ Gone(l, p)' <=> Gone(l, p)
      BY <2>1 DEF Contains, Reported, Gone, Passed
    <3>2. Sound'
      BY <1>1, <2>1, <3>1 DEF Right, Sound
    <3>3. Ordered'
      BY <1>1, <2>1 DEF Right, Ordered
    <3>4. Abreast'
      BY <1>1, <2>1, <3>1 DEF Right, Abreast
    <3> QED
      BY <3>2, <3>3, <3>4 DEF Right
  <2> QED
    BY <2>2, <2>3, <2>4 DEF Inv
<1> QED
  BY <1>3, <1>4, <1>5, <1>6, <1>7, <1>8, <1>9, <1>10, <1>11, <1>12, <1>13, <1>14, <1>15,
     <1>16 DEF Next

LEMMA Invariant == Spec => []Inv
  BY InitInv, NextInv, PTL DEF Spec

\* The traversal of a document of any depth keeps to documents and positions
\* (inspector.py:187-204).
THEOREM TypeCorrect == Spec => []TypeOK
<1>1. Inv => TypeOK
  BY DEF Inv
<1> QED
  BY <1>1, Invariant, PTL

\* Of a request of any size, with a body of any depth, each string that is inspected
\* (query keys and values, headers that are not skipped, form values, strings of a JSON
\* document, or the text of the body) and that a set of rules matches is reported, once,
\* in the order of the request, and nothing else is (inspector.py:137-204).  Keys of
\* forms and of JSON objects are no such strings.
THEOREM AllFoundInOrder == Spec => []FindsAllInOrder
<1>1. Inv => FindsAllInOrder
  <2> SUFFICES ASSUME Inv
               PROVE  FindsAllInOrder
    OBVIOUS
  <2>1. Sound /\ Ordered /\ Abreast
    BY DEF Inv, Right
  <2>2. ASSUME pc = "done", NEW location \in Locations, NEW path \in Paths,
               NEW attack \in Attacks, Contains(location, path, attack)
        PROVE  Reported(location, path, attack)
    <3>1. path \in Positions
      BY InspectorAssumption DEF Positions
    <3> QED
      BY <2>1, <2>2, <3>1 DEF Abreast, Gone
  <2> QED
    BY <2>1, <2>2 DEF FindsAllInOrder, Sound, Ordered, Reported, Locations
<1> QED
  BY <1>1, Invariant, PTL

\* Once the inspection is done its threats are the attacks in the strings that are
\* inspected, neither more nor fewer, so that is_threat tells whether there are any
\* (inspector.py:178-184).  It says nothing of the keys of forms and of JSON objects,
\* which no threat stands for (InspectsAllParts).
THEOREM ThreatsAreAttacks ==
  Spec => [](pc = "done" =>
               \A location \in Locations, path \in Positions, attack \in Attacks :
                 Reported(location, path, attack) <=> Contains(location, path, attack))
<1>1. Inv =>
        (pc = "done" =>
           \A location \in Locations, path \in Positions, attack \in Attacks :
             Reported(location, path, attack) <=> Contains(location, path, attack))
  <2> SUFFICES ASSUME Inv, pc = "done", NEW location \in Locations, NEW path \in Positions,
                      NEW attack \in Attacks
               PROVE  Reported(location, path, attack) <=> Contains(location, path, attack)
    OBVIOUS
  <2>1. Reported(location, path, attack) => Contains(location, path, attack)
    BY DEF Inv, Right, Sound, Reported
  <2>2. Contains(location, path, attack) => Reported(location, path, attack)
    BY DEF Inv, Right, Abreast, Gone
  <2> QED
    BY <2>1, <2>2
<1> QED
  BY <1>1, Invariant, PTL
=============================================================================
