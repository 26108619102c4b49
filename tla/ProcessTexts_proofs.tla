------------------------- MODULE ProcessTexts_proofs -------------------------
(***************************************************************************)
(* TextsFaithful: what CountedTexts takes apart is what was put together.  *)
(*                                                                         *)
(* The recursive functions are those of loops, of as many turns as a text  *)
(* has characters.  No induction theorem of the library can be used for    *)
(* them, as each takes a predicate; but the least turn at which something  *)
(* fails is one before which it held (LeastId, Turns), which is the same.  *)
(* Each of the three is therefore proved in the same way: the loop has a   *)
(* state after every turn (ScanTurns, CutTurns, DeltaTurns), what the      *)
(* state says is kept by a turn, and so it holds of the last one:          *)
(*   an object    a string is read as one, whatever is escaped in it, and  *)
(*                between the strings the depth is the one of the braces   *)
(*                (ObjectOf, ObjectScanned)                                *)
(*   a message    a part ends where the next one starts and every part has *)
(*                some of the message (CutTo); a longer mark makes no part *)
(*                longer, so that more parts are said in the next round    *)
(*                (NoFewerParts), and marks have only two lengths          *)
(*   an answer    the loop is at the end of a node, with the nodes up to   *)
(*                there, or it has failed as it must (ParsedTo, ParsedIn)  *)
(* They hold of any object, any message and any nodes of this form, and so *)
(* of the samples, which are shown to have it.                             *)
(***************************************************************************)
EXTENDS Process, FiniteSetTheorems, SequenceTheorems, WellFoundedInduction, TLAPS

\* A set of numbers that is not empty has a least one.
LEMMA LeastId ==
    ASSUME NEW S \in SUBSET Nat, S # {}
    PROVE  \E x \in S : \A y \in S : ~(y < x)
<1>1. PICK x \in S : \A y \in S : <<y, x>> \notin OpToRel(<, Nat)
  BY NatLessThanWellFounded, WFMin
<1> QED
  BY <1>1 DEF OpToRel

\* CountedTexts has the finite sets of its own.
LEMMA TextsCount == ASSUME NEW S PROVE Texts!Cardinality(S) = Cardinality(S)
BY DEF Texts!Cardinality, Cardinality

\* What holds at first and after every turn, if it held before it, holds after the last.
LEMMA Turns ==
    ASSUME NEW N \in Nat, NEW P, 0 \in P, \A i \in 1..N : i - 1 \in P => i \in P
    PROVE  \A i \in 0..N : i \in P
<1> DEFINE left == {i \in 0..N : i \notin P}
<1> SUFFICES ASSUME left # {} PROVE FALSE
  OBVIOUS
<1>1. PICK i \in left : \A j \in left : ~(j < i)
  <2>1. left \in SUBSET Nat
    OBVIOUS
  <2> QED
    BY <2>1, LeastId
<1>2. i \in 1..N /\ i - 1 \in 0..N
  OBVIOUS
<1> QED
  BY <1>1, <1>2

-----------------------------------------------------------------------------
(* extractMicrosoftConfigJSON. *)
\* The states of a reading of the first n characters.
Scans(s, text, n) == \A k \in 1..n : s[k] = Texts!Scan(s[k - 1], text[k])

\* The loop has a state after every character, and gives what the last one says.
LEMMA ScanTurns ==
    ASSUME NEW text, Len(text) \in Nat
    PROVE  \E s : /\ s[0] = Texts!Unscanned
                  /\ Scans(s, text, Len(text))
                  /\ Texts!ExtractObject(text) = IF s[Len(text)].mode = "ended" THEN s[Len(text)].at ELSE 0
<1> DEFINE N == Len(text)
           F(f, n) == f = [i \in 0..n |-> IF i = 0 THEN Texts!Unscanned ELSE Texts!Scan(f[i - 1], text[i])]
           P == {n \in 0..N : \E f : F(f, n)}
<1>1. 0 \in P
  <2> DEFINE f == [i \in 0..0 |-> Texts!Unscanned]
  <2>1. F(f, 0)
    OBVIOUS
  <2> HIDE DEF f, F
  <2> QED
    BY <2>1
<1>2. ASSUME NEW n \in 1..N, n - 1 \in P PROVE n \in P
  <2>1. PICK f : F(f, n - 1)
    BY <1>2
  <2> DEFINE g == [i \in 0..n |-> IF i = n THEN Texts!Scan(f[n - 1], text[n]) ELSE f[i]]
  <2>2. \A i \in 0..n - 1 : g[i] = f[i]
    OBVIOUS
  <2>3. \A i \in 0..n - 1 : f[i] = IF i = 0 THEN Texts!Unscanned ELSE Texts!Scan(f[i - 1], text[i])
    BY <2>1
  <2>4. \A i \in 0..n : g[i] = IF i = 0 THEN Texts!Unscanned ELSE Texts!Scan(g[i - 1], text[i])
    <3> SUFFICES ASSUME NEW i \in 0..n PROVE g[i] = IF i = 0 THEN Texts!Unscanned ELSE Texts!Scan(g[i - 1], text[i])
      OBVIOUS
    <3>1. CASE i = n
      <4>1. g[i] = Texts!Scan(f[n - 1], text[n])
        BY <3>1
      <4>2. g[i - 1] = f[n - 1]
        BY <3>1, <2>2
      <4> QED
        BY <3>1, <4>1, <4>2
    <3>2. CASE i < n
      <4>1. i \in 0..n-1
        BY <3>2
      <4>2. i # 0 => i - 1 \in 0..n - 1
        BY <4>1
      <4> HIDE DEF g
      <4> QED
        BY <4>1, <4>2, <2>2, <2>3
    <3> QED
      BY <3>1, <3>2
  <2>5. F(g, n)
    BY <2>4
  <2> HIDE DEF g, F
  <2> QED
    BY <2>5
<1>3. \E f : F(f, N)
  <2> HIDE DEF F
  <2>1. \A n \in 0..N : n \in P
    <3> HIDE DEF P
    <3> QED
      BY <1>1, <1>2, Turns
  <2> QED
    BY <2>1
<1> DEFINE s == CHOOSE f : F(f, N)
<1>4. F(s, N)
  <2> HIDE DEF F
  <2> QED
    BY <1>3
<1>5. Texts!ExtractObject(text) = IF s[N].mode = "ended" THEN s[N].at ELSE 0
  BY DEF Texts!ExtractObject
<1> HIDE DEF s
<1>6. s[0] = Texts!Unscanned /\ \A i \in 1..N : s[i] = Texts!Scan(s[i - 1], text[i])
  BY <1>4
<1> QED
  BY <1>5, <1>6 DEF Scans

\* The state of the loop after i characters.
Reading(i, depth, mode) == [at |-> i, mode |-> mode, depth |-> depth]

\* A string between two quotes, in which every backslash is with the character after it.
StringAt(text, i, j) ==
    /\ i + 2 <= j /\ text[i + 1] = "quote" /\ text[j] = "quote"
    /\ \E escapes \in SUBSET (i + 2..j - 1) : \A k \in i + 2..j - 1 :
           /\ k \in escapes => text[k] = "backslash" /\ k + 1 \in (i + 2..j - 1) \ escapes
           /\ k \notin escapes /\ k - 1 \notin escapes => text[k] \notin {"backslash", "quote"}

\* A string or a character between the strings, after which the depth is e.
TokenAt(text, i, j, d, e) ==
    \/ StringAt(text, i, j) /\ e = d
    \/ j = i + 1 /\ text[j] = "open" /\ e = d + 1
    \/ j = i + 1 /\ text[j] = "close" /\ e = d - 1
    \/ j = i + 1 /\ text[j] \notin {"open", "close", "quote"} /\ e = d

\* A text of m such pieces that starts with a brace, whose depth comes back to 0 at the
\* last of them and not before.
ObjectOf(text, m, place, depth) ==
    /\ m \in Nat \ {0} /\ place \in [0..m -> Nat] /\ depth \in [0..m -> Nat]
    /\ place[0] = 0 /\ depth[0] = 0 /\ depth[m] = 0 /\ text[1] = "open"
    /\ \A k \in 1..m : TokenAt(text, place[k - 1], place[k], depth[k - 1], depth[k])
    /\ \A k \in 1..m - 1 : depth[k] > 0

\* A character between the strings.
LEMMA ScanPlain ==
    ASSUME NEW i \in Nat, NEW d \in Nat, NEW c
    PROVE  /\ c = "open" => Texts!Scan(Reading(i, d, "plain"), c) = Reading(i + 1, d + 1, "plain")
           /\ c = "close" /\ d # 1 => Texts!Scan(Reading(i, d, "plain"), c) = Reading(i + 1, d - 1, "plain")
           /\ c = "close" /\ d = 1 => Texts!Scan(Reading(i, d, "plain"), c) = Reading(i + 1, d - 1, "ended")
           /\ c = "quote" => Texts!Scan(Reading(i, d, "plain"), c) = Reading(i + 1, d, "string")
           /\ c \notin {"open", "close", "quote"} => Texts!Scan(Reading(i, d, "plain"), c) = Reading(i + 1, d, "plain")
BY DEF Texts!Scan, Reading, Texts!Braces

\* A character in a string, and one after a backslash.
LEMMA ScanQuoted ==
    ASSUME NEW i \in Nat, NEW d \in Nat, NEW c
    PROVE  /\ c = "quote" => Texts!Scan(Reading(i, d, "string"), c) = Reading(i + 1, d, "plain")
           /\ c = "backslash" => Texts!Scan(Reading(i, d, "string"), c) = Reading(i + 1, d, "escape")
           /\ c \notin {"backslash", "quote"} => Texts!Scan(Reading(i, d, "string"), c) = Reading(i + 1, d, "string")
           /\ Texts!Scan(Reading(i, d, "escape"), c) = Reading(i + 1, d, "string")
BY DEF Texts!Scan, Reading

\* A string is read to its end, and leaves the depth as it was.
LEMMA StringScanned ==
    ASSUME NEW text, NEW s, NEW n \in Nat, Scans(s, text, n),
           NEW i \in Nat, NEW j \in Nat, j <= n, StringAt(text, i, j),
           NEW d \in Nat, s[i] = Reading(i, d, "plain")
    PROVE  s[j] = Reading(j, d, "plain")
<1>1. i + 2 <= j /\ text[i + 1] = "quote" /\ text[j] = "quote"
  BY DEF StringAt
<1>2. PICK escapes \in SUBSET (i + 2..j - 1) : \A k \in i + 2..j - 1 :
           /\ k \in escapes => text[k] = "backslash" /\ k + 1 \in (i + 2..j - 1) \ escapes
           /\ k \notin escapes /\ k - 1 \notin escapes => text[k] \notin {"backslash", "quote"}
  BY DEF StringAt
<1>3. s[i + 1] = Reading(i + 1, d, "string")
  <2>1. i + 1 \in 1..n /\ (i + 1) - 1 = i
    BY <1>1
  <2>2. s[i + 1] = Texts!Scan(s[i], text[i + 1])
    BY <2>1 DEF Scans
  <2> QED
    BY <1>1, <2>2, ScanPlain
<1> DEFINE P == {k \in 0..j - i - 2 : s[i + 1 + k] = Reading(i + 1 + k, d, IF i + 1 + k \in escapes THEN "escape" ELSE "string")}
<1>4. 0 \in P
  <2>1. i + 1 \notin escapes
    OBVIOUS
  <2> QED
    BY <1>1, <1>3, <2>1
<1>5. ASSUME NEW k \in 1..j - i - 2, k - 1 \in P PROVE k \in P
  <2> DEFINE h == i + 1 + k
  <2>1. h \in i + 2..j - 1 /\ h \in 1..n /\ h - 1 \in Nat /\ h - 1 = i + 1 + (k - 1) /\ k \in 0..j - i - 2
    BY <1>1
  <2>2. s[h] = Texts!Scan(s[h - 1], text[h])
    BY <2>1 DEF Scans
  <2>3. s[h - 1] = Reading(h - 1, d, IF h - 1 \in escapes THEN "escape" ELSE "string")
    BY <1>5, <2>1
  <2> HIDE DEF h
  <2>4. CASE h - 1 \in escapes
    <3>1. h \notin escapes
      <4>1. h - 1 \in i + 2..j - 1 /\ (h - 1) + 1 = h
        BY <2>1, <2>4
      <4> QED
        BY <1>2, <2>4, <4>1
    <3>2. s[h - 1] = Reading(h - 1, d, "escape")
      BY <2>3, <2>4
    <3>3. s[h] = Reading((h - 1) + 1, d, "string")
      BY <2>1, <2>2, <3>2, ScanQuoted
    <3>4. s[h] = Reading(h, d, IF h \in escapes THEN "escape" ELSE "string")
      BY <2>1, <3>1, <3>3
    <3> QED
      BY <2>1, <3>4 DEF h
  <2>5. CASE h - 1 \notin escapes
    <3>2. s[h - 1] = Reading(h - 1, d, "string")
      BY <2>3, <2>5
    <3>3. CASE h \in escapes
      <4>1. s[h] = Reading((h - 1) + 1, d, "escape")
        BY <1>2, <2>1, <2>2, <3>2, <3>3, ScanQuoted
      <4>2. s[h] = Reading(h, d, IF h \in escapes THEN "escape" ELSE "string")
        BY <2>1, <3>3, <4>1
      <4> QED
        BY <2>1, <4>2 DEF h
    <3>4. CASE h \notin escapes
      <4>1. s[h] = Reading((h - 1) + 1, d, "string")
        BY <1>2, <2>1, <2>2, <2>5, <3>2, <3>4, ScanQuoted
      <4>2. s[h] = Reading(h, d, IF h \in escapes THEN "escape" ELSE "string")
        BY <2>1, <3>4, <4>1
      <4> QED
        BY <2>1, <4>2 DEF h
    <3> QED
      BY <3>3, <3>4
  <2> QED
    BY <2>4, <2>5
<1>6. j - i - 2 \in P
  <2>1. j - i - 2 \in Nat
    BY <1>1
  <2> HIDE DEF P
  <2>2. \A k \in 0..j - i - 2 : k \in P
    BY <1>4, <1>5, <2>1, Turns
  <2>3. j - i - 2 \in 0..j - i - 2
    BY <2>1
  <2> QED
    BY <2>2, <2>3
<1>7. s[j - 1] = Reading(j - 1, d, "string")
  <2>1. i + 1 + (j - i - 2) = j - 1
    OBVIOUS
  <2>2. j - 1 \notin escapes
    <3> SUFFICES ASSUME j - 1 \in escapes PROVE FALSE
      OBVIOUS
    <3>1. (j - 1) + 1 \in i + 2..j - 1
      BY <1>2
    <3> QED
      BY <3>1
  <2> QED
    BY <1>6, <2>1, <2>2
<1>8. j \in 1..n /\ j - 1 \in Nat /\ (j - 1) + 1 = j
  BY <1>1
<1>9. s[j] = Texts!Scan(s[j - 1], text[j])
  BY <1>8 DEF Scans
<1> QED
  BY <1>1, <1>7, <1>8, <1>9, ScanQuoted

\* So does whatever an object is made of, but for its braces.
LEMMA TokenScanned ==
    ASSUME NEW text, NEW s, NEW n \in Nat, Scans(s, text, n),
           NEW i \in Nat, NEW j \in Nat, j <= n, NEW d \in Nat, NEW e \in Nat,
           TokenAt(text, i, j, d, e), s[i] = Reading(i, d, "plain"), e > 0
    PROVE  s[j] = Reading(j, e, "plain")
<1>1. CASE StringAt(text, i, j) /\ e = d
  BY <1>1, StringScanned
<1>2. CASE ~(StringAt(text, i, j) /\ e = d)
  <2>1. j = i + 1 /\ j \in 1..n /\ j - 1 = i
    BY <1>2 DEF TokenAt
  <2>2. s[j] = Texts!Scan(s[i], text[j])
    BY <2>1 DEF Scans
  <2> QED
    BY <1>2, <2>1, <2>2, ScanPlain DEF TokenAt
<1> QED
  BY <1>1, <1>2

\* The object ends where its last brace is, and nowhere before.
LEMMA ObjectScanned ==
    ASSUME NEW text, NEW s, NEW n \in Nat, Scans(s, text, n),
           s[0] = Texts!Unscanned,
           NEW m, NEW place, NEW depth, ObjectOf(text, m, place, depth),
           NEW h \in 0..m - 1, \A k \in 0..h : place[k] <= n
    PROVE  s[place[h]] = Reading(place[h], depth[h], "plain")
<1> DEFINE P == {k \in 0..h : s[place[k]] = Reading(place[k], depth[k], "plain")}
<1>0. m \in Nat \ {0} /\ h \in Nat /\ place \in [0..m -> Nat] /\ depth \in [0..m -> Nat]
  BY DEF ObjectOf
<1>1. 0 \in P
  BY <1>0 DEF ObjectOf, Reading, Texts!Unscanned
<1>2. ASSUME NEW k \in 1..h, k - 1 \in P PROVE k \in P
  <2>1. /\ k \in 1..m - 1 /\ k \in 0..m /\ k - 1 \in 0..m /\ k \in 0..h
        /\ place[k] \in Nat /\ place[k - 1] \in Nat /\ depth[k] \in Nat /\ depth[k - 1] \in Nat
    BY <1>0
  <2>2. TokenAt(text, place[k - 1], place[k], depth[k - 1], depth[k]) /\ depth[k] > 0 /\ place[k] <= n
    BY <2>1, <1>0 DEF ObjectOf
  <2>3. s[place[k - 1]] = Reading(place[k - 1], depth[k - 1], "plain")
    BY <1>2
  <2>4. s[place[k]] = Reading(place[k], depth[k], "plain")
    BY <2>1, <2>2, <2>3, TokenScanned
  <2> QED
    BY <2>1, <2>4
<1>3. \A k \in 0..h : k \in P
  <2> HIDE DEF P
  <2> QED
    BY <1>0, <1>1, <1>2, Turns
<1> QED
  BY <1>0, <1>3

\* The types of what an object is made of.
LEMMA IsObjectOf ==
    ASSUME NEW text, NEW m, NEW place, NEW depth, ObjectOf(text, m, place, depth)
    PROVE  m \in Nat \ {0} /\ place \in [0..m -> Nat] /\ depth \in [0..m -> Nat]
BY DEF ObjectOf

\* The last piece of an object is the brace that closes it.
LEMMA LastToken ==
    ASSUME NEW text, NEW m, NEW place, NEW depth, ObjectOf(text, m, place, depth)
    PROVE  /\ m > 1 /\ place[m - 1] \in Nat /\ place[m] = place[m - 1] + 1
           /\ text[place[m]] = "close" /\ depth[m - 1] = 1
           /\ \A k \in 0..m - 1 : place[k] <= place[m - 1]
<1>0. m \in Nat \ {0} /\ place \in [0..m -> Nat] /\ depth \in [0..m -> Nat] /\ m - 1 \in 0..m /\ m \in 0..m
  BY DEF ObjectOf
<1>1. place[0] = 0 /\ text[1] = "open" /\ depth[0] = 0 /\ depth[m] = 0
  BY DEF ObjectOf
<1>2. \A k \in 1..m : TokenAt(text, place[k - 1], place[k], depth[k - 1], depth[k])
  BY DEF ObjectOf
<1>3. TokenAt(text, 0, place[1], 0, depth[1]) /\ 1 \in 0..m
  BY <1>0, <1>1, <1>2
<1>4. ~StringAt(text, 0, place[1])
  <2> SUFFICES ASSUME StringAt(text, 0, place[1]) PROVE FALSE
    OBVIOUS
  <2>1. text[0 + 1] = "quote"
    BY DEF StringAt
  <2> QED
    BY <1>1, <2>1
<1>5. depth[1] = 1
  BY <1>0, <1>1, <1>3, <1>4 DEF TokenAt
<1>6. m > 1
  BY <1>0, <1>1, <1>5
<1>7. depth[m - 1] > 0 /\ TokenAt(text, place[m - 1], place[m], depth[m - 1], 0)
  <2>1. m - 1 \in 1..m - 1 /\ m \in 1..m
    BY <1>0, <1>6
  <2> QED
    BY <1>1, <1>2, <2>1 DEF ObjectOf
<1>8. place[m] = place[m - 1] + 1 /\ text[place[m]] = "close" /\ depth[m - 1] = 1
  BY <1>0, <1>7 DEF TokenAt
<1>9. \A k \in 1..m : place[k - 1] <= place[k]
  <2> SUFFICES ASSUME NEW k \in 1..m PROVE place[k - 1] <= place[k]
    OBVIOUS
  <2>1. place[k - 1] \in Nat /\ place[k] \in Nat
    BY <1>0
  <2> QED
    BY <1>2, <2>1 DEF TokenAt, StringAt
<1>10. \A k \in 0..m - 1 : place[k] <= place[m - 1]
  <2> DEFINE P == {i \in 0..m - 1 : place[m - 1 - i] <= place[m - 1]}
  <2>1. 0 \in P
    BY <1>0
  <2>2. ASSUME NEW i \in 1..m - 1, i - 1 \in P PROVE i \in P
    <3>1. m - 1 - i + 1 \in 1..m /\ i \in 0..m - 1 /\ m - 1 - i \in 0..m /\ m - 1 - (i - 1) = m - 1 - i + 1
      BY <1>0
    <3>2. place[m - 1 - i] <= place[m - 1 - i + 1]
      BY <1>9, <3>1
    <3>3. place[m - 1 - i + 1] <= place[m - 1]
      BY <2>2, <3>1
    <3> QED
      BY <1>0, <3>1, <3>2, <3>3
  <2>3. \A i \in 0..m - 1 : i \in P
    <3>1. m - 1 \in Nat
      BY <1>0
    <3> HIDE DEF P
    <3> QED
      BY <2>1, <2>2, <3>1, Turns
  <2>4. ASSUME NEW k \in 0..m - 1 PROVE place[k] <= place[m - 1]
    <3>1. m - 1 - k \in 0..m - 1 /\ m - 1 - (m - 1 - k) = k
      BY <1>0
    <3> QED
      BY <2>3, <3>1
  <2> QED
    BY <2>4
<1> QED
  BY <1>0, <1>6, <1>8, <1>10

\* Nothing after the end of the object is looked at.
LEMMA StaysEnded ==
    ASSUME NEW text, NEW s, NEW n \in Nat, Scans(s, text, n), NEW i \in 0..n, s[i].mode = "ended"
    PROVE  \A k \in i..n : s[k] = s[i]
<1> DEFINE P == {k \in 0..n - i : s[i + k] = s[i]}
<1>1. 0 \in P
  OBVIOUS
<1>2. ASSUME NEW k \in 1..n - i, k - 1 \in P PROVE k \in P
  <2>1. i + k \in 1..n /\ (i + k) - 1 = i + (k - 1) /\ k \in 0..n - i
    OBVIOUS
  <2>2. s[i + k] = Texts!Scan(s[i + (k - 1)], text[i + k])
    BY <2>1 DEF Scans
  <2>3. s[i + (k - 1)] = s[i]
    BY <1>2
  <2> QED
    BY <2>1, <2>2, <2>3 DEF Texts!Scan
<1>3. \A k \in 0..n - i : k \in P
  <2>1. n - i \in Nat
    OBVIOUS
  <2> HIDE DEF P
  <2> QED
    BY <1>1, <1>2, <2>1, Turns
<1> SUFFICES ASSUME NEW k \in i..n PROVE s[k] = s[i]
  OBVIOUS
<1>4. k - i \in 0..n - i /\ i + (k - i) = k
  OBVIOUS
<1> QED
  BY <1>3, <1>4

\* Texts that begin alike are read alike.
LEMMA SameScan ==
    ASSUME NEW text, NEW other, NEW s, NEW r, NEW n \in Nat,
           Scans(s, text, n), Scans(r, other, n), s[0] = r[0], \A k \in 1..n : text[k] = other[k]
    PROVE  s[n] = r[n]
<1> DEFINE P == {k \in 0..n : s[k] = r[k]}
<1>1. 0 \in P
  OBVIOUS
<1>2. ASSUME NEW k \in 1..n, k - 1 \in P PROVE k \in P
  <2>1. s[k] = Texts!Scan(s[k - 1], text[k]) /\ r[k] = Texts!Scan(r[k - 1], other[k]) /\ text[k] = other[k]
    BY DEF Scans
  <2>2. s[k - 1] = r[k - 1]
    BY <1>2
  <2> QED
    BY <2>1, <2>2
<1>3. \A k \in 0..n : k \in P
  <2> HIDE DEF P
  <2> QED
    BY <1>1, <1>2, Turns
<1> QED
  BY <1>3

\* An object of any depth, with strings of any length, is cut where it ends, and where the
\* text ends before it does there is none (extractMicrosoftConfigJSON).
THEOREM ExtractsObject ==
    ASSUME NEW object, Len(object) \in Nat,
           NEW m, NEW place, NEW depth, ObjectOf(object, m, place, depth), place[m] = Len(object),
           NEW text, Len(text) \in Nat,
           \A k \in 1..Len(text) : k <= Len(object) => text[k] = object[k]
    PROVE  Texts!ExtractObject(text) = IF Len(object) <= Len(text) THEN Len(object) ELSE 0
<1> DEFINE M == Len(object)
           N == Len(text)
           b == place[m - 1]
<1>0. place \in [0..m -> Nat]
  BY IsObjectOf
<1>1. PICK s : s[0] = Texts!Unscanned /\ Scans(s, object, M)
  BY ScanTurns
<1>2. PICK r : /\ r[0] = Texts!Unscanned /\ Scans(r, text, N)
               /\ Texts!ExtractObject(text) = IF r[N].mode = "ended" THEN r[N].at ELSE 0
  BY ScanTurns
<1>3. /\ m \in Nat /\ m > 1 /\ b \in Nat /\ M = b + 1 /\ object[M] = "close" /\ depth[m - 1] = 1
      /\ \A k \in 0..m - 1 : place[k] <= b
  BY LastToken, IsObjectOf
<1>4. s[b] = Reading(b, 1, "plain")
  <2>1. m - 1 \in 0..m - 1 /\ \A k \in 0..m - 1 : place[k] <= M
    <3> SUFFICES ASSUME NEW k \in 0..m - 1 PROVE place[k] <= M
      BY <1>3
    <3>1. place \in [0..m -> Nat] /\ k \in 0..m
      BY <1>0, <1>3
    <3>2. place[k] \in Nat /\ place[k] <= b
      BY <1>3, <3>1
    <3> QED
      BY <1>3, <3>2
  <2>2. Scans(s, object, M) /\ M \in Nat
    BY <1>1
  <2>3. s[place[m - 1]] = Reading(place[m - 1], depth[m - 1], "plain")
    <3> HIDE DEF M, b
    <3> QED
      BY <1>1, <2>1, <2>2, ObjectScanned
  <2> QED
    BY <1>3, <2>3
<1> HIDE DEF b
<1>5. s[M] = Reading(M, 0, "ended")
  <2>1. s[M] = Texts!Scan(s[b], object[M])
    BY <1>1, <1>3 DEF Scans
  <2> QED
    BY <1>3, <1>4, <2>1, ScanPlain
<1>6. CASE M <= N
  <2>1. r[M] = s[M]
    <3>1. Scans(r, text, M) /\ \A k \in 1..M : text[k] = object[k]
      BY <1>2, <1>6 DEF Scans
    <3> HIDE DEF M, N
    <3> QED
      BY <1>1, <1>2, <3>1, SameScan DEF M
  <2>2. r[N] = r[M]
    <3>1. M \in 0..N /\ N \in M..N /\ r[M].mode = "ended"
      BY <1>5, <1>6, <2>1 DEF Reading
    <3> HIDE DEF M, N
    <3> QED
      BY <1>2, <3>1, StaysEnded DEF N
  <2> QED
    BY <1>2, <1>5, <1>6, <2>1, <2>2 DEF Reading
<1>7. CASE N < M
  <2>1. r[N] = s[N]
    <3>1. Scans(s, object, N)
      BY <1>1, <1>7 DEF Scans
    <3>2. \A k \in 1..N : text[k] = object[k]
      BY <1>7
    <3> HIDE DEF M, N
    <3> QED
      BY <1>1, <1>2, <3>1, <3>2, SameScan DEF N
  <2>2. ASSUME s[N].mode = "ended" PROVE FALSE
    <3>1. N \in 0..M /\ b \in N..M
      BY <1>3, <1>7
    <3>2. \A k \in N..M : s[k] = s[N]
      <4> HIDE DEF M, N
      <4> QED
        BY <1>1, <2>2, <3>1, StaysEnded DEF M
    <3> QED
      BY <1>4, <2>2, <3>1, <3>2 DEF Reading
  <2> QED
    BY <1>2, <1>7, <2>1, <2>2
<1> QED
  BY <1>6, <1>7

-----------------------------------------------------------------------------
(* The objects of the samples. *)

\* What they are made of.
Characters == {"quote", "backslash", "open", "close"}

\* What a string has up to two of.
Pieces == Texts!Escaped \cup {<<>>}

\* A text of one character.
LEMMA OneCharacter ==
    ASSUME NEW S, NEW c \in S
    PROVE  <<c>> \in Seq(S) /\ Len(<<c>>) = 1 /\ <<c>>[1] = c
OBVIOUS

\* What an escape looks like.
LEMMA EscapedPieces ==
    ASSUME NEW x \in Pieces
    PROVE  /\ x \in Seq(Characters) /\ Len(x) \in 0..2
           /\ Len(x) = 1 => x[1] \in {"open", "close"}
           /\ Len(x) = 2 => x[1] = "backslash"
<1>1. \/ x = <<"backslash", "quote">> \/ x = <<"backslash", "backslash">>
      \/ x = <<"open">> \/ x = <<"close">> \/ x = <<>>
  BY DEF Pieces, Texts!Escaped
<1>2. CASE x = <<"backslash", "quote">>
  BY <1>2 DEF Characters
<1>3. CASE x = <<"backslash", "backslash">>
  BY <1>3 DEF Characters
<1>4. CASE x = <<"open">>
  BY <1>4 DEF Characters
<1>5. CASE x = <<"close">>
  BY <1>5 DEF Characters
<1>6. CASE x = <<>>
  BY <1>6, EmptySeq
<1> QED
  BY <1>1, <1>2, <1>3, <1>4, <1>5, <1>6

\* Where the characters of three texts are when they are one after the other.
LEMMA Joined ==
    ASSUME NEW S, NEW a \in Seq(S), NEW b \in Seq(S), NEW c \in Seq(S)
    PROVE  /\ a \o b \o c \in Seq(S) /\ Len(a \o b \o c) = Len(a) + Len(b) + Len(c)
           /\ \A k \in 1..Len(a) : (a \o b \o c)[k] = a[k]
           /\ \A k \in 1..Len(b) : (a \o b \o c)[Len(a) + k] = b[k]
           /\ \A k \in 1..Len(c) : (a \o b \o c)[Len(a) + Len(b) + k] = c[k]
<1>1. /\ a \o b \in Seq(S) /\ Len(a \o b) = Len(a) + Len(b)
      /\ \A i \in 1..Len(a) + Len(b) : (a \o b)[i] = IF i <= Len(a) THEN a[i] ELSE b[i - Len(a)]
  BY ConcatProperties
<1> DEFINE d == a \o b
<1>2. /\ d \o c \in Seq(S) /\ Len(d \o c) = Len(d) + Len(c)
      /\ \A i \in 1..Len(d) + Len(c) : (d \o c)[i] = IF i <= Len(d) THEN d[i] ELSE c[i - Len(d)]
  <2>1. d \in Seq(S)
    BY <1>1
  <2> HIDE DEF d
  <2> QED
    BY <2>1, ConcatProperties
<1>3. Len(a) \in Nat /\ Len(b) \in Nat /\ Len(c) \in Nat
  BY LenProperties
<1> HIDE DEF d
<1>4. /\ d \o c \in Seq(S) /\ Len(d \o c) = Len(a) + Len(b) + Len(c)
  BY <1>1, <1>2 DEF d
<1>5. ASSUME NEW k \in 1..Len(a) PROVE (d \o c)[k] = a[k]
  BY <1>1, <1>2, <1>3 DEF d
<1>6. ASSUME NEW k \in 1..Len(b) PROVE (d \o c)[Len(a) + k] = b[k]
  BY <1>1, <1>2, <1>3 DEF d
<1>7. ASSUME NEW k \in 1..Len(c) PROVE (d \o c)[Len(a) + Len(b) + k] = c[k]
  BY <1>1, <1>2, <1>3 DEF d
<1> QED
  BY <1>4, <1>5, <1>6, <1>7 DEF d

\* The strings of the samples are strings, wherever they are in a text.
LEMMA SampleStrings ==
    ASSUME NEW a \in Texts!Strings
    PROVE  /\ a \in Seq(Characters) /\ Len(a) \in Nat /\ Len(a) >= 2
           /\ \A text : \A i \in Nat : (\A k \in 1..Len(a) : text[i + k] = a[k]) => StringAt(text, i, i + Len(a))
<1>1. PICK x \in Pieces, y \in Pieces : a = <<"quote">> \o x \o y \o <<"quote">>
  BY DEF Texts!Strings, Pieces
<1> DEFINE q == <<"quote">>
           n == Len(x)
           l == Len(y)
           h == q \o x \o y
<1>2. q \in Seq(Characters) /\ Len(q) = 1 /\ q[1] = "quote"
  <2>1. "quote" \in Characters
    BY DEF Characters
  <2> QED
    BY <2>1, OneCharacter
<1>3. /\ x \in Seq(Characters) /\ n \in 0..2 /\ y \in Seq(Characters) /\ l \in 0..2
      /\ n = 1 => x[1] \in {"open", "close"}
      /\ n = 2 => x[1] = "backslash"
      /\ l = 1 => y[1] \in {"open", "close"}
      /\ l = 2 => y[1] = "backslash"
  BY EscapedPieces
<1>4. /\ h \in Seq(Characters) /\ Len(h) = 1 + n + l /\ h[1] = "quote"
      /\ \A k \in 1..n : h[1 + k] = x[k]
      /\ \A k \in 1..l : h[1 + n + k] = y[k]
  <2>1. /\ h \in Seq(Characters) /\ Len(h) = Len(q) + n + l
        /\ \A k \in 1..Len(q) : h[k] = q[k]
        /\ \A k \in 1..n : h[Len(q) + k] = x[k]
        /\ \A k \in 1..l : h[Len(q) + n + k] = y[k]
    <3>1. q \in Seq(Characters) /\ x \in Seq(Characters) /\ y \in Seq(Characters)
      BY <1>2, <1>3
    <3> HIDE DEF q
    <3> QED
      BY <3>1, Joined
  <2> HIDE DEF h, q, n, l
  <2> QED
    BY <1>2, <2>1
<1>5. a = h \o q
  BY <1>1
<1> HIDE DEF h
<1>6. /\ a \in Seq(Characters) /\ Len(a) = n + l + 2 /\ a[1] = "quote" /\ a[n + l + 2] = "quote"
      /\ \A k \in 1..n : a[1 + k] = x[k]
      /\ \A k \in 1..l : a[1 + n + k] = y[k]
  <2>1. /\ a \in Seq(Characters) /\ Len(a) = Len(h) + Len(q)
        /\ \A i \in 1..Len(h) + Len(q) : a[i] = IF i <= Len(h) THEN h[i] ELSE q[i - Len(h)]
    <3>1. h \in Seq(Characters) /\ q \in Seq(Characters)
      BY <1>2, <1>4
    <3> HIDE DEF q
    <3> QED
      BY <3>1, <1>5, ConcatProperties
  <2> HIDE DEF q, n, l
  <2> QED
    BY <1>2, <1>3, <1>4, <2>1
<1> HIDE DEF q, n, l
<1>7. ASSUME NEW text, NEW i \in Nat, \A k \in 1..Len(a) : text[i + k] = a[k]
      PROVE  StringAt(text, i, i + Len(a))
  <2> DEFINE j == i + Len(a)
             escapes == {k \in i + 2..j - 1 : (n = 2 /\ k = i + 2) \/ (l = 2 /\ k = i + 2 + n)}
  <2>1. j = i + n + l + 2 /\ text[i + 1] = "quote" /\ text[j] = "quote" /\ i + 2 <= j
    BY <1>3, <1>6, <1>7
  <2>2. /\ \A k \in 1..n : text[i + 1 + k] = x[k]
        /\ \A k \in 1..l : text[i + 1 + n + k] = y[k]
    <3>1. ASSUME NEW k \in 1..n PROVE text[i + 1 + k] = x[k]
      BY <1>3, <1>6, <1>7
    <3>2. ASSUME NEW k \in 1..l PROVE text[i + 1 + n + k] = y[k]
      BY <1>3, <1>6, <1>7
    <3> QED
      BY <3>1, <3>2
  <2> HIDE DEF j
  <2>3. ASSUME NEW k \in escapes PROVE text[k] = "backslash" /\ k + 1 \in (i + 2..j - 1) \ escapes
    BY <1>3, <2>1, <2>2
  <2>4. ASSUME NEW k \in i + 2..j - 1, k \notin escapes, k - 1 \notin escapes
        PROVE  text[k] \notin {"backslash", "quote"}
    <3>1. CASE k <= i + 1 + n
      <4>1. n = 1 /\ k = i + 2
        BY <1>3, <2>1, <2>4, <3>1
      <4> QED
        BY <1>3, <2>2, <4>1
    <3>2. CASE k > i + 1 + n
      <4>1. l = 1 /\ k = i + 2 + n
        BY <1>3, <2>1, <2>4, <3>2
      <4> QED
        BY <1>3, <2>2, <4>1
    <3> QED
      BY <1>3, <2>1, <3>1, <3>2
  <2> HIDE DEF escapes
  <2>5. escapes \in SUBSET (i + 2..j - 1)
    BY DEF escapes
  <2> QED
    BY <2>1, <2>3, <2>4, <2>5 DEF StringAt, j
<1> QED
  BY <1>3, <1>6, <1>7

\* Where the string of an object without objects in it is.
LEMMA SampleFlatObjects ==
    ASSUME NEW o \in Texts!FlatObjects
    PROVE  \E a \in Texts!Strings :
               /\ o \in Seq(Characters) /\ Len(o) = Len(a) + 2 /\ o[1] = "open" /\ o[Len(a) + 2] = "close"
               /\ \A k \in 1..Len(a) : o[1 + k] = a[k]
<1>1. PICK a \in Texts!Strings : o = <<"open">> \o a \o <<"close">>
  BY DEF Texts!FlatObjects
<1> DEFINE p == <<"open">>
           q == <<"close">>
<1>2. /\ p \in Seq(Characters) /\ Len(p) = 1 /\ p[1] = "open"
      /\ q \in Seq(Characters) /\ Len(q) = 1 /\ q[1] = "close"
  <2>1. "open" \in Characters /\ "close" \in Characters
    BY DEF Characters
  <2> QED
    BY <2>1, OneCharacter
<1>3. a \in Seq(Characters) /\ Len(a) \in Nat
  BY SampleStrings
<1>4. /\ o \in Seq(Characters) /\ Len(o) = Len(p) + Len(a) + Len(q)
      /\ \A k \in 1..Len(p) : o[k] = p[k]
      /\ \A k \in 1..Len(a) : o[Len(p) + k] = a[k]
      /\ \A k \in 1..Len(q) : o[Len(p) + Len(a) + k] = q[k]
  <2>1. o = p \o a \o q /\ p \in Seq(Characters) /\ a \in Seq(Characters) /\ q \in Seq(Characters)
    BY <1>1, <1>2, <1>3
  <2> HIDE DEF p, q
  <2> QED
    BY <2>1, Joined
<1> HIDE DEF p, q
<1>5. /\ o \in Seq(Characters) /\ Len(o) = Len(a) + 2 /\ o[1] = "open" /\ o[Len(a) + 2] = "close"
      /\ \A k \in 1..Len(a) : o[1 + k] = a[k]
  BY <1>2, <1>3, <1>4
<1> QED
  BY <1>5

\* It is an object: a brace, the string and a brace.
LEMMA FlatObjectOf ==
    ASSUME NEW o \in Texts!FlatObjects
    PROVE  \E m, place, depth : ObjectOf(o, m, place, depth) /\ place[m] = Len(o)
<1>1. PICK a \in Texts!Strings :
          /\ Len(o) = Len(a) + 2 /\ o[1] = "open" /\ o[Len(a) + 2] = "close"
          /\ \A k \in 1..Len(a) : o[1 + k] = a[k]
  BY SampleFlatObjects
<1>2. Len(a) \in Nat /\ StringAt(o, 1, 1 + Len(a))
  BY <1>1, SampleStrings
<1> DEFINE place == [k \in 0..3 |-> CASE k = 0 -> 0 [] k = 1 -> 1 [] k = 2 -> 1 + Len(a) [] OTHER -> 2 + Len(a)]
           depth == [k \in 0..3 |-> IF k \in {1, 2} THEN 1 ELSE 0]
<1>3. /\ place \in [0..3 -> Nat] /\ place[0] = 0 /\ place[1] = 1
      /\ place[2] = 1 + Len(a) /\ place[3] = 2 + Len(a)
  BY <1>2
<1>4. depth \in [0..3 -> Nat] /\ depth[0] = 0 /\ depth[1] = 1 /\ depth[2] = 1 /\ depth[3] = 0
  OBVIOUS
<1> HIDE DEF place, depth
<1>5. /\ TokenAt(o, place[0], place[1], depth[0], depth[1])
      /\ TokenAt(o, place[1], place[2], depth[1], depth[2])
      /\ TokenAt(o, place[2], place[3], depth[2], depth[3])
  BY <1>1, <1>2, <1>3, <1>4 DEF TokenAt
<1>6. \A k \in 1..3 : TokenAt(o, place[k - 1], place[k], depth[k - 1], depth[k])
  <2> SUFFICES ASSUME NEW k \in 1..3 PROVE TokenAt(o, place[k - 1], place[k], depth[k - 1], depth[k])
    OBVIOUS
  <2>1. (k = 1 /\ k - 1 = 0) \/ (k = 2 /\ k - 1 = 1) \/ (k = 3 /\ k - 1 = 2)
    OBVIOUS
  <2> QED
    BY <1>5, <2>1
<1>7. \A k \in 1..2 : depth[k] > 0
  BY <1>4
<1>8. ObjectOf(o, 3, place, depth)
  BY <1>1, <1>3, <1>4, <1>6, <1>7 DEF ObjectOf
<1> QED
  BY <1>1, <1>2, <1>3, <1>8

\* So is one with an object in it.
LEMMA NestedObjectOf ==
    ASSUME NEW a \in Texts!Strings, NEW f \in Texts!FlatObjects, NEW o, o = <<"open">> \o a \o f \o <<"close">>
    PROVE  /\ o \in Seq(Characters)
           /\ \E m, place, depth : ObjectOf(o, m, place, depth) /\ place[m] = Len(o)
<1> DEFINE p == <<"open">>
           q == <<"close">>
           h == p \o a \o f
<1>1. /\ p \in Seq(Characters) /\ Len(p) = 1 /\ p[1] = "open"
      /\ q \in Seq(Characters) /\ Len(q) = 1 /\ q[1] = "close"
  <2>1. "open" \in Characters /\ "close" \in Characters
    BY DEF Characters
  <2> QED
    BY <2>1, OneCharacter
<1>2. PICK b \in Texts!Strings :
          /\ f \in Seq(Characters) /\ Len(f) = Len(b) + 2 /\ f[1] = "open" /\ f[Len(b) + 2] = "close"
          /\ \A k \in 1..Len(b) : f[1 + k] = b[k]
  BY SampleFlatObjects
<1>3. a \in Seq(Characters) /\ Len(a) \in Nat /\ Len(b) \in Nat
  BY SampleStrings
<1>4. /\ h \in Seq(Characters) /\ Len(h) = Len(p) + Len(a) + Len(f)
      /\ \A k \in 1..Len(p) : h[k] = p[k]
      /\ \A k \in 1..Len(a) : h[Len(p) + k] = a[k]
      /\ \A k \in 1..Len(f) : h[Len(p) + Len(a) + k] = f[k]
  <2>1. p \in Seq(Characters) /\ a \in Seq(Characters) /\ f \in Seq(Characters)
    BY <1>1, <1>2, <1>3
  <2> HIDE DEF p
  <2> QED
    BY <2>1, Joined
<1>5. o = h \o q
  OBVIOUS
<1>6. /\ o \in Seq(Characters) /\ Len(o) = Len(h) + Len(q)
      /\ \A i \in 1..Len(h) + Len(q) : o[i] = IF i <= Len(h) THEN h[i] ELSE q[i - Len(h)]
  <2>1. h \in Seq(Characters) /\ q \in Seq(Characters)
    BY <1>1, <1>4
  <2>2. /\ h \o q \in Seq(Characters) /\ Len(h \o q) = Len(h) + Len(q)
        /\ \A i \in 1..Len(h) + Len(q) : (h \o q)[i] = IF i <= Len(h) THEN h[i] ELSE q[i - Len(h)]
    <3> HIDE DEF h, q
    <3> QED
      BY <2>1, ConcatProperties
  <2> HIDE DEF h, q
  <2> QED
    BY <1>5, <2>2
<1> HIDE DEF h, p, q
<1>7. Len(h) = Len(a) + Len(b) + 3
  BY <1>1, <1>2, <1>3, <1>4
<1>8. /\ Len(o) = Len(a) + Len(b) + 4 /\ o[Len(a) + Len(b) + 4] = "close"
      /\ \A i \in 1..Len(a) + Len(b) + 3 : o[i] = h[i]
  BY <1>1, <1>3, <1>6, <1>7
<1>9. o[1] = "open"
  BY <1>1, <1>3, <1>4, <1>8
<1>10. \A k \in 1..Len(a) : o[1 + k] = a[k]
  BY <1>1, <1>3, <1>4, <1>8
<1>11. o[Len(a) + 2] = "open" /\ o[Len(a) + Len(b) + 3] = "close"
  <2>1. h[1 + Len(a) + 1] = f[1] /\ h[1 + Len(a) + (Len(b) + 2)] = f[Len(b) + 2]
    BY <1>1, <1>2, <1>3, <1>4
  <2>2. 1 + Len(a) + 1 = Len(a) + 2 /\ 1 + Len(a) + (Len(b) + 2) = Len(a) + Len(b) + 3
    BY <1>3
  <2> QED
    BY <1>2, <1>3, <1>8, <2>1, <2>2
<1>12. \A k \in 1..Len(b) : o[Len(a) + 2 + k] = b[k]
  <2> SUFFICES ASSUME NEW k \in 1..Len(b) PROVE o[Len(a) + 2 + k] = b[k]
    OBVIOUS
  <2>1. h[1 + Len(a) + (1 + k)] = f[1 + k]
    BY <1>1, <1>2, <1>3, <1>4
  <2>2. 1 + Len(a) + (1 + k) = Len(a) + 2 + k /\ Len(a) + 2 + k \in 1..Len(a) + Len(b) + 3
    BY <1>3
  <2> QED
    BY <1>2, <1>8, <2>1, <2>2
<1>13. StringAt(o, 1, 1 + Len(a)) /\ StringAt(o, Len(a) + 2, Len(a) + 2 + Len(b))
  <2>1. StringAt(o, 1, 1 + Len(a))
    BY <1>10, SampleStrings
  <2>2. Len(a) + 2 \in Nat
    BY <1>3
  <2>3. StringAt(o, Len(a) + 2, (Len(a) + 2) + Len(b))
    BY <1>12, <2>2, SampleStrings
  <2> QED
    BY <2>1, <2>3
<1> DEFINE place == [k \in 0..6 |-> CASE k = 0 -> 0 [] k = 1 -> 1 [] k = 2 -> 1 + Len(a) [] k = 3 -> 2 + Len(a)
                                      [] k = 4 -> Len(a) + 2 + Len(b) [] k = 5 -> Len(a) + Len(b) + 3
                                      [] OTHER -> Len(a) + Len(b) + 4]
           depth == [k \in 0..6 |-> CASE k \in {0, 6} -> 0 [] k \in {3, 4} -> 2 [] OTHER -> 1]
<1>14. /\ place \in [0..6 -> Nat] /\ place[0] = 0 /\ place[1] = 1
       /\ place[2] = 1 + Len(a) /\ place[3] = 2 + Len(a) /\ place[4] = Len(a) + 2 + Len(b)
       /\ place[5] = Len(a) + Len(b) + 3 /\ place[6] = Len(a) + Len(b) + 4
  BY <1>3
<1>15. /\ depth \in [0..6 -> Nat] /\ depth[0] = 0 /\ depth[1] = 1 /\ depth[2] = 1 /\ depth[3] = 2
       /\ depth[4] = 2 /\ depth[5] = 1 /\ depth[6] = 0
  OBVIOUS
<1> HIDE DEF place, depth
<1>16. /\ TokenAt(o, place[0], place[1], depth[0], depth[1])
       /\ TokenAt(o, place[1], place[2], depth[1], depth[2])
       /\ TokenAt(o, place[2], place[3], depth[2], depth[3])
       /\ TokenAt(o, place[3], place[4], depth[3], depth[4])
       /\ TokenAt(o, place[4], place[5], depth[4], depth[5])
       /\ TokenAt(o, place[5], place[6], depth[5], depth[6])
  <2>1. TokenAt(o, 0, 1, 0, 1)
    BY <1>9 DEF TokenAt
  <2>2. TokenAt(o, 1, 1 + Len(a), 1, 1)
    BY <1>13 DEF TokenAt
  <2>3. TokenAt(o, 1 + Len(a), 2 + Len(a), 1, 2)
    BY <1>3, <1>11 DEF TokenAt
  <2>4. TokenAt(o, 2 + Len(a), Len(a) + 2 + Len(b), 2, 2)
    BY <1>3, <1>13 DEF TokenAt
  <2>5. TokenAt(o, Len(a) + 2 + Len(b), Len(a) + Len(b) + 3, 2, 1)
    <3> DEFINE j == Len(a) + Len(b) + 3
    <3>1. j = (Len(a) + 2 + Len(b)) + 1
      BY <1>3
    <3>2. o[j] = "close"
      BY <1>11
    <3> HIDE DEF j
    <3>3. 1 = 2 - 1
      OBVIOUS
    <3>4. TokenAt(o, Len(a) + 2 + Len(b), j, 2, 1)
      BY <3>1, <3>2, <3>3, Zenon DEF TokenAt
    <3> QED
      BY <3>4 DEF j
  <2>6. TokenAt(o, Len(a) + Len(b) + 3, Len(a) + Len(b) + 4, 1, 0)
    BY <1>3, <1>8 DEF TokenAt
  <2> QED
    BY <1>14, <1>15, <2>1, <2>2, <2>3, <2>4, <2>5, <2>6
<1>17. \A k \in 1..6 : TokenAt(o, place[k - 1], place[k], depth[k - 1], depth[k])
  <2> SUFFICES ASSUME NEW k \in 1..6 PROVE TokenAt(o, place[k - 1], place[k], depth[k - 1], depth[k])
    OBVIOUS
  <2>1. \/ (k = 1 /\ k - 1 = 0) \/ (k = 2 /\ k - 1 = 1) \/ (k = 3 /\ k - 1 = 2)
        \/ (k = 4 /\ k - 1 = 3) \/ (k = 5 /\ k - 1 = 4) \/ (k = 6 /\ k - 1 = 5)
    OBVIOUS
  <2> QED
    BY <1>16, <2>1
<1>18. \A k \in 1..5 : depth[k] > 0
  BY <1>15
<1>19. ObjectOf(o, 6, place, depth)
  BY <1>9, <1>14, <1>15, <1>17, <1>18 DEF ObjectOf
<1> QED
  BY <1>6, <1>8, <1>14, <1>19

\* What Microsoft sends in the samples is an object.
LEMMA SampleObjects ==
    ASSUME NEW o \in Texts!Objects
    PROVE  /\ o \in Seq(Characters)
           /\ \E m, place, depth : ObjectOf(o, m, place, depth) /\ place[m] = Len(o)
<1>1. CASE o \in Texts!FlatObjects
  BY <1>1, FlatObjectOf, SampleFlatObjects
<1>2. CASE o \notin Texts!FlatObjects
  <2>1. PICK a \in Texts!Strings, f \in Texts!FlatObjects : o = <<"open">> \o a \o f \o <<"close">>
    BY <1>2 DEF Texts!Objects
  <2> QED
    BY <2>1, NestedObjectOf
<1> QED
  BY <1>1, <1>2

\* Every object of the samples is cut where it ends, and no part of one is.
LEMMA ObjectsFaithful ==
    ASSUME sample \in [object : Texts!Objects, rest : Texts!UpTo({"close", "quote", "open"}, 1)]
    PROVE  Texts!ObjectFaithful
<1> DEFINE o == sample.object
           r == sample.rest
<1>1. o \in Seq(Characters) /\ Len(o) \in Nat /\ r \in Seq(Characters)
  <2>1. o \in Texts!Objects /\ r \in Texts!UpTo({"close", "quote", "open"}, 1)
    OBVIOUS
  <2>2. PICK k \in 0..1 : r \in [1..k -> {"close", "quote", "open"}]
    BY <2>1 DEF Texts!UpTo
  <2>3. r \in [1..k -> Characters] /\ k \in Nat
    BY <2>2 DEF Characters
  <2>4. r \in Seq(Characters)
    <3> HIDE DEF r
    <3> QED
      BY <2>3, SeqDef
  <2> QED
    BY <2>1, <2>4, SampleObjects, LenProperties
<1>2. PICK m, place, depth : ObjectOf(o, m, place, depth) /\ place[m] = Len(o)
  <2>1. o \in Texts!Objects
    OBVIOUS
  <2> QED
    BY <2>1, SampleObjects
<1> HIDE DEF o, r
<1>3. ASSUME NEW text, Len(text) \in Nat, \A k \in 1..Len(text) : k <= Len(o) => text[k] = o[k]
      PROVE  Texts!ExtractObject(text) = IF Len(o) <= Len(text) THEN Len(o) ELSE 0
  BY <1>1, <1>2, <1>3, ExtractsObject
<1>4. Texts!ExtractObject(o \o r) = Len(o)
  <2> DEFINE t == o \o r
  <2>1. /\ Len(t) = Len(o) + Len(r)
        /\ \A i \in 1..Len(o) + Len(r) : t[i] = IF i <= Len(o) THEN o[i] ELSE r[i - Len(o)]
    BY <1>1, ConcatProperties
  <2>2. Len(r) \in Nat
    BY <1>1, LenProperties
  <2> HIDE DEF t
  <2>3. Len(t) \in Nat /\ Len(o) <= Len(t) /\ \A k \in 1..Len(t) : k <= Len(o) => t[k] = o[k]
    BY <1>1, <2>1, <2>2
  <2>4. Texts!ExtractObject(t) = IF Len(o) <= Len(t) THEN Len(o) ELSE 0
    BY <1>3, <2>3
  <2> QED
    BY <2>3, <2>4 DEF t
<1>5. ASSUME NEW n \in 0..Len(o) - 1 PROVE Texts!ExtractObject(SubSeq(o, 1, n)) = 0
  <2> DEFINE t == SubSeq(o, 1, n)
  <2>1. \A i \in 1..n : o[i] \in Characters
    BY <1>1, ElementOfSeq
  <2>2. Len(t) = n /\ \A i \in 1..n : t[i] = o[i]
    BY <1>1, <2>1, SubSeqProperties
  <2> HIDE DEF t
  <2>3. Len(t) \in Nat /\ ~(Len(o) <= Len(t)) /\ \A k \in 1..Len(t) : k <= Len(o) => t[k] = o[k]
    BY <1>1, <2>2
  <2>4. Texts!ExtractObject(t) = IF Len(o) <= Len(t) THEN Len(o) ELSE 0
    BY <1>3, <2>3
  <2> QED
    BY <2>3, <2>4 DEF t
<1> QED
  BY <1>4, <1>5 DEF Texts!ObjectFaithful, o, r

-----------------------------------------------------------------------------
(* splitNotificationContent. *)
\* A message that has room beside a mark of two numbers of two digits, and beside its first one.
Roomy(message) ==
    /\ message.limit \in Nat /\ message.first \in Nat /\ message.payload \in Nat
    /\ message.limit >= message.first + Texts!MarkLength + 4 /\ message.limit > Texts!MarkLength + 4

\* The parts after each of the first n turns of the inner loop.
Cuts(c, message, count, n) ==
    \A k \in 1..n : c[k] = Texts!CutPart(message, k, count, c[k - 1])

\* The inner loop has its parts after every turn, and gives those after the last.
LEMMA CutTurns ==
    ASSUME NEW message, message.payload \in Nat, NEW count
    PROVE  \E c : /\ c[0] = <<>>
                  /\ Cuts(c, message, count, message.payload + 1)
                  /\ Texts!Cut(message, count) = c[message.payload + 1]
<1> DEFINE N == message.payload + 1
           F(f, n) == f = [i \in 0..n |-> IF i = 0 THEN <<>> ELSE Texts!CutPart(message, i, count, f[i - 1])]
           P == {n \in 0..N : \E f : F(f, n)}
<1>0. N \in Nat
  OBVIOUS
<1>1. 0 \in P
  <2> DEFINE f == [i \in 0..0 |-> <<>>]
  <2>1. F(f, 0)
    OBVIOUS
  <2> HIDE DEF f, F
  <2> QED
    BY <2>1
<1>2. ASSUME NEW n \in 1..N, n - 1 \in P PROVE n \in P
  <2>1. PICK f : F(f, n - 1)
    BY <1>2
  <2> DEFINE g == [i \in 0..n |-> IF i = n THEN Texts!CutPart(message, n, count, f[n - 1]) ELSE f[i]]
  <2>2. \A i \in 0..n - 1 : g[i] = f[i]
    OBVIOUS
  <2>3. \A i \in 0..n - 1 : f[i] = IF i = 0 THEN <<>> ELSE Texts!CutPart(message, i, count, f[i - 1])
    BY <2>1
  <2>4. \A i \in 0..n : g[i] = IF i = 0 THEN <<>> ELSE Texts!CutPart(message, i, count, g[i - 1])
    <3> SUFFICES ASSUME NEW i \in 0..n PROVE g[i] = IF i = 0 THEN <<>> ELSE Texts!CutPart(message, i, count, g[i - 1])
      OBVIOUS
    <3>1. CASE i = n
      <4>1. g[i] = Texts!CutPart(message, n, count, f[n - 1])
        BY <3>1
      <4>2. g[i - 1] = f[n - 1]
        BY <3>1, <2>2
      <4> QED
        BY <3>1, <4>1, <4>2
    <3>2. CASE i < n
      <4>1. i \in 0..n-1
        BY <3>2
      <4>2. i # 0 => i - 1 \in 0..n - 1
        BY <4>1
      <4> HIDE DEF g
      <4> QED
        BY <4>1, <4>2, <2>2, <2>3
    <3> QED
      BY <3>1, <3>2
  <2>5. F(g, n)
    BY <2>4
  <2> HIDE DEF g, F
  <2> QED
    BY <2>5
<1>3. \E f : F(f, N)
  <2> HIDE DEF F
  <2>1. \A n \in 0..N : n \in P
    <3> HIDE DEF P, N
    <3> QED
      BY <1>0, <1>1, <1>2, Turns
  <2> QED
    BY <2>1
<1> DEFINE c == CHOOSE f : F(f, N)
<1>4. F(c, N)
  <2> HIDE DEF F
  <2> QED
    BY <1>3
<1>5. Texts!Cut(message, count) = c[N]
  BY DEF Texts!Cut
<1> HIDE DEF c
<1>6. c[0] = <<>> /\ \A i \in 1..N : c[i] = Texts!CutPart(message, i, count, c[i - 1])
  BY <1>0, <1>4
<1> QED
  BY <1>5, <1>6 DEF Cuts

\* The shape of parts.
Fragments == [index : Nat, of : Nat, from : Nat, end : Nat]

\* The marks of up to ninety-nine parts leave room for some of the message.
LEMMA RoomBesideMark ==
    ASSUME NEW message, Roomy(message), NEW index \in Nat \ {0}, NEW count \in Nat
    PROVE  Texts!Capacity(message, index, count) \in Nat \ {0}
<1>1. Texts!NumberLength(index) \in {1, 2} /\ Texts!NumberLength(count) \in {1, 2} /\ (index = 1 => Texts!NumberLength(index) = 1)
  BY DEF Texts!NumberLength
<1> QED
  BY <1>1 DEF Roomy, Texts!Capacity, Texts!Prefix, Texts!MarkLength

\* A part has some of the message, no more than there is room for, unless none is left.
LEMMA PartsGrow ==
    ASSUME NEW message, Roomy(message), NEW index \in Nat \ {0}, NEW count \in Nat, NEW from \in 0..message.payload
    PROVE  LET piece == Texts!Part(message, index, count, from)
           IN  /\ piece \in Fragments /\ piece.index = index /\ piece.of = count /\ piece.from = from
               /\ piece.end <= message.payload /\ (piece.end > from \/ piece.end = message.payload)
               /\ piece.end <= from + Texts!Capacity(message, index, count)
<1>1. Texts!Capacity(message, index, count) \in Nat \ {0} /\ message.payload \in Nat
  BY RoomBesideMark DEF Roomy
<1> DEFINE end == from + Texts!Capacity(message, index, count)
           stop == IF end > message.payload THEN message.payload ELSE end
<1>2. Texts!Part(message, index, count, from) = [index |-> index, of |-> count, from |-> from, end |-> stop]
  BY DEF Texts!Part
<1>3. /\ stop \in Nat /\ stop <= message.payload /\ (stop > from \/ stop = message.payload)
      /\ stop <= from + Texts!Capacity(message, index, count)
  BY <1>1
<1> HIDE DEF end, stop
<1> QED
  BY <1>2, <1>3 DEF Fragments

\* Where a part starts.
From(parts, i) == IF i = 1 THEN 0 ELSE parts[i - 1].end

\* The first n parts of a message.
CutTo(message, count, parts, n) ==
    /\ parts \in Seq(Fragments) /\ Len(parts) = n
    /\ \A i \in 1..n : parts[i] = Texts!Part(message, i, count, From(parts, i))
    /\ \A i \in 1..n : parts[i].end <= message.payload /\ (parts[i].end >= i \/ parts[i].end = message.payload)
    /\ \A i \in 1..n - 1 : parts[i].end < message.payload

\* The parts of a message that is cut to its end.
IsCut(message, count, parts, n) ==
    CutTo(message, count, parts, n) /\ n \in Nat \ {0} /\ parts[n].end = message.payload

\* The first turn cuts the first part.
LEMMA FirstPart ==
    ASSUME NEW message, Roomy(message), NEW count \in Nat
    PROVE  CutTo(message, count, Texts!CutPart(message, 1, count, <<>>), 1)
<1> DEFINE p == Texts!Part(message, 1, count, 0)
           t == Append(<<>>, p)
<1>1. Texts!CutPart(message, 1, count, <<>>) = t
  BY RoomBesideMark DEF Texts!CutPart, Texts!Position
<1>2. message.payload \in Nat
  BY DEF Roomy
<1>3. p \in Fragments /\ p.end <= message.payload /\ (p.end > 0 \/ p.end = message.payload)
  BY <1>2, PartsGrow
<1>4. t \in Seq(Fragments) /\ Len(t) = 1 /\ t[1] = p
  <2> HIDE DEF p
  <2> QED
    BY <1>3
<1>5. p.end \in Nat
  BY <1>3 DEF Fragments
<1>6. p = Texts!Part(message, 1, count, From(t, 1))
  BY DEF From
<1> HIDE DEF p, t
<1> QED
  BY <1>1, <1>2, <1>3, <1>4, <1>5, <1>6 DEF CutTo

\* A turn cuts another part after the last one, until the message ends.
LEMMA NextPart ==
    ASSUME NEW message, Roomy(message), NEW count \in Nat, NEW n \in Nat \ {0}, NEW parts, CutTo(message, count, parts, n)
    PROVE  /\ parts[n].end = message.payload => Texts!CutPart(message, n + 1, count, parts) = parts
           /\ parts[n].end < message.payload => CutTo(message, count, Texts!CutPart(message, n + 1, count, parts), n + 1)
<1>1. parts \in Seq(Fragments) /\ Len(parts) = n /\ parts[n] \in Fragments /\ message.payload \in Nat
      /\ parts[n].end <= message.payload /\ (parts[n].end >= n \/ parts[n].end = message.payload)
  BY DEF CutTo, Roomy
<1>2. parts[n].end \in Nat /\ parts # <<>> /\ Texts!Position(parts) = parts[n].end
  BY <1>1 DEF Fragments, Texts!Position
<1>3. CASE parts[n].end = message.payload
  BY <1>1, <1>2, <1>3 DEF Texts!CutPart
<1>4. CASE parts[n].end < message.payload
  <2> DEFINE p == Texts!Part(message, n + 1, count, parts[n].end)
             t == Append(parts, p)
  <2>1. Texts!CutPart(message, n + 1, count, parts) = t
    <3>1. Texts!Capacity(message, n + 1, count) \in Nat \ {0}
      BY RoomBesideMark
    <3> QED
      BY <1>1, <1>2, <1>4, <3>1 DEF Texts!CutPart
  <2>2. p \in Fragments /\ p.end <= message.payload /\ (p.end > parts[n].end \/ p.end = message.payload)
    BY <1>1, <1>2, PartsGrow
  <2>3. t \in Seq(Fragments) /\ Len(t) = n + 1 /\ t[n + 1] = p /\ \A i \in 1..n : t[i] = parts[i]
    <3> HIDE DEF p
    <3> QED
      BY <1>1, <2>2, AppendProperties
  <2>4. p.end \in Nat
    BY <2>2 DEF Fragments
  <2>5. \A i \in 1..n + 1 : t[i] = Texts!Part(message, i, count, From(t, i))
    <3> SUFFICES ASSUME NEW i \in 1..n + 1 PROVE t[i] = Texts!Part(message, i, count, From(t, i))
      OBVIOUS
    <3>1. CASE i = n + 1
      <4>1. From(t, i) = parts[n].end
        <5> HIDE DEF t
        <5> QED
          BY <2>3, <3>1 DEF From
      <4> HIDE DEF t
      <4> QED
        BY <2>3, <3>1, <4>1
    <3>2. CASE i # n + 1
      <4>1. From(t, i) = From(parts, i)
        <5> HIDE DEF t
        <5> QED
          BY <2>3, <3>2 DEF From
      <4>2. parts[i] = Texts!Part(message, i, count, From(parts, i))
        BY <3>2 DEF CutTo
      <4> HIDE DEF t
      <4> QED
        BY <2>3, <3>2, <4>1, <4>2
    <3> QED
      BY <3>1, <3>2
  <2>6. \A i \in 1..n + 1 : t[i].end <= message.payload /\ (t[i].end >= i \/ t[i].end = message.payload)
    <3> SUFFICES ASSUME NEW i \in 1..n + 1
                 PROVE  t[i].end <= message.payload /\ (t[i].end >= i \/ t[i].end = message.payload)
      OBVIOUS
    <3> HIDE DEF t, p
    <3>1. CASE i = n + 1
      <4>1. p.end > parts[n].end => p.end >= n + 1
        BY <1>1, <1>2, <1>4, <2>4
      <4> QED
        BY <2>2, <2>3, <3>1, <4>1
    <3>2. CASE i # n + 1
      <4>1. i \in 1..n
        BY <3>2
      <4>2. parts[i].end <= message.payload /\ (parts[i].end >= i \/ parts[i].end = message.payload)
        BY <4>1 DEF CutTo
      <4> QED
        BY <2>3, <4>1, <4>2
    <3> QED
      BY <3>1, <3>2
  <2>7. \A i \in 1..n : t[i].end < message.payload
    <3> HIDE DEF t, p
    <3> QED
      BY <1>4, <2>3 DEF CutTo
  <2> HIDE DEF t, p
  <2>8. CutTo(message, count, t, n + 1)
    BY <2>3, <2>5, <2>6, <2>7 DEF CutTo
  <2> QED
    BY <1>1, <1>2, <1>4, <2>1, <2>8
<1> QED
  BY <1>1, <1>2, <1>3, <1>4

\* What the first i turns make of a message.
CutIn(message, count, parts, i) ==
    \E n \in Nat \ {0} : CutTo(message, count, parts, n) /\ n <= i /\ (n = i \/ parts[n].end = message.payload)

\* What is known of the parts after a turn.
LEMMA CutTurn ==
    ASSUME NEW message, Roomy(message), NEW count \in Nat, NEW k \in Nat \ {0}, NEW parts, CutIn(message, count, parts, k)
    PROVE  CutIn(message, count, Texts!CutPart(message, k + 1, count, parts), k + 1)
<1>1. PICK n \in Nat \ {0} : CutTo(message, count, parts, n) /\ n <= k /\ (n = k \/ parts[n].end = message.payload)
  BY DEF CutIn
<1>2. CASE parts[n].end = message.payload
  <2>1. parts # <<>> /\ Texts!Position(parts) = message.payload /\ message.payload \in Nat
    BY <1>1, <1>2 DEF CutTo, Texts!Position, Roomy
  <2>2. Texts!CutPart(message, k + 1, count, parts) = parts
    BY <2>1 DEF Texts!CutPart
  <2> QED
    BY <1>1, <1>2, <2>2 DEF CutIn
<1>3. CASE parts[n].end # message.payload
  <2>1. n = k /\ parts[k].end < message.payload
    <3>1. parts[n].end <= message.payload /\ parts[n] \in Fragments /\ message.payload \in Nat
      BY <1>1 DEF CutTo, Roomy
    <3> QED
      BY <1>1, <1>3, <3>1 DEF Fragments
  <2> DEFINE next == Texts!CutPart(message, k + 1, count, parts)
  <2>2. CutTo(message, count, next, k + 1)
    BY <1>1, <2>1, NextPart
  <2> HIDE DEF next
  <2>3. k + 1 \in Nat \ {0} /\ k + 1 <= k + 1
    OBVIOUS
  <2> QED
    BY <2>2, <2>3 DEF CutIn, next
<1> QED
  BY <1>2, <1>3

\* The parts are cut to the end of the message.
LEMMA CutWhole ==
    ASSUME NEW message, Roomy(message), NEW count \in Nat
    PROVE  \E n : IsCut(message, count, Texts!Cut(message, count), n)
<1> DEFINE N == message.payload + 1
<1>0. message.payload \in Nat /\ N \in Nat
  BY DEF Roomy
<1>1. PICK c : /\ c[0] = <<>> /\ Cuts(c, message, count, N) /\ Texts!Cut(message, count) = c[N]
  BY <1>0, CutTurns
<1> DEFINE P == {k \in 0..message.payload : CutIn(message, count, c[k + 1], k + 1)}
<1>2. 0 \in P
  <2>1. c[1] = Texts!CutPart(message, 1, count, <<>>)
    BY <1>0, <1>1 DEF Cuts
  <2>2. CutTo(message, count, c[1], 1)
    BY <2>1, FirstPart
  <2>3. CutIn(message, count, c[1], 1)
    BY <2>2 DEF CutIn
  <2> QED
    BY <1>0, <2>3
<1>3. ASSUME NEW k \in 1..message.payload, k - 1 \in P PROVE k \in P
  <2>1. CutIn(message, count, c[k], k) /\ k \in Nat \ {0}
    <3>1. (k - 1) + 1 = k
      BY <1>0
    <3> QED
      BY <1>0, <1>3, <3>1
  <2>2. c[k + 1] = Texts!CutPart(message, k + 1, count, c[k])
    <3>1. k + 1 \in 1..N /\ (k + 1) - 1 = k
      BY <1>0
    <3> QED
      BY <1>1, <3>1 DEF Cuts
  <2>3. CutIn(message, count, c[k + 1], k + 1)
    BY <2>1, <2>2, CutTurn
  <2> QED
    BY <1>0, <2>3
<1>4. CutIn(message, count, c[N], N)
  <2> HIDE DEF P
  <2>1. \A k \in 0..message.payload : k \in P
    BY <1>0, <1>2, <1>3, Turns
  <2> QED
    BY <1>0, <2>1 DEF P
<1>5. PICK n \in Nat \ {0} : /\ CutTo(message, count, c[N], n) /\ n <= N
                             /\ n = N \/ c[N][n].end = message.payload
  BY <1>4 DEF CutIn
<1>6. c[N][n].end = message.payload
  <2> SUFFICES ASSUME n = N PROVE c[N][n].end = message.payload
    BY <1>5
  <2>1. /\ c[N][n].end <= message.payload /\ (c[N][n].end >= n \/ c[N][n].end = message.payload)
        /\ c[N][n] \in Fragments
    BY <1>5 DEF CutTo
  <2> QED
    BY <1>0, <2>1 DEF Fragments
<1> HIDE DEF N
<1>7. IsCut(message, count, c[N], n)
  BY <1>5, <1>6 DEF IsCut
<1> QED
  BY <1>1, <1>7

\* A part with a longer mark that starts no later ends no later.
LEMMA LongerMarks ==
    ASSUME NEW message, Roomy(message), NEW index \in Nat \ {0}, NEW c \in Nat, NEW d \in Nat,
           Texts!NumberLength(c) <= Texts!NumberLength(d),
           NEW from \in 0..message.payload, NEW start \in 0..message.payload, start <= from
    PROVE  Texts!Part(message, index, d, start).end <= Texts!Part(message, index, c, from).end
<1> DEFINE p == Texts!Capacity(message, index, c)
           q == Texts!Capacity(message, index, d)
<1>1. p \in Nat \ {0} /\ q \in Nat \ {0} /\ message.payload \in Nat
  BY RoomBesideMark DEF Roomy
<1>2. q <= p
  <2>1. /\ message.limit \in Nat /\ message.first \in Nat /\ Texts!NumberLength(index) \in Nat
        /\ Texts!NumberLength(c) \in Nat /\ Texts!NumberLength(d) \in Nat
    BY DEF Roomy, Texts!NumberLength
  <2> QED
    BY <2>1 DEF Texts!Capacity, Texts!Prefix, Texts!MarkLength
<1> HIDE DEF p, q
<1>3. /\ Texts!Part(message, index, c, from).end = IF from + p > message.payload THEN message.payload ELSE from + p
      /\ Texts!Part(message, index, d, start).end = IF start + q > message.payload THEN message.payload ELSE start + q
  BY DEF Texts!Part, p, q
<1> QED
  BY <1>1, <1>2, <1>3

\* What a message that is cut to its end consists of.
LEMMA CutParts ==
    ASSUME NEW message, Roomy(message), NEW count, NEW parts, NEW n, IsCut(message, count, parts, n)
    PROVE  /\ n \in Nat \ {0} /\ Len(parts) = n /\ parts \in Seq(Fragments) /\ message.payload \in Nat
           /\ parts[n].end = message.payload
           /\ \A i \in 1..n : /\ parts[i] = Texts!Part(message, i, count, From(parts, i))
                              /\ From(parts, i) \in 0..message.payload /\ parts[i].end \in 0..message.payload
           /\ \A i \in 1..n - 1 : parts[i].end < message.payload
<1>1. /\ n \in Nat \ {0} /\ Len(parts) = n /\ parts \in Seq(Fragments) /\ message.payload \in Nat
      /\ parts[n].end = message.payload
  BY DEF IsCut, CutTo, Roomy
<1>2. \A i \in 1..n : parts[i].end \in 0..message.payload
  <2> SUFFICES ASSUME NEW i \in 1..n PROVE parts[i].end \in 0..message.payload
    OBVIOUS
  <2>1. parts[i] \in Fragments /\ parts[i].end <= message.payload
    BY <1>1 DEF IsCut, CutTo
  <2> QED
    BY <1>1, <2>1 DEF Fragments
<1>3. \A i \in 1..n : From(parts, i) \in 0..message.payload
  BY <1>1, <1>2 DEF From
<1> QED
  BY <1>1, <1>2, <1>3 DEF IsCut, CutTo

\* With longer marks there is no part that ends later, and there are no fewer parts.
LEMMA NoFewerParts ==
    ASSUME NEW message, Roomy(message), NEW c \in Nat, NEW d \in Nat, Texts!NumberLength(c) <= Texts!NumberLength(d),
           NEW a, NEW m, IsCut(message, c, a, m), NEW b, NEW n, IsCut(message, d, b, n)
    PROVE  m <= n
<1>1. /\ m \in Nat \ {0} /\ message.payload \in Nat
      /\ \A i \in 1..m : /\ a[i] = Texts!Part(message, i, c, From(a, i))
                         /\ From(a, i) \in 0..message.payload /\ a[i].end \in 0..message.payload
      /\ \A i \in 1..m - 1 : a[i].end < message.payload
  BY CutParts
<1>2. /\ n \in Nat \ {0} /\ b[n].end = message.payload
      /\ \A i \in 1..n : /\ b[i] = Texts!Part(message, i, d, From(b, i))
                         /\ From(b, i) \in 0..message.payload /\ b[i].end \in 0..message.payload
  BY CutParts
<1> SUFFICES ASSUME n < m PROVE FALSE
  BY <1>1, <1>2
<1> DEFINE P == {k \in 0..n - 1 : b[k + 1].end <= a[k + 1].end}
<1>3. ASSUME NEW i \in 1..n, From(b, i) <= From(a, i) PROVE b[i].end <= a[i].end
  <2>1. i \in 1..m /\ i \in Nat \ {0}
    BY <1>1, <1>2
  <2>2. a[i] = Texts!Part(message, i, c, From(a, i)) /\ From(a, i) \in 0..message.payload
    BY <1>1, <2>1
  <2>3. b[i] = Texts!Part(message, i, d, From(b, i)) /\ From(b, i) \in 0..message.payload
    BY <1>2
  <2>4. Texts!Part(message, i, d, From(b, i)).end <= Texts!Part(message, i, c, From(a, i)).end
    BY <1>3, <2>1, <2>2, <2>3, LongerMarks
  <2> QED
    BY <2>2, <2>3, <2>4
<1>4. 0 \in P
  <2>1. From(b, 1) <= From(a, 1)
    BY DEF From
  <2> QED
    BY <1>2, <1>3, <2>1
<1>5. ASSUME NEW k \in 1..n - 1, k - 1 \in P PROVE k \in P
  <2>1. b[(k - 1) + 1].end <= a[(k - 1) + 1].end /\ (k - 1) + 1 = k /\ k + 1 \in 1..n /\ (k + 1) - 1 = k
    BY <1>2, <1>5
  <2>2. From(b, k + 1) <= From(a, k + 1)
    BY <2>1 DEF From
  <2> QED
    BY <1>3, <2>1, <2>2
<1>6. n - 1 \in P
  <2>1. n - 1 \in Nat /\ n - 1 \in 0..n - 1
    BY <1>2
  <2> HIDE DEF P
  <2>2. \A k \in 0..n - 1 : k \in P
    BY <1>4, <1>5, <2>1, Turns
  <2> QED
    BY <2>1, <2>2
<1>7. b[n].end <= a[n].end
  <2>1. (n - 1) + 1 = n
    BY <1>2
  <2> QED
    BY <1>6, <2>1
<1>8. a[n].end < message.payload /\ a[n].end \in Nat
  <2>1. n \in 1..m - 1 /\ n \in 1..m
    BY <1>1, <1>2
  <2> QED
    BY <1>1, <2>1
<1> QED
  BY <1>1, <1>2, <1>7, <1>8

\* The parts of a message, and whether they are as many as is said.
LEMMA CutAsSaid ==
    ASSUME NEW message, Roomy(message), NEW count \in Nat
    PROVE  /\ IsCut(message, count, Texts!Cut(message, count), Len(Texts!Cut(message, count)))
           /\ Len(Texts!Cut(message, count)) \in Nat \ {0} /\ Texts!Cut(message, count) # <<>>
           /\ Texts!Settled(Texts!Cut(message, count)) <=> Len(Texts!Cut(message, count)) = count
<1> DEFINE parts == Texts!Cut(message, count)
<1>1. PICK n : IsCut(message, count, parts, n)
  BY CutWhole
<1> HIDE DEF parts
<1>2. n \in Nat \ {0} /\ Len(parts) = n /\ parts[1] = Texts!Part(message, 1, count, From(parts, 1))
      /\ From(parts, 1) \in 0..message.payload
  <2>1. n \in Nat \ {0} => 1 \in 1..n
    OBVIOUS
  <2> QED
    BY <1>1, <2>1, CutParts
<1>3. parts # <<>>
  BY <1>2
<1>4. parts[1].of = count
  BY <1>2, PartsGrow
<1> QED
  BY <1>1, <1>2, <1>3, <1>4 DEF Texts!Settled, parts

\* What another round makes of the parts.
NextRound(message, parts) == IF Texts!Settled(parts) THEN parts ELSE Texts!Cut(message, Len(parts))

\* The rounds of the outer loop are the first and two more.
LEMMA Rounds ==
    ASSUME NEW message
    PROVE  Texts!SplitNotification(message) = NextRound(message, NextRound(message, Texts!Cut(message, 1)))
<1> DEFINE F(f) == f = [i \in 1..Texts!MaxRounds |->
                           IF i = 1 THEN Texts!Cut(message, 1)
                           ELSE IF Texts!Settled(f[i - 1]) THEN f[i - 1] ELSE Texts!Cut(message, Len(f[i - 1]))]
           p == Texts!Cut(message, 1)
           q == NextRound(message, p)
           t == NextRound(message, q)
           g == [i \in 1..3 |-> IF i = 1 THEN p ELSE IF i = 2 THEN q ELSE t]
<1>1. g[1] = p /\ g[2] = q /\ g[3] = t
  OBVIOUS
<1>2. F(g)
  <2> SUFFICES ASSUME NEW i \in 1..3
               PROVE  g[i] = IF i = 1 THEN Texts!Cut(message, 1)
                             ELSE IF Texts!Settled(g[i - 1]) THEN g[i - 1] ELSE Texts!Cut(message, Len(g[i - 1]))
    BY DEF Texts!MaxRounds
  <2>1. CASE i = 1
    BY <1>1, <2>1
  <2>2. CASE i = 2
    <3>1. i - 1 = 1 /\ g[i] = q /\ g[1] = p
      BY <1>1, <2>2
    <3>2. q = IF Texts!Settled(p) THEN p ELSE Texts!Cut(message, Len(p))
      BY DEF NextRound
    <3> HIDE DEF g, p, q
    <3> QED
      BY <2>2, <3>1, <3>2
  <2>3. CASE i = 3
    <3>1. i - 1 = 2 /\ g[i] = t /\ g[2] = q
      BY <1>1, <2>3
    <3>2. t = IF Texts!Settled(q) THEN q ELSE Texts!Cut(message, Len(q))
      BY DEF NextRound
    <3> HIDE DEF g, q, t
    <3> QED
      BY <2>3, <3>1, <3>2
  <2> QED
    BY <2>1, <2>2, <2>3
<1> DEFINE r == CHOOSE f : F(f)
<1>3. F(r)
  <2> HIDE DEF F, g
  <2> QED
    BY <1>2
<1>4. Texts!SplitNotification(message) = r[Texts!MaxRounds]
  BY DEF Texts!SplitNotification
<1> HIDE DEF r, g
<1>5. r[1] = p /\ r[2] = q /\ r[3] = t
  <2>1. r[1] = Texts!Cut(message, 1)
    BY <1>3 DEF Texts!MaxRounds
  <2>2. r[2] = IF Texts!Settled(r[1]) THEN r[1] ELSE Texts!Cut(message, Len(r[1]))
    BY <1>3 DEF Texts!MaxRounds
  <2>3. r[3] = IF Texts!Settled(r[2]) THEN r[2] ELSE Texts!Cut(message, Len(r[2]))
    BY <1>3 DEF Texts!MaxRounds
  <2> HIDE DEF F
  <2> QED
    BY <2>1, <2>2, <2>3 DEF NextRound
<1> QED
  BY <1>4, <1>5 DEF Texts!MaxRounds

\* The loop settles on the parts there are: a longer number makes more parts, but there are
\* only two lengths (splitNotificationContent).
THEOREM SplitSettles ==
    ASSUME NEW message, Roomy(message)
    PROVE  LET parts == Texts!SplitNotification(message)
           IN  Len(parts) \in Nat \ {0} /\ IsCut(message, Len(parts), parts, Len(parts))
<1> DEFINE p == Texts!Cut(message, 1)
           m == Len(p)
           q == Texts!Cut(message, m)
           n == Len(q)
           t == Texts!Cut(message, n)
<1>1. IsCut(message, 1, p, m) /\ m \in Nat \ {0} /\ (Texts!Settled(p) <=> m = 1)
  BY CutAsSaid
<1> HIDE DEF p
<1>2. IsCut(message, m, q, n) /\ n \in Nat \ {0} /\ (Texts!Settled(q) <=> n = m)
  <2> HIDE DEF m
  <2> QED
    BY <1>1, CutAsSaid DEF q, n
<1> HIDE DEF m, q
<1>3. IsCut(message, n, t, Len(t)) /\ Len(t) \in Nat \ {0}
  <2> HIDE DEF n
  <2> QED
    BY <1>2, CutAsSaid
<1> HIDE DEF n, t
<1>4. CASE m = 1
  <2>1. Texts!SplitNotification(message) = p
    BY <1>1, <1>4, Rounds DEF NextRound, p
  <2> QED
    BY <1>1, <1>4, <2>1 DEF m
<1>5. CASE m # 1 /\ n = m
  <2>1. Texts!SplitNotification(message) = q
    BY <1>1, <1>2, <1>5, Rounds DEF NextRound, p, q, m
  <2> QED
    BY <1>2, <1>5, <2>1 DEF n
<1>6. CASE m # 1 /\ n # m
  <2>1. Texts!SplitNotification(message) = t
    BY <1>1, <1>2, <1>6, Rounds DEF NextRound, p, q, t, m, n
  <2>2. Texts!NumberLength(1) = 1 /\ Texts!NumberLength(m) \in {1, 2} /\ Texts!NumberLength(n) \in {1, 2}
    BY DEF Texts!NumberLength
  <2>3. m <= n
    BY <1>1, <1>2, <2>2, NoFewerParts
  <2>4. Texts!NumberLength(m) = 2
    <3> SUFFICES ASSUME Texts!NumberLength(m) = 1 PROVE FALSE
      BY <2>2
    <3>1. n <= m
      BY <1>1, <1>2, <2>2, NoFewerParts
    <3> QED
      BY <1>1, <1>2, <1>6, <2>3, <3>1
  <2>5. Texts!NumberLength(n) = 2
    BY <1>1, <1>2, <2>3, <2>4 DEF Texts!NumberLength
  <2>6. Len(t) <= n /\ n <= Len(t)
    BY <1>1, <1>2, <1>3, <2>4, <2>5, NoFewerParts
  <2>7. Len(t) = n
    BY <1>2, <1>3, <2>6
  <2> QED
    BY <1>2, <1>3, <2>1, <2>7
<1> QED
  BY <1>4, <1>5, <1>6

\* Every message with room beside the marks is split as it should be.
LEMMA MessagesFaithful ==
    ASSUME Texts!IsMessage => Roomy(sample)
    PROVE  Texts!SplitFaithful
<1> SUFFICES ASSUME Roomy(sample)
             PROVE  LET parts == Texts!SplitNotification(sample)
                    IN  parts # <<>> /\ \A i \in DOMAIN parts :
                            /\ parts[i].index = i /\ parts[i].of = Len(parts)
                            /\ parts[i].from = IF i = 1 THEN 0 ELSE parts[i - 1].end
                            /\ i = Len(parts) => parts[i].end = sample.payload
                            /\ sample.limit >= parts[i].end - parts[i].from
                                   + Texts!NumberLength(i) + Texts!NumberLength(Len(parts)) + Texts!MarkLength
                                   + (IF i = 1 THEN sample.first ELSE 0)
  BY DEF Texts!SplitFaithful
<1> DEFINE parts == Texts!SplitNotification(sample)
           n == Len(parts)
<1>1. n \in Nat \ {0} /\ IsCut(sample, n, parts, n)
  BY SplitSettles
<1> HIDE DEF parts
<1>2. /\ parts \in Seq(Fragments) /\ parts[n].end = sample.payload
      /\ \A i \in 1..n : /\ parts[i] = Texts!Part(sample, i, n, From(parts, i))
                         /\ From(parts, i) \in 0..sample.payload /\ parts[i].end \in 0..sample.payload
  <2> HIDE DEF n
  <2> QED
    BY <1>1, CutParts
<1>3. parts # <<>> /\ DOMAIN parts = 1..n
  BY <1>1, <1>2
<1> HIDE DEF n
<1>4. ASSUME NEW i \in 1..n
      PROVE  /\ parts[i].index = i /\ parts[i].of = n
             /\ parts[i].from = IF i = 1 THEN 0 ELSE parts[i - 1].end
             /\ i = n => parts[i].end = sample.payload
             /\ sample.limit >= parts[i].end - parts[i].from
                    + Texts!NumberLength(i) + Texts!NumberLength(n) + Texts!MarkLength
                    + (IF i = 1 THEN sample.first ELSE 0)
  <2>1. parts[i] = Texts!Part(sample, i, n, From(parts, i)) /\ From(parts, i) \in 0..sample.payload
        /\ parts[i].end \in 0..sample.payload
    BY <1>2
  <2>2. /\ parts[i].index = i /\ parts[i].of = n /\ parts[i].from = From(parts, i)
        /\ parts[i].end <= From(parts, i) + Texts!Capacity(sample, i, n)
    <3>1. i \in Nat \ {0} /\ n \in Nat
      BY <1>1
    <3> DEFINE piece == Texts!Part(sample, i, n, From(parts, i))
    <3>2. piece.index = i /\ piece.of = n /\ piece.from = From(parts, i) /\ piece.end <= From(parts, i) + Texts!Capacity(sample, i, n)
      BY <2>1, <3>1, PartsGrow
    <3>3. parts[i] = piece
      BY <2>1
    <3> HIDE DEF piece
    <3> QED
      BY <3>2, <3>3
  <2>3. sample.limit >= parts[i].end - parts[i].from
            + Texts!NumberLength(i) + Texts!NumberLength(n) + Texts!MarkLength + (IF i = 1 THEN sample.first ELSE 0)
    <3>1. /\ sample.limit \in Nat /\ sample.first \in Nat /\ sample.payload \in Nat
          /\ Texts!NumberLength(i) \in Nat /\ Texts!NumberLength(n) \in Nat
      BY DEF Roomy, Texts!NumberLength
    <3>2. Texts!Capacity(sample, i, n) = sample.limit - (Texts!MarkLength + Texts!NumberLength(i) + Texts!NumberLength(n)
                                       + (IF i = 1 THEN sample.first ELSE 0))
      BY DEF Texts!Capacity, Texts!Prefix
    <3>3. Texts!MarkLength \in Nat
      BY DEF Texts!MarkLength
    <3> QED
      BY <2>1, <2>2, <3>1, <3>2, <3>3
  <2> QED
    BY <1>2, <2>1, <2>2, <2>3 DEF From
<1> QED
  BY <1>3, <1>4 DEF parts, n

-----------------------------------------------------------------------------
(* ParseDelta. *)
Parses(s, text, n) == \A k \in 1..n : s[k] = Texts!Turn(text, s[k - 1])

\* The loop has a state after every turn, and gives the last one.
LEMMA DeltaTurns ==
    ASSUME NEW text, Len(text) \in Nat
    PROVE  \E s : /\ s[0] = Texts!Parsed /\ Parses(s, text, Len(text))
                  /\ Texts!ParseDelta(text) = s[Len(text)]
<1> DEFINE N == Len(text)
           F(f, n) == f = [i \in 0..n |-> IF i = 0 THEN Texts!Parsed ELSE Texts!Turn(text, f[i - 1])]
           P == {n \in 0..N : \E f : F(f, n)}
<1>1. 0 \in P
  <2> DEFINE f == [i \in 0..0 |-> Texts!Parsed]
  <2>1. F(f, 0)
    OBVIOUS
  <2> HIDE DEF f, F
  <2> QED
    BY <2>1
<1>2. ASSUME NEW n \in 1..N, n - 1 \in P PROVE n \in P
  <2>1. PICK f : F(f, n - 1)
    BY <1>2
  <2> DEFINE g == [i \in 0..n |-> IF i = n THEN Texts!Turn(text, f[n - 1]) ELSE f[i]]
  <2>2. \A i \in 0..n - 1 : g[i] = f[i]
    OBVIOUS
  <2>3. \A i \in 0..n - 1 : f[i] = IF i = 0 THEN Texts!Parsed ELSE Texts!Turn(text, f[i - 1])
    BY <2>1
  <2>4. \A i \in 0..n : g[i] = IF i = 0 THEN Texts!Parsed ELSE Texts!Turn(text, g[i - 1])
    <3> SUFFICES ASSUME NEW i \in 0..n PROVE g[i] = IF i = 0 THEN Texts!Parsed ELSE Texts!Turn(text, g[i - 1])
      OBVIOUS
    <3>1. CASE i = n
      <4>1. g[i] = Texts!Turn(text, f[n - 1])
        BY <3>1
      <4>2. g[i - 1] = f[n - 1]
        BY <3>1, <2>2
      <4> QED
        BY <3>1, <4>1, <4>2
    <3>2. CASE i < n
      <4>1. i \in 0..n-1
        BY <3>2
      <4>2. i # 0 => i - 1 \in 0..n - 1
        BY <4>1
      <4> HIDE DEF g
      <4> QED
        BY <4>1, <4>2, <2>2, <2>3
    <3> QED
      BY <3>1, <3>2
  <2>5. F(g, n)
    BY <2>4
  <2> HIDE DEF g, F
  <2> QED
    BY <2>5
<1>3. \E f : F(f, N)
  <2> HIDE DEF F
  <2>1. \A n \in 0..N : n \in P
    <3> HIDE DEF P
    <3> QED
      BY <1>1, <1>2, Turns
  <2> QED
    BY <2>1
<1> DEFINE s == CHOOSE f : F(f, N)
<1>4. F(s, N)
  <2> HIDE DEF F
  <2> QED
    BY <1>3
<1>5. Texts!ParseDelta(text) = s[N]
  BY DEF Texts!ParseDelta
<1> HIDE DEF s
<1>6. s[0] = Texts!Parsed /\ \A i \in 1..N : s[i] = Texts!Turn(text, s[i - 1])
  BY <1>4
<1> QED
  BY <1>5, <1>6 DEF Parses

\* A text that breaks off somewhere in another.
Begins(text, full) == \A k \in 1..Len(text) : text[k] = full[k]

\* A field of narrow characters, up to its bar.
FieldAt(full, cur, field) ==
    /\ \A k \in 1..Len(field) : full[cur + k] = field[k] /\ field[k] \notin {"|", "w"}
    /\ full[cur + Len(field) + 1] = "|"

\* A field whose bar is in the text is read, whatever follows.
LEMMA FieldRead ==
    ASSUME NEW S, NEW text \in Seq(S), NEW field \in Seq(S), NEW cur \in Nat,
           FieldAt(text, cur, field), cur + Len(field) + 1 <= Len(text)
    PROVE  /\ Texts!Readable(text, cur) /\ Texts!FieldEnd(text, cur) = cur + Len(field) /\ Texts!Field(text, cur) = field
<1> DEFINE b == cur + Len(field) + 1
           t == SubSeq(text, cur + 1, b - 1)
<1>0. Len(field) \in Nat /\ Len(text) \in Nat
  BY LenProperties
<1>1. b \in Texts!Bars(text, cur) /\ \A j \in Texts!Bars(text, cur) : b <= j
  <2>1. b \in Texts!Bars(text, cur)
    BY <1>0 DEF Texts!Bars, FieldAt
  <2>2. ASSUME NEW j \in Texts!Bars(text, cur) PROVE b <= j
    <3>1. j \in cur + 1..Len(text) /\ text[j] = "|"
      BY DEF Texts!Bars
    <3>2. ASSUME j < b PROVE FALSE
      <4>1. j - cur \in 1..Len(field) /\ cur + (j - cur) = j
        BY <1>0, <3>1, <3>2
      <4>2. text[cur + (j - cur)] = field[j - cur] /\ field[j - cur] # "|"
        BY <4>1 DEF FieldAt
      <4> QED
        BY <3>1, <4>1, <4>2
    <3> QED
      BY <1>0, <3>1, <3>2
  <2> QED
    BY <2>1, <2>2
<1>2. Texts!Bar(text, cur) = b
  <2>1. \A i \in Texts!Bars(text, cur) : i \in Int
    BY <1>0 DEF Texts!Bars
  <2> DEFINE x == Texts!Bar(text, cur)
  <2>2. x \in Texts!Bars(text, cur) /\ \A j \in Texts!Bars(text, cur) : x <= j
    BY <1>1 DEF Texts!Bar
  <2> HIDE DEF x, b
  <2>3. x <= b /\ b <= x /\ x \in Int /\ b \in Int
    BY <1>1, <2>1, <2>2
  <2> QED
    BY <2>3 DEF x
<1>3. t \in Seq(S) /\ Len(t) = Len(field) /\ \A i \in 1..Len(field) : t[i] = text[cur + i]
  <2>1. \A i \in cur + 1..b - 1 : text[i] \in S
    BY <1>0, ElementOfSeq
  <2>2. cur + 1 \in Int /\ b - 1 \in Int
    BY <1>0
  <2>3. /\ t \in Seq(S) /\ Len(t) = IF cur + 1 <= b - 1 THEN (b - 1) - (cur + 1) + 1 ELSE 0
        /\ \A i \in 1..(b - 1) - (cur + 1) + 1 : t[i] = text[cur + 1 + i - 1]
    <3> HIDE DEF b
    <3> QED
      BY <2>1, <2>2, SubSeqProperties
  <2> HIDE DEF t
  <2>4. (b - 1) - (cur + 1) + 1 = Len(field)
    BY <1>0
  <2> QED
    BY <1>0, <2>3, <2>4
<1>4. t = field
  <2>1. \A i \in 1..Len(t) : t[i] = field[i]
    <3> HIDE DEF t
    <3> QED
      BY <1>3 DEF FieldAt
  <2> HIDE DEF t
  <2> QED
    BY <1>3, <2>1, SeqEqual
<1>5. Texts!Bytes(t) = Len(field)
  <2>1. {i \in DOMAIN t : t[i] = "w"} = {}
    <3>1. DOMAIN t = 1..Len(field)
      BY <1>3
    <3>2. \A i \in 1..Len(field) : field[i] # "w"
      BY DEF FieldAt
    <3> HIDE DEF t
    <3> QED
      BY <1>4, <3>1, <3>2
  <2>2. Cardinality({}) = 0
    BY FS_EmptySet
  <2> HIDE DEF t
  <2> DEFINE wide == {i \in DOMAIN t : t[i] = "w"}
  <2>3. Texts!Bytes(t) = Len(t) + Cardinality(wide)
    BY TextsCount DEF Texts!Bytes
  <2>4. Cardinality(wide) = 0
    BY <2>1, <2>2
  <2> HIDE DEF wide
  <2> QED
    BY <1>0, <1>3, <2>3, <2>4
<1>6. Texts!FieldEnd(text, cur) = cur + Len(field)
  <2>1. Texts!FieldEnd(text, cur) = cur + Texts!Bytes(t)
    <3> HIDE DEF b
    <3> QED
      BY <1>2 DEF Texts!FieldEnd
  <2> HIDE DEF t
  <2> QED
    BY <1>5, <2>1
<1>7. Texts!Field(text, cur) = field
  <2>1. cur + Len(field) = b - 1
    BY <1>0
  <2>2. Texts!Field(text, cur) = SubSeq(text, cur + 1, cur + Len(field))
    BY <1>6 DEF Texts!Field
  <2>3. Texts!Field(text, cur) = t
    <3> HIDE DEF b
    <3> QED
      BY <2>1, <2>2
  <2> HIDE DEF t
  <2> QED
    BY <1>4, <2>3
<1>8. Texts!Readable(text, cur)
  BY <1>0, <1>1, <1>6 DEF Texts!Readable
<1> QED
  BY <1>6, <1>7, <1>8

\* A text that breaks off before the bar.
LEMMA FieldCut ==
    ASSUME NEW full, NEW field, Len(field) \in Nat, NEW cur \in Nat, FieldAt(full, cur, field),
           NEW text, Len(text) \in Nat, Begins(text, full), Len(text) < cur + Len(field) + 1
    PROVE  ~Texts!Readable(text, cur)
<1> SUFFICES ASSUME NEW j \in Texts!Bars(text, cur) PROVE FALSE
  BY DEF Texts!Readable
<1>1. j \in cur + 1..Len(text) /\ text[j] = "|" /\ j \in 1..Len(text)
  BY DEF Texts!Bars
<1>2. j - cur \in 1..Len(field) /\ cur + (j - cur) = j
  BY <1>1
<1>3. full[j] # "|"
  <2>1. full[cur + (j - cur)] = field[j - cur] /\ field[j - cur] # "|"
    BY <1>2 DEF FieldAt
  <2> QED
    BY <1>2, <2>1
<1>4. text[j] = full[j]
  BY <1>1 DEF Begins
<1> QED
  BY <1>1, <1>3, <1>4

\* A field is the same in a text that breaks off after its bar.
LEMMA SameField ==
    ASSUME NEW full, NEW text, Len(text) \in Nat, Begins(text, full),
           NEW field, Len(field) \in Nat, NEW cur \in Nat, FieldAt(full, cur, field), cur + Len(field) + 1 <= Len(text)
    PROVE  FieldAt(text, cur, field)
<1>1. \A k \in 1..Len(field) + 1 : text[cur + k] = full[cur + k]
  <2> SUFFICES ASSUME NEW k \in 1..Len(field) + 1 PROVE text[cur + k] = full[cur + k]
    OBVIOUS
  <2>1. cur + k \in 1..Len(text)
    OBVIOUS
  <2> QED
    BY <2>1 DEF Begins
<1>2. text[cur + (Len(field) + 1)] = full[cur + (Len(field) + 1)]
  BY <1>1
<1> QED
  BY <1>1, <1>2 DEF FieldAt

\* That a field is read, and as what.
ReadsAs(text, cur, field) ==
    Texts!Readable(text, cur) /\ Texts!FieldEnd(text, cur) = cur + Len(field) /\ Texts!Field(text, cur) = field

\* A field is read if the text reaches its bar, and is missing if it does not.
LEMMA FieldOrNone ==
    ASSUME NEW S, NEW text \in Seq(S), NEW full, Begins(text, full),
           NEW field \in Seq(S), NEW cur \in Nat, FieldAt(full, cur, field)
    PROVE  IF cur + Len(field) + 1 <= Len(text) THEN ReadsAs(text, cur, field) ELSE ~Texts!Readable(text, cur)
<1>1. Len(text) \in Nat /\ Len(field) \in Nat
  BY LenProperties
<1>2. CASE cur + Len(field) + 1 <= Len(text)
  <2>1. FieldAt(text, cur, field)
    BY <1>1, <1>2, SameField
  <2>2. Texts!Readable(text, cur) /\ Texts!FieldEnd(text, cur) = cur + Len(field) /\ Texts!Field(text, cur) = field
    BY <1>2, <2>1, FieldRead
  <2> QED
    BY <1>2, <2>2 DEF ReadsAs
<1>3. CASE ~(cur + Len(field) + 1 <= Len(text))
  <2>1. Len(text) < cur + Len(field) + 1
    BY <1>1, <1>3
  <2> QED
    BY <1>1, <1>3, <2>1, FieldCut
<1> QED
  BY <1>2, <1>3

\* Nodes of some characters, the field of their length, and where they end.
NodesOver(S) == [type : Seq(S), id : Seq(S), content : Seq(S)]

LengthField(node) == <<Texts!DigitOf(Len(node.content))>>

NodeEnd(node, cur) == cur + 5 + Len(node.type) + Len(node.id) + Len(node.content)

\* A node that starts after cur.
NodeAt(full, cur, node) ==
    /\ Len(node.content) \in 0..3
    /\ FieldAt(full, cur, LengthField(node))
    /\ FieldAt(full, cur + 2, node.type)
    /\ FieldAt(full, cur + 3 + Len(node.type), node.id)
    /\ \A k \in 1..Len(node.content) : full[cur + 4 + Len(node.type) + Len(node.id) + k] = node.content[k]
    /\ full[NodeEnd(node, cur)] = "|"

\* The digits of the samples are those of their numbers.
LEMMA OneDigit ==
    ASSUME NEW n \in 0..3
    PROVE  Texts!DigitOf(n) \in Texts!Digits /\ Texts!Value(Texts!DigitOf(n)) = n
<1>1. CASE n = 0
  BY <1>1 DEF Texts!DigitOf, Texts!Digits, Texts!Value
<1>2. CASE n = 1
  BY <1>2 DEF Texts!DigitOf, Texts!Digits, Texts!Value
<1>3. CASE n = 2
  BY <1>3 DEF Texts!DigitOf, Texts!Digits, Texts!Value
<1>4. CASE n = 3
  BY <1>4 DEF Texts!DigitOf, Texts!Digits, Texts!Value
<1> QED
  BY <1>1, <1>2, <1>3, <1>4

\* A node's first field is the length of its content.
LEMMA LengthFields ==
    ASSUME NEW S, Texts!Digits \subseteq S, NEW node, Len(node.content) \in 0..3
    PROVE  /\ LengthField(node) \in Seq(S) /\ Len(LengthField(node)) = 1
           /\ Texts!IsLength(LengthField(node)) /\ Texts!Number(LengthField(node)) = Len(node.content)
<1> DEFINE d == Texts!DigitOf(Len(node.content))
<1>1. d \in Texts!Digits /\ Texts!Value(d) = Len(node.content)
  BY OneDigit
<1> HIDE DEF d
<1>2. <<d>> \in Seq(S) /\ Len(<<d>>) = 1 /\ <<d>>[1] = d /\ <<d>> # <<>> /\ DOMAIN <<d>> = 1..1
  BY <1>1
<1>3. Texts!IsLength(<<d>>) /\ Texts!Number(<<d>>) = Len(node.content)
  BY <1>1, <1>2 DEF Texts!IsLength, Texts!Number
<1> QED
  BY <1>2, <1>3 DEF LengthField, d

\* Each of the three fields is read if its bar is in the text, and is missing otherwise.
LEMMA FieldsRead ==
    ASSUME NEW S, Texts!Digits \subseteq S, NEW text \in Seq(S), NEW full, Begins(text, full),
           NEW node \in NodesOver(S), NEW cur \in Nat, NodeAt(full, cur, node)
    PROVE  /\ IF cur + 2 <= Len(text) THEN ReadsAs(text, cur, LengthField(node)) ELSE ~Texts!Readable(text, cur)
           /\ IF cur + 3 + Len(node.type) <= Len(text) THEN ReadsAs(text, cur + 2, node.type) ELSE ~Texts!Readable(text, cur + 2)
           /\ IF cur + 4 + Len(node.type) + Len(node.id) <= Len(text)
              THEN ReadsAs(text, cur + 3 + Len(node.type), node.id) ELSE ~Texts!Readable(text, cur + 3 + Len(node.type))
<1> DEFINE l == LengthField(node)
           t == node.type
           i == node.id
           typeAt == cur + 2
           idAt == cur + 3 + Len(t)
<1>1. /\ Len(text) \in Nat /\ t \in Seq(S) /\ i \in Seq(S) /\ Len(t) \in Nat /\ Len(i) \in Nat
      /\ l \in Seq(S) /\ Len(l) = 1
  BY LenProperties, LengthFields DEF NodeAt, NodesOver
<1>2. FieldAt(full, cur, l) /\ FieldAt(full, typeAt, t) /\ FieldAt(full, idAt, i)
  BY DEF NodeAt
<1> HIDE DEF l, t, i
<1>3. typeAt \in Nat /\ idAt \in Nat /\ cur + Len(l) + 1 = cur + 2
      /\ typeAt + Len(t) + 1 = cur + 3 + Len(t) /\ idAt + Len(i) + 1 = cur + 4 + Len(t) + Len(i)
  BY <1>1
<1> HIDE DEF typeAt, idAt
<1>4. IF cur + 2 <= Len(text) THEN ReadsAs(text, cur, l) ELSE ~Texts!Readable(text, cur)
  <2>1. IF cur + Len(l) + 1 <= Len(text) THEN ReadsAs(text, cur, l) ELSE ~Texts!Readable(text, cur)
    BY <1>1, <1>2, FieldOrNone
  <2> QED
    BY <1>3, <2>1
<1>5. IF cur + 3 + Len(t) <= Len(text) THEN ReadsAs(text, typeAt, t) ELSE ~Texts!Readable(text, typeAt)
  <2>1. IF typeAt + Len(t) + 1 <= Len(text) THEN ReadsAs(text, typeAt, t) ELSE ~Texts!Readable(text, typeAt)
    BY <1>1, <1>2, <1>3, FieldOrNone
  <2> QED
    BY <1>3, <2>1
<1>6. IF cur + 4 + Len(t) + Len(i) <= Len(text) THEN ReadsAs(text, idAt, i) ELSE ~Texts!Readable(text, idAt)
  <2>1. IF idAt + Len(i) + 1 <= Len(text) THEN ReadsAs(text, idAt, i) ELSE ~Texts!Readable(text, idAt)
    BY <1>1, <1>2, <1>3, FieldOrNone
  <2> QED
    BY <1>3, <2>1
<1> QED
  BY <1>4, <1>5, <1>6 DEF l, typeAt, idAt, t, i

\* That the three fields of a node are read, and its content.
Reads(text, cur, typeAt, idAt, at, length, node) ==
    /\ Texts!Readable(text, cur) /\ Texts!FieldEnd(text, cur) + 1 = typeAt
    /\ Texts!IsLength(Texts!Field(text, cur)) /\ Texts!Number(Texts!Field(text, cur)) = length
    /\ Texts!Readable(text, typeAt) /\ Texts!FieldEnd(text, typeAt) + 1 = idAt
    /\ Texts!Readable(text, idAt) /\ Texts!FieldEnd(text, idAt) + 1 = at
    /\ Texts!Fits(text, at, length) /\ Texts!BarAt(text, at + length)
    /\ [type |-> Texts!Field(text, typeAt), id |-> Texts!Field(text, idAt), content |-> SubSeq(text, at + 1, at + length)] = node

\* What a turn makes of a whole node.
AfterNode(node, parsed) ==
    IF node.type \in Texts!Refusals THEN Texts!Failed("refused", parsed)
    ELSE [cur |-> NodeEnd(node, parsed.cur), nodes |-> Append(parsed.nodes, node), failure |-> ""]

\* A node that is all there is read, or refused for its type.
LEMMA NodeRead ==
    ASSUME NEW S, Texts!Digits \subseteq S, NEW text \in Seq(S), NEW full, Begins(text, full),
           NEW node \in NodesOver(S), NEW parsed, parsed.cur \in Nat, NodeAt(full, parsed.cur, node),
           Len(parsed.nodes) \in Nat, Len(parsed.nodes) < Texts!MaxNodes, NodeEnd(node, parsed.cur) <= Len(text)
    PROVE  Texts!Node(text, parsed) = AfterNode(node, parsed)
<1> DEFINE cur == parsed.cur
           m == Len(node.type)
           n == Len(node.id)
           length == Len(node.content)
           typeAt == cur + 2
           idAt == cur + 3 + m
           at == cur + 4 + m + n
           l == LengthField(node)
<1>1. /\ Len(text) \in Nat /\ m \in Nat /\ n \in Nat /\ length \in 0..3
      /\ node.content \in Seq(S) /\ cur \in Nat
  BY LenProperties DEF NodesOver, NodeAt
<1>0. NodeEnd(node, cur) = cur + 5 + m + n + length
  BY DEF NodeEnd
<1>2. at + length + 1 = NodeEnd(node, cur) /\ typeAt <= Len(text) /\ idAt <= Len(text) /\ at <= Len(text)
      /\ at + length + 1 <= Len(text)
  <2>1. NodeEnd(node, cur) <= Len(text)
    OBVIOUS
  <2> HIDE DEF cur, m, n, length
  <2> QED
    BY <1>0, <1>1, <2>1
<1>3. ReadsAs(text, cur, l) /\ ReadsAs(text, typeAt, node.type) /\ ReadsAs(text, idAt, node.id)
  BY <1>1, <1>2, FieldsRead
<1>4. Len(l) = 1 /\ Texts!IsLength(l) /\ Texts!Number(l) = length
  BY <1>1, LengthFields
<1> HIDE DEF l
<1>5. /\ Texts!Readable(text, cur) /\ Texts!FieldEnd(text, cur) + 1 = typeAt /\ Texts!Field(text, cur) = l
      /\ Texts!Readable(text, typeAt) /\ Texts!FieldEnd(text, typeAt) + 1 = idAt /\ Texts!Field(text, typeAt) = node.type
      /\ Texts!Readable(text, idAt) /\ Texts!FieldEnd(text, idAt) + 1 = at /\ Texts!Field(text, idAt) = node.id
  <2>1. /\ Texts!FieldEnd(text, cur) = cur + Len(l) /\ Texts!FieldEnd(text, typeAt) = typeAt + m /\ Texts!FieldEnd(text, idAt) = idAt + n
    BY <1>3 DEF ReadsAs
  <2>2. cur + Len(l) + 1 = typeAt /\ typeAt + m + 1 = idAt /\ idAt + n + 1 = at
    <3> HIDE DEF cur, m, n
    <3> QED
      BY <1>1, <1>4
  <2> QED
    BY <1>3, <2>1, <2>2 DEF ReadsAs
<1>6. Texts!Fits(text, at, length) /\ Texts!BarAt(text, at + length)
  <2>1. text[NodeEnd(node, cur)] = "|"
    <3>1. NodeEnd(node, cur) \in 1..Len(text)
      <4>1. at + length + 1 \in 1..Len(text)
        <5> HIDE DEF cur, m, n, length
        <5> QED
          BY <1>1, <1>2
      <4> QED
        BY <1>2, <4>1
    <3>2. full[NodeEnd(node, cur)] = "|"
      BY DEF NodeAt
    <3> QED
      BY <3>1, <3>2 DEF Begins
  <2>2. text[at + length + 1] = "|"
    BY <1>2, <2>1
  <2> HIDE DEF at, length
  <2>3. at \in Nat /\ length \in Nat
    <3> HIDE DEF cur, m, n
    <3> QED
      BY <1>1 DEF at
  <2> QED
    BY <1>1, <1>2, <2>2, <2>3 DEF Texts!Fits, Texts!BarAt
<1>7. SubSeq(text, at + 1, at + length) = node.content
  <2> DEFINE c == SubSeq(text, at + 1, at + length)
  <2>1. \A i \in at + 1..at + length : text[i] \in S
    <3>1. at \in Nat
      <4> HIDE DEF cur, m, n
      <4> QED
        BY <1>1
    <3> HIDE DEF at, length
    <3> QED
      BY <1>1, <1>2, <3>1, ElementOfSeq
  <2>2. /\ c \in Seq(S) /\ Len(c) = IF at + 1 <= at + length THEN (at + length) - (at + 1) + 1 ELSE 0
        /\ \A i \in 1..(at + length) - (at + 1) + 1 : c[i] = text[at + 1 + i - 1]
    <3>1. at + 1 \in Int /\ at + length \in Int
      <4> HIDE DEF cur, m, n, length
      <4> QED
        BY <1>1
    <3> HIDE DEF at, length
    <3> QED
      BY <2>1, <3>1, SubSeqProperties
  <2> HIDE DEF c
  <2>3. Len(c) = length /\ \A i \in 1..length : c[i] = text[at + i]
    <3>1. at \in Nat
      <4> HIDE DEF cur, m, n
      <4> QED
        BY <1>1
    <3> HIDE DEF at, length
    <3>2. (at + length) - (at + 1) + 1 = length /\ (at + 1 <= at + length <=> length > 0)
      BY <1>1, <3>1
    <3>3. \A i \in 1..length : at + 1 + i - 1 = at + i
      BY <1>1, <3>1
    <3>4. Len(c) = length
      BY <1>1, <2>2, <3>2
    <3>5. ASSUME NEW i \in 1..length PROVE c[i] = text[at + i]
      <4>1. i \in 1..(at + length) - (at + 1) + 1
        BY <3>2
      <4>2. c[i] = text[at + 1 + i - 1]
        BY <2>2, <4>1
      <4> QED
        BY <3>3, <4>2
    <3> QED
      BY <3>4, <3>5
  <2>4. \A i \in 1..length : text[at + i] = node.content[i]
    <3> SUFFICES ASSUME NEW i \in 1..length PROVE text[at + i] = node.content[i]
      OBVIOUS
    <3>1. full[at + i] = node.content[i]
      BY DEF NodeAt
    <3>2. at + i \in 1..Len(text)
      <4>1. at \in Nat
        <5> HIDE DEF cur, m, n
        <5> QED
          BY <1>1
      <4> HIDE DEF at, length
      <4> QED
        BY <1>1, <1>2, <4>1
    <3> QED
      BY <3>1, <3>2 DEF Begins
  <2>5. c = node.content
    <3>1. \A i \in 1..Len(c) : c[i] = node.content[i]
      BY <2>3, <2>4
    <3> QED
      BY <1>1, <2>2, <2>3, <3>1, SeqEqual
  <2> QED
    BY <2>5 DEF c
<1>8. [type |-> node.type, id |-> node.id, content |-> node.content] = node
  BY DEF NodesOver
<1>9. ~(Len(parsed.nodes) >= Texts!MaxNodes)
  BY DEF Texts!MaxNodes
<1> HIDE DEF typeAt, idAt, at, length
<1>10. Reads(text, cur, typeAt, idAt, at, length, node)
  <2>1. [type |-> Texts!Field(text, typeAt), id |-> Texts!Field(text, idAt), content |-> SubSeq(text, at + 1, at + length)] = node
    BY <1>5, <1>7, <1>8
  <2> QED
    BY <1>4, <1>5, <1>6, <2>1 DEF Reads
<1>11. Texts!Node(text, parsed) =
           IF Texts!Field(text, typeAt) \in Texts!Refusals THEN Texts!Failed("refused", parsed)
           ELSE [cur |-> at + length + 1, nodes |-> Append(parsed.nodes, node), failure |-> ""]
  BY <1>9, <1>10 DEF Texts!Node, Reads
<1> QED
  BY <1>2, <1>5, <1>11 DEF AfterNode

\* A node that is not is refused.
LEMMA NodeCut ==
    ASSUME NEW S, Texts!Digits \subseteq S, NEW text \in Seq(S), NEW full, Begins(text, full),
           NEW node \in NodesOver(S), NEW parsed, parsed.cur \in Nat, NodeAt(full, parsed.cur, node),
           parsed.cur <= Len(text), Len(text) < NodeEnd(node, parsed.cur)
    PROVE  \E why \in {"too many nodes", "missing delimiter", "truncated"} : Texts!Node(text, parsed) = Texts!Failed(why, parsed)
<1> DEFINE cur == parsed.cur
           m == Len(node.type)
           n == Len(node.id)
           length == Len(node.content)
           typeAt == cur + 2
           idAt == cur + 3 + m
           at == cur + 4 + m + n
           l == LengthField(node)
<1>1. /\ Len(text) \in Nat /\ m \in Nat /\ n \in Nat /\ length \in 0..3
      /\ node.content \in Seq(S) /\ cur \in Nat
  BY LenProperties DEF NodesOver, NodeAt
<1>0. NodeEnd(node, cur) = cur + 5 + m + n + length
  BY DEF NodeEnd
<1>2. /\ IF typeAt <= Len(text) THEN ReadsAs(text, cur, l) ELSE ~Texts!Readable(text, cur)
      /\ IF idAt <= Len(text) THEN ReadsAs(text, typeAt, node.type) ELSE ~Texts!Readable(text, typeAt)
      /\ IF at <= Len(text) THEN ReadsAs(text, idAt, node.id) ELSE ~Texts!Readable(text, idAt)
  BY <1>1, FieldsRead
<1>3. Len(l) = 1 /\ Texts!IsLength(l) /\ Texts!Number(l) = length
  BY <1>1, LengthFields
<1> HIDE DEF l
<1>4. typeAt \in Nat /\ idAt \in Nat /\ at \in Nat /\ at + length + 1 > Len(text)
  <2>1. Len(text) < NodeEnd(node, cur)
    OBVIOUS
  <2> HIDE DEF cur, m, n, length
  <2> QED
    BY <1>0, <1>1, <2>1
<1>5. ~Texts!BarAt(text, at + length)
  <2> HIDE DEF at, length
  <2>1. length \in Nat
    BY <1>1
  <2> QED
    BY <1>1, <1>4, <2>1 DEF Texts!BarAt
<1>6. /\ typeAt <= Len(text) => Texts!FieldEnd(text, cur) + 1 = typeAt /\ Texts!Field(text, cur) = l
      /\ idAt <= Len(text) => Texts!FieldEnd(text, typeAt) + 1 = idAt
      /\ at <= Len(text) => Texts!FieldEnd(text, idAt) + 1 = at
  <2>1. cur + Len(l) + 1 = typeAt /\ typeAt + m + 1 = idAt /\ idAt + n + 1 = at
    <3> HIDE DEF cur, m, n
    <3> QED
      BY <1>1, <1>3
  <2> QED
    BY <1>2, <2>1 DEF ReadsAs
<1> HIDE DEF typeAt, idAt, at, length
<1> SUFFICES \/ Texts!Node(text, parsed) = Texts!Failed("too many nodes", parsed)
             \/ Texts!Node(text, parsed) = Texts!Failed("missing delimiter", parsed)
             \/ Texts!Node(text, parsed) = Texts!Failed("truncated", parsed)
  OBVIOUS
<1>7. CASE ~(typeAt <= Len(text))
  BY <1>2, <1>7 DEF Texts!Node
<1>8. CASE typeAt <= Len(text) /\ ~(idAt <= Len(text))
  BY <1>2, <1>3, <1>6, <1>8 DEF Texts!Node
<1>9. CASE typeAt <= Len(text) /\ idAt <= Len(text) /\ ~(at <= Len(text))
  BY <1>2, <1>3, <1>6, <1>9 DEF Texts!Node
<1>10. CASE typeAt <= Len(text) /\ idAt <= Len(text) /\ at <= Len(text)
  BY <1>2, <1>3, <1>5, <1>6, <1>10 DEF Texts!Node
<1> QED
  BY <1>7, <1>8, <1>9, <1>10

\* A text of nodes, and where each of them ends.
Layout(S, full, nodes, ends) ==
    /\ Texts!Digits \subseteq S /\ nodes \in Seq(NodesOver(S)) /\ Len(nodes) <= Texts!MaxNodes
    /\ ends \in [0..Len(nodes) -> Nat] /\ ends[0] = 0 /\ full[ends[Len(nodes)] + 1] = " "
    /\ \A k \in 1..Len(nodes) : NodeAt(full, ends[k - 1], nodes[k]) /\ ends[k] = NodeEnd(nodes[k], ends[k - 1])

\* None of the first n nodes is a refusal.
Sound(nodes, n) == \A j \in 1..n : nodes[j].type \notin Texts!Refusals

\* The types of nodes and of their ends.
LEMMA Laid ==
    ASSUME NEW S, NEW full, NEW nodes, NEW ends, Layout(S, full, nodes, ends)
    PROVE  /\ Len(nodes) \in Nat /\ ends \in [0..Len(nodes) -> Nat] /\ ends[0] = 0
           /\ nodes \in Seq(NodesOver(S)) /\ Len(nodes) <= Texts!MaxNodes /\ Texts!Digits \subseteq S
BY LenProperties DEF Layout

\* The next node is where the one before it ends.
LEMMA NextEnd ==
    ASSUME NEW S, NEW full, NEW nodes, NEW ends, Layout(S, full, nodes, ends), NEW k \in 1..Len(nodes)
    PROVE  /\ nodes[k] \in NodesOver(S) /\ ends[k - 1] \in Nat /\ ends[k] \in Nat /\ ends[k - 1] < ends[k]
           /\ NodeAt(full, ends[k - 1], nodes[k]) /\ ends[k] = NodeEnd(nodes[k], ends[k - 1])
<1>1. Len(nodes) \in Nat /\ ends \in [0..Len(nodes) -> Nat] /\ nodes \in Seq(NodesOver(S))
  BY Laid
<1>2. nodes[k] \in NodesOver(S) /\ ends[k - 1] \in Nat /\ ends[k] \in Nat
  BY <1>1
<1>3. NodeAt(full, ends[k - 1], nodes[k]) /\ ends[k] = NodeEnd(nodes[k], ends[k - 1])
  BY DEF Layout
<1> DEFINE node == nodes[k]
           a == Len(node.type)
           b == Len(node.id)
           c == Len(node.content)
<1>4. a \in Nat /\ b \in Nat /\ c \in Nat
  BY <1>2, LenProperties DEF NodesOver
<1>5. ends[k] = ends[k - 1] + 5 + a + b + c
  BY <1>3 DEF NodeEnd
<1> HIDE DEF a, b, c
<1>6. ends[k - 1] < ends[k]
  BY <1>2, <1>4, <1>5
<1> QED
  BY <1>2, <1>3, <1>6

\* No node is empty, so that the ends of later ones are further on.
LEMMA EndsGrow ==
    ASSUME NEW S, NEW full, NEW nodes, NEW ends, Layout(S, full, nodes, ends), NEW j \in 0..Len(nodes)
    PROVE  /\ \A k \in 0..Len(nodes) : ends[k] >= k
           /\ \A k \in j..Len(nodes) : ends[j] + (k - j) <= ends[k]
<1> DEFINE m == Len(nodes)
           P == {i \in 0..m : ends[i] >= i}
           Q == {i \in 0..m - j : ends[j] + i <= ends[j + i]}
<1>1. m \in Nat /\ ends \in [0..m -> Nat] /\ ends[0] = 0
  BY Laid
<1>2. \A k \in 1..m : ends[k - 1] < ends[k]
  BY NextEnd
<1> HIDE DEF m
<1>3. \A i \in 0..m : i \in P
  <2>1. 0 \in P
    BY <1>1
  <2>2. ASSUME NEW i \in 1..m, i - 1 \in P PROVE i \in P
    <3>1. ends[i - 1] < ends[i] /\ ends[i - 1] \in Nat /\ ends[i] \in Nat
      BY <1>1, <1>2
    <3> QED
      BY <1>1, <2>2, <3>1
  <2> HIDE DEF P
  <2> QED
    BY <1>1, <2>1, <2>2, Turns
<1>4. \A i \in 0..m - j : i \in Q
  <2>0. j \in 0..m /\ m - j \in Nat
    BY <1>1 DEF m
  <2>1. 0 \in Q
    BY <1>1, <2>0
  <2>2. ASSUME NEW i \in 1..m - j, i - 1 \in Q PROVE i \in Q
    <3>1. ends[j + i - 1] < ends[j + i] /\ ends[j + i - 1] \in Nat /\ ends[j + i] \in Nat /\ ends[j] \in Nat
      BY <1>1, <1>2, <2>0
    <3>2. ends[j] + (i - 1) <= ends[j + (i - 1)] /\ j + (i - 1) = j + i - 1
      BY <1>1, <2>0, <2>2
    <3> QED
      BY <1>1, <2>0, <3>1, <3>2
  <2> HIDE DEF Q
  <2> QED
    BY <2>0, <2>1, <2>2, Turns
<1>5. ASSUME NEW k \in j..m PROVE ends[j] + (k - j) <= ends[k]
  <2>1. k - j \in 0..m - j /\ j + (k - j) = k
    BY <1>1
  <2> QED
    BY <1>4, <2>1
<1> QED
  BY <1>3, <1>5 DEF m

\* The first k nodes are parsed.
ParsedTo(S, text, nodes, ends, parsed, k) ==
    /\ k \in 0..Len(nodes) /\ ends[k] <= Len(text) /\ Sound(nodes, k)
    /\ parsed = [cur |-> ends[k], nodes |-> parsed.nodes, failure |-> ""]
    /\ parsed.nodes \in Seq(NodesOver(S)) /\ Len(parsed.nodes) = k /\ \A j \in 1..k : parsed.nodes[j] = nodes[j]

\* What i turns make of a text that breaks off in a text of nodes.
ParsedIn(S, text, nodes, ends, parsed, i) ==
    \/ parsed.failure # "" /\ ~(Sound(nodes, Len(nodes)) /\ ends[Len(nodes)] <= Len(text))
    \/ \E k \in 0..Len(nodes) : ParsedTo(S, text, nodes, ends, parsed, k) /\ (k = i \/ Texts!AtEnd(text, ends[k]))

\* At the end of a node nothing but blanks is left only if it is the last of the text.
LEMMA NothingLeft ==
    ASSUME NEW S, NEW full, NEW nodes, NEW ends, Layout(S, full, nodes, ends),
           NEW text \in Seq(S), Begins(text, full), Len(text) <= ends[Len(nodes)] + 1,
           NEW k \in 0..Len(nodes), ends[k] <= Len(text)
    PROVE  Texts!AtEnd(text, ends[k]) <=> k = Len(nodes) \/ ends[k] = Len(text)
<1>1. Len(nodes) \in Nat /\ ends \in [0..Len(nodes) -> Nat] /\ Len(text) \in Nat
  BY Laid, LenProperties
<1>2. CASE k = Len(nodes)
  <2> SUFFICES ASSUME NEW i \in ends[k] + 1..Len(text) PROVE text[i] = " "
    BY <1>2 DEF Texts!AtEnd
  <2>1. i = ends[k] + 1 /\ i \in 1..Len(text)
    BY <1>1, <1>2
  <2> QED
    BY <1>2, <2>1 DEF Layout, Begins
<1>3. CASE ends[k] = Len(text)
  <2>1. ends[k] \in Nat /\ ends[k] + 1..Len(text) = {}
    BY <1>1, <1>3
  <2> QED
    BY <1>3, <2>1 DEF Texts!AtEnd
<1>4. CASE k # Len(nodes) /\ ends[k] # Len(text)
  <2>1. k + 1 \in 1..Len(nodes) /\ (k + 1) - 1 = k /\ ends[k] \in Nat
    BY <1>1, <1>4
  <2>2. NodeAt(full, ends[k], nodes[k + 1])
    BY <2>1, NextEnd
  <2>3. Len(nodes[k + 1].content) \in 0..3 /\ FieldAt(full, ends[k], LengthField(nodes[k + 1]))
    BY <2>2 DEF NodeAt
  <2> DEFINE l == LengthField(nodes[k + 1])
  <2>4. Len(l) = 1 /\ l[1] \in Texts!Digits
    BY <2>3, OneDigit DEF LengthField
  <2> HIDE DEF l
  <2>5. full[ends[k] + 1] = l[1]
    BY <2>3, <2>4 DEF FieldAt, l
  <2>6. ends[k] + 1 \in 1..Len(text) /\ ends[k] + 1 \in ends[k] + 1..Len(text)
    BY <1>1, <1>4, <2>1
  <2>7. text[ends[k] + 1] # " "
    BY <2>4, <2>5, <2>6 DEF Begins, Texts!Digits
  <2> QED
    BY <1>4, <2>6, <2>7 DEF Texts!AtEnd
<1> QED
  BY <1>2, <1>3, <1>4

\* A turn takes the next node, or fails if it is a refusal or breaks off.
LEMMA NextNode ==
    ASSUME NEW S, NEW full, NEW nodes, NEW ends, Layout(S, full, nodes, ends),
           NEW text \in Seq(S), Begins(text, full),
           NEW k \in 0..Len(nodes) - 1, NEW parsed, ParsedTo(S, text, nodes, ends, parsed, k)
    PROVE  IF ends[k + 1] <= Len(text) /\ nodes[k + 1].type \notin Texts!Refusals
           THEN ParsedTo(S, text, nodes, ends, Texts!Node(text, parsed), k + 1)
           ELSE Texts!Node(text, parsed).failure # ""
<1> DEFINE node == nodes[k + 1]
           p == parsed.nodes
<1>1. Len(nodes) \in Nat /\ ends \in [0..Len(nodes) -> Nat] /\ Len(text) \in Nat /\ Texts!Digits \subseteq S /\ Len(nodes) <= Texts!MaxNodes
  BY Laid, LenProperties
<1>2. /\ ends[k] <= Len(text) /\ Sound(nodes, k) /\ parsed = [cur |-> ends[k], nodes |-> p, failure |-> ""]
      /\ p \in Seq(NodesOver(S)) /\ Len(p) = k /\ \A j \in 1..k : p[j] = nodes[j]
  BY DEF ParsedTo
<1>0. p = parsed.nodes
  OBVIOUS
<1> HIDE DEF p
<1>3. parsed.cur = ends[k]
  BY <1>2
<1>4. node \in NodesOver(S) /\ ends[k] \in Nat /\ ends[k + 1] \in Nat /\ NodeAt(full, ends[k], node) /\ ends[k + 1] = NodeEnd(node, ends[k])
  <2>1. k + 1 \in 1..Len(nodes) /\ (k + 1) - 1 = k
    BY <1>1
  <2> QED
    BY <2>1, NextEnd
<1>5. Len(p) < Texts!MaxNodes /\ Len(p) \in Nat
  <2>1. Len(p) = k
    BY <1>2
  <2> QED
    BY <1>1, <2>1 DEF Texts!MaxNodes
<1>6. ASSUME NEW why, Texts!Node(text, parsed) = Texts!Failed(why, parsed) PROVE Texts!Node(text, parsed).failure = why
  <2>1. Texts!Failed(why, parsed).failure = why
    BY <1>2 DEF Texts!Failed
  <2> QED
    BY <1>6, <2>1
<1> HIDE DEF node
<1>7. CASE ends[k + 1] <= Len(text)
  <2>1. Texts!Node(text, parsed) = IF node.type \in Texts!Refusals THEN Texts!Failed("refused", parsed)
                             ELSE [cur |-> ends[k + 1], nodes |-> Append(p, node), failure |-> ""]
    <3>1. /\ parsed.cur \in Nat /\ NodeAt(full, parsed.cur, node) /\ NodeEnd(node, parsed.cur) <= Len(text)
          /\ Len(parsed.nodes) \in Nat /\ Len(parsed.nodes) < Texts!MaxNodes
      BY <1>0, <1>3, <1>4, <1>5, <1>7
    <3>2. Texts!Node(text, parsed) = AfterNode(node, parsed)
      BY <1>1, <1>4, <3>1, NodeRead
    <3> QED
      BY <1>0, <1>3, <1>4, <3>2 DEF AfterNode
  <2>2. CASE node.type \in Texts!Refusals
    <3>1. Texts!Node(text, parsed).failure = "refused"
      BY <1>6, <2>1, <2>2
    <3> QED
      BY <2>2, <3>1 DEF node
  <2>3. CASE node.type \notin Texts!Refusals
    <3> DEFINE q == Append(p, node)
               next == [cur |-> ends[k + 1], nodes |-> q, failure |-> ""]
    <3>1. Texts!Node(text, parsed) = next
      BY <2>1, <2>3
    <3>2. /\ q \in Seq(NodesOver(S)) /\ Len(q) = k + 1 /\ q[k + 1] = node
          /\ \A j \in 1..k : q[j] = p[j]
      <4>1. p \in Seq(NodesOver(S)) /\ Len(p) = k /\ node \in NodesOver(S)
        BY <1>2, <1>4
      <4> QED
        BY <4>1, AppendProperties
    <3> HIDE DEF q
    <3>3. \A j \in 1..k + 1 : q[j] = nodes[j]
      <4> SUFFICES ASSUME NEW j \in 1..k + 1 PROVE q[j] = nodes[j]
        OBVIOUS
      <4>1. j \in 1..k \/ j = k + 1
        OBVIOUS
      <4> QED
        BY <1>2, <3>2, <4>1 DEF node
    <3>4. Sound(nodes, k + 1)
      <4> SUFFICES ASSUME NEW j \in 1..k + 1 PROVE nodes[j].type \notin Texts!Refusals
        BY DEF Sound
      <4>1. j \in 1..k \/ j = k + 1
        OBVIOUS
      <4> QED
        BY <1>2, <2>3, <4>1 DEF Sound, node
    <3>5. next.nodes = q
      OBVIOUS
    <3>6. k + 1 \in 0..Len(nodes)
      BY <1>1
    <3>7. ParsedTo(S, text, nodes, ends, next, k + 1)
      BY <1>7, <3>2, <3>3, <3>4, <3>5, <3>6 DEF ParsedTo
    <3> QED
      BY <1>7, <2>3, <3>1, <3>7 DEF node
  <2> QED
    BY <2>2, <2>3
<1>8. CASE ~(ends[k + 1] <= Len(text))
  <2>1. PICK why \in {"too many nodes", "missing delimiter", "truncated"} : Texts!Node(text, parsed) = Texts!Failed(why, parsed)
    <3>1. Len(text) < NodeEnd(node, ends[k])
      BY <1>1, <1>4, <1>8
    <3> QED
      BY <1>1, <1>2, <1>3, <1>4, <3>1, NodeCut
  <2>2. Texts!Node(text, parsed).failure = why /\ why # ""
    BY <1>6, <2>1
  <2> QED
    BY <1>8, <2>2
<1> QED
  BY <1>7, <1>8

\* What the loop has come to is kept by a turn.
LEMMA NextTurn ==
    ASSUME NEW S, NEW full, NEW nodes, NEW ends, Layout(S, full, nodes, ends),
           NEW text \in Seq(S), Begins(text, full), Len(text) <= ends[Len(nodes)] + 1,
           NEW i \in Nat, NEW parsed, ParsedIn(S, text, nodes, ends, parsed, i)
    PROVE  ParsedIn(S, text, nodes, ends, Texts!Turn(text, parsed), i + 1)
<1> DEFINE m == Len(nodes)
           next == Texts!Turn(text, parsed)
<1>1. m \in Nat /\ ends \in [0..m -> Nat] /\ Len(text) \in Nat
  BY Laid, LenProperties
<1>2. CASE parsed.failure # "" /\ ~(Sound(nodes, m) /\ ends[m] <= Len(text))
  <2>1. next = parsed
    BY <1>2 DEF Texts!Turn
  <2> QED
    BY <1>2, <2>1 DEF ParsedIn
<1>3. ASSUME NEW k \in 0..m, ParsedTo(S, text, nodes, ends, parsed, k), k = i \/ Texts!AtEnd(text, ends[k])
      PROVE  ParsedIn(S, text, nodes, ends, next, i + 1)
  <2>1. parsed.cur = ends[k] /\ parsed.failure = "" /\ ends[k] <= Len(text) /\ Sound(nodes, k)
    <3> DEFINE p == parsed.nodes
    <3>1. parsed = [cur |-> ends[k], nodes |-> p, failure |-> ""] /\ ends[k] <= Len(text) /\ Sound(nodes, k)
      BY <1>3 DEF ParsedTo
    <3> HIDE DEF p
    <3> QED
      BY <3>1
  <2>2. CASE Texts!AtEnd(text, ends[k])
    <3>1. next = parsed
      BY <2>1, <2>2 DEF Texts!Turn
    <3> QED
      BY <1>3, <2>2, <3>1 DEF ParsedIn
  <2>3. CASE ~Texts!AtEnd(text, ends[k])
    <3>1. next = Texts!Node(text, parsed) /\ k = i
      BY <1>3, <2>1, <2>3 DEF Texts!Turn
    <3>2. k # m
      BY <2>1, <2>3, NothingLeft
    <3>3. k \in 0..m - 1 /\ k + 1 \in 0..m /\ k + 1 \in 1..m
      BY <1>1, <3>2
    <3>4. IF ends[k + 1] <= Len(text) /\ nodes[k + 1].type \notin Texts!Refusals
          THEN ParsedTo(S, text, nodes, ends, next, k + 1)
          ELSE next.failure # ""
      BY <1>3, <3>1, <3>3, NextNode
    <3> HIDE DEF next
    <3>5. CASE ends[k + 1] <= Len(text) /\ nodes[k + 1].type \notin Texts!Refusals
      <4>1. ParsedTo(S, text, nodes, ends, next, k + 1) /\ k + 1 = i + 1
        BY <3>1, <3>4, <3>5
      <4> QED
        BY <3>3, <4>1 DEF ParsedIn
    <3>6. CASE ~(ends[k + 1] <= Len(text))
      <4>1. ends[k + 1] + (m - (k + 1)) <= ends[m]
        <5>1. m \in k + 1..m
          BY <1>1, <3>3
        <5> QED
          BY <3>3, <5>1, EndsGrow
      <4>2. ~(ends[m] <= Len(text))
        <5>1. ends[k + 1] \in Nat /\ ends[m] \in Nat
          BY <1>1, <3>3
        <5> HIDE DEF m
        <5> QED
          BY <1>1, <3>3, <3>6, <4>1, <5>1
      <4> QED
        BY <3>4, <3>6, <4>2 DEF ParsedIn
    <3>7. CASE nodes[k + 1].type \in Texts!Refusals
      <4>1. ~Sound(nodes, m)
        BY <3>3, <3>7 DEF Sound
      <4> QED
        BY <3>4, <3>7, <4>1 DEF ParsedIn
    <3> QED
      BY <3>5, <3>6, <3>7
  <2> QED
    BY <2>2, <2>3
<1> QED
  BY <1>2, <1>3 DEF ParsedIn

\* What is made of a text that breaks off in a text of nodes, or at the blank after it.
Answer(text, nodes, ends, parsed) ==
    /\ parsed.failure = "" => /\ \E k \in 0..Len(nodes) : ends[k] = Len(text) \/ Len(text) = ends[Len(nodes)] + 1
                              /\ Sound(nodes, Len(nodes)) \/ Len(text) < ends[Len(nodes)]
                              /\ parsed.nodes = nodes \/ Len(text) < ends[Len(nodes)]
    /\ Sound(nodes, Len(nodes)) /\ ends[Len(nodes)] <= Len(text) => parsed.failure = ""

\* The loop takes the nodes of a text, unless one is a refusal or the text breaks off in
\* one (ParseDelta).
THEOREM ParsesDelta ==
    ASSUME NEW S, NEW full, NEW nodes, NEW ends, Layout(S, full, nodes, ends),
           NEW text \in Seq(S), Begins(text, full), Len(text) <= ends[Len(nodes)] + 1
    PROVE  Answer(text, nodes, ends, Texts!ParseDelta(text))
<1> DEFINE N == Len(text)
           m == Len(nodes)
           parsed == Texts!ParseDelta(text)
<1>1. m \in Nat /\ ends \in [0..m -> Nat] /\ N \in Nat /\ ends[0] = 0 /\ nodes \in Seq(NodesOver(S))
  BY Laid, LenProperties
<1>2. PICK s : s[0] = Texts!Parsed /\ Parses(s, text, N) /\ parsed = s[N]
  BY <1>1, DeltaTurns
<1> HIDE DEF parsed
<1> DEFINE P == {i \in 0..N : ParsedIn(S, text, nodes, ends, s[i], i)}
<1>3. 0 \in P
  <2> DEFINE e == <<>>
  <2>1. e \in Seq(NodesOver(S)) /\ Len(e) = 0
    OBVIOUS
  <2> HIDE DEF e
  <2>2. Texts!Parsed = [cur |-> ends[0], nodes |-> e, failure |-> ""]
    BY <1>1 DEF Texts!Parsed, e
  <2>3. Texts!Parsed.nodes = e
    BY <2>2
  <2>4. 0 \in 0..m /\ ends[0] <= Len(text) /\ Sound(nodes, 0)
    BY <1>1 DEF Sound
  <2>5. \A j \in 1..0 : e[j] = nodes[j]
    OBVIOUS
  <2>6. ParsedTo(S, text, nodes, ends, Texts!Parsed, 0)
    BY <2>1, <2>2, <2>3, <2>4, <2>5 DEF ParsedTo
  <2>7. ParsedIn(S, text, nodes, ends, Texts!Parsed, 0)
    BY <2>4, <2>6 DEF ParsedIn
  <2> QED
    BY <1>1, <1>2, <2>7
<1>4. ASSUME NEW i \in 1..N, i - 1 \in P PROVE i \in P
  <2>1. ParsedIn(S, text, nodes, ends, s[i - 1], i - 1) /\ i - 1 \in Nat /\ (i - 1) + 1 = i
    BY <1>1, <1>4
  <2>2. s[i] = Texts!Turn(text, s[i - 1])
    BY <1>2 DEF Parses
  <2>3. ParsedIn(S, text, nodes, ends, s[i], (i - 1) + 1)
    BY <2>1, <2>2, NextTurn
  <2> QED
    BY <2>1, <2>3
<1>5. ParsedIn(S, text, nodes, ends, parsed, N)
  <2> HIDE DEF P, N
  <2>1. \A i \in 0..N : i \in P
    BY <1>1, <1>3, <1>4, Turns
  <2> QED
    BY <1>1, <1>2, <2>1 DEF P
<1>6. ASSUME parsed.failure # "" /\ ~(Sound(nodes, m) /\ ends[m] <= N) PROVE Answer(text, nodes, ends, parsed)
  BY <1>6 DEF Answer
<1>7. ASSUME NEW k \in 0..m, ParsedTo(S, text, nodes, ends, parsed, k), k = N \/ Texts!AtEnd(text, ends[k])
      PROVE  /\ parsed.failure = "" /\ (ends[k] = N \/ N = ends[m] + 1)
             /\ Sound(nodes, m) \/ N < ends[m]
             /\ parsed.nodes = nodes \/ N < ends[m]
  <2> DEFINE p == parsed.nodes
  <2>1. /\ parsed = [cur |-> ends[k], nodes |-> p, failure |-> ""] /\ ends[k] <= N /\ Sound(nodes, k)
        /\ p \in Seq(NodesOver(S)) /\ Len(p) = k /\ \A j \in 1..k : p[j] = nodes[j]
    BY <1>7 DEF ParsedTo
  <2> HIDE DEF p
  <2>2. parsed.failure = ""
    BY <2>1
  <2>3. k = m \/ ends[k] = N
    <3>1. CASE k = N
      <4>1. ends[k] >= k /\ ends[k] \in Nat
        BY <1>1, EndsGrow
      <4>2. ends[k] <= N
        BY <2>1
      <4> HIDE DEF N
      <4> QED
        BY <1>1, <3>1, <4>1, <4>2
    <3>2. CASE Texts!AtEnd(text, ends[k])
      <4>1. ends[k] <= Len(text)
        BY <2>1
      <4>2. Texts!AtEnd(text, ends[k]) <=> k = Len(nodes) \/ ends[k] = Len(text)
        BY <4>1, NothingLeft
      <4> QED
        BY <3>2, <4>2
    <3> QED
      BY <1>7, <3>1, <3>2
  <2>4. k # m => N < ends[m]
    <3> SUFFICES ASSUME k # m PROVE N < ends[m]
      OBVIOUS
    <3>1. m \in k..m /\ m > k
      BY <1>1
    <3>2. ends[k] + (m - k) <= ends[m]
      BY <3>1, EndsGrow
    <3>3. ends[k] \in Nat /\ ends[m] \in Nat
      BY <1>1
    <3> HIDE DEF m, N
    <3> QED
      BY <1>1, <2>3, <3>1, <3>2, <3>3
  <2>5. CASE k = m
    <3>1. p = nodes
      <4>1. Len(p) = Len(nodes) /\ \A j \in 1..Len(p) : p[j] = nodes[j]
        BY <2>1, <2>5
      <4> QED
        BY <1>1, <2>1, <4>1, SeqEqual
    <3>2. ends[m] = N \/ N = ends[m] + 1
      <4>1. ends[m] \in Nat /\ ends[m] <= N /\ N <= ends[m] + 1
        BY <1>1, <2>1, <2>5
      <4> HIDE DEF m, N
      <4> QED
        BY <1>1, <4>1
    <3> QED
      BY <2>1, <2>2, <2>5, <3>1, <3>2 DEF p
  <2>6. CASE k # m
    BY <2>2, <2>3, <2>4, <2>6
  <2> QED
    BY <2>5, <2>6
<1>8. ASSUME NEW k \in 0..m, ParsedTo(S, text, nodes, ends, parsed, k), k = N \/ Texts!AtEnd(text, ends[k])
      PROVE  Answer(text, nodes, ends, parsed)
  <2>1. \E j \in 0..m : ends[j] = N \/ N = ends[m] + 1
    BY <1>7, <1>8
  <2>2. parsed.failure = "" /\ (Sound(nodes, m) \/ N < ends[m]) /\ (parsed.nodes = nodes \/ N < ends[m])
    BY <1>7, <1>8
  <2> QED
    BY <2>1, <2>2 DEF Answer
<1>9. Answer(text, nodes, ends, parsed)
  BY <1>5, <1>6, <1>8 DEF ParsedIn
<1> QED
  BY <1>9 DEF parsed

-----------------------------------------------------------------------------
(* The answers of the samples. *)
\* A field of narrow characters, that a bar cannot end before its end.
Narrow(field) == \A k \in 1..Len(field) : field[k] \notin {"|", "w"}

\* Where the parts of a node's text are.
LEMMA NodeTexts ==
    ASSUME NEW S, Texts!Digits \subseteq S, "|" \in S, NEW node \in NodesOver(S), Len(node.content) \in 0..3
    PROVE  LET text == Texts!NodeText(node)
               m == Len(node.type)
               n == Len(node.id)
           IN  /\ text \in Seq(S) /\ Len(text) = NodeEnd(node, 0)
               /\ text[1] = Texts!DigitOf(Len(node.content)) /\ text[2] = "|"
               /\ \A k \in 1..m : text[2 + k] = node.type[k]
               /\ text[3 + m] = "|"
               /\ \A k \in 1..n : text[3 + m + k] = node.id[k]
               /\ text[4 + m + n] = "|"
               /\ \A k \in 1..Len(node.content) : text[4 + m + n + k] = node.content[k]
               /\ text[NodeEnd(node, 0)] = "|"
<1> DEFINE d == Texts!DigitOf(Len(node.content))
           p == <<d, "|">>
           b == <<"|">>
           t == node.type
           i == node.id
           c == node.content
           f == p \o t \o b
           g == f \o i \o b
           h == g \o c \o b
<1>1. h = Texts!NodeText(node) /\ NodeEnd(node, 0) = 0 + 5 + Len(t) + Len(i) + Len(c)
  BY DEF Texts!NodeText, NodeEnd
<1>2. t \in Seq(S) /\ i \in Seq(S) /\ c \in Seq(S) /\ Len(t) \in Nat /\ Len(i) \in Nat /\ Len(c) \in Nat
  BY LenProperties DEF NodesOver
<1>3. d \in S
  BY OneDigit
<1> HIDE DEF d, t, i, c
<1>4. p \in Seq(S) /\ Len(p) = 2 /\ p[1] = d /\ p[2] = "|"
  BY <1>3
<1>5. b \in Seq(S) /\ Len(b) = 1 /\ b[1] = "|"
  BY OneCharacter
<1> HIDE DEF p, b
<1>6. /\ f \in Seq(S) /\ Len(f) = 3 + Len(t) /\ f[1] = d /\ f[2] = "|" /\ f[3 + Len(t)] = "|"
      /\ \A k \in 1..Len(t) : f[2 + k] = t[k]
  <2>1. /\ f \in Seq(S) /\ Len(f) = Len(p) + Len(t) + Len(b)
        /\ \A k \in 1..Len(p) : f[k] = p[k]
        /\ \A k \in 1..Len(t) : f[Len(p) + k] = t[k]
        /\ \A k \in 1..Len(b) : f[Len(p) + Len(t) + k] = b[k]
    <3>1. p \in Seq(S) /\ t \in Seq(S) /\ b \in Seq(S)
      BY <1>2, <1>4, <1>5
    <3> QED
      BY <3>1, Joined
  <2> HIDE DEF f
  <2>2. f[2 + Len(t) + 1] = "|" /\ 2 + Len(t) + 1 = 3 + Len(t)
    BY <1>2, <1>4, <1>5, <2>1
  <2> QED
    BY <1>2, <1>4, <1>5, <2>1, <2>2
<1> HIDE DEF f
<1>7. /\ g \in Seq(S) /\ Len(g) = 4 + Len(t) + Len(i) /\ g[4 + Len(t) + Len(i)] = "|"
      /\ \A k \in 1..3 + Len(t) : g[k] = f[k]
      /\ \A k \in 1..Len(i) : g[3 + Len(t) + k] = i[k]
  <2>1. /\ g \in Seq(S) /\ Len(g) = Len(f) + Len(i) + Len(b)
        /\ \A k \in 1..Len(f) : g[k] = f[k]
        /\ \A k \in 1..Len(i) : g[Len(f) + k] = i[k]
        /\ \A k \in 1..Len(b) : g[Len(f) + Len(i) + k] = b[k]
    <3>1. f \in Seq(S) /\ i \in Seq(S) /\ b \in Seq(S)
      BY <1>2, <1>5, <1>6
    <3> QED
      BY <3>1, Joined
  <2> HIDE DEF g
  <2>2. g[3 + Len(t) + Len(i) + 1] = "|" /\ 3 + Len(t) + Len(i) + 1 = 4 + Len(t) + Len(i)
    BY <1>2, <1>5, <1>6, <2>1
  <2>3. Len(f) = 3 + Len(t)
    BY <1>6
  <2> QED
    BY <1>2, <1>5, <2>1, <2>2, <2>3
<1> HIDE DEF g
<1>8. /\ h \in Seq(S) /\ Len(h) = 5 + Len(t) + Len(i) + Len(c) /\ h[5 + Len(t) + Len(i) + Len(c)] = "|"
      /\ \A k \in 1..4 + Len(t) + Len(i) : h[k] = g[k]
      /\ \A k \in 1..Len(c) : h[4 + Len(t) + Len(i) + k] = c[k]
  <2>1. /\ h \in Seq(S) /\ Len(h) = Len(g) + Len(c) + Len(b)
        /\ \A k \in 1..Len(g) : h[k] = g[k]
        /\ \A k \in 1..Len(c) : h[Len(g) + k] = c[k]
        /\ \A k \in 1..Len(b) : h[Len(g) + Len(c) + k] = b[k]
    <3>1. g \in Seq(S) /\ c \in Seq(S) /\ b \in Seq(S)
      BY <1>2, <1>5, <1>7
    <3> QED
      BY <3>1, Joined
  <2> HIDE DEF h
  <2>2. Len(g) = 4 + Len(t) + Len(i)
    BY <1>7
  <2>3. h[4 + Len(t) + Len(i) + Len(c) + 1] = "|" /\ 4 + Len(t) + Len(i) + Len(c) + 1 = 5 + Len(t) + Len(i) + Len(c)
    BY <1>2, <1>5, <2>1, <2>2
  <2> QED
    BY <1>2, <1>5, <2>1, <2>2, <2>3
<1> HIDE DEF h
<1>9. h[1] = d /\ h[2] = "|" /\ h[3 + Len(t)] = "|" /\ h[4 + Len(t) + Len(i)] = "|"
  <2>1. \A k \in 1..3 + Len(t) : h[k] = f[k]
    BY <1>2, <1>7, <1>8
  <2>2. 1 \in 1..3 + Len(t) /\ 2 \in 1..3 + Len(t) /\ 3 + Len(t) \in 1..3 + Len(t)
        /\ 4 + Len(t) + Len(i) \in 1..4 + Len(t) + Len(i)
    BY <1>2
  <2> QED
    BY <1>6, <1>7, <1>8, <2>1, <2>2
<1>10. \A k \in 1..Len(t) : h[2 + k] = t[k]
  <2> SUFFICES ASSUME NEW k \in 1..Len(t) PROVE h[2 + k] = t[k]
    OBVIOUS
  <2>1. 2 + k \in 1..3 + Len(t) /\ 2 + k \in 1..4 + Len(t) + Len(i)
    BY <1>2
  <2> QED
    BY <1>6, <1>7, <1>8, <2>1
<1>11. \A k \in 1..Len(i) : h[3 + Len(t) + k] = i[k]
  <2> SUFFICES ASSUME NEW k \in 1..Len(i) PROVE h[3 + Len(t) + k] = i[k]
    OBVIOUS
  <2>1. 3 + Len(t) + k \in 1..4 + Len(t) + Len(i)
    BY <1>2
  <2> QED
    BY <1>7, <1>8, <2>1
<1>12. NodeEnd(node, 0) = 5 + Len(t) + Len(i) + Len(c)
  BY <1>1, <1>2
<1>13. h = Texts!NodeText(node)
  BY <1>1
<1> QED
  BY <1>8, <1>9, <1>10, <1>11, <1>12, <1>13 DEF d, t, i, c

\* A node whose text is in another is a node there.
LEMMA NodeTextAt ==
    ASSUME NEW S, Texts!Digits \subseteq S, "|" \in S, NEW node \in NodesOver(S), Len(node.content) \in 0..3,
           Narrow(node.type), Narrow(node.id),
           NEW full, NEW cur \in Nat, \A k \in 1..Len(Texts!NodeText(node)) : full[cur + k] = Texts!NodeText(node)[k]
    PROVE  NodeAt(full, cur, node) /\ NodeEnd(node, cur) = cur + Len(Texts!NodeText(node))
<1> DEFINE text == Texts!NodeText(node)
           t == node.type
           i == node.id
           c == node.content
           l == LengthField(node)
<1>1. /\ Len(text) = NodeEnd(node, 0)
      /\ text[1] = Texts!DigitOf(Len(c)) /\ text[2] = "|"
      /\ \A k \in 1..Len(t) : text[2 + k] = t[k]
      /\ text[3 + Len(t)] = "|"
      /\ \A k \in 1..Len(i) : text[3 + Len(t) + k] = i[k]
      /\ text[4 + Len(t) + Len(i)] = "|"
      /\ \A k \in 1..Len(c) : text[4 + Len(t) + Len(i) + k] = c[k]
      /\ text[NodeEnd(node, 0)] = "|"
  BY NodeTexts
<1>2. Len(t) \in Nat /\ Len(i) \in Nat /\ Len(c) \in Nat /\ Len(c) \in 0..3
  BY LenProperties DEF NodesOver
<1>3. NodeEnd(node, 0) = 0 + 5 + Len(t) + Len(i) + Len(c) /\ NodeEnd(node, cur) = cur + 5 + Len(t) + Len(i) + Len(c)
  BY DEF NodeEnd
<1>4. l[1] = Texts!DigitOf(Len(c)) /\ Len(l) = 1
  BY DEF LengthField
<1>5. Texts!DigitOf(Len(c)) \notin {"|", "w"}
  BY <1>2, OneDigit DEF Texts!Digits
<1>6. \A k \in 1..Len(text) : full[cur + k] = text[k]
  OBVIOUS
<1>7. Narrow(t) /\ Narrow(i)
  OBVIOUS
<1> HIDE DEF text, t, i, c, l
<1>8. Len(text) = 5 + Len(t) + Len(i) + Len(c) /\ NodeEnd(node, cur) = cur + Len(text)
  BY <1>1, <1>2, <1>3
<1>9. FieldAt(full, cur, l)
  <2>1. full[cur + 1] = text[1] /\ full[cur + 2] = text[2]
    BY <1>2, <1>6, <1>8
  <2>2. cur + Len(l) + 1 = cur + 2
    BY <1>4
  <2>3. \A k \in 1..Len(l) : full[cur + k] = l[k] /\ l[k] \notin {"|", "w"}
    BY <1>1, <1>4, <1>5, <2>1
  <2> QED
    BY <1>1, <2>1, <2>2, <2>3 DEF FieldAt
<1>10. FieldAt(full, cur + 2, t)
  <2>1. ASSUME NEW k \in 1..Len(t) PROVE full[cur + 2 + k] = t[k]
    <3>1. full[cur + (2 + k)] = text[2 + k] /\ cur + (2 + k) = cur + 2 + k
      BY <1>2, <1>6, <1>8
    <3> QED
      BY <1>1, <3>1
  <2>2. full[cur + 2 + Len(t) + 1] = "|"
    <3>1. full[cur + (3 + Len(t))] = text[3 + Len(t)] /\ cur + (3 + Len(t)) = cur + 2 + Len(t) + 1
      BY <1>2, <1>6, <1>8
    <3> QED
      BY <1>1, <3>1
  <2> QED
    BY <1>7, <2>1, <2>2 DEF FieldAt, Narrow
<1>11. FieldAt(full, cur + 3 + Len(t), i)
  <2>1. ASSUME NEW k \in 1..Len(i) PROVE full[cur + 3 + Len(t) + k] = i[k]
    <3>1. full[cur + (3 + Len(t) + k)] = text[3 + Len(t) + k] /\ cur + (3 + Len(t) + k) = cur + 3 + Len(t) + k
      BY <1>2, <1>6, <1>8
    <3> QED
      BY <1>1, <3>1
  <2>2. full[cur + 3 + Len(t) + Len(i) + 1] = "|"
    <3>1. full[cur + (4 + Len(t) + Len(i))] = text[4 + Len(t) + Len(i)]
          /\ cur + (4 + Len(t) + Len(i)) = cur + 3 + Len(t) + Len(i) + 1
      BY <1>2, <1>6, <1>8
    <3> QED
      BY <1>1, <3>1
  <2> QED
    BY <1>7, <2>1, <2>2 DEF FieldAt, Narrow
<1>12. \A k \in 1..Len(c) : full[cur + 4 + Len(t) + Len(i) + k] = c[k]
  <2> SUFFICES ASSUME NEW k \in 1..Len(c) PROVE full[cur + 4 + Len(t) + Len(i) + k] = c[k]
    OBVIOUS
  <2>1. full[cur + (4 + Len(t) + Len(i) + k)] = text[4 + Len(t) + Len(i) + k]
        /\ cur + (4 + Len(t) + Len(i) + k) = cur + 4 + Len(t) + Len(i) + k
    BY <1>2, <1>6, <1>8
  <2> QED
    BY <1>1, <2>1
<1>13. full[NodeEnd(node, cur)] = "|"
  <2>1. full[cur + Len(text)] = text[Len(text)]
    BY <1>2, <1>6, <1>8
  <2> QED
    BY <1>1, <1>8, <2>1
<1> QED
  BY <1>2, <1>8, <1>9, <1>10, <1>11, <1>12, <1>13 DEF NodeAt, text, t, i, c, l

\* What they are made of.
Letters == Texts!Digits \cup {"|", "w", " ", "id", "error", "pageRedirect", "updatePanel", "hiddenField"}

\* A text of two characters.
LEMMA TwoCharacters ==
    ASSUME NEW S, NEW c \in S, NEW d \in S
    PROVE  <<c, d>> \in Seq(S) /\ Len(<<c, d>>) = 2
OBVIOUS

\* The nodes of the samples have contents short enough for a digit, and narrow fields.
LEMMA SampleNodes ==
    ASSUME NEW node \in Texts!DeltaNodes
    PROVE  /\ node \in NodesOver(Letters) /\ Len(node.content) \in 0..3
           /\ Narrow(node.type) /\ Narrow(node.id)
<1> DEFINE t == node.type
           i == node.id
           c == node.content
<1>1. /\ t \in {<<"updatePanel">>, <<"hiddenField">>, <<"error">>, <<"pageRedirect">>}
      /\ i \in {<<>>, <<"id">>} /\ c \in {<<>>, <<"w">>, <<"1", "|">>, <<"|", " ">>}
      /\ node = [type |-> t, id |-> i, content |-> c]
  BY DEF Texts!DeltaNodes, Texts!Refusals
<1> HIDE DEF t, i, c
<1>2. t \in Seq(Letters) /\ Narrow(t)
  <2>1. ASSUME NEW x \in {"updatePanel", "hiddenField", "error", "pageRedirect"}, t = <<x>>
        PROVE  t \in Seq(Letters) /\ Narrow(t)
    <3>1. x \in Letters /\ x \notin {"|", "w"}
      BY DEF Letters
    <3> QED
      BY <2>1, <3>1, OneCharacter DEF Narrow
  <2> QED
    BY <1>1, <2>1
<1>3. i \in Seq(Letters) /\ Narrow(i)
  <2>1. CASE i = <<>>
    BY <2>1, EmptySeq DEF Narrow
  <2>2. CASE i = <<"id">>
    <3>1. "id" \in Letters
      BY DEF Letters
    <3> QED
      BY <2>2, <3>1 DEF Narrow
  <2> QED
    BY <1>1, <2>1, <2>2
<1>4. c \in Seq(Letters) /\ Len(c) \in 0..3
  <2>1. "w" \in Letters /\ "1" \in Letters /\ "|" \in Letters /\ " " \in Letters
    BY DEF Letters, Texts!Digits
  <2>2. CASE c = <<>>
    BY <2>2, EmptySeq
  <2>3. CASE c = <<"w">>
    <3>1. <<"w">> \in Seq(Letters) /\ Len(<<"w">>) = 1
      BY <2>1, OneCharacter
    <3> QED
      BY <2>3, <3>1
  <2>5. ASSUME NEW x \in Letters, NEW y \in Letters, c = <<x, y>> PROVE c \in Seq(Letters) /\ Len(c) \in 0..3
    BY <2>5, TwoCharacters
  <2> QED
    BY <1>1, <2>1, <2>2, <2>3, <2>5
<1> QED
  BY <1>1, <1>2, <1>3, <1>4 DEF NodesOver, t, i, c

\* That text is the node's, wherever it is.
Placed(node, text) ==
    \A full : \A cur \in Nat :
        (\A k \in 1..Len(text) : full[cur + k] = text[k])
        => NodeAt(full, cur, node) /\ NodeEnd(node, cur) = cur + Len(text)

\* Their texts are read as those nodes, wherever they are.
LEMMA SampleNodeTexts ==
    ASSUME NEW node \in Texts!DeltaNodes, NEW text, text = Texts!NodeText(node)
    PROVE  text \in Seq(Letters) /\ Len(text) \in Nat /\ Placed(node, text)
<1>1. Texts!Digits \subseteq Letters /\ "|" \in Letters
  BY DEF Letters
<1>2. /\ node \in NodesOver(Letters) /\ Len(node.content) \in 0..3
      /\ Narrow(node.type) /\ Narrow(node.id)
  BY SampleNodes
<1>3. Texts!NodeText(node) \in Seq(Letters)
  BY <1>1, <1>2, NodeTexts
<1>4. Placed(node, Texts!NodeText(node))
  BY <1>1, <1>2, <1>3, LenProperties, NodeTextAt DEF Placed
<1> QED
  BY <1>3, <1>4, LenProperties

\* Lists of them.
LEMMA SampleLists ==
    ASSUME NEW n \in Nat, NEW ns \in [1..n -> Texts!DeltaNodes]
    PROVE  ns \in Seq(NodesOver(Letters)) /\ Len(ns) = n /\ DOMAIN ns = 1..n /\ \A k \in 1..n : ns[k] \in Texts!DeltaNodes
<1>1. ns \in [1..n -> NodesOver(Letters)]
  BY SampleNodes
<1>2. ns \in Seq(NodesOver(Letters))
  BY <1>1, SeqDef
<1>3. \A k \in 1..n : ns[k] \in Texts!DeltaNodes
  OBVIOUS
<1>4. DOMAIN ns = 1..n
  OBVIOUS
<1>5. Len(ns) = n
  <2>1. Len(ns) \in Nat /\ DOMAIN ns = 1..Len(ns)
    BY <1>2, LenProperties
  <2> DEFINE k == Len(ns)
  <2>2. k \in Nat /\ 1..k = 1..n
    BY <1>4, <2>1
  <2> HIDE DEF k
  <2>3. k <= n
    <3>1. k = 0 \/ k \in 1..k
      BY <2>2
    <3> QED
      BY <2>2, <3>1
  <2>4. n <= k
    <3>1. n = 0 \/ n \in 1..n
      OBVIOUS
    <3> QED
      BY <2>2, <3>1
  <2>5. k = n
    BY <2>2, <2>3, <2>4
  <2> QED
    BY <2>5 DEF k
<1> QED
  BY <1>2, <1>3, <1>4, <1>5

\* What there is to show of nodes in a text.
LEMMA LaidOut ==
    ASSUME NEW S, NEW full, NEW nodes, NEW ends, NEW n \in Nat, n <= Texts!MaxNodes, Texts!Digits \subseteq S,
           nodes \in Seq(NodesOver(S)), Len(nodes) = n, ends \in [0..n -> Nat], ends[0] = 0, full[ends[n] + 1] = " ",
           \A k \in 1..n : NodeAt(full, ends[k - 1], nodes[k]) /\ ends[k] = NodeEnd(nodes[k], ends[k - 1])
    PROVE  Layout(S, full, nodes, ends)
BY DEF Layout

\* That a text is one of nodes, but for the blank after it, that end at some of the marks.
TextOf(text, nodes, marks) ==
    /\ text \in Seq(Letters) /\ DOMAIN nodes = 1..Len(nodes)
    /\ \E ends : /\ Layout(Letters, text \o <<" ">>, nodes, ends)
                 /\ ends[Len(nodes)] = Len(text) /\ \A k \in 0..Len(nodes) : ends[k] \in marks

\* A text and the blank after it.
LEMMA BlankAfter ==
    ASSUME NEW text \in Seq(Letters)
    PROVE  /\ Len(text) \in Nat /\ text \o <<" ">> \in Seq(Letters) /\ Len(text \o <<" ">>) = Len(text) + 1
           /\ (text \o <<" ">>)[Len(text) + 1] = " "
           /\ \A k \in 1..Len(text) : (text \o <<" ">>)[k] = text[k]
<1> DEFINE blank == <<" ">>
           full == text \o blank
<1>1. blank \in Seq(Letters) /\ Len(blank) = 1 /\ blank[1] = " " /\ Len(text) \in Nat
  <2>1. " " \in Letters
    BY DEF Letters
  <2> QED
    BY <2>1, OneCharacter, LenProperties
<1> HIDE DEF blank
<1>2. /\ full \in Seq(Letters) /\ Len(full) = Len(text) + Len(blank)
      /\ \A k \in 1..Len(text) + Len(blank) : full[k] = IF k <= Len(text) THEN text[k] ELSE blank[k - Len(text)]
  BY <1>1, ConcatProperties
<1> HIDE DEF full
<1>4. Len(text) \in Nat /\ Len(blank) = 1
  BY <1>1
<1>3. /\ full \in Seq(Letters) /\ Len(full) = Len(text) + 1 /\ full[Len(text) + 1] = " "
      /\ \A k \in 1..Len(text) : full[k] = text[k]
  <2>1. full[Len(text) + 1] = blank[1]
    <3>1. Len(text) + 1 \in 1..Len(text) + Len(blank) /\ ~(Len(text) + 1 <= Len(text)) /\ Len(text) + 1 - Len(text) = 1
      BY <1>4
    <3> QED
      BY <1>2, <3>1
  <2>2. ASSUME NEW k \in 1..Len(text) PROVE full[k] = text[k]
    <3>1. k \in 1..Len(text) + Len(blank) /\ k <= Len(text)
      BY <1>4
    <3> QED
      BY <1>2, <3>1
  <2> QED
    BY <1>1, <1>2, <2>1, <2>2
<1> QED
  BY <1>1, <1>3 DEF full, blank

\* A text of one node.
LEMMA OneNode ==
    ASSUME NEW ns \in [1..1 -> Texts!DeltaNodes], NEW text, text = Texts!NodeText(ns[1]), NEW marks, 0 \in marks, Len(text) \in marks
    PROVE  TextOf(text, ns, marks)
<1> DEFINE x == ns[1]
           full == text \o <<" ">>
           ends == [k \in 0..1 |-> IF k = 0 THEN 0 ELSE Len(text)]
<1>1. ns \in Seq(NodesOver(Letters)) /\ Len(ns) = 1 /\ DOMAIN ns = 1..1 /\ x \in Texts!DeltaNodes
  <2>1. 1 \in Nat /\ 1 \in 1..1
    OBVIOUS
  <2> QED
    BY <2>1, SampleLists
<1>2. text = Texts!NodeText(x)
  OBVIOUS
<1> HIDE DEF x
<1>3. text \in Seq(Letters) /\ Len(text) \in Nat /\ Placed(x, text)
  BY <1>1, <1>2, SampleNodeTexts
<1>4. full[Len(text) + 1] = " " /\ \A k \in 1..Len(text) : full[k] = text[k]
  BY <1>3, BlankAfter
<1> HIDE DEF full
<1>5. NodeAt(full, 0, x) /\ NodeEnd(x, 0) = Len(text)
  <2>1. \A k \in 1..Len(text) : full[0 + k] = text[k]
    <3> SUFFICES ASSUME NEW k \in 1..Len(text) PROVE full[0 + k] = text[k]
      OBVIOUS
    <3>1. 0 + k = k
      BY <1>3
    <3> QED
      BY <1>4, <3>1
  <2>2. NodeAt(full, 0, x) /\ NodeEnd(x, 0) = 0 + Len(text)
    BY <1>3, <2>1 DEF Placed
  <2> QED
    BY <1>3, <2>2
<1>6. ends \in [0..1 -> Nat] /\ ends[0] = 0 /\ ends[1] = Len(text)
  BY <1>3
<1> HIDE DEF ends
<1>7. \A k \in 1..1 : NodeAt(full, ends[k - 1], ns[k]) /\ ends[k] = NodeEnd(ns[k], ends[k - 1])
  <2>1. NodeAt(full, ends[0], ns[1]) /\ ends[1] = NodeEnd(ns[1], ends[0])
    BY <1>5, <1>6 DEF x
  <2>2. \A k \in 1..1 : k = 1 /\ k - 1 = 0
    OBVIOUS
  <2> QED
    BY <2>1, <2>2
<1>8. Layout(Letters, full, ns, ends)
  <2>1. Texts!Digits \subseteq Letters
    BY DEF Letters
  <2>9. 1 <= Texts!MaxNodes /\ 1 \in Nat
    BY DEF Texts!MaxNodes
  <2>2. full[ends[1] + 1] = " "
    BY <1>4, <1>6
  <2> QED
    BY <1>1, <1>6, <1>7, <2>1, <2>2, <2>9, LaidOut
<1>9. ends[Len(ns)] = Len(text) /\ \A k \in 0..Len(ns) : ends[k] \in marks
  BY <1>1, <1>6
<1> QED
  BY <1>1, <1>3, <1>8, <1>9 DEF TextOf, full

\* A text of two.
LEMMA TwoNodes ==
    ASSUME NEW ns \in [1..2 -> Texts!DeltaNodes], NEW a, a = Texts!NodeText(ns[1]), NEW b, b = Texts!NodeText(ns[2]),
           NEW text, text = a \o b, NEW marks, 0 \in marks, Len(a) \in marks, Len(text) \in marks
    PROVE  TextOf(text, ns, marks)
<1> DEFINE x == ns[1]
           y == ns[2]
           full == text \o <<" ">>
           ends == [k \in 0..2 |-> CASE k = 0 -> 0 [] k = 1 -> Len(a) [] OTHER -> Len(text)]
<1>1. ns \in Seq(NodesOver(Letters)) /\ Len(ns) = 2 /\ DOMAIN ns = 1..2 /\ x \in Texts!DeltaNodes /\ y \in Texts!DeltaNodes
  <2>1. 2 \in Nat /\ 1 \in 1..2 /\ 2 \in 1..2
    OBVIOUS
  <2> QED
    BY <2>1, SampleLists
<1>2. a = Texts!NodeText(x) /\ b = Texts!NodeText(y)
  OBVIOUS
<1> HIDE DEF x, y
<1>3. a \in Seq(Letters) /\ Len(a) \in Nat /\ Placed(x, a)
  BY <1>1, <1>2, SampleNodeTexts
<1>4. b \in Seq(Letters) /\ Len(b) \in Nat /\ Placed(y, b)
  BY <1>1, <1>2, SampleNodeTexts
<1>5. /\ text \in Seq(Letters) /\ Len(text) = Len(a) + Len(b)
      /\ \A k \in 1..Len(a) + Len(b) : text[k] = IF k <= Len(a) THEN a[k] ELSE b[k - Len(a)]
  BY <1>3, <1>4, ConcatProperties
<1>6. full[Len(text) + 1] = " " /\ \A k \in 1..Len(text) : full[k] = text[k]
  BY <1>5, BlankAfter
<1> HIDE DEF full
<1>7. NodeAt(full, 0, x) /\ NodeEnd(x, 0) = Len(a)
  <2>1. \A k \in 1..Len(a) : full[0 + k] = a[k]
    <3> SUFFICES ASSUME NEW k \in 1..Len(a) PROVE full[0 + k] = a[k]
      OBVIOUS
    <3>1. k \in 1..Len(text) /\ k \in 1..Len(a) + Len(b) /\ k <= Len(a) /\ 0 + k = k
      BY <1>3, <1>4, <1>5
    <3> QED
      BY <1>5, <1>6, <3>1
  <2>2. NodeAt(full, 0, x) /\ NodeEnd(x, 0) = 0 + Len(a)
    BY <1>3, <2>1 DEF Placed
  <2> QED
    BY <1>3, <2>2
<1>8. NodeAt(full, Len(a), y) /\ NodeEnd(y, Len(a)) = Len(text)
  <2>1. \A k \in 1..Len(b) : full[Len(a) + k] = b[k]
    <3> SUFFICES ASSUME NEW k \in 1..Len(b) PROVE full[Len(a) + k] = b[k]
      OBVIOUS
    <3>1. /\ Len(a) + k \in 1..Len(text) /\ Len(a) + k \in 1..Len(a) + Len(b)
          /\ ~(Len(a) + k <= Len(a)) /\ Len(a) + k - Len(a) = k
      BY <1>3, <1>4, <1>5
    <3>2. full[Len(a) + k] = text[Len(a) + k]
      BY <1>6, <3>1
    <3>3. text[Len(a) + k] = b[Len(a) + k - Len(a)]
      BY <1>5, <3>1
    <3> QED
      BY <3>1, <3>2, <3>3
  <2>2. NodeAt(full, Len(a), y) /\ NodeEnd(y, Len(a)) = Len(a) + Len(b)
    BY <1>3, <1>4, <2>1 DEF Placed
  <2> QED
    BY <1>5, <2>2
<1>9. ends \in [0..2 -> Nat] /\ ends[0] = 0 /\ ends[1] = Len(a) /\ ends[2] = Len(text)
  <2>1. Len(text) \in Nat
    BY <1>5, LenProperties
  <2> QED
    BY <1>3, <2>1
<1> HIDE DEF ends
<1>10. \A k \in 1..2 : NodeAt(full, ends[k - 1], ns[k]) /\ ends[k] = NodeEnd(ns[k], ends[k - 1])
  <2>1. NodeAt(full, ends[0], ns[1]) /\ ends[1] = NodeEnd(ns[1], ends[0])
    BY <1>7, <1>9 DEF x
  <2>2. NodeAt(full, ends[1], ns[2]) /\ ends[2] = NodeEnd(ns[2], ends[1])
    BY <1>8, <1>9 DEF y
  <2>3. \A k \in 1..2 : (k = 1 /\ k - 1 = 0) \/ (k = 2 /\ k - 1 = 1)
    OBVIOUS
  <2> QED
    BY <2>1, <2>2, <2>3
<1>11. Layout(Letters, full, ns, ends)
  <2>1. Texts!Digits \subseteq Letters
    BY DEF Letters
  <2>9. 2 <= Texts!MaxNodes /\ 2 \in Nat
    BY DEF Texts!MaxNodes
  <2>2. full[ends[2] + 1] = " "
    BY <1>6, <1>9
  <2> QED
    BY <1>1, <1>9, <1>10, <2>1, <2>2, <2>9, LaidOut
<1>12. ends[Len(ns)] = Len(text) /\ \A k \in 0..Len(ns) : ends[k] \in marks
  BY <1>1, <1>9
<1> QED
  BY <1>1, <1>5, <1>11, <1>12 DEF TextOf, full

\* A text of none.
LEMMA NoNodes ==
    ASSUME NEW ns \in [1..0 -> Texts!DeltaNodes], NEW marks, 0 \in marks
    PROVE  TextOf(<<>>, ns, marks)
<1> DEFINE text == <<>>
           full == text \o <<" ">>
           ends == [k \in 0..0 |-> 0]
<1>1. ns \in Seq(NodesOver(Letters)) /\ Len(ns) = 0 /\ DOMAIN ns = 1..0
  <2>1. 0 \in Nat
    OBVIOUS
  <2> QED
    BY <2>1, SampleLists
<1>2. text \in Seq(Letters) /\ Len(text) = 0
  BY EmptySeq
<1> HIDE DEF text
<1>3. full[Len(text) + 1] = " "
  BY <1>2, BlankAfter
<1> HIDE DEF full
<1>4. ends \in [0..0 -> Nat] /\ ends[0] = 0
  OBVIOUS
<1> HIDE DEF ends
<1>5. Layout(Letters, full, ns, ends)
  <2>1. Texts!Digits \subseteq Letters
    BY DEF Letters
  <2>9. 0 <= Texts!MaxNodes /\ 0 \in Nat
    BY DEF Texts!MaxNodes
  <2>2. full[ends[0] + 1] = " "
    BY <1>2, <1>3, <1>4
  <2>3. \A k \in 1..0 : NodeAt(full, ends[k - 1], ns[k]) /\ ends[k] = NodeEnd(ns[k], ends[k - 1])
    OBVIOUS
  <2> QED
    BY <1>1, <1>4, <2>1, <2>2, <2>3, <2>9, LaidOut
<1>6. ends[Len(ns)] = Len(text) /\ \A k \in 0..Len(ns) : ends[k] \in marks
  BY <1>1, <1>2, <1>4
<1>7. TextOf(text, ns, marks)
  BY <1>1, <1>2, <1>5, <1>6 DEF TextOf, full
<1> QED
  BY <1>7 DEF text

\* What UADE sends in the samples is a text of nodes.
LEMMA SampleDeltas ==
    ASSUME NEW delta \in Texts!Deltas
    PROVE  TextOf(delta.text, delta.nodes, delta.ends)
<1>1. PICK ns \in Texts!UpTo(Texts!DeltaNodes, 2) :
          delta = [nodes |-> ns, ends |-> IF Len(ns) = 0 THEN {0}
                                          ELSE {0, Len(Texts!NodeText(ns[1])), Len(Texts!NodeText(ns[1]) \o Texts!NodeText(ns[Len(ns)]))},
                   text |-> IF Len(ns) = 0 THEN <<>> ELSE IF Len(ns) = 1 THEN Texts!NodeText(ns[1])
                            ELSE Texts!NodeText(ns[1]) \o Texts!NodeText(ns[2])]
  BY DEF Texts!Deltas
<1>2. PICK n \in 0..2 : ns \in [1..n -> Texts!DeltaNodes]
  BY DEF Texts!UpTo
<1>3. Len(ns) = n
  <2>1. n \in Nat
    OBVIOUS
  <2> QED
    BY <1>2, <2>1, SampleLists
<1>4. CASE n = 0
  <2>1. delta.nodes = ns /\ delta.text = <<>> /\ delta.ends = {0}
    BY <1>1, <1>3, <1>4
  <2> QED
    BY <1>2, <1>4, <2>1, NoNodes
<1>5. CASE n = 1
  <2>1. delta.nodes = ns /\ delta.text = Texts!NodeText(ns[1]) /\ 0 \in delta.ends /\ Len(Texts!NodeText(ns[1])) \in delta.ends
    BY <1>1, <1>3, <1>5
  <2> QED
    BY <1>2, <1>5, <2>1, OneNode
<1>6. CASE n = 2
  <2> DEFINE a == Texts!NodeText(ns[1])
             b == Texts!NodeText(ns[2])
  <2>1. delta.nodes = ns /\ delta.text = a \o b /\ 0 \in delta.ends /\ Len(a) \in delta.ends /\ Len(a \o b) \in delta.ends
    BY <1>1, <1>3, <1>6
  <2> QED
    BY <1>2, <1>6, <2>1, TwoNodes
<1> QED
  BY <1>4, <1>5, <1>6

\* Every answer of the samples is parsed into its nodes, or refused.
LEMMA DeltasFaithful ==
    ASSUME sample \in [delta : Texts!Deltas]
    PROVE  Texts!DeltaFaithful
<1> DEFINE d == sample.delta
           text == d.text
           nodes == d.nodes
           full == text \o <<" ">>
           m == Len(nodes)
           good == \A i \in DOMAIN nodes : nodes[i].type \notin Texts!Refusals
           parsed == Texts!ParseDelta(full)
<1>1. TextOf(text, nodes, d.ends)
  <2>1. d \in Texts!Deltas
    OBVIOUS
  <2> HIDE DEF d
  <2> QED
    BY <2>1, SampleDeltas
<1> HIDE DEF d, text, nodes
<1>2. PICK ends : /\ Layout(Letters, full, nodes, ends) /\ ends[m] = Len(text) /\ \A k \in 0..m : ends[k] \in d.ends
  BY <1>1 DEF TextOf
<1>3. text \in Seq(Letters) /\ Len(text) \in Nat /\ ends \in [0..m -> Nat] /\ m \in Nat /\ DOMAIN nodes = 1..m
  BY <1>1, <1>2, Laid, LenProperties DEF TextOf
<1>4. good <=> Sound(nodes, m)
  <2> HIDE DEF m
  <2> QED
    BY <1>3 DEF Sound
<1>5. full \in Seq(Letters) /\ Len(full) = Len(text) + 1 /\ \A k \in 1..Len(text) : full[k] = text[k]
  BY <1>3, BlankAfter
<1> HIDE DEF full
<1>6. (good <=> parsed.failure = "") /\ (good => parsed.nodes = nodes)
  <2>1. Begins(full, full) /\ Len(full) <= ends[m] + 1 /\ ends[m] <= Len(full) /\ ~(Len(full) < ends[m])
    BY <1>2, <1>3, <1>5 DEF Begins
  <2>2. /\ parsed.failure = "" => /\ Sound(nodes, m) \/ Len(full) < ends[m]
                                  /\ parsed.nodes = nodes \/ Len(full) < ends[m]
        /\ Sound(nodes, m) /\ ends[m] <= Len(full) => parsed.failure = ""
    <3>1. Answer(full, nodes, ends, Texts!ParseDelta(full))
      BY <1>2, <1>5, <2>1, ParsesDelta
    <3>2. Answer(full, nodes, ends, parsed)
      BY <3>1
    <3> HIDE DEF parsed
    <3> QED
      BY <3>2 DEF Answer
  <2> HIDE DEF good, parsed, m
  <2> QED
    BY <1>4, <2>1, <2>2
<1>7. ASSUME NEW n \in 0..Len(text), Texts!ParseDelta(SubSeq(text, 1, n)).failure = "" PROVE n \in d.ends
  <2> DEFINE t == SubSeq(text, 1, n)
  <2>1. t \in Seq(Letters) /\ Len(t) = n /\ \A k \in 1..n : t[k] = text[k]
    <3>1. \A k \in 1..n : text[k] \in Letters
      BY <1>3, ElementOfSeq
    <3> QED
      BY <1>3, <3>1, SubSeqProperties
  <2>2. Texts!ParseDelta(t).failure = ""
    BY <1>7
  <2> HIDE DEF t
  <2>3. Begins(t, full) /\ Len(t) <= ends[m] + 1 /\ Len(t) # ends[m] + 1
    BY <1>2, <1>3, <1>5, <2>1 DEF Begins
  <2>4. PICK k \in 0..m : ends[k] = Len(t) \/ Len(t) = ends[m] + 1
    <3>1. Layout(Letters, full, nodes, ends) /\ t \in Seq(Letters) /\ Begins(t, full) /\ Len(t) <= ends[Len(nodes)] + 1
      BY <1>2, <2>1, <2>3
    <3>2. Answer(t, nodes, ends, Texts!ParseDelta(t))
      BY <3>1, ParsesDelta
    <3> DEFINE q == Texts!ParseDelta(t)
    <3>3. q.failure = "" /\ Answer(t, nodes, ends, q)
      BY <2>2, <3>2
    <3> HIDE DEF q
    <3> QED
      BY <3>3 DEF Answer
  <2> QED
    BY <1>2, <2>1, <2>3, <2>4
<1> QED
  BY <1>6, <1>7 DEF Texts!DeltaFaithful, d, text, full, nodes

-----------------------------------------------------------------------------
(* The sample under test. *)

\* It stays, and is of one of the three forms or of none.
TextSample ==
    \/ sample \in [delta : Texts!Deltas]
    \/ sample \in [object : Texts!Objects, rest : Texts!UpTo({"close", "quote", "open"}, 1)]
    \/ sample \in [limit : 9..11, first : 0..3, payload : 0..60]
    \/ DOMAIN sample \cap {"delta", "object", "payload"} = {}

LEMMA TextBegin == ASSUME Init PROVE TextSample
<1>1. CASE part = "texts"
  BY <1>1 DEF Init, Texts!Init, TextSample
<1>2. CASE part = "forms"
  <2>1. sample \in [page : Forms!Pages, filters : Forms!Filters]
    BY <1>2 DEF Init, Forms!Init
  <2>2. PICK P, F : sample \in [page : P, filters : F]
    BY <2>1
  <2>3. DOMAIN sample = {"page", "filters"}
    BY <2>2
  <2> QED
    BY <2>3 DEF TextSample
<1>3. CASE part \notin {"forms", "texts"}
  <2>1. sample = Texts!NoSample
    BY <1>3 DEF Init
  <2>2. DOMAIN sample = {"none"}
    BY <2>1 DEF Texts!NoSample
  <2> QED
    BY <2>2 DEF TextSample
<1> QED
  BY <1>1, <1>2, <1>3

LEMMA TextsOfSample == ASSUME TextSample PROVE TextsFaithful
<1> USE DEF TextsFaithful, Texts!TextsFaithful
<1>1. CASE sample \in [delta : Texts!Deltas]
  <2>1. PICK D : sample \in [delta : D]
    BY <1>1
  <2>2. DOMAIN sample = {"delta"}
    BY <2>1
  <2>3. Texts!ObjectFaithful /\ Texts!SplitFaithful
    BY <2>2 DEF Texts!ObjectFaithful, Texts!SplitFaithful, Texts!IsObject, Texts!IsMessage
  <2> QED
    BY <1>1, <2>3, DeltasFaithful
<1>2. CASE sample \in [object : Texts!Objects, rest : Texts!UpTo({"close", "quote", "open"}, 1)]
  <2>1. PICK O, R : sample \in [object : O, rest : R]
    BY <1>2
  <2>2. DOMAIN sample = {"object", "rest"}
    BY <2>1
  <2>3. Texts!DeltaFaithful /\ Texts!SplitFaithful
    BY <2>2 DEF Texts!DeltaFaithful, Texts!SplitFaithful, Texts!IsDelta, Texts!IsMessage
  <2> QED
    BY <1>2, <2>3, ObjectsFaithful
<1>3. CASE sample \in [limit : 9..11, first : 0..3, payload : 0..60]
  <2>1. /\ DOMAIN sample = {"limit", "first", "payload"}
        /\ sample.limit \in 9..11 /\ sample.first \in 0..3 /\ sample.payload \in 0..60
    BY <1>3
  <2>2. Texts!DeltaFaithful /\ Texts!ObjectFaithful
    BY <2>1 DEF Texts!DeltaFaithful, Texts!ObjectFaithful, Texts!IsDelta, Texts!IsObject
  <2>3. Roomy(sample)
    BY <2>1 DEF Roomy, Texts!MarkLength
  <2> QED
    BY <2>2, <2>3, MessagesFaithful
<1>4. CASE DOMAIN sample \cap {"delta", "object", "payload"} = {}
  BY <1>4 DEF Texts!DeltaFaithful, Texts!ObjectFaithful, Texts!SplitFaithful,
              Texts!IsDelta, Texts!IsObject, Texts!IsMessage
<1> QED
  BY <1>1, <1>2, <1>3, <1>4 DEF TextSample

\* What is taken apart by counting is what was put together (ParseDelta of uade,
\* extractMicrosoftConfigJSON of sso, splitNotificationContent of app): in every sample,
\* by what holds of any object, any nodes and a message of any length.
THEOREM TextsKept == Spec => []TextsFaithful
<1>1. Init => TextSample
  BY TextBegin
<1>2. TextSample /\ [Next]_vars => TextSample'
  BY DEF TextSample, Next, vars
<1>3. TextSample => TextsFaithful
  BY TextsOfSample
<1> QED
  BY <1>1, <1>2, <1>3, PTL DEF Spec

=============================================================================
