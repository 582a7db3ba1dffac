------------------------------- MODULE TextProofs -------------------------------
(***************************************************************************)
(* What the passes that cut a text into names, values and strings keep,     *)
(* whatever the text is: nothing of it is left out.  The text need not be   *)
(* a query, a form or JSON that anyone meant to write.                      *)
(***************************************************************************)
EXTENDS BodyProofs

-----------------------------------------------------------------------------
(* JSON texts                                                               *)

\* Json!Escaped of a text.
EscapedIn(t, k, a) ==
  \E m \in a .. k - 1 :
    /\ (k - m) % 2 = 1
    /\ \A j \in m .. k - 1 : t[j] = "\\"
    /\ m = a \/ t[m - 1] # "\\"

Elements(s) == {s[k] : k \in DOMAIN s}

\* The pass is inside the string whose quote is the start of the last span, between
\* two characters of it.
InsideString ==
  LET a == spans[Len(spans)][1] IN
    /\ Len(spans) > 0 /\ spans[Len(spans)][2] = Len(Json!text)
    /\ a < i /\ Json!text[a] = "quote"
    /\ out = << >> <=> i = a + 1
    /\ \A k \in a + 1 .. i - 1 : Json!text[k] = "quote" => EscapedIn(Json!text, k, a + 1)
    /\ i <= Len(Json!text) => ~EscapedIn(Json!text, i, a + 1)

\* What the histories hold.
Histories ==
  /\ log \in Seq(Elements(log)) /\ spans \in Seq((Nat \ {0}) \X Nat)
  /\ \A k \in DOMAIN log : log[k][4] \in Nat
  /\ \A k \in Json!Read : spans[k][1] <= spans[k][2] /\ spans[k][2] < i

JsonInv ==
  /\ doc \in Documents /\ Json!JsonTypeOK /\ depth \in Int
  /\ out \in Seq(Elements(out))
  /\ Histories
  /\ inString => InsideString
  /\ pc = "read" => depth \in 0 .. MaxDepth
  /\ pc = "done" => ~inString
  /\ Json!NothingIsSkipped

LEMMA Appended ==
  ASSUME NEW s, s \in Seq(Elements(s)), NEW e
  PROVE  /\ Append(s, e) \in Seq(Elements(Append(s, e)))
         /\ Len(Append(s, e)) = Len(s) + 1 /\ Len(s) \in Nat
         /\ DOMAIN s = 1 .. Len(s) /\ DOMAIN Append(s, e) = 1 .. Len(s) + 1
         /\ \A k \in 1 .. Len(s) : Append(s, e)[k] = s[k]
         /\ Append(s, e)[Len(s) + 1] = e
<1> DEFINE T == Elements(s) \cup {e}
           t == Append(s, e)
<1>1. s \in Seq(T) /\ e \in T
  <2>1. Elements(s) \subseteq T
    OBVIOUS
  <2> HIDE DEF T
  <2> QED
    BY <2>1, WiderSequences DEF T
<1> HIDE DEF T
<1>2. /\ t \in Seq(T) /\ Len(t) = Len(s) + 1 /\ Len(s) \in Nat
      /\ \A k \in 1 .. Len(s) : t[k] = s[k] /\ t[Len(s) + 1] = e
      /\ t[Len(s) + 1] = e
  BY <1>1, AppendProperties
<1> HIDE DEF t
<1>3. DOMAIN t = 1 .. Len(t) /\ t = [k \in 1 .. Len(t) |-> t[k]] /\ Len(t) \in Nat
  BY <1>2
<1>4. t \in Seq(Elements(t))
  <2>1. \A k \in 1 .. Len(t) : t[k] \in Elements(t)
    BY <1>3 DEF Elements
  <2> QED
    BY <1>3, <2>1
<1> QED
  BY <1>2, <1>3, <1>4 DEF t

-----------------------------------------------------------------------------
(* Escapes                                                                  *)

LEMMA EscapedByBackslash ==
  ASSUME NEW t, NEW a \in Nat, NEW k \in Nat, a <= k, k = a \/ t[k - 1] # "\\"
  PROVE  ~EscapedIn(t, k, a)
<1> SUFFICES ASSUME NEW m \in a .. k - 1, \A j \in m .. k - 1 : t[j] = "\\" PROVE FALSE
  BY DEF EscapedIn
<1>1. k - 1 \in m .. k - 1 /\ k # a
  OBVIOUS
<1> QED
  BY <1>1

LEMMA BackslashEscapes ==
  ASSUME NEW t, NEW a \in Nat, NEW k \in Nat, a <= k, t[k] = "\\", ~EscapedIn(t, k, a)
  PROVE  EscapedIn(t, k + 1, a)
<1> DEFINE M == {m \in a .. k : \A j \in m .. k : t[j] = "\\"}
<1>1. k \in M /\ M \in SUBSET Nat
  OBVIOUS
<1>2. PICK m \in M : \A n \in M : m <= n
  BY <1>1, LeastOfNumbers
<1>3. m \in a .. k /\ \A j \in m .. k : t[j] = "\\"
  BY <1>2
<1>4. m = a \/ t[m - 1] # "\\"
  <2> SUFFICES ASSUME m # a, t[m - 1] = "\\" PROVE FALSE
    OBVIOUS
  <2>1. m - 1 \in a .. k /\ \A j \in m - 1 .. k : j = m - 1 \/ j \in m .. k
    BY <1>3
  <2>2. m - 1 \in M
    BY <1>3, <2>1
  <2> HIDE DEF M
  <2> QED
    BY <1>2, <1>3, <2>2
<1>5. ((k + 1) - m) % 2 = 1
  <2>1. CASE m = k
    BY <1>3, <2>1
  <2>2. CASE m # k
    <3>1. m \in a .. k - 1 /\ \A j \in m .. k - 1 : j \in m .. k
      BY <1>3, <2>2
    <3>2. (k - m) % 2 # 1
      BY <1>3, <1>4, <3>1 DEF EscapedIn
    <3>3. k - m \in Nat /\ (k + 1) - m = (k - m) + 1
      BY <1>3
    <3>4. \A n \in Nat : n % 2 # 1 => (n + 1) % 2 = 1
      OBVIOUS
    <3> QED
      BY <3>2, <3>3, <3>4
  <2> QED
    BY <2>1, <2>2
<1>6. m \in a .. (k + 1) - 1 /\ (k + 1) - 1 = k
  BY <1>3
<1> QED
  BY <1>3, <1>4, <1>5, <1>6 DEF EscapedIn

LEMMA EscapeDone ==
  ASSUME NEW t, NEW a \in Nat, NEW k \in Nat, a <= k, t[k] = "\\", ~EscapedIn(t, k, a)
  PROVE  ~EscapedIn(t, k + 2, a)
<1> SUFFICES ASSUME NEW m \in a .. (k + 2) - 1, ((k + 2) - m) % 2 = 1,
                    \A j \in m .. (k + 2) - 1 : t[j] = "\\",
                    m = a \/ t[m - 1] # "\\"
             PROVE  FALSE
  BY DEF EscapedIn
<1>1. m # k + 1
  <2>1. (k + 1) - 1 = k /\ a # k + 1
    OBVIOUS
  <2> QED
    BY <2>1
<1>2. m # k
  <2>1. ((k + 2) - k) % 2 = 0
    OBVIOUS
  <2> QED
    BY <2>1
<1>3. m \in a .. k - 1 /\ \A j \in m .. k - 1 : j \in m .. (k + 2) - 1
  BY <1>1, <1>2
<1>4. (k - m) % 2 = 1
  <2>1. k - m \in Nat /\ (k + 2) - m = (k - m) + 2
    BY <1>3
  <2>2. \A n \in Nat : (n + 2) % 2 = 1 => n % 2 = 1
    OBVIOUS
  <2> QED
    BY <2>1, <2>2
<1> QED
  BY <1>3, <1>4 DEF EscapedIn
-----------------------------------------------------------------------------
(* Steps between the strings and scalars                                    *)

LEMMA Further ==
  ASSUME NEW b \in Nat, NEW x \in Nat, NEW y \in Nat, x <= y
  PROVE  \A k \in b .. y - 1 : k \in b .. x - 1 \/ k \in x .. y - 1
  OBVIOUS

LEMMA JsonPlace ==
  ASSUME JsonInv
  PROVE  /\ Json!text \in Seq(STRING) /\ Len(Json!text) \in Nat
         /\ i \in 1 .. Len(Json!text) + 1
         /\ Len(spans) \in Nat /\ DOMAIN spans = 1 .. Len(spans)
         /\ \A k \in 1 .. Len(spans) : spans[k][1] \in Nat \ {0} /\ spans[k][2] \in Nat
         /\ threat \in Results /\ MaxDepth \in Nat /\ ScratchSize \in Nat \ {0}
<1>1. Json!text \in Seq(STRING)
  BY JsonConstants DEF JsonInv, Json!JsonAssumption, Json!text
<1>2. spans \in Seq((Nat \ {0}) \X Nat)
  BY DEF JsonInv, Histories
<1> QED
  BY <1>1, <1>2, JsonConstants DEF JsonInv, Json!JsonTypeOK, Json!JsonAssumption

Between ==
  /\ pc = "read" /\ ~inString
  /\ UNCHANGED <<doc, inString, out, threat, spans, log>>
  /\ \/ /\ i' = i + 1 /\ pc' = pc /\ depth' \in 0 .. MaxDepth
        /\ Json!More /\ Json!char \notin {"quote"} \cup Json!ScalarStart
     \/ /\ i' = i /\ pc' = "done" /\ depth' \in -1 .. MaxDepth + 1
        /\ ~Json!More \/ depth' \notin 0 .. MaxDepth

LEMMA BetweenKeeps ==
  ASSUME JsonInv, Between
  PROVE  JsonInv'
<1>1. /\ Len(Json!text) \in Nat /\ i \in 1 .. Len(Json!text) + 1 /\ Json!text' = Json!text
      /\ MaxDepth \in Nat /\ Len(spans) \in Nat
      /\ \A k \in 1 .. Len(spans) : spans[k][1] \in Nat \ {0} /\ spans[k][2] \in Nat
  BY JsonPlace DEF Between, Json!text
<1>2. /\ i' \in {i, i + 1} /\ i' \in 1 .. Len(Json!text) + 1
      /\ i' = i + 1 => Json!text[i] \notin {"quote"} \cup Json!ScalarStart
  <2>1. CASE i' = i + 1 /\ Json!More /\ Json!char \notin {"quote"} \cup Json!ScalarStart
    BY <1>1, <2>1 DEF Json!More, Json!char
  <2>2. CASE i' = i
    BY <1>1, <2>2
  <2> QED
    BY <2>1, <2>2 DEF Between
<1>3. Json!Read' = Json!Read /\ Json!Read \subseteq 1 .. Len(spans)
  BY <1>1 DEF Between, Json!Read
<1>4. depth' \in Int /\ depth' \in -1 .. MaxDepth + 1 /\ pc' \in {"read", "done"}
      /\ (pc' = "read" => depth' \in 0 .. MaxDepth)
  BY <1>1 DEF Between
<1>5. Json!JsonTypeOK'
  <2>1. i' \in 1 .. Len(Json!text') + 1
    BY <1>1, <1>2
  <2>2. inString' \in BOOLEAN /\ Len(out') <= ScratchSize /\ threat' \in Results
    BY DEF Between, JsonInv, Json!JsonTypeOK
  <2> QED
    BY <1>4, <2>1, <2>2 DEF Json!JsonTypeOK
<1>6. Histories'
  <2>1. /\ log \in Seq(Elements(log)) /\ spans \in Seq((Nat \ {0}) \X Nat)
        /\ \A k \in DOMAIN log : log[k][4] \in Nat
        /\ \A k \in Json!Read : spans[k][1] <= spans[k][2] /\ spans[k][2] < i
    BY DEF JsonInv, Histories
  <2>2. spans' = spans /\ log' = log
    BY DEF Between
  <2>3. \A k \in Json!Read : spans[k][1] <= spans[k][2] /\ spans[k][2] < i'
    BY <1>1, <1>2, <1>3, <2>1
  <2> QED
    BY <1>3, <2>1, <2>2, <2>3 DEF Histories, Elements
<1>7. Json!SpansAreWhole'
  BY <1>1, <1>3 DEF Between, JsonInv, Json!NothingIsSkipped, Json!SpansAreWhole,
     Json!StringSpan, Json!ScalarSpan, Json!Escaped
<1>8. Json!NoneIsBetween'
  <2> DEFINE next == i'
  <2>1. i \in Nat /\ next \in Nat /\ (next = i \/ next = i + 1)
    BY <1>1, <1>2
  <2>2. next = i + 1 => Json!text[i] \notin {"quote"} \cup Json!ScalarStart
    BY <1>2
  <2> HIDE DEF next
  <2>3. \A k \in 1 .. next - 1 : k \in 1 .. i - 1 \/ (k = i /\ next = i + 1)
    BY <2>1
  <2>4. \A k \in 1 .. next - 1 : Json!text[k] \in {"quote"} \cup Json!ScalarStart => k \in 1 .. i - 1
    BY <2>2, <2>3
  <2>5. \A k \in 1 .. next - 1 : Json!text[k] \in {"quote"} \cup Json!ScalarStart =>
          \E m \in DOMAIN spans : k \in spans[m][1] .. spans[m][2]
    BY <2>4 DEF JsonInv, Json!NothingIsSkipped, Json!NoneIsBetween
  <2>6. i' = next /\ spans' = spans /\ Json!text' = Json!text
    BY <1>1 DEF Between, next
  <2> QED
    BY <2>5, <2>6 DEF Json!NoneIsBetween
<1>9. Json!EachIsScanned'
  BY <1>1, <1>3 DEF Between, JsonInv, Json!NothingIsSkipped, Json!EachIsScanned,
     Json!IsEmptyString
<1>10. pc' = "done" => ~Json!More' \/ depth' \notin 0 .. MaxDepth
  BY <1>1 DEF Between, Json!More
<1>11. doc' \in Documents /\ out' \in Seq(Elements(out')) /\ ~inString'
  BY DEF Between, JsonInv, Elements
<1> QED
  BY <1>4, <1>5, <1>6, <1>7, <1>8, <1>9, <1>10, <1>11 DEF JsonInv, Json!NothingIsSkipped

LEMMA BetweenSteps ==
  ASSUME JsonInv, Json!Skip \/ Json!Open \/ Json!Close \/ Json!Return
  PROVE  Between
<1>1. MaxDepth \in Nat /\ (pc = "read" => depth \in 0 .. MaxDepth)
  BY JsonPlace DEF JsonInv
<1>2. CASE Json!Skip
  BY <1>1, <1>2 DEF Json!Skip, Between
<1>3. CASE Json!Return
  <2>1. depth' \in -1 .. MaxDepth + 1
    BY <1>1, <1>3 DEF Json!Return
  <2> QED
    BY <1>3, <2>1 DEF Json!Return, Between
<1>4. ASSUME NEW by \in {1, -1}, NEW chars, Json!Outside(chars), Json!Nest(by),
             chars = Json!Opening \/ chars = Json!Closing
      PROVE  Between
  <2>1. pc = "read" /\ ~inString /\ Json!More /\ Json!char \in chars
    BY <1>4 DEF Json!Outside
  <2>2. Json!char \notin {"quote"} \cup Json!ScalarStart
    BY <1>4, <2>1 DEF Json!Opening, Json!Closing, Json!ScalarStart
  <2>3. depth' = depth + by /\ depth' \in -1 .. MaxDepth + 1
    BY <1>1, <1>4, <2>1 DEF Json!Nest
  <2>4. UNCHANGED <<doc, inString, out, threat, spans, log>>
    BY <1>4 DEF Json!Nest
  <2>5. CASE depth + by \in 0 .. MaxDepth
    BY <1>4, <2>1, <2>2, <2>3, <2>4, <2>5 DEF Json!Nest, Between
  <2>6. CASE depth + by \notin 0 .. MaxDepth
    BY <1>4, <2>1, <2>2, <2>3, <2>4, <2>6 DEF Json!Nest, Between
  <2> QED
    BY <2>5, <2>6
<1>5. CASE Json!Open
  BY <1>4, <1>5 DEF Json!Open
<1>6. CASE Json!Close
  BY <1>4, <1>6 DEF Json!Close
<1> QED
  BY <1>2, <1>3, <1>5, <1>6

-----------------------------------------------------------------------------
(* Steps inside a string                                                    *)

\* What a step inside a string does: it decodes the characters from i to i' - 1,
\* none of which ends the string, into one character.
Decodes ==
  LET a == spans[Len(spans)][1] IN
    /\ pc = "read" /\ inString
    /\ UNCHANGED <<doc, depth, inString, threat, pc, spans, log>>
    /\ i' \in Nat /\ i < i' /\ i' <= Len(Json!text) + 1
    /\ \E c : Json!Put(c)
    /\ \A k \in i .. i' - 1 : Json!text[k] = "quote" => EscapedIn(Json!text, k, a + 1)
    /\ i' <= Len(Json!text) => ~EscapedIn(Json!text, i', a + 1)

LEMMA PutFits ==
  ASSUME out \in Seq(Elements(out)), Len(out) <= ScratchSize, ScratchSize \in Nat \ {0},
         NEW c, Json!Put(c)
  PROVE  out' \in Seq(Elements(out')) /\ Len(out') <= ScratchSize /\ out' # << >>
<1>1. Len(out) \in Nat
  OBVIOUS
<1>2. CASE Len(out) < ScratchSize
  <2>1. out' = Append(out, c)
    BY <1>2 DEF Json!Put
  <2>2. Append(out, c) \in Seq(Elements(Append(out, c))) /\ Len(Append(out, c)) = Len(out) + 1
    BY Appended
  <2>3. Len(out') <= ScratchSize /\ Len(out') # 0
    BY <1>1, <1>2, <2>1, <2>2
  <2> QED
    BY <2>1, <2>2, <2>3
<1>3. CASE ~(Len(out) < ScratchSize)
  <2>1. out' = out
    BY <1>3 DEF Json!Put
  <2>2. Len(out) # 0
    BY <1>1, <1>3
  <2> QED
    BY <2>1, <2>2
<1> QED
  BY <1>2, <1>3

LEMMA DecodesKeeps ==
  ASSUME JsonInv, Decodes
  PROVE  JsonInv'
<1> DEFINE n == Len(Json!text)
           s == Len(spans)
           a == spans[s][1]
           next == i'
<1>1. /\ n \in Nat /\ i \in 1 .. n + 1 /\ Json!text' = Json!text /\ s \in Nat
      /\ ScratchSize \in Nat \ {0}
      /\ \A k \in 1 .. s : spans[k][1] \in Nat \ {0} /\ spans[k][2] \in Nat
  BY JsonPlace DEF Decodes, Json!text
<1>2. /\ pc = "read" /\ inString /\ pc' = pc /\ inString' = inString /\ doc' = doc
      /\ depth' = depth /\ threat' = threat /\ spans' = spans /\ log' = log
      /\ next \in Nat /\ i < next /\ next <= n + 1
  BY DEF Decodes
<1>3. /\ s > 0 /\ spans[s][2] = n /\ a < i /\ Json!text[a] = "quote"
      /\ \A k \in a + 1 .. i - 1 : Json!text[k] = "quote" => EscapedIn(Json!text, k, a + 1)
  BY <1>2 DEF JsonInv, InsideString
<1>4. a \in Nat
  BY <1>1, <1>3
<1>5. out' \in Seq(Elements(out')) /\ Len(out') <= ScratchSize /\ out' # << >>
  <2>1. PICK c : Json!Put(c)
    BY DEF Decodes
  <2>2. out \in Seq(Elements(out)) /\ Len(out) <= ScratchSize
    BY DEF JsonInv, Json!JsonTypeOK
  <2> QED
    BY <1>1, <2>1, <2>2, PutFits
<1>6. /\ \A k \in i .. next - 1 : Json!text[k] = "quote" => EscapedIn(Json!text, k, a + 1)
      /\ next <= n => ~EscapedIn(Json!text, next, a + 1)
  BY DEF Decodes
<1> HIDE DEF n, s, a, next
<1>8. Json!Read' = Json!Read /\ Json!Read \subseteq 1 .. s
  BY <1>1, <1>2, <1>3 DEF Json!Read, s
<1>9. Json!JsonTypeOK'
  <2>1. i' \in 1 .. n + 1 /\ n = Len(Json!text')
    BY <1>1, <1>2 DEF n, next
  <2> QED
    BY <1>2, <1>5, <2>1 DEF JsonInv, Json!JsonTypeOK
<1>10. Histories'
  <2>1. /\ log \in Seq(Elements(log)) /\ spans \in Seq((Nat \ {0}) \X Nat)
        /\ \A k \in DOMAIN log : log[k][4] \in Nat
        /\ \A k \in Json!Read : spans[k][1] <= spans[k][2] /\ spans[k][2] < i
    BY DEF JsonInv, Histories
  <2>2. \A k \in Json!Read : spans[k][2] \in Nat
    BY <1>1, <1>8
  <2>3. \A k \in Json!Read : spans[k][1] <= spans[k][2] /\ spans[k][2] < next
    BY <1>1, <1>2, <2>1, <2>2
  <2> QED
    BY <1>2, <1>8, <2>1, <2>3 DEF Histories, Elements, next
<1>11. InsideString'
  <2>1. \A k \in a + 1 .. next - 1 : k \in a + 1 .. i - 1 \/ k \in i .. next - 1
    BY <1>1, <1>2, <1>4, Further
  <2>2. \A k \in a + 1 .. next - 1 : Json!text[k] = "quote" => EscapedIn(Json!text, k, a + 1)
    BY <1>3, <1>6, <2>1
  <2>3. a < next /\ next # a + 1 /\ a + 1 \in Nat /\ \A k \in a + 1 .. next - 1 : k \in Nat
    <3>1. i \in Nat /\ next \in Nat /\ a < i /\ i < next
      BY <1>1, <1>2, <1>3
    <3> QED
      BY <1>4, <3>1
  <2>4. \A k \in a + 1 .. next - 1 : Json!text'[k] = "quote" => EscapedIn(Json!text', k, a + 1)
    BY <1>1, <2>2
  <2>5. next <= n => ~EscapedIn(Json!text', next, a + 1)
    BY <1>1, <1>6
  <2>6. Len(spans') = s /\ spans'[s][1] = a /\ Len(Json!text') = n
    BY <1>1, <1>2 DEF s, a, n
  <2>7. ((out' = << >>) <=> (next = a + 1)) /\ Json!text'[a] = "quote" /\ spans'[s][2] = n
    BY <1>1, <1>2, <1>3, <1>5, <2>3
  <2> QED
    BY <1>3, <2>3, <2>4, <2>5, <2>6, <2>7 DEF InsideString, next
<1>12. Json!SpansAreWhole'
  BY <1>1, <1>2, <1>8 DEF JsonInv, Json!NothingIsSkipped, Json!SpansAreWhole,
     Json!StringSpan, Json!ScalarSpan, Json!Escaped
<1>13. Json!NoneIsBetween'
  <2>1. \A k \in 1 .. next - 1 : k \in 1 .. i - 1 \/ k \in a .. n
    <3>1. \A k \in i .. next - 1 : k \in a .. n
      BY <1>1, <1>2, <1>3, <1>4
    <3>2. 1 \in Nat /\ i \in Nat /\ next \in Nat /\ i <= next
      BY <1>1, <1>2
    <3> QED
      BY <3>1, <3>2, Further
  <2>2. s \in DOMAIN spans /\ a = spans[s][1] /\ n = spans[s][2]
    BY <1>1, <1>3, JsonPlace DEF s, a
  <2>3. \A k \in 1 .. next - 1 : Json!text[k] \in {"quote"} \cup Json!ScalarStart =>
          \E m \in DOMAIN spans : k \in spans[m][1] .. spans[m][2]
    BY <2>1, <2>2 DEF JsonInv, Json!NothingIsSkipped, Json!NoneIsBetween
  <2>4. i' = next /\ spans' = spans /\ Json!text' = Json!text
    BY <1>1, <1>2 DEF next
  <2> QED
    BY <2>3, <2>4 DEF Json!NoneIsBetween
<1>14. Json!EachIsScanned'
  BY <1>1, <1>2, <1>8 DEF JsonInv, Json!NothingIsSkipped, Json!EachIsScanned,
     Json!IsEmptyString
<1>15. doc' \in Documents /\ depth' \in Int /\ pc' = "read" /\ depth' \in 0 .. MaxDepth
  BY <1>2 DEF JsonInv
<1> QED
  BY <1>5, <1>9, <1>10, <1>11, <1>12, <1>13, <1>14, <1>15 DEF JsonInv, Json!NothingIsSkipped

LEMMA DecodingSteps ==
  ASSUME JsonInv, Json!Character \/ Json!Escape
  PROVE  Decodes
<1> DEFINE n == Len(Json!text)
           a == spans[Len(spans)][1]
<1>1. n \in Nat /\ i \in 1 .. n + 1
  BY JsonPlace
<1>2. /\ pc = "read" /\ inString /\ i <= n
      /\ UNCHANGED <<doc, depth, inString, threat, pc, spans, log>>
  BY DEF Json!Character, Json!Escape, Json!Inside, Json!More
<1>3. a < i /\ a \in Nat /\ ~EscapedIn(Json!text, i, a + 1)
  BY <1>2, JsonPlace DEF JsonInv, InsideString
<1> HIDE DEF n, a
<1>4. i \in Nat /\ a + 1 \in Nat /\ a + 1 <= i
  BY <1>1, <1>3
<1>5. ASSUME NEW next \in Nat, i' = next, i < next, next <= n + 1, NEW c, Json!Put(c),
             \A k \in i .. next - 1 : Json!text[k] = "quote" => EscapedIn(Json!text, k, a + 1),
             next <= n => ~EscapedIn(Json!text, next, a + 1)
      PROVE  Decodes
  BY <1>2, <1>5 DEF Decodes, n, a
<1>6. CASE Json!Character
  <2>1. /\ Json!text[i] # "quote" /\ (Json!text[i] = "\\" => i = n)
        /\ Json!Put(Json!Plain(Json!text[i])) /\ i' = i + 1
    BY <1>6 DEF Json!Character, Json!char, n
  <2>2. \A k \in i .. (i + 1) - 1 : k = i
    BY <1>4
  <2>3. i + 1 \in Nat /\ i < i + 1 /\ i + 1 <= n + 1 /\ (i + 1) - 1 = i /\ a + 1 <= i + 1
    BY <1>1, <1>2, <1>4
  <2>4. i + 1 <= n => ~EscapedIn(Json!text, i + 1, a + 1)
    <3> SUFFICES ASSUME i + 1 <= n PROVE ~EscapedIn(Json!text, i + 1, a + 1)
      OBVIOUS
    <3>1. Json!text[(i + 1) - 1] # "\\"
      BY <1>1, <1>4, <2>1, <2>3
    <3> QED
      BY <1>4, <2>3, <3>1, EscapedByBackslash
  <2>5. \A k \in i .. (i + 1) - 1 : Json!text[k] = "quote" => EscapedIn(Json!text, k, a + 1)
    BY <2>1, <2>2
  <2> QED
    BY <1>5, <2>1, <2>3, <2>4, <2>5
<1>7. CASE Json!Escape
  <2>1. Json!text[i] = "\\" /\ i < n
    BY <1>7 DEF Json!Escape, Json!char, n
  <2>2. EscapedIn(Json!text, i + 1, a + 1) /\ ~EscapedIn(Json!text, i + 2, a + 1)
    BY <1>3, <1>4, <2>1, BackslashEscapes, EscapeDone
  <2>3. CASE Json!IsCodePoint
    <3>1. /\ Json!Put(<<"u">> \o Json!Digits) /\ i' = i + 6
      BY <1>7, <2>3 DEF Json!Escape
    <3>2. /\ Json!text[i + 1] = "u" /\ i + 5 <= n
          /\ \A k \in 1 .. 4 : Json!Digits[k] \in Json!Hex
      BY <2>3 DEF Json!IsCodePoint, n
    <3>3. \A k \in 1 .. 4 : Json!Digits[k] = Json!text[i + 1 + k]
      <4>1. Len(Json!text) \in Nat /\ i + 5 <= Len(Json!text)
        BY <1>1, <3>2 DEF n
      <4>2. \A k \in 1 .. 4 : k \in 1 .. ((i + 5) - (i + 2) + 1) /\ (i + 2) + k - 1 = i + 1 + k
        BY <1>4
      <4> QED
        BY <1>4, <4>1, <4>2, JsonPlace DEF Json!Digits
    <3>4. \A k \in (i + 2) .. (i + 5) : Json!text[k] \in Json!Hex
      <4>1. \A k \in (i + 2) .. (i + 5) : k - (i + 1) \in 1 .. 4 /\ i + 1 + (k - (i + 1)) = k
        BY <1>4
      <4> QED
        BY <3>2, <3>3, <4>1
    <3>5. \A k \in (i + 2) .. (i + 5) : Json!text[k] # "quote" /\ Json!text[k] # "\\"
      BY <3>4 DEF Json!Hex
    <3>6. \A k \in i .. (i + 6) - 1 : k = i \/ k = i + 1 \/ k \in (i + 2) .. (i + 5)
      BY <1>4
    <3>7. \A k \in i .. (i + 6) - 1 : Json!text[k] # "quote"
      BY <2>1, <3>2, <3>5, <3>6
    <3>8. ~EscapedIn(Json!text, i + 6, a + 1)
      <4>1. (i + 6) - 1 \in (i + 2) .. (i + 5) /\ i + 6 \in Nat /\ a + 1 <= i + 6
        BY <1>4
      <4> QED
        BY <1>4, <3>5, <4>1, EscapedByBackslash
    <3>9. i + 6 \in Nat /\ i < i + 6 /\ i + 6 <= n + 1
      BY <1>1, <1>4, <3>2
    <3> QED
      BY <1>5, <3>1, <3>7, <3>8, <3>9
  <2>4. CASE ~Json!IsCodePoint
    <3>1. Json!Put(Json!Plain(Json!Unescaped(Json!text[i + 1]))) /\ i' = i + 2
      BY <1>7, <2>4 DEF Json!Escape
    <3>2. \A k \in i .. (i + 2) - 1 : k = i \/ k = i + 1
      BY <1>4
    <3>3. \A k \in i .. (i + 2) - 1 : Json!text[k] = "quote" => EscapedIn(Json!text, k, a + 1)
      BY <2>1, <2>2, <3>2
    <3>4. i + 2 \in Nat /\ i < i + 2 /\ i + 2 <= n + 1
      BY <1>1, <1>4, <2>1
    <3> QED
      BY <1>5, <2>2, <3>1, <3>3, <3>4
  <2> QED
    BY <2>3, <2>4
<1> QED
  BY <1>6, <1>7

-----------------------------------------------------------------------------
(* The end of a string, and scalars                                         *)

\* What scanning the string or scalar from a to b does; n strings and scalars have
\* been read before it, of which the pass may be in the last.
Reads(n, a, b) ==
  /\ pc = "read" /\ UNCHANGED <<doc, depth, pc>> /\ inString' = FALSE
  /\ out' \in Seq(Elements(out')) /\ Len(out') <= ScratchSize
  /\ Json!Read = 1 .. n
  /\ spans' \in Seq((Nat \ {0}) \X Nat) /\ Len(spans') = n + 1
  /\ \A k \in 1 .. n : spans'[k] = spans[k]
  /\ spans'[n + 1] = << a, b >>
  /\ a <= b /\ b <= Len(Json!text) /\ i' = b + 1 /\ i - 1 <= b
  /\ \A k \in 1 .. n : spans[k][2] < a
  /\ Json!StringSpan(a, b) \/ Json!ScalarSpan(a, b)
  /\ \A k \in 1 .. b :
       Json!text[k] \in {"quote"} \cup Json!ScalarStart =>
         k \in a .. b \/ \E m \in 1 .. n : k \in spans[m][1] .. spans[m][2]
  /\ IF Json!IsEmptyString(a, b) THEN UNCHANGED <<threat, log>>
     ELSE \E e : /\ e[4] = a /\ log' = Append(log, e)
                 /\ threat' \in Results

LEMMA ReadsKeep ==
  ASSUME JsonInv, NEW n \in Nat, NEW a \in Nat \ {0}, NEW b \in Nat, Reads(n, a, b)
  PROVE  JsonInv'
<1>1. /\ Len(Json!text) \in Nat /\ i \in 1 .. Len(Json!text) + 1 /\ Json!text' = Json!text
      /\ threat \in Results /\ ScratchSize \in Nat \ {0}
  BY JsonPlace DEF Reads, Json!text
<1>2. /\ pc = "read" /\ pc' = pc /\ depth' = depth /\ doc' = doc /\ inString' = FALSE
      /\ out' \in Seq(Elements(out')) /\ Len(out') <= ScratchSize
      /\ Json!Read = 1 .. n
      /\ spans' \in Seq((Nat \ {0}) \X Nat) /\ Len(spans') = n + 1
      /\ a <= b /\ b <= Len(Json!text) /\ i' = b + 1 /\ i - 1 <= b
  BY DEF Reads
<1>3. /\ \A k \in 1 .. n : spans'[k] = spans[k] /\ spans[k][2] < a
      /\ spans'[n + 1] = << a, b >>
  BY DEF Reads
<1>4. Json!StringSpan(a, b) \/ Json!ScalarSpan(a, b)
  BY DEF Reads
<1>5. /\ Json!Read' = 1 .. n + 1 /\ DOMAIN spans' = 1 .. n + 1
      /\ \A k \in 1 .. n + 1 : k \in 1 .. n \/ k = n + 1
      /\ n + 1 \in 1 .. n + 1 /\ 1 .. n \subseteq 1 .. n + 1
  <2>1. Json!Read' = 1 .. Len(spans')
    BY <1>2 DEF Json!Read
  <2> QED
    BY <1>2, <2>1
<1>6. /\ \A k \in 1 .. n : spans[k][1] \in Nat \ {0} /\ spans[k][2] \in Nat
                           /\ spans[k][1] <= spans[k][2] /\ k \in DOMAIN spans
  <2>1. Json!Read \subseteq 1 .. Len(spans)
    BY JsonPlace DEF Json!Read
  <2> QED
    BY <1>2, <2>1, JsonPlace DEF JsonInv, Histories
<1>7. Json!JsonTypeOK'
  <2>1. i' \in 1 .. Len(Json!text') + 1
    BY <1>1, <1>2
  <2>2. depth' \in -1 .. MaxDepth + 1 /\ pc' \in {"read", "done"} /\ Len(out') <= ScratchSize
    BY <1>2 DEF JsonInv, Json!JsonTypeOK
  <2>3. threat' \in Results
    BY <1>1 DEF Reads
  <2>4. inString' \in BOOLEAN
    <3>1. \A x : x = FALSE => x \in BOOLEAN
      OBVIOUS
    <3> QED
      BY <1>2, <3>1, Zenon
  <2> QED
    BY <2>1, <2>2, <2>3, <2>4 DEF Json!JsonTypeOK
<1>8. /\ log' \in Seq(Elements(log')) /\ \A k \in DOMAIN log' : log'[k][4] \in Nat
      /\ Json!EachIsScanned'
  <2>1. /\ log \in Seq(Elements(log)) /\ \A k \in DOMAIN log : log[k][4] \in Nat
        /\ {log[k][4] : k \in DOMAIN log}
             = {spans[k][1] : k \in {m \in 1 .. n : ~Json!IsEmptyString(spans[m][1], spans[m][2])}}
        /\ \A j, k \in DOMAIN log : j < k => log[j][4] < log[k][4]
    BY <1>2 DEF JsonInv, Histories, Json!NothingIsSkipped, Json!EachIsScanned
  <2> DEFINE old == {m \in 1 .. n : ~Json!IsEmptyString(spans[m][1], spans[m][2])}
             new == {m \in 1 .. n + 1 : ~Json!IsEmptyString(spans'[m][1], spans'[m][2])}
  <2>2. Json!EachIsScanned' <=>
          /\ {log'[k][4] : k \in DOMAIN log'} = {spans'[k][1] : k \in new}
          /\ \A j, k \in DOMAIN log' : j < k => log'[j][4] < log'[k][4]
    BY <1>1, <1>5 DEF Json!EachIsScanned, Json!IsEmptyString
  <2>3. \A m \in 1 .. n : m \in new <=> m \in old
    BY <1>3, <1>5
  <2>4. n + 1 \in new <=> ~Json!IsEmptyString(a, b)
    BY <1>3, <1>5
  <2> HIDE DEF old, new
  <2>5. \A k \in DOMAIN log : log[k][4] < a
    <3> SUFFICES ASSUME NEW k \in DOMAIN log PROVE log[k][4] < a
      OBVIOUS
    <3>1. PICK m \in 1 .. n : log[k][4] = spans[m][1]
      BY <2>1
    <3> QED
      BY <1>3, <1>6, <3>1
  <2>6. old \subseteq 1 .. n /\ new \subseteq 1 .. n + 1
    BY DEF old, new
  <2>7. CASE Json!IsEmptyString(a, b)
    <3>1. log' = log
      BY <2>7 DEF Reads
    <3>2. new = old
      BY <1>5, <2>3, <2>4, <2>6, <2>7
    <3>3. {spans'[k][1] : k \in new} = {spans[k][1] : k \in old}
      BY <1>3, <2>6, <3>2
    <3> QED
      BY <2>1, <2>2, <3>1, <3>3 DEF Elements, old
  <2>8. CASE ~Json!IsEmptyString(a, b)
    <3>1. PICK e : e[4] = a /\ log' = Append(log, e)
      BY <2>8 DEF Reads
    <3>2. /\ log' \in Seq(Elements(log')) /\ Len(log) \in Nat
          /\ DOMAIN log = 1 .. Len(log) /\ DOMAIN log' = 1 .. Len(log) + 1
          /\ \A k \in 1 .. Len(log) : log'[k] = log[k]
          /\ log'[Len(log) + 1] = e
      BY <2>1, <3>1, Appended
    <3>3. \A k \in DOMAIN log' : k \in DOMAIN log \/ k = Len(log) + 1
      BY <3>2
    <3>4. \A k \in DOMAIN log' : log'[k][4] \in Nat
      BY <2>1, <3>1, <3>2, <3>3
    <3>5. \A j, k \in DOMAIN log' : j < k => log'[j][4] < log'[k][4]
      <4> SUFFICES ASSUME NEW j \in DOMAIN log', NEW k \in DOMAIN log', j < k
                   PROVE  log'[j][4] < log'[k][4]
        OBVIOUS
      <4>1. j \in DOMAIN log
        BY <3>2
      <4>2. CASE k \in DOMAIN log
        BY <2>1, <3>2, <4>1, <4>2
      <4>3. CASE k = Len(log) + 1
        BY <2>5, <3>1, <3>2, <4>1, <4>3
      <4> QED
        BY <3>3, <4>2, <4>3
    <3>6. \A x : (\E k \in DOMAIN log' : x = log'[k][4]) <=> (\E k \in DOMAIN log : x = log[k][4]) \/ x = a
      BY <3>1, <3>2, <3>3
    <3>7. \A x : (\E k \in new : x = spans'[k][1]) <=> (\E k \in old : x = spans[k][1]) \/ x = a
      <4>1. \A m : m \in new <=> m \in old \/ m = n + 1
        BY <1>5, <2>3, <2>4, <2>6, <2>8
      <4>2. spans'[n + 1][1] = a /\ \A m \in old : spans'[m][1] = spans[m][1]
        BY <1>3, <2>6
      <4> QED
        BY <4>1, <4>2
    <3>8. \A x : (\E k \in DOMAIN log : x = log[k][4]) <=> (\E k \in old : x = spans[k][1])
      BY <2>1 DEF old
    <3>9. {log'[k][4] : k \in DOMAIN log'} = {spans'[k][1] : k \in new}
      BY <3>6, <3>7, <3>8
    <3> QED
      BY <2>2, <3>2, <3>4, <3>5, <3>9
  <2> QED
    BY <2>7, <2>8
<1>9. Histories'
  <2>1. \A k \in 1 .. n + 1 : spans'[k][1] <= spans'[k][2] /\ spans'[k][2] < i'
    <3> SUFFICES ASSUME NEW k \in 1 .. n + 1
                 PROVE  spans'[k][1] <= spans'[k][2] /\ spans'[k][2] < i'
      OBVIOUS
    <3>1. CASE k \in 1 .. n
      <4>1. spans'[k] = spans[k] /\ spans[k][2] < a
        BY <1>3, <3>1
      <4>2. spans[k][1] <= spans[k][2] /\ spans[k][2] \in Nat
        BY <1>6, <3>1
      <4>3. \A x \in Nat : x < a => x < b + 1
        BY <1>2
      <4> QED
        BY <1>2, <4>1, <4>2, <4>3
    <3>2. CASE k = n + 1
      <4>1. spans'[k][1] = a /\ spans'[k][2] = b
        BY <1>3, <3>2
      <4> QED
        BY <1>2, <4>1
    <3> QED
      BY <1>5, <3>1, <3>2
  <2> QED
    BY <1>2, <1>5, <1>8, <2>1 DEF Histories, Elements
<1>10. Json!SpansAreWhole'
  <2>1. \A k \in 1 .. n : Json!StringSpan(spans[k][1], spans[k][2])
                          \/ Json!ScalarSpan(spans[k][1], spans[k][2])
    BY <1>2 DEF JsonInv, Json!NothingIsSkipped, Json!SpansAreWhole
  <2>2. \A k \in 1 .. n + 1 : Json!StringSpan(spans'[k][1], spans'[k][2])
                              \/ Json!ScalarSpan(spans'[k][1], spans'[k][2])
    <3> SUFFICES ASSUME NEW k \in 1 .. n + 1
                 PROVE  Json!StringSpan(spans'[k][1], spans'[k][2])
                        \/ Json!ScalarSpan(spans'[k][1], spans'[k][2])
      OBVIOUS
    <3>1. CASE k \in 1 .. n
      <4>1. spans'[k] = spans[k]
        BY <1>3, <3>1
      <4> QED
        BY <2>1, <3>1, <4>1
    <3>2. CASE k = n + 1
      <4>1. spans'[k][1] = a /\ spans'[k][2] = b
        BY <1>3, <3>2
      <4> QED
        BY <1>4, <4>1
    <3> QED
      BY <1>5, <3>1, <3>2
  <2>3. \A j, k \in 1 .. n + 1 : j < k => spans'[j][2] < spans'[k][1]
    <3> SUFFICES ASSUME NEW j \in 1 .. n + 1, NEW k \in 1 .. n + 1, j < k
                 PROVE  spans'[j][2] < spans'[k][1]
      OBVIOUS
    <3>1. j \in 1 .. n
      OBVIOUS
    <3>2. CASE k \in 1 .. n
      BY <1>3, <1>6, <3>1, <3>2 DEF JsonInv, Json!NothingIsSkipped, Json!SpansAreWhole
    <3>3. CASE k = n + 1
      BY <1>3, <3>1, <3>3
    <3> QED
      BY <1>5, <3>2, <3>3
  <2> QED
    BY <1>1, <1>5, <2>2, <2>3
    DEF Json!SpansAreWhole, Json!StringSpan, Json!ScalarSpan, Json!Escaped
<1>11. Json!NoneIsBetween'
  <2>1. i' - 1 = b
    <3>1. \A x : x = b + 1 => x - 1 = b
      OBVIOUS
    <3> QED
      BY <1>2, <3>1
  <2>2. \A k \in 1 .. b : Json!text[k] \in {"quote"} \cup Json!ScalarStart =>
          \E m \in 1 .. n + 1 : k \in spans'[m][1] .. spans'[m][2]
    <3> SUFFICES ASSUME NEW k \in 1 .. b, Json!text[k] \in {"quote"} \cup Json!ScalarStart
                 PROVE  \E m \in 1 .. n + 1 : k \in spans'[m][1] .. spans'[m][2]
      OBVIOUS
    <3>1. k \in a .. b \/ \E m \in 1 .. n : k \in spans[m][1] .. spans[m][2]
      BY DEF Reads
    <3>2. CASE k \in a .. b
      BY <1>3, <1>5, <3>2
    <3>3. CASE \E m \in 1 .. n : k \in spans[m][1] .. spans[m][2]
      <4>1. PICK m \in 1 .. n : k \in spans[m][1] .. spans[m][2]
        BY <3>3
      <4>2. m \in 1 .. n + 1 /\ spans'[m] = spans[m]
        BY <1>3, <1>5
      <4> QED
        BY <4>1, <4>2
    <3> QED
      BY <3>1, <3>2, <3>3
  <2> QED
    BY <1>1, <1>5, <2>1, <2>2 DEF Json!NoneIsBetween
<1>12. doc' \in Documents /\ depth' \in Int /\ pc' = "read" /\ depth' \in 0 .. MaxDepth
       /\ ~inString'
  BY <1>2 DEF JsonInv
<1> QED
  BY <1>2, <1>7, <1>8, <1>9, <1>10, <1>11, <1>12 DEF JsonInv, Json!NothingIsSkipped

LEMMA StringEnds ==
  ASSUME JsonInv, Json!EndString
  PROVE  \E n \in Nat, a \in Nat \ {0}, b \in Nat : Reads(n, a, b)
<1> DEFINE size == Len(Json!text)
           s == Len(spans)
           a == spans[s][1]
           next == IF Json!More THEN i + 1 ELSE i
<1>1. size \in Nat /\ i \in 1 .. size + 1 /\ s \in Nat /\ threat \in Results
      /\ \A k \in 1 .. s : spans[k][1] \in Nat \ {0} /\ spans[k][2] \in Nat
  BY JsonPlace
<1>2. /\ pc = "read" /\ inString /\ (Json!More => Json!text[i] = "quote")
      /\ UNCHANGED <<doc, depth, out, pc>> /\ inString' = FALSE /\ i' = next
      /\ spans' = [spans EXCEPT ![s] = << spans[s][1], next - 1 >>]
      /\ \E collection : Json!Scan(collection, out, Json!Last(spans)[1])
  BY DEF Json!EndString, Json!Inside, Json!char
<1>3. /\ s > 0 /\ spans[s][2] = size /\ a < i /\ Json!text[a] = "quote"
      /\ out = << >> <=> i = a + 1
      /\ \A k \in a + 1 .. i - 1 : Json!text[k] = "quote" => EscapedIn(Json!text, k, a + 1)
      /\ i <= size => ~EscapedIn(Json!text, i, a + 1)
  BY <1>2 DEF JsonInv, InsideString
<1>4. spans \in Seq((Nat \ {0}) \X Nat) /\ DOMAIN spans = 1 .. s
  BY JsonPlace DEF JsonInv, Histories
<1>5. (IF out = << >> THEN UNCHANGED <<threat, log>>
       ELSE \E e : e[4] = a /\ log' = Append(log, e) /\ threat' \in Results)
  <2>1. Json!Last(spans)[1] = a
    BY DEF Json!Last
  <2>2. PICK collection : Json!Scan(collection, out, a)
    BY <1>2, <2>1
  <2>3. CASE out = << >>
    BY <2>2, <2>3 DEF Json!Scan
  <2>4. CASE out # << >>
    <3>1. PICK r \in Results : /\ threat' = IF r # 0 THEN r ELSE threat
                               /\ log' = Append(log, <<collection, out, r, a>>)
      BY <2>2, <2>4 DEF Json!Scan
    <3>2. threat' \in Results
      BY <1>1, <3>1
    <3>3. <<collection, out, r, a>>[4] = a
      OBVIOUS
    <3> QED
      BY <2>4, <3>1, <3>2, <3>3
  <2> QED
    BY <2>3, <2>4
<1> HIDE DEF s, a
<1>6. a \in Nat \ {0} /\ i \in Nat
  BY <1>1, <1>3 DEF a
<1>7. PICK b \in Nat : /\ next = b + 1 /\ next - 1 = b /\ a <= b /\ b <= size /\ i - 1 <= b
                       /\ \/ b = i /\ Json!text[i] = "quote" /\ i <= size
                          \/ b = i - 1 /\ b = size
  <2>1. CASE Json!More
    <3>1. next = i + 1 /\ i <= size /\ Json!text[i] = "quote"
      BY <1>2, <2>1 DEF Json!More
    <3>2. (i + 1) - 1 = i /\ a <= i /\ i - 1 <= i
      BY <1>3, <1>6
    <3> QED
      BY <1>6, <3>1, <3>2
  <2>2. CASE ~Json!More
    <3>1. next = i /\ ~(i <= size)
      BY <2>2 DEF Json!More
    <3>2. i = size + 1
      BY <1>1, <3>1
    <3>3. i = size + 1 /\ i - 1 = size /\ a <= size
      BY <1>1, <1>3, <1>6, <3>2
    <3>4. i - 1 \in Nat /\ (i - 1) + 1 = i
      BY <1>1, <3>2
    <3> HIDE DEF next, size
    <3> QED
      BY <1>6, <3>1, <3>3, <3>4
  <2> QED
    BY <2>1, <2>2
<1> HIDE DEF next, size
<1>8. PICK n \in Nat : s = n + 1 /\ Json!Read = 1 .. n /\ n = s - 1
  <2>1. Json!Read = 1 .. s - 1
    BY <1>2 DEF Json!Read, s
  <2>2. s - 1 \in Nat /\ s = (s - 1) + 1
    BY <1>1, <1>3
  <2> QED
    BY <2>1, <2>2
<1>9. /\ spans' \in Seq((Nat \ {0}) \X Nat) /\ Len(spans') = s
      /\ \A k \in 1 .. s : k # s => spans'[k] = spans[k]
      /\ spans'[s] = << a, b >>
  <2>1. << a, b >> \in (Nat \ {0}) \X Nat /\ s \in 1 .. s
    BY <1>1, <1>3, <1>6
  <2>2. spans' = [spans EXCEPT ![s] = << a, b >>]
    BY <1>2, <1>7 DEF a
  <2>3. Len(spans) = s
    BY DEF s
  <2> QED
    BY <1>4, <2>1, <2>2, <2>3
<1>10. \A k \in 1 .. n : spans'[k] = spans[k] /\ spans[k][2] < a
  <2>1. \A k \in 1 .. n : k \in 1 .. s /\ k < s /\ k # s
    BY <1>8
  <2>2. s \in DOMAIN spans
    BY <1>1, <1>3, <1>4
  <2> QED
    BY <1>4, <1>9, <2>1, <2>2 DEF JsonInv, Json!NothingIsSkipped, Json!SpansAreWhole, a
<1>11. EscapedIn(Json!text, a + 1, a + 1) = FALSE
  <2>1. a + 1 \in Nat /\ a + 1 <= a + 1
    BY <1>6
  <2> QED
    BY <2>1, EscapedByBackslash DEF EscapedIn
<1>12. Json!StringSpan(a, b)
  <2>1. \A k \in a + 1 .. b - 1 : k \in a + 1 .. i - 1
    BY <1>6, <1>7
  <2>2. \A k \in a + 1 .. b - 1 : Json!text[k] = "quote" => EscapedIn(Json!text, k, a + 1)
    BY <1>3, <2>1
  <2>3. \/ a < b /\ Json!text[b] = "quote" /\ ~EscapedIn(Json!text, b, a + 1)
        \/ b = size /\ (a < b /\ Json!text[b] = "quote" => EscapedIn(Json!text, b, a + 1))
    <3>1. CASE b = i /\ Json!text[i] = "quote" /\ i <= size
      BY <1>3, <3>1
    <3>2. CASE b = i - 1 /\ b = size
      <4>1. a < b => b \in a + 1 .. i - 1
        BY <1>6, <1>7, <3>2
      <4> QED
        BY <1>3, <3>2, <4>1
    <3> QED
      BY <1>7, <3>1, <3>2
  <2>4. \A k : EscapedIn(Json!text, k, a + 1) <=> Json!Escaped(k, a + 1)
    BY DEF EscapedIn, Json!Escaped
  <2> QED
    BY <1>3, <2>2, <2>3, <2>4 DEF Json!StringSpan, size
<1>13. Json!IsEmptyString(a, b) <=> out = << >>
  <2>1. CASE b = i /\ Json!text[i] = "quote"
    <3>1. b # a
      BY <1>3, <1>6, <2>1
    <3> QED
      BY <1>3, <2>1, <3>1 DEF Json!IsEmptyString
  <2>2. CASE b = i - 1
    <3>1. b = a <=> i = a + 1
      BY <1>6, <2>2
    <3>2. ~(b = a + 1 /\ Json!text[b] = "quote")
      <4> SUFFICES ASSUME b = a + 1, Json!text[b] = "quote" PROVE FALSE
        OBVIOUS
      <4>1. b \in a + 1 .. i - 1
        BY <1>6, <2>2
      <4> QED
        BY <1>3, <1>11, <4>1
    <3> QED
      BY <1>3, <3>1, <3>2 DEF Json!IsEmptyString
  <2> QED
    BY <1>7, <2>1, <2>2
<1>14. \A k \in 1 .. b : Json!text[k] \in {"quote"} \cup Json!ScalarStart =>
          k \in a .. b \/ \E m \in 1 .. n : k \in spans[m][1] .. spans[m][2]
  <2> SUFFICES ASSUME NEW k \in 1 .. b, Json!text[k] \in {"quote"} \cup Json!ScalarStart,
                      k \notin a .. b
               PROVE  \E m \in 1 .. n : k \in spans[m][1] .. spans[m][2]
    OBVIOUS
  <2>1. k < a /\ k \in 1 .. i - 1
    BY <1>3, <1>6
  <2>2. PICK m \in DOMAIN spans : k \in spans[m][1] .. spans[m][2]
    BY <2>1 DEF JsonInv, Json!NothingIsSkipped, Json!NoneIsBetween
  <2>3. m # s
    BY <1>6, <2>1, <2>2 DEF a
  <2>4. m \in 1 .. n
    BY <1>4, <1>8, <2>3
  <2> QED
    BY <2>2, <2>4
<1>15. out' \in Seq(Elements(out')) /\ Len(out') <= ScratchSize
  BY <1>2 DEF JsonInv, Json!JsonTypeOK
<1>16. Reads(n, a, b)
  <2>1. pc = "read" /\ UNCHANGED <<doc, depth, pc>> /\ inString' = FALSE /\ i' = b + 1
    BY <1>2, <1>7
  <2>2. Len(spans') = n + 1 /\ spans'[n + 1] = << a, b >>
    BY <1>8, <1>9
  <2>3. b <= Len(Json!text) /\ a <= b /\ i - 1 <= b
    BY <1>7 DEF size
  <2>4. (IF Json!IsEmptyString(a, b) THEN UNCHANGED <<threat, log>>
         ELSE \E e : e[4] = a /\ log' = Append(log, e) /\ threat' \in Results)
    BY <1>5, <1>13 DEF s, a
  <2> QED
    BY <1>8, <1>9, <1>10, <1>12, <1>14, <1>15, <2>1, <2>2, <2>3, <2>4 DEF Reads
<1> QED
  BY <1>6, <1>16

LEMMA QuoteOpens ==
  ASSUME JsonInv, Json!Quote
  PROVE  JsonInv'
<1> DEFINE n == Len(Json!text)
           s == Len(spans)
<1>1. /\ n \in Nat /\ i \in 1 .. n + 1 /\ s \in Nat /\ DOMAIN spans = 1 .. s
      /\ \A k \in 1 .. s : spans[k][1] \in Nat \ {0} /\ spans[k][2] \in Nat
      /\ ScratchSize \in Nat \ {0}
  BY JsonPlace
<1>2. /\ pc = "read" /\ inString = FALSE /\ i <= n /\ Json!text[i] = "quote"
      /\ i' = i + 1 /\ inString' = TRUE /\ out' = << >>
      /\ spans' = Append(spans, << i, n >>)
      /\ doc' = doc /\ depth' = depth /\ threat' = threat /\ pc' = pc /\ log' = log
  <2>1. ~inString /\ inString \in BOOLEAN
    BY DEF Json!Quote, Json!Outside, JsonInv, Json!JsonTypeOK
  <2>2. inString = FALSE
    BY <2>1, Zenon
  <2> QED
    BY <2>2 DEF Json!Quote, Json!Outside, Json!More, Json!char
<1>3. Json!text' = Json!text
  BY <1>2 DEF Json!text
<1> HIDE DEF n
<1>4. i \in Nat \ {0} /\ i \in 1 .. n
  BY <1>1, <1>2
<1>5. /\ spans' \in Seq((Nat \ {0}) \X Nat) /\ Len(spans') = s + 1
      /\ DOMAIN spans' = 1 .. s + 1
      /\ \A k \in 1 .. s : spans'[k] = spans[k]
      /\ spans'[s + 1] = << i, n >>
  <2>1. << i, n >> \in (Nat \ {0}) \X Nat /\ spans \in Seq((Nat \ {0}) \X Nat)
    BY <1>1, <1>4 DEF JsonInv, Histories
  <2> QED
    BY <1>2, <2>1, AppendProperties
<1>6. Json!Read' = 1 .. s /\ Json!Read = 1 .. s
  <2>1. Json!Read' = 1 .. Len(spans') - 1
    BY <1>2 DEF Json!Read
  <2>2. Json!Read = 1 .. s
    BY <1>2 DEF Json!Read
  <2>3. (s + 1) - 1 = s
    BY <1>1
  <2> QED
    BY <1>5, <2>1, <2>2, <2>3
<1> HIDE DEF s
<1>7. \A k \in 1 .. s : spans[k][1] <= spans[k][2] /\ spans[k][2] < i
  BY <1>6 DEF JsonInv, Histories
<1>8. Json!JsonTypeOK'
  <2>1. i' \in 1 .. Len(Json!text') + 1
    BY <1>1, <1>2, <1>3 DEF n
  <2>2. inString' \in BOOLEAN
    BY <1>2, Zenon
  <2>3. Len(out') <= ScratchSize
    BY <1>1, <1>2
  <2> QED
    BY <1>2, <2>1, <2>2, <2>3 DEF JsonInv, Json!JsonTypeOK
<1>9. Histories'
  <2>1. \A k \in 1 .. s : spans'[k][1] <= spans'[k][2] /\ spans'[k][2] < i'
    BY <1>1, <1>2, <1>4, <1>5, <1>7
  <2>2. log' \in Seq(Elements(log')) /\ \A k \in DOMAIN log' : log'[k][4] \in Nat
    BY <1>2 DEF JsonInv, Histories, Elements
  <2> QED
    BY <1>5, <1>6, <2>1, <2>2 DEF Histories
<1>10. InsideString'
  <2>1. spans'[Len(spans')] = << i, n >> /\ Len(spans') > 0
    BY <1>1, <1>5
  <2>2. i < i' /\ (out' = << >> <=> i' = i + 1) /\ Json!text'[i] = "quote"
    BY <1>2, <1>3, <1>4
  <2>3. \A k \in i + 1 .. i' - 1 : FALSE
    <3>1. \A x : x = i + 1 => \A k \in i + 1 .. x - 1 : FALSE
      BY <1>4
    <3> QED
      BY <1>2, <3>1
  <2>4. ~EscapedIn(Json!text', i', i + 1)
    <3>1. i + 1 \in Nat /\ i + 1 <= i + 1
      BY <1>4
    <3> QED
      BY <1>2, <3>1, EscapedByBackslash
  <2>5. spans'[Len(spans')][1] = i /\ spans'[Len(spans')][2] = Len(Json!text')
    BY <1>3, <2>1 DEF n
  <2> QED
    BY <2>1, <2>2, <2>3, <2>4, <2>5 DEF InsideString
<1>11. Json!SpansAreWhole'
  <2>1. \A k \in 1 .. s : Json!StringSpan(spans'[k][1], spans'[k][2])
                          \/ Json!ScalarSpan(spans'[k][1], spans'[k][2])
    BY <1>5, <1>6 DEF JsonInv, Json!NothingIsSkipped, Json!SpansAreWhole
  <2>2. \A j, k \in 1 .. s + 1 : j < k => spans'[j][2] < spans'[k][1]
    <3> SUFFICES ASSUME NEW j \in 1 .. s + 1, NEW k \in 1 .. s + 1, j < k
                 PROVE  spans'[j][2] < spans'[k][1]
      OBVIOUS
    <3>1. j \in 1 .. s
      BY <1>1
    <3>2. CASE k \in 1 .. s
      BY <1>1, <1>5, <3>1, <3>2 DEF JsonInv, Json!NothingIsSkipped, Json!SpansAreWhole
    <3>3. CASE k = s + 1
      BY <1>5, <1>7, <3>1, <3>3
    <3>4. k \in 1 .. s \/ k = s + 1
      BY <1>1
    <3> QED
      BY <3>2, <3>3, <3>4
  <2>3. \A x, y : /\ Json!StringSpan(x, y)' <=> Json!StringSpan(x, y)
                  /\ Json!ScalarSpan(x, y)' <=> Json!ScalarSpan(x, y)
    BY <1>3 DEF Json!StringSpan, Json!ScalarSpan, Json!Escaped
  <2> QED
    BY <1>5, <1>6, <2>1, <2>2, <2>3 DEF Json!SpansAreWhole
<1>12. Json!NoneIsBetween'
  <2>1. i' - 1 = i
    <3>1. \A x : x = i + 1 => x - 1 = i
      BY <1>4
    <3> QED
      BY <1>2, <3>1
  <2>2. \A k \in 1 .. i : Json!text[k] \in {"quote"} \cup Json!ScalarStart =>
          \E m \in 1 .. s + 1 : k \in spans'[m][1] .. spans'[m][2]
    <3> SUFFICES ASSUME NEW k \in 1 .. i, Json!text[k] \in {"quote"} \cup Json!ScalarStart
                 PROVE  \E m \in 1 .. s + 1 : k \in spans'[m][1] .. spans'[m][2]
      OBVIOUS
    <3>1. CASE k = i
      <4>1. s + 1 \in 1 .. s + 1 /\ k \in i .. n
        BY <1>1, <1>4, <3>1
      <4> QED
        BY <1>5, <4>1
    <3>2. CASE k # i
      <4>1. k \in 1 .. i - 1
        BY <1>4, <3>2
      <4>2. PICK m \in 1 .. s : k \in spans[m][1] .. spans[m][2]
        BY <1>1, <4>1 DEF JsonInv, Json!NothingIsSkipped, Json!NoneIsBetween
      <4>3. m \in 1 .. s + 1 /\ spans'[m] = spans[m]
        BY <1>1, <1>5
      <4> QED
        BY <4>2, <4>3
    <3> QED
      BY <3>1, <3>2
  <2> QED
    BY <1>3, <1>5, <2>1, <2>2 DEF Json!NoneIsBetween
<1>13. Json!EachIsScanned'
  <2>1. \A k \in 1 .. s : spans'[k] = spans[k]
    BY <1>5
  <2> DEFINE old == {m \in 1 .. s : ~Json!IsEmptyString(spans[m][1], spans[m][2])}
             new == {m \in 1 .. s : ~Json!IsEmptyString(spans'[m][1], spans'[m][2])}
  <2>2. new = old
    BY <2>1
  <2>3. {spans'[m][1] : m \in new} = {spans[m][1] : m \in old}
    BY <2>1, <2>2
  <2>4. /\ {log[k][4] : k \in DOMAIN log} = {spans[m][1] : m \in old}
        /\ \A j, k \in DOMAIN log : j < k => log[j][4] < log[k][4]
    BY <1>6 DEF JsonInv, Json!NothingIsSkipped, Json!EachIsScanned
  <2>5. Json!EachIsScanned' <=>
          /\ {log'[k][4] : k \in DOMAIN log'} = {spans'[m][1] : m \in new}
          /\ \A j, k \in DOMAIN log' : j < k => log'[j][4] < log'[k][4]
    BY <1>3, <1>6 DEF Json!EachIsScanned, Json!IsEmptyString
  <2> HIDE DEF old, new
  <2> QED
    BY <1>2, <2>3, <2>4, <2>5
<1>14. out' \in Seq(Elements(out'))
  BY <1>2
<1>15. doc' \in Documents /\ depth' \in Int /\ pc' = "read" /\ depth' \in 0 .. MaxDepth
  BY <1>2 DEF JsonInv
<1> QED
  BY <1>8, <1>9, <1>10, <1>11, <1>12, <1>13, <1>14, <1>15 DEF JsonInv, Json!NothingIsSkipped

LEMMA ScalarIsRead ==
  ASSUME JsonInv, Json!Scalar
  PROVE  \E n \in Nat, a \in Nat \ {0}, b \in Nat : Reads(n, a, b)
<1> DEFINE size == Len(Json!text)
           n == Len(spans)
           ends == {k \in i .. size : Json!text[k] \in Json!ScalarEnd}
           end == IF ends # {} THEN Json!Min(ends) ELSE 0
           next == IF end = 0 THEN size + 1 ELSE end
           raw == SubSeq(Json!text, i, next - 1)
           plain == [k \in DOMAIN raw |-> Json!Plain(raw[k])]
<1>1. /\ size \in Nat /\ i \in 1 .. size + 1 /\ n \in Nat /\ threat \in Results
      /\ DOMAIN spans = 1 .. n /\ Json!text \in Seq(STRING)
      /\ \A k \in 1 .. n : spans[k][1] \in Nat \ {0} /\ spans[k][2] \in Nat
  BY JsonPlace
<1>2. /\ pc = "read" /\ inString = FALSE /\ i <= size /\ Json!text[i] \in Json!ScalarStart
      /\ doc' = doc /\ depth' = depth /\ inString' = inString /\ out' = out /\ pc' = pc
  <2>1. ~inString /\ inString \in BOOLEAN
    BY DEF Json!Scalar, Json!Outside, JsonInv, Json!JsonTypeOK
  <2>2. inString = FALSE
    BY <2>1, Zenon
  <2> QED
    BY <2>2 DEF Json!Scalar, Json!Outside, Json!More, Json!char
<1>3. /\ i' = next /\ spans' = Append(spans, << i, next - 1 >>)
      /\ Json!Scan("ARGS", plain, i)
  BY DEF Json!Scalar, Json!SelectInSubSeq
<1>4. i \in Nat \ {0} /\ i \in 1 .. size
  BY <1>1, <1>2
<1>5. \A c \in Json!ScalarStart : c \notin Json!ScalarEnd /\ c # "quote"
  BY DEF Json!ScalarStart, Json!ScalarEnd, Json!Blanks, Json!Closing
<1> HIDE DEF size
<1>6. /\ next \in i + 1 .. size + 1
      /\ \A k \in i .. next - 1 : Json!text[k] \notin Json!ScalarEnd
      /\ next = size + 1 \/ Json!text[next] \in Json!ScalarEnd
  <2>1. ends \in SUBSET Nat
    BY <1>4
  <2>2. CASE ends = {}
    <3>1. next = size + 1
      BY <2>2
    <3>2. \A k \in i .. size : Json!text[k] \notin Json!ScalarEnd
      BY <2>2
    <3>3. (size + 1) - 1 = size /\ size + 1 \in i + 1 .. size + 1
      BY <1>1, <1>4
    <3> HIDE DEF next
    <3> QED
      BY <3>1, <3>2, <3>3
  <2>3. CASE ends # {}
    <3>1. PICK m \in ends : \A k \in ends : m <= k
      BY <2>1, <2>3, LeastOfNumbers
    <3>2. Json!Min(ends) \in ends /\ \A k \in ends : Json!Min(ends) <= k
      <4> HIDE DEF ends
      <4> QED
        BY <3>1 DEF Json!Min
    <3>3. end = Json!Min(ends)
      BY <2>3
    <3>4. end \in i .. size /\ Json!text[end] \in Json!ScalarEnd
      BY <3>2, <3>3
    <3>5. next = end /\ end # 0
      BY <1>4, <3>4
    <3>6. end # i
      BY <1>2, <1>5, <3>4
    <3>7. \A k \in i .. end - 1 : Json!text[k] \notin Json!ScalarEnd
      <4> SUFFICES ASSUME NEW k \in i .. end - 1, Json!text[k] \in Json!ScalarEnd PROVE FALSE
        OBVIOUS
      <4>1. k \in i .. size /\ ~(end <= k)
        BY <1>1, <1>4, <3>4
      <4> QED
        BY <3>2, <3>3, <4>1
    <3> HIDE DEF next, end
    <3>8. end \in i + 1 .. size + 1
      BY <1>1, <1>4, <3>4, <3>6
    <3> QED
      BY <3>4, <3>5, <3>7, <3>8
  <2> QED
    BY <2>2, <2>3
<1>7. plain # << >>
  <2> HIDE DEF next
  <2>1. next - 1 \in i .. size
    <3>1. size \in Nat /\ i \in Nat /\ next \in i + 1 .. size + 1
      BY <1>1, <1>4, <1>6
    <3> QED
      BY <3>1
  <2>2. DOMAIN raw = 1 .. (next - 1) - i + 1 /\ 1 \in 1 .. (next - 1) - i + 1
    BY <1>1, <1>4, <2>1 DEF size
  <2>3. DOMAIN plain = DOMAIN raw /\ 1 \in DOMAIN plain
    BY <2>2
  <2>4. \A f : f = << >> => DOMAIN f = {}
    OBVIOUS
  <2> HIDE DEF plain
  <2> QED
    BY <2>3, <2>4
<1> HIDE DEF next, plain, ends
<1>8. PICK b \in Nat : b = next - 1 /\ next = b + 1 /\ i <= b /\ b <= size /\ i - 1 <= b
  <2>1. next - 1 \in Nat /\ next = (next - 1) + 1 /\ i <= next - 1 /\ next - 1 <= size
        /\ i - 1 <= next - 1
    BY <1>1, <1>4, <1>6
  <2> QED
    BY <2>1
<1>9. /\ spans' \in Seq((Nat \ {0}) \X Nat) /\ Len(spans') = n + 1
      /\ \A k \in 1 .. n : spans'[k] = spans[k]
      /\ spans'[n + 1] = << i, b >>
  <2>1. << i, b >> \in (Nat \ {0}) \X Nat /\ spans \in Seq((Nat \ {0}) \X Nat)
    BY <1>4 DEF JsonInv, Histories
  <2>2. spans' = Append(spans, << i, b >>)
    BY <1>3, <1>8
  <2> QED
    BY <2>1, <2>2, AppendProperties
<1>10. Json!Read = 1 .. n /\ \A k \in 1 .. n : spans[k][2] < i
  <2>1. Json!Read = 1 .. n
    BY <1>2 DEF Json!Read
  <2> QED
    BY <2>1 DEF JsonInv, Histories
<1>11. Json!ScalarSpan(i, b)
  BY <1>2, <1>6, <1>8 DEF Json!ScalarSpan, size
<1>12. ~Json!IsEmptyString(i, b)
  BY <1>2, <1>5 DEF Json!IsEmptyString
<1>13. \E e : e[4] = i /\ log' = Append(log, e) /\ threat' \in Results
  <2>1. PICK r \in Results : /\ threat' = IF r # 0 THEN r ELSE threat
                             /\ log' = Append(log, << "ARGS", plain, r, i >>)
    BY <1>3, <1>7 DEF Json!Scan
  <2>2. threat' \in Results /\ << "ARGS", plain, r, i >>[4] = i
    BY <1>1, <2>1
  <2> QED
    BY <2>1, <2>2
<1>14. \A k \in 1 .. b : Json!text[k] \in {"quote"} \cup Json!ScalarStart =>
          k \in i .. b \/ \E m \in 1 .. n : k \in spans[m][1] .. spans[m][2]
  <2> SUFFICES ASSUME NEW k \in 1 .. b, Json!text[k] \in {"quote"} \cup Json!ScalarStart,
                      k \notin i .. b
               PROVE  \E m \in 1 .. n : k \in spans[m][1] .. spans[m][2]
    OBVIOUS
  <2>1. k \in 1 .. i - 1
    BY <1>4
  <2> QED
    BY <1>1, <2>1 DEF JsonInv, Json!NothingIsSkipped, Json!NoneIsBetween
<1>15. out' \in Seq(Elements(out')) /\ Len(out') <= ScratchSize
  BY <1>2 DEF JsonInv, Json!JsonTypeOK
<1>16. i' = b + 1 /\ b <= Len(Json!text) /\ inString' = FALSE
  BY <1>2, <1>3, <1>8 DEF size
<1>17. Reads(n, i, b)
  BY <1>2, <1>8, <1>9, <1>10, <1>11, <1>12, <1>13, <1>14, <1>15, <1>16 DEF Reads
<1> QED
  BY <1>1, <1>4, <1>17

LEMMA JsonInitially == Json!Init => JsonInv
<1> SUFFICES ASSUME Json!Init PROVE JsonInv
  OBVIOUS
<1>1. /\ doc \in Documents /\ i = 1 /\ depth = 0 /\ inString = FALSE /\ out = << >>
      /\ threat = 0 /\ pc = "read" /\ spans = << >> /\ log = << >>
  BY DEF Json!Init
<1>2. /\ Json!text \in Seq(STRING) /\ 0 \in Results /\ MaxDepth \in Nat
      /\ ScratchSize \in Nat \ {0}
  BY <1>1, JsonConstants DEF Json!JsonAssumption, Json!text
<1>3. inString \in BOOLEAN
  BY <1>1, Zenon
<1>4. Json!JsonTypeOK
  BY <1>1, <1>2, <1>3 DEF Json!JsonTypeOK
<1>5. Json!Read = {}
  BY <1>1 DEF Json!Read
<1>6. Histories
  BY <1>1, <1>5 DEF Histories
<1>7. Json!SpansAreWhole /\ Json!NoneIsBetween /\ Json!EachIsScanned
  BY <1>1, <1>5 DEF Json!SpansAreWhole, Json!NoneIsBetween, Json!EachIsScanned
<1> QED
  BY <1>1, <1>2, <1>4, <1>6, <1>7 DEF JsonInv, Json!NothingIsSkipped

LEMMA JsonNext ==
  ASSUME JsonInv, [Json!Next]_(Json!jsonVars)
  PROVE  JsonInv'
<1>1. CASE Json!Skip \/ Json!Open \/ Json!Close \/ Json!Return
  BY <1>1, BetweenSteps, BetweenKeeps
<1>2. CASE Json!Character \/ Json!Escape
  BY <1>2, DecodingSteps, DecodesKeeps
<1>3. CASE Json!EndString
  BY <1>3, StringEnds, ReadsKeep
<1>4. CASE Json!Scalar
  BY <1>4, ScalarIsRead, ReadsKeep
<1>5. CASE Json!Quote
  BY <1>5, QuoteOpens
<1>6. CASE UNCHANGED Json!jsonVars
  <2>1. /\ doc' = doc /\ i' = i /\ depth' = depth /\ inString' = inString /\ out' = out
        /\ threat' = threat /\ pc' = pc /\ spans' = spans /\ log' = log
    BY <1>6 DEF Json!jsonVars
  <2>2. Json!JsonTypeOK'
    BY <2>1 DEF JsonInv, Json!JsonTypeOK, Json!text
  <2>3. Histories'
    BY <2>1 DEF JsonInv, Histories, Json!Read, Elements
  <2>4. inString' => InsideString'
    BY <2>1 DEF JsonInv, InsideString, Json!text
  <2>5. Json!Read' = Json!Read /\ Json!text' = Json!text
    BY <2>1 DEF Json!Read, Json!text
  <2>6. Json!SpansAreWhole'
    BY <2>1, <2>5 DEF JsonInv, Json!NothingIsSkipped, Json!SpansAreWhole, Json!StringSpan,
       Json!ScalarSpan, Json!Escaped
  <2>7. Json!NoneIsBetween'
    BY <2>1, <2>5 DEF JsonInv, Json!NothingIsSkipped, Json!NoneIsBetween
  <2>8. Json!EachIsScanned'
    <3>1. Json!EachIsScanned
      BY DEF JsonInv, Json!NothingIsSkipped
    <3> QED
      BY <2>1, <2>5, <3>1 DEF Json!EachIsScanned, Json!IsEmptyString
  <2>9. pc' = "done" => ~Json!More' \/ depth' \notin 0 .. MaxDepth
    BY <2>1, <2>5 DEF JsonInv, Json!NothingIsSkipped, Json!More
  <2> QED
    BY <2>1, <2>2, <2>3, <2>4, <2>6, <2>7, <2>8, <2>9 DEF JsonInv, Json!NothingIsSkipped,
       Elements
<1> QED
  BY <1>1, <1>2, <1>3, <1>4, <1>5, <1>6 DEF Json!Next, Json!Step, Json!Finished

\* lumina_parse_and_project_json, for any text, depth limit and buffer: whatever the
\* text means, every string, key and scalar that is passed is scanned, once, from its
\* first character to its last.
THEOREM JsonInvariant == Spec => [](body = "json" => JsonInv)
<1>1. Init => (body = "json" => JsonInv)
  BY JsonInitially DEF Init
<1>2. (body = "json" => JsonInv) /\ [Next]_vars => (body = "json" => JsonInv)'
  <2> SUFFICES ASSUME body = "json" => JsonInv, [Next]_vars, body' = "json"
               PROVE  JsonInv'
    OBVIOUS
  <2>1. body = "json" /\ [Json!Next]_(Json!jsonVars)
    BY DEF Next, vars, jsonOnly, Json!jsonVars
  <2> QED
    BY <2>1, JsonNext
<1> QED
  BY <1>1, <1>2, PTL DEF Spec

-----------------------------------------------------------------------------
(* Queries, forms and cookies                                               *)

Whole == {"QUERY_STRING", "REQUEST_HEADERS"}

\* What has been scanned.
Made == {l.scan : l \in Elements(log)}

\* The names and values in S that hold character k of value n.
Holding(S, n, k) == {s \in S : s.value = n /\ s.what \notin Whole /\ k \in s.from .. s.to}

\* Character k of value n is accounted for.
Counted(n, k) ==
  Form!IsLeftOut(request[n], k) \/ \E s \in Made : Holding(Made, n, k) = {s}

\* What has been scanned are parts of the values that have been cut, up to the
\* component that comes next.
ScansAreBehind ==
  \A s \in Made :
    /\ s.what \in Form!Collections /\ s.value \in 1 .. vi /\ s.to \in Nat
    /\ s.value = vi => start # 0 /\ (s.what \notin Whole => s.to < start)

\* A component of the value being cut begins at start.
AtComponent ==
  /\ vi \in 1 .. Len(request) /\ request[vi].kind # "other" /\ request[vi].text # << >>
  /\ start <= Len(request[vi].text) + 1
  /\ \A k \in 1 .. Len(request[vi].text) :
       /\ k < start => Counted(vi, k)
       /\ start = k + 1 => request[vi].text[k] = Form!Separator(request[vi])

FormInv ==
  /\ request \in FormRequests /\ vi \in 1 .. Len(request) + 1 /\ start \in Nat
  /\ threat \in Results /\ pc \in {"cut", "done"}
  /\ log \in Seq(Elements(log)) /\ \A l \in Elements(log) : l.result \in Results
  /\ ScansAreBehind
  /\ start # 0 => AtComponent
  /\ \A n \in 1 .. Len(request) : n < vi /\ request[n].kind # "other" =>
       \A k \in 1 .. Len(request[n].text) : Counted(n, k)

LEMMA FormPlace ==
  ASSUME FormInv
  PROVE  /\ Len(request) \in Nat /\ DOMAIN request = 1 .. Len(request)
         /\ \A v \in 1 .. Len(request) : /\ request[v].text \in Seq(STRING)
                                         /\ Len(request[v].text) \in Nat
                                         /\ DOMAIN request[v].text = 1 .. Len(request[v].text)
         /\ Capacity \in Nat \ {0} /\ vi \in Nat /\ 0 \in Results
<1>1. request \in FormRequests
  BY DEF FormInv
<1>2. Len(request) \in Nat /\ DOMAIN request = 1 .. Len(request)
  BY <1>1, FormConstants DEF Form!ArgumentAssumption
<1>3. \A v \in 1 .. Len(request) : request[v].text \in Seq(STRING)
  BY <1>1, <1>2, FormConstants DEF Form!ArgumentAssumption
<1>4. Capacity \in Nat \ {0} /\ 0 \in Results
  BY FormConstants DEF Form!ArgumentAssumption
<1> QED
  BY <1>2, <1>3, <1>4 DEF FormInv

-----------------------------------------------------------------------------
(* Cutting                                                                  *)

LEMMA FirstOf ==
  ASSUME NEW S \in SUBSET Nat, S # {}
  PROVE  Form!Min(S) \in S /\ \A n \in S : Form!Min(S) <= n
<1>1. \E m \in S : \A n \in S : m <= n
  BY LeastOfNumbers
<1> QED
  BY <1>1 DEF Form!Min

LEMMA LastOf ==
  ASSUME NEW n \in Nat, NEW S, S \subseteq 0 .. n, S # {}
  PROVE  Form!Max(S) \in S /\ \A m \in S : Form!Max(S) >= m
<1>1. \E m \in S : \A k \in S : k <= m
  BY GreatestOfNumbers
<1>2. \E m \in S : \A k \in S : m >= k
  BY <1>1
<1> QED
  BY <1>2 DEF Form!Max

LEMMA FirstFound ==
  ASSUME NEW from \in Nat \ {0}, NEW to \in Nat, NEW F, F \subseteq from .. to, F # {}
  PROVE  /\ Form!Min(F) \in F /\ Form!Min(F) # 0
         /\ \A j \in from .. Form!Min(F) - 1 : j \in from .. to /\ j \notin F
<1>1. F \in SUBSET Nat
  OBVIOUS
<1>2. Form!Min(F) \in F /\ \A j \in F : Form!Min(F) <= j
  BY <1>1, FirstOf
<1>3. Form!Min(F) \in from .. to
  BY <1>2
<1>4. \A j \in from .. Form!Min(F) - 1 : j \in from .. to /\ ~(Form!Min(F) <= j)
  BY <1>3
<1> QED
  BY <1>2, <1>3, <1>4

LEMMA FindIs ==
  ASSUME NEW c, NEW from \in Nat \ {0}, NEW to \in Nat, from <= to + 1
  PROVE  /\ Form!Find(c, from, to) \in from .. to + 1
         /\ \A j \in from .. Form!Find(c, from, to) - 1 : Form!text[j] # c
         /\ Form!Find(c, from, to) <= to => Form!text[Form!Find(c, from, to)] = c
<1> DEFINE F == {j \in from .. to : Form!text[j] = c}
           k == IF F # {} THEN Form!Min(F) ELSE 0
           found == Form!Find(c, from, to)
<1>1. found = IF k = 0 THEN to + 1 ELSE k
  BY DEF Form!Find, Form!SelectInSubSeq
<1>2. F \subseteq from .. to /\ \A j \in from .. to : j \in F <=> Form!text[j] = c
  OBVIOUS
<1> HIDE DEF found, F
<1>3. CASE F = {}
  <2>1. found = to + 1 /\ (to + 1) - 1 = to
    BY <1>1, <1>3
  <2> HIDE DEF k
  <2> QED
    BY <1>2, <1>3, <2>1 DEF found
<1>4. CASE F # {}
  <2>1. k = Form!Min(F)
    BY <1>4
  <2>2. /\ Form!Min(F) \in F /\ Form!Min(F) # 0
        /\ \A j \in from .. Form!Min(F) - 1 : j \in from .. to /\ j \notin F
    BY <1>2, <1>4, FirstFound
  <2>3. found = Form!Min(F)
    BY <1>1, <2>1, <2>2
  <2>4. Form!Min(F) \in from .. to
    BY <1>2, <2>2
  <2>5. Form!Min(F) \in from .. to + 1
    BY <2>4
  <2> HIDE DEF k
  <2> QED
    BY <1>2, <2>2, <2>3, <2>4, <2>5 DEF found
<1> QED
  BY <1>3, <1>4

LEMMA TrimLeftIs ==
  ASSUME NEW from \in Nat \ {0}, NEW to \in Nat, from <= to + 1
  PROVE  /\ Form!TrimLeft(from, to) \in from .. to + 1
         /\ \A j \in from .. Form!TrimLeft(from, to) - 1 : Form!text[j] \in Form!Blanks
<1> DEFINE F == {j \in from .. to : Form!text[j] \notin Form!Blanks}
           k == IF F # {} THEN Form!Min(F) ELSE 0
           found == Form!TrimLeft(from, to)
<1>1. found = IF k = 0 THEN to + 1 ELSE k
  BY DEF Form!TrimLeft, Form!SelectInSubSeq
<1>2. F \subseteq from .. to /\ \A j \in from .. to : j \in F <=> Form!text[j] \notin Form!Blanks
  OBVIOUS
<1> HIDE DEF found, F
<1>3. CASE F = {}
  <2>1. found = to + 1 /\ (to + 1) - 1 = to
    BY <1>1, <1>3
  <2> HIDE DEF k
  <2> QED
    BY <1>2, <1>3, <2>1 DEF found
<1>4. CASE F # {}
  <2>1. k = Form!Min(F)
    BY <1>4
  <2>2. /\ Form!Min(F) \in F /\ Form!Min(F) # 0
        /\ \A j \in from .. Form!Min(F) - 1 : j \in from .. to /\ j \notin F
    BY <1>2, <1>4, FirstFound
  <2>3. found = Form!Min(F)
    BY <1>1, <2>1, <2>2
  <2>4. Form!Min(F) \in from .. to
    BY <1>2, <2>2
  <2>5. Form!Min(F) \in from .. to + 1
    BY <2>4
  <2> HIDE DEF k
  <2> QED
    BY <1>2, <2>2, <2>3, <2>4, <2>5 DEF found
<1> QED
  BY <1>3, <1>4

LEMMA TrimRightIs ==
  ASSUME NEW from \in Nat \ {0}, NEW to \in Nat, from <= to + 1
  PROVE  /\ Form!TrimRight(from, to) \in from - 1 .. to
         /\ \A j \in Form!TrimRight(from, to) + 1 .. to : Form!text[j] \in Form!Blanks
<1> DEFINE S == {j \in from .. to : Form!text[j] \notin Form!Blanks}
           k == IF S # {} THEN Form!Max(S) ELSE 0
           found == Form!TrimRight(from, to)
<1>1. found = IF k = 0 THEN from - 1 ELSE k
  BY DEF Form!TrimRight, Form!SelectLastInSubSeq
<1> HIDE DEF found
<1>2. CASE S = {}
  <2>1. found = from - 1 /\ (from - 1) + 1 = from
    BY <1>1, <1>2
  <2>2. \A j \in from .. to : Form!text[j] \in Form!Blanks
    BY <1>2
  <2>3. from - 1 \in from - 1 .. to
    OBVIOUS
  <2> QED
    BY <2>1, <2>2, <2>3 DEF found
<1>3. CASE S # {}
  <2>1. S \subseteq 0 .. to
    OBVIOUS
  <2>2. k = Form!Max(S) /\ k \in S /\ \A j \in S : k >= j
    <3>1. k = Form!Max(S)
      BY <1>3
    <3> HIDE DEF S
    <3> QED
      BY <1>3, <2>1, <3>1, LastOf
  <2>3. k \in from .. to /\ found = k
    BY <1>1, <2>2
  <2>4. \A j \in k + 1 .. to : j \in from .. to /\ ~(k >= j)
    BY <2>3
  <2>5. \A j \in k + 1 .. to : j \notin S
    BY <2>2, <2>4
  <2>6. \A j \in k + 1 .. to : Form!text[j] \in Form!Blanks
    BY <2>4, <2>5
  <2>7. k \in from - 1 .. to
    BY <2>3
  <2> HIDE DEF S, k
  <2> QED
    BY <2>3, <2>6, <2>7 DEF found
<1> QED
  BY <1>2, <1>3

IsSingle(S) == \E s \in S : S = {s}

\* The one scan of a cut.
Single(C, what, n, from, to) ==
  \E c : C = {c} /\ c.what = what /\ c.value = n /\ c.from = from /\ c.to = to

\* A cut is none or one.
LEMMA CutIs ==
  ASSUME Form!text \in Seq(STRING), NEW what, NEW from \in Nat \ {0},
         NEW to \in Nat, to <= Len(Form!text)
  PROVE  /\ Form!Cut(what, from, to) \in Seq(Elements(Form!Cut(what, from, to)))
         /\ \/ /\ from > to \/ (Form!IsDecoded(what) /\ (to - from) + 1 > Capacity)
               /\ Elements(Form!Cut(what, from, to)) = {}
            \/ /\ from <= to
               /\ Single(Elements(Form!Cut(what, from, to)), what, vi, from, to)
<1> DEFINE raw == SubSeq(Form!text, from, to)
           c == [what |-> what, value |-> vi, from |-> from, to |-> to,
                 decoded |-> IF Form!IsDecoded(what) THEN Form!Decode(raw) ELSE Form!AsIs(raw)]
           cut == Form!Cut(what, from, to)
<1>1. cut = IF from > to \/ (Form!IsDecoded(what) /\ Len(raw) > Capacity) THEN << >> ELSE << c >>
  BY DEF Form!Cut
<1>2. c.what = what /\ c.value = vi /\ c.from = from /\ c.to = to
  OBVIOUS
<1>3. from <= to => Len(raw) = (to - from) + 1
  OBVIOUS
<1> HIDE DEF c, raw, cut
<1>4. CASE from > to \/ (Form!IsDecoded(what) /\ Len(raw) > Capacity)
  <2>1. cut = << >>
    BY <1>1, <1>4
  <2>2. from > to \/ (Form!IsDecoded(what) /\ (to - from) + 1 > Capacity)
    BY <1>3, <1>4
  <2>3. Elements(cut) = {} /\ cut \in Seq(Elements(cut))
    BY <2>1 DEF Elements
  <2> QED
    BY <2>2, <2>3 DEF cut
<1>5. CASE ~(from > to \/ (Form!IsDecoded(what) /\ Len(raw) > Capacity))
  <2>1. cut = << c >> /\ from <= to
    BY <1>1, <1>5
  <2>2. Elements(cut) = {c}
    BY <2>1 DEF Elements
  <2>3. cut \in Seq(Elements(cut))
    BY <2>1, <2>2
  <2> QED
    BY <1>2, <2>1, <2>2, <2>3 DEF cut, Single
<1> QED
  BY <1>4, <1>5

LEMMA Joined ==
  ASSUME NEW s, NEW t, s \in Seq(Elements(s)), t \in Seq(Elements(t))
  PROVE  s \o t \in Seq(Elements(s \o t)) /\ Elements(s \o t) = Elements(s) \cup Elements(t)
<1> DEFINE T == Elements(s) \cup Elements(t)
           u == s \o t
<1>1. s \in Seq(T) /\ t \in Seq(T)
  <2>1. Elements(s) \subseteq T /\ Elements(t) \subseteq T
    OBVIOUS
  <2> HIDE DEF T
  <2> QED
    BY <2>1, WiderSequences
<1> HIDE DEF T
<1>2. /\ u \in Seq(T) /\ Len(u) = Len(s) + Len(t) /\ Len(s) \in Nat /\ Len(t) \in Nat
      /\ \A k \in 1 .. Len(u) : u[k] = IF k <= Len(s) THEN s[k] ELSE t[k - Len(s)]
  BY <1>1, ConcatProperties
<1> HIDE DEF u
<1>3. DOMAIN u = 1 .. Len(u) /\ DOMAIN s = 1 .. Len(s) /\ DOMAIN t = 1 .. Len(t)
      /\ u = [k \in 1 .. Len(u) |-> u[k]] /\ Len(u) \in Nat
  <2>1. DOMAIN u = 1 .. Len(u) /\ Len(u) \in Nat /\ u = [k \in 1 .. Len(u) |-> u[k]]
    BY <1>2
  <2> QED
    BY <1>1, <2>1
<1>4. u \in Seq(Elements(u))
  <2>1. \A k \in 1 .. Len(u) : u[k] \in Elements(u)
    BY <1>3 DEF Elements
  <2> QED
    BY <1>3, <2>1
<1>5. Elements(u) \subseteq Elements(s) \cup Elements(t)
  <2> SUFFICES ASSUME NEW k \in 1 .. Len(u) PROVE u[k] \in Elements(s) \cup Elements(t)
    BY <1>3 DEF Elements
  <2>1. k <= Len(s) => k \in 1 .. Len(s)
    BY <1>2, <1>3
  <2>2. ~(k <= Len(s)) => k - Len(s) \in 1 .. Len(t)
    BY <1>2, <1>3
  <2> QED
    BY <1>2, <1>3, <2>1, <2>2 DEF Elements
<1>6. Elements(s) \cup Elements(t) \subseteq Elements(u)
  <2>1. \A k \in 1 .. Len(s) : k \in 1 .. Len(u) /\ k <= Len(s)
    BY <1>2, <1>3
  <2>2. \A k \in 1 .. Len(t) : /\ k + Len(s) \in 1 .. Len(u) /\ ~(k + Len(s) <= Len(s))
                               /\ (k + Len(s)) - Len(s) = k
    BY <1>2, <1>3
  <2>3. \A k \in 1 .. Len(s) : u[k] = s[k]
    BY <1>2, <2>1
  <2>4. \A k \in 1 .. Len(t) : u[k + Len(s)] = t[k]
    BY <1>2, <2>2
  <2>5. Elements(s) \subseteq Elements(u)
    BY <1>3, <2>1, <2>3 DEF Elements
  <2>6. Elements(t) \subseteq Elements(u)
    <3> SUFFICES ASSUME NEW k \in 1 .. Len(t) PROVE t[k] \in Elements(u)
      BY <1>3 DEF Elements
    <3> QED
      BY <1>3, <2>2, <2>4 DEF Elements
  <2> QED
    BY <2>5, <2>6
<1> QED
  BY <1>4, <1>5, <1>6 DEF u

-----------------------------------------------------------------------------
(* Scanning                                                                 *)

LEMMA ScanMakes ==
  ASSUME log \in Seq(Elements(log)), \A l \in Elements(log) : l.result \in Results,
         threat \in Results, NEW cuts, cuts \in Seq(Elements(cuts)), Form!Scan(cuts)
  PROVE  /\ log' \in Seq(Elements(log')) /\ \A l \in Elements(log') : l.result \in Results
         /\ threat' \in Results
         /\ Made' = Made \cup Elements(cuts)
<1>1. PICK results \in [DOMAIN cuts -> Results] :
        /\ threat' = IF {k \in DOMAIN cuts : results[k] # 0} = {} THEN threat
                     ELSE results[Form!Max({k \in DOMAIN cuts : results[k] # 0})]
        /\ log' = log \o [k \in DOMAIN cuts |-> [scan |-> cuts[k], result |-> results[k]]]
  BY DEF Form!Scan
<1> DEFINE added == [k \in DOMAIN cuts |-> [scan |-> cuts[k], result |-> results[k]]]
           hits  == {k \in DOMAIN cuts : results[k] # 0}
<1>2. DOMAIN cuts = 1 .. Len(cuts) /\ Len(cuts) \in Nat
  OBVIOUS
<1>3. /\ DOMAIN added = DOMAIN cuts
      /\ \A k \in DOMAIN cuts : added[k].scan = cuts[k] /\ added[k].result = results[k]
  OBVIOUS
<1>4. added \in Seq(Elements(added))
  <2>1. \A k \in 1 .. Len(cuts) : added[k] \in Elements(added)
    BY <1>2, <1>3 DEF Elements
  <2>2. added = [k \in 1 .. Len(cuts) |-> added[k]]
    BY <1>2
  <2> HIDE DEF added
  <2> QED
    BY <1>2, <2>1, <2>2
<1>5. log' = log \o added
  BY <1>1
<1>6. threat' \in Results
  <2>1. hits \subseteq 0 .. Len(cuts) /\ hits \subseteq DOMAIN cuts
    BY <1>2
  <2>2. threat' = IF hits = {} THEN threat ELSE results[Form!Max(hits)]
    BY <1>1
  <2> HIDE DEF hits
  <2>3. hits # {} => Form!Max(hits) \in hits
    BY <1>2, <2>1, LastOf
  <2>4. hits # {} => results[Form!Max(hits)] \in Results
    BY <1>1, <2>1, <2>3
  <2> QED
    BY <2>2, <2>4
<1> HIDE DEF added
<1>7. log' \in Seq(Elements(log')) /\ Elements(log') = Elements(log) \cup Elements(added)
  BY <1>4, <1>5, Joined
<1>8. \A l \in Elements(added) : l.result \in Results /\ l.scan \in Elements(cuts)
  BY <1>1, <1>3 DEF Elements
<1>9. \A c \in Elements(cuts) : \E l \in Elements(added) : l.scan = c
  BY <1>3 DEF Elements
<1>10. Made' = {l.scan : l \in Elements(log')}
  BY DEF Made, Elements
<1>11. Made' \subseteq Made \cup Elements(cuts)
  BY <1>7, <1>8, <1>10 DEF Made
<1>12. Made \cup Elements(cuts) \subseteq Made'
  BY <1>7, <1>9, <1>10 DEF Made
<1> QED
  BY <1>6, <1>7, <1>8, <1>11, <1>12

\* Scans of other characters leave what is counted alone.
LEMMA CountedStays ==
  ASSUME NEW n, NEW k, Counted(n, k), request' = request, NEW T, Made' = Made \cup T,
         \A t \in T : ~(t.value = n /\ t.what \notin Whole /\ k \in t.from .. t.to)
  PROVE  Counted(n, k)'
<1>1. Holding(Made', n, k) = Holding(Made, n, k)
  <2> DEFINE made == Made
  <2>1. Holding(made \cup T, n, k) = Holding(made, n, k)
    <3> HIDE DEF made
    <3> QED
      BY DEF Holding
  <2> QED
    BY <2>1
<1>2. CASE Form!IsLeftOut(request[n], k)
  BY <1>2 DEF Counted
<1>3. CASE \E s \in Made : Holding(Made, n, k) = {s}
  <2>1. \E s \in Made' : Holding(Made', n, k) = {s}
    BY <1>1, <1>3
  <2> QED
    BY <2>1 DEF Counted, Holding
<1> QED
  BY <1>2, <1>3 DEF Counted

-----------------------------------------------------------------------------
(* Steps from one component to the next                                     *)

\* A component of the value vi is cut into parts that hold each of its characters
\* once, unless it is left out, and the next component begins after the separator.
CutsComponent(cuts, sep) ==
  /\ pc = "cut" /\ vi \in 1 .. Len(request) /\ start # 0
  /\ cuts \in Seq(Elements(cuts)) /\ Form!Scan(cuts) /\ Form!Continue(sep)
  /\ sep \in start .. Len(request[vi].text) + 1
  /\ sep <= Len(request[vi].text) => request[vi].text[sep] = Form!Separator(request[vi])
  /\ \A c \in Elements(cuts) :
       /\ c.what \in Form!Collections \ Whole /\ c.value = vi
       /\ c.from \in Nat /\ c.to \in Nat /\ start <= c.from /\ c.to < sep
  /\ \A k \in start .. sep - 1 :
       \/ Form!IsLeftOut(request[vi], k)
       \/ \E c \in Elements(cuts) : {d \in Elements(cuts) : k \in d.from .. d.to} = {c}

LEMMA ComponentKeeps ==
  ASSUME FormInv, NEW cuts, NEW sep, CutsComponent(cuts, sep)
  PROVE  FormInv'
<1> DEFINE size == Len(request[vi].text)
           C == Elements(cuts)
<1>1. /\ vi \in 1 .. Len(request) /\ vi \in Nat /\ start \in Nat /\ start # 0 /\ pc = "cut"
      /\ Len(request) \in Nat /\ size \in Nat /\ request \in FormRequests
      /\ sep \in start .. size + 1 /\ sep \in Nat /\ AtComponent
  BY FormPlace DEF FormInv, CutsComponent
<1>2. /\ request' = request /\ pc' = pc
      /\ start' = IF sep > size THEN 0 ELSE sep + 1
      /\ vi' = IF sep > size THEN vi + 1 ELSE vi
  BY DEF CutsComponent, Form!Continue, Form!text, Form!val
<1>3. /\ log' \in Seq(Elements(log')) /\ \A l \in Elements(log') : l.result \in Results
      /\ threat' \in Results
      /\ Made' = Made \cup C
  <2>1. cuts \in Seq(Elements(cuts)) /\ Form!Scan(cuts)
    BY DEF CutsComponent
  <2> QED
    BY <2>1, ScanMakes DEF FormInv
<1>4. \A c \in C : /\ c.what \in Form!Collections /\ c.what \notin Whole /\ c.value = vi
                   /\ c.from \in Nat /\ c.to \in Nat /\ start <= c.from /\ c.to < sep
  BY DEF CutsComponent
<1>5. /\ sep <= size => request[vi].text[sep] = Form!Separator(request[vi])
      /\ \A k \in start .. sep - 1 :
           \/ Form!IsLeftOut(request[vi], k)
           \/ \E c \in C : {d \in C : k \in d.from .. d.to} = {c}
  BY DEF CutsComponent
<1>6. \A s \in Made : /\ s.what \in Form!Collections /\ s.value \in 1 .. vi /\ s.to \in Nat
                      /\ s.value = vi /\ s.what \notin Whole => s.to < start
  BY DEF FormInv, ScansAreBehind
<1> HIDE DEF size, C
<1>7. ASSUME NEW n \in 1 .. Len(request), n < vi, NEW k, Counted(n, k)
      PROVE  Counted(n, k)'
  <2>1. \A c \in C : ~(c.value = n /\ c.what \notin Whole /\ k \in c.from .. c.to)
    BY <1>1, <1>4, <1>7
  <2> QED
    BY <1>2, <1>3, <1>7, <2>1, CountedStays
<1>8. ASSUME NEW k \in 1 .. size, k < start
      PROVE  Counted(vi, k) /\ Counted(vi, k) => \A n : n = vi => Counted(n, k)'
  <2>1. \A c \in C : ~(c.value = vi /\ c.what \notin Whole /\ k \in c.from .. c.to)
    BY <1>1, <1>4, <1>8
  <2> SUFFICES ASSUME Counted(vi, k), NEW n, n = vi PROVE Counted(n, k)'
    OBVIOUS
  <2>2. Counted(n, k)
    BY DEF Counted
  <2> QED
    BY <1>2, <1>3, <2>1, <2>2, CountedStays
<1>9. ASSUME NEW k \in 1 .. size, k < sep + 1, NEW n, n = vi
      PROVE  Counted(n, k)'
  <2>1. CASE k < start
    <3>1. Counted(vi, k)
      BY <1>1, <2>1 DEF AtComponent, size
    <3> QED
      BY <1>8, <1>9, <2>1, <3>1
  <2>2. CASE k = sep
    <3>1. sep <= size
      BY <1>9, <2>2
    <3>2. Form!IsLeftOut(request[vi], k)
      BY <1>5, <2>2, <3>1 DEF Form!IsLeftOut
    <3> QED
      BY <1>2, <1>9, <3>2 DEF Counted
  <2>3. CASE k \in start .. sep - 1
    <3>1. CASE Form!IsLeftOut(request[vi], k)
      BY <1>2, <1>9, <3>1 DEF Counted
    <3>2. CASE \E c \in C : {d \in C : k \in d.from .. d.to} = {c}
      <4>1. PICK c \in C : {d \in C : k \in d.from .. d.to} = {c}
        BY <3>2
      <4>2. \A s \in Made : s.value = vi /\ s.what \notin Whole => ~(k \in s.from .. s.to)
        BY <1>1, <1>6, <2>3
      <4>3. Holding(Made', n, k) = {d \in C : k \in d.from .. d.to}
        <5> DEFINE made == Made
        <5>1. Made' = made \cup C /\ \A s \in made : s.value = vi /\ s.what \notin Whole => ~(k \in s.from .. s.to)
          BY <1>3, <4>2
        <5> HIDE DEF made
        <5>2. Holding(made \cup C, n, k) = {d \in C : k \in d.from .. d.to}
          BY <1>4, <1>9, <5>1 DEF Holding
        <5> QED
          BY <5>1, <5>2
      <4>4. c \in Made'
        BY <1>3
      <4> QED
        BY <4>1, <4>3, <4>4 DEF Counted, Holding
    <3> QED
      BY <1>5, <2>3, <3>1, <3>2
  <2>4. k < start \/ k = sep \/ k \in start .. sep - 1
    BY <1>1, <1>9
  <2> QED
    BY <2>1, <2>2, <2>3, <2>4
<1>10. \A n \in 1 .. Len(request) : n < vi /\ request[n].kind # "other" =>
         \A k \in 1 .. Len(request[n].text) : Counted(n, k)'
  BY <1>7 DEF FormInv
<1>11. CASE sep > size
  <2>1. start' = 0 /\ vi' = vi + 1 /\ sep = size + 1
    BY <1>1, <1>2, <1>11
  <2>2. \A s \in Made' : s.what \in Form!Collections /\ s.value \in 1 .. vi /\ s.to \in Nat
    BY <1>1, <1>3, <1>4, <1>6
  <2>3. ScansAreBehind'
    <3>1. \A x : x = vi + 1 => \A s \in Made' : s.value \in 1 .. x /\ s.value # x
      BY <1>1, <2>2
    <3> QED
      BY <2>1, <2>2, <3>1 DEF ScansAreBehind
  <2>4. \A n \in 1 .. Len(request) : n < vi' /\ request[n].kind # "other" =>
         \A k \in 1 .. Len(request[n].text) : Counted(n, k)'
    <3> SUFFICES ASSUME NEW n \in 1 .. Len(request), n < vi', request[n].kind # "other",
                        NEW k \in 1 .. Len(request[n].text)
                 PROVE  Counted(n, k)'
      OBVIOUS
    <3>1. n < vi \/ n = vi
      BY <1>1, <2>1
    <3>2. CASE n < vi
      BY <1>10, <3>2
    <3>3. CASE n = vi
      <4>1. k \in 1 .. size /\ k < sep + 1
        BY <1>1, <2>1, <3>3 DEF size
      <4> QED
        BY <1>9, <3>3, <4>1
    <3> QED
      BY <3>1, <3>2, <3>3
  <2>5. vi' \in 1 .. Len(request') + 1 /\ start' \in Nat
    BY <1>1, <1>2, <2>1
  <2> QED
    BY <1>1, <1>2, <1>3, <2>1, <2>3, <2>4, <2>5 DEF FormInv, Elements
<1>12. CASE ~(sep > size)
  <2>1. start' = sep + 1 /\ vi' = vi /\ sep \in 1 .. size
    BY <1>1, <1>2, <1>12
  <2>2. ScansAreBehind'
    <3>1. \A s \in Made' : /\ s.what \in Form!Collections /\ s.value \in 1 .. vi /\ s.to \in Nat
                           /\ s.value = vi /\ s.what \notin Whole => s.to < sep + 1
      <4> SUFFICES ASSUME NEW s \in Made'
                   PROVE  /\ s.what \in Form!Collections /\ s.value \in 1 .. vi /\ s.to \in Nat
                          /\ s.value = vi /\ s.what \notin Whole => s.to < sep + 1
        OBVIOUS
      <4>1. CASE s \in C
        BY <1>1, <1>4, <4>1
      <4>2. CASE s \in Made
        BY <1>1, <1>6, <4>2
      <4> QED
        BY <1>3, <4>1, <4>2
    <3>2. start' # 0
      BY <1>1, <2>1
    <3> QED
      BY <2>1, <3>1, <3>2 DEF ScansAreBehind
  <2>3. AtComponent'
    <3>1. \A k \in 1 .. size : k < start' => Counted(vi, k)'
      BY <1>9, <2>1
    <3>2. \A k \in 1 .. size : start' = k + 1 => k = sep
      BY <1>1, <2>1
    <3> QED
      BY <1>1, <1>2, <1>5, <2>1, <3>1, <3>2 DEF AtComponent, size
  <2>4. vi' \in 1 .. Len(request') + 1 /\ start' \in Nat
    BY <1>1, <1>2, <2>1
  <2> QED
    BY <1>1, <1>2, <1>3, <1>10, <2>1, <2>2, <2>3, <2>4 DEF FormInv, Elements
<1> QED
  BY <1>11, <1>12

-----------------------------------------------------------------------------
(* The steps of the pass                                                    *)

LEMMA ValueIs ==
  ASSUME FormInv, vi \in 1 .. Len(request)
  PROVE  /\ Form!text = request[vi].text /\ Form!val = request[vi]
         /\ Form!text \in Seq(STRING) /\ Len(Form!text) \in Nat
  BY FormPlace DEF Form!text, Form!val

\* The characters between two separators belong together.
LEMMA TogetherBetween ==
  ASSUME NEW v, NEW a \in Nat, NEW b \in Nat,
         \A k \in a .. b : v.text[k] # Form!Separator(v)
  PROVE  \A j, k \in a .. b : Form!Together(v, j, k)
<1> SUFFICES ASSUME NEW j \in a .. b, NEW k \in a .. b, NEW n \in (j .. k) \cup (k .. j)
             PROVE  v.text[n] # Form!Separator(v)
  BY DEF Form!Together
<1>1. n \in a .. b
  OBVIOUS
<1> QED
  BY <1>1

\* The first equals sign of a component is the first of it.
LEMMA FirstEqualIs ==
  ASSUME FormInv, AtComponent, start # 0, NEW equal \in Nat, start <= equal,
         equal <= Len(request[vi].text), request[vi].text[equal] = "=",
         \A k \in start .. equal - 1 : request[vi].text[k] # "="
  PROVE  Form!IsFirstEqual(request[vi], equal)
<1> SUFFICES ASSUME NEW j \in 1 .. equal - 1, Form!Together(request[vi], j, equal),
                    request[vi].text[j] = "="
             PROVE  FALSE
  BY DEF Form!IsFirstEqual
<1>1. start \in Nat /\ Len(request[vi].text) \in Nat
  BY FormPlace DEF FormInv, AtComponent
<1>2. j < start
  BY <1>1
<1>3. /\ start - 1 \in 1 .. Len(request[vi].text) /\ start = (start - 1) + 1
      /\ start - 1 \in j .. equal
  BY <1>1, <1>2 DEF AtComponent
<1>4. request[vi].text[start - 1] = Form!Separator(request[vi])
  BY <1>3 DEF AtComponent
<1> QED
  BY <1>3, <1>4 DEF Form!Together

\* Characters from .. to of the value lie in one component; a part of it is cut
\* from them.
Cuttable(what, from, to) ==
  /\ Form!text \in Seq(STRING) /\ Form!text = request[vi].text /\ vi \in Nat
  /\ from \in Nat \ {0} /\ to \in Nat /\ to <= Len(Form!text)
  /\ Form!IsDecoded(what) => request[vi].kind # "cookie"
  /\ \A k \in from .. to : request[vi].text[k] # Form!Separator(request[vi])

\* The part holds these characters, unless they are too many.
CutGives(cut, what, from, to) ==
  /\ cut \in Seq(Elements(cut))
  /\ \A c \in Elements(cut) : c.what = what /\ c.value = vi /\ c.from = from /\ c.to = to
  /\ \A k \in from .. to : Form!TooLong(request[vi], k) \/ IsSingle(Elements(cut))

LEMMA CutHolds ==
  ASSUME NEW what, NEW from, NEW to, Cuttable(what, from, to)
  PROVE  CutGives(Form!Cut(what, from, to), what, from, to)
<1> DEFINE cut == Form!Cut(what, from, to)
<1> SUFFICES CutGives(cut, what, from, to)
  OBVIOUS
<1>1. /\ Form!text \in Seq(STRING) /\ Form!text = request[vi].text /\ vi \in Nat
      /\ from \in Nat \ {0} /\ to \in Nat /\ to <= Len(Form!text)
      /\ Form!IsDecoded(what) => request[vi].kind # "cookie"
      /\ \A k \in from .. to : request[vi].text[k] # Form!Separator(request[vi])
  BY DEF Cuttable
<1>2. /\ cut \in Seq(Elements(cut))
      /\ \/ /\ from > to \/ (Form!IsDecoded(what) /\ (to - from) + 1 > Capacity)
            /\ Elements(cut) = {}
         \/ /\ from <= to
            /\ Single(Elements(cut), what, vi, from, to)
  BY <1>1, CutIs
<1> HIDE DEF cut
<1>3. CASE /\ from > to \/ (Form!IsDecoded(what) /\ (to - from) + 1 > Capacity)
           /\ Elements(cut) = {}
  <2>1. ASSUME NEW k \in from .. to PROVE Form!TooLong(request[vi], k)
    <3>1. Form!IsDecoded(what) /\ (to - from) + 1 > Capacity
      BY <1>1, <1>3
    <3>2. from \in from .. to /\ to \in from .. to
      BY <1>1
    <3>3. Form!Together(request[vi], from, to)
      BY <1>1, <3>2, TogetherBetween
    <3>4. from \in DOMAIN request[vi].text /\ to \in DOMAIN request[vi].text
      BY <1>1, <3>2
    <3> QED
      BY <1>1, <3>1, <3>3, <3>4 DEF Form!TooLong
  <2> QED
    BY <1>2, <1>3, <2>1 DEF CutGives
<1>4. CASE from <= to /\ Single(Elements(cut), what, vi, from, to)
  <2>1. PICK c : /\ Elements(cut) = {c}
                 /\ c.what = what /\ c.value = vi /\ c.from = from /\ c.to = to
    BY <1>4 DEF Single
  <2>2. c \in Elements(cut)
    BY <2>1
  <2>3. IsSingle(Elements(cut))
    BY <2>1, <2>2 DEF IsSingle
  <2> QED
    BY <1>2, <2>1, <2>3 DEF CutGives
<1> QED
  BY <1>2, <1>3, <1>4

\* The component up to sep is cut into two parts, from a to b and from c to d, and
\* what these do not hold is left out.
CutsInTwo(name, val, sep, a, b, c, d) ==
  /\ pc = "cut" /\ start # 0 /\ vi \in 1 .. Len(request)
  /\ name \in Seq(Elements(name)) /\ val \in Seq(Elements(val))
  /\ Form!Scan(name \o val) /\ Form!Continue(sep)
  /\ sep \in start .. Len(request[vi].text) + 1
  /\ sep <= Len(request[vi].text) => request[vi].text[sep] = Form!Separator(request[vi])
  /\ sep \in Nat /\ a \in Nat /\ b \in Nat /\ c \in Nat /\ d \in Nat
  /\ start <= a /\ b < c /\ start <= c /\ b < sep /\ d < sep
  /\ \A e \in Elements(name) : /\ e.what \in Form!Collections \ Whole /\ e.value = vi
                               /\ e.from = a /\ e.to = b
  /\ \A e \in Elements(val) : /\ e.what \in Form!Collections \ Whole /\ e.value = vi
                              /\ e.from = c /\ e.to = d
  /\ \A k \in start .. sep - 1 :
       \/ Form!IsLeftOut(request[vi], k)
       \/ k \in a .. b /\ IsSingle(Elements(name))
       \/ k \in c .. d /\ IsSingle(Elements(val))

LEMMA TwoParts ==
  ASSUME FormInv, NEW name, NEW val, NEW sep, NEW a, NEW b, NEW c, NEW d,
         CutsInTwo(name, val, sep, a, b, c, d)
  PROVE  FormInv'
<1> DEFINE cuts == name \o val
<1>1. cuts \in Seq(Elements(cuts)) /\ Elements(cuts) = Elements(name) \cup Elements(val)
  <2>1. name \in Seq(Elements(name)) /\ val \in Seq(Elements(val))
    BY DEF CutsInTwo
  <2> QED
    BY <2>1, Joined
<1>2. Form!Scan(cuts)
  BY DEF CutsInTwo
<1>3. /\ sep \in Nat /\ a \in Nat /\ b \in Nat /\ c \in Nat /\ d \in Nat
      /\ start <= a /\ b < c /\ start <= c /\ b < sep /\ d < sep
      /\ \A e \in Elements(name) : /\ e.what \in Form!Collections \ Whole /\ e.value = vi
                                   /\ e.from = a /\ e.to = b
      /\ \A e \in Elements(val) : /\ e.what \in Form!Collections \ Whole /\ e.value = vi
                                  /\ e.from = c /\ e.to = d
  BY DEF CutsInTwo
<1> HIDE DEF cuts
<1>4. \A e \in Elements(cuts) :
        /\ e.what \in Form!Collections \ Whole /\ e.value = vi
        /\ e.from \in Nat /\ e.to \in Nat /\ start <= e.from /\ e.to < sep
  BY <1>1, <1>3
<1>5. ASSUME NEW k \in start .. sep - 1, ~Form!IsLeftOut(request[vi], k)
      PROVE  \E e \in Elements(cuts) : {f \in Elements(cuts) : k \in f.from .. f.to} = {e}
  <2>1. start \in Nat
    BY DEF FormInv
  <2>2. \/ k \in a .. b /\ IsSingle(Elements(name))
        \/ k \in c .. d /\ IsSingle(Elements(val))
    BY <1>5 DEF CutsInTwo
  <2>3. CASE k \in a .. b /\ IsSingle(Elements(name))
    <3>1. PICK e \in Elements(name) : Elements(name) = {e}
      BY <2>3 DEF IsSingle
    <3>2. k \notin c .. d /\ k \in a .. b
      BY <1>3, <2>3
    <3>3. {f \in Elements(cuts) : k \in f.from .. f.to} = {e}
      BY <1>1, <1>3, <3>1, <3>2
    <3> QED
      BY <1>1, <3>3
  <2>4. CASE k \in c .. d /\ IsSingle(Elements(val))
    <3>1. PICK e \in Elements(val) : Elements(val) = {e}
      BY <2>4 DEF IsSingle
    <3>2. k \notin a .. b /\ k \in c .. d
      BY <1>3, <2>4
    <3>3. {f \in Elements(cuts) : k \in f.from .. f.to} = {e}
      BY <1>1, <1>3, <3>1, <3>2
    <3> QED
      BY <1>1, <3>3
  <2> QED
    BY <2>2, <2>3, <2>4
<1>6. CutsComponent(cuts, sep)
  BY <1>1, <1>2, <1>4, <1>5 DEF CutsComponent, CutsInTwo
<1> QED
  BY <1>6, ComponentKeeps

LEMMA PairKeeps == ASSUME FormInv, Form!Pair PROVE FormInv'
<1> DEFINE text == request[vi].text
           size == Len(request[vi].text)
<1>1. /\ pc = "cut" /\ vi \in 1 .. Len(request) /\ Form!val.kind \in {"query", "form"}
      /\ start # 0 /\ start \in Nat \ {0} /\ AtComponent
  BY FormPlace DEF FormInv, Form!Pair, Form!AtValue
<1>2. /\ Form!text = text /\ Form!val = request[vi] /\ text \in Seq(STRING) /\ size \in Nat
      /\ start <= size + 1 /\ vi \in Nat
  BY <1>1, ValueIs DEF AtComponent
<1>3. request[vi].kind # "cookie" /\ Form!Separator(request[vi]) = "&"
  BY <1>1, <1>2 DEF Form!Separator
<1> HIDE DEF text, size
<1>4. PICK sep, equal :
        /\ sep = Form!Find("&", start, size) /\ equal = Form!Find("=", start, sep - 1)
        /\ Form!Scan(Form!Cut("ARGS_NAMES", start, equal - 1)
                     \o Form!Cut("ARGS", equal + 1, sep - 1))
        /\ Form!Continue(sep)
  BY <1>2 DEF Form!Pair, text, size
<1>5. /\ sep \in start .. size + 1 /\ \A k \in start .. sep - 1 : text[k] # "&"
      /\ sep <= size => text[sep] = "&"
  BY <1>1, <1>2, <1>4, FindIs
<1>6. PICK last \in Nat : last = sep - 1 /\ sep = last + 1 /\ start <= last + 1 /\ last <= size
  <2>1. sep - 1 \in Nat /\ sep = (sep - 1) + 1 /\ start <= (sep - 1) + 1 /\ sep - 1 <= size
    BY <1>1, <1>2, <1>5
  <2> QED
    BY <2>1
<1>7. /\ equal \in start .. last + 1 /\ \A k \in start .. equal - 1 : text[k] # "="
      /\ equal <= last => text[equal] = "="
  <2>1. equal = Form!Find("=", start, last)
    BY <1>4, <1>6
  <2> QED
    BY <1>1, <1>2, <1>6, <2>1, FindIs
<1>8. PICK ahead \in Nat, after \in Nat \ {0} :
        /\ ahead = equal - 1 /\ equal = ahead + 1 /\ after = equal + 1
        /\ ahead <= size /\ equal \in Nat
        /\ \A k \in start .. ahead : k \in start .. last
        /\ \A k \in after .. last : k \in start .. last
  <2>1. /\ equal - 1 \in Nat /\ equal = (equal - 1) + 1 /\ equal + 1 \in Nat \ {0}
        /\ equal - 1 <= size /\ equal \in Nat
        /\ \A k \in start .. equal - 1 : k \in start .. last
        /\ \A k \in equal + 1 .. last : k \in start .. last
    BY <1>1, <1>2, <1>6, <1>7
  <2> QED
    BY <2>1
<1> DEFINE name == Form!Cut("ARGS_NAMES", start, ahead)
           val  == Form!Cut("ARGS", after, last)
<1>9. /\ name \in Seq(Elements(name))
      /\ \A c \in Elements(name) : /\ c.what = "ARGS_NAMES" /\ c.value = vi
                                   /\ c.from = start /\ c.to = ahead
      /\ \A k \in start .. ahead :
           Form!TooLong(request[vi], k) \/ IsSingle(Elements(name))
  <2>1. \A k \in start .. ahead : request[vi].text[k] # Form!Separator(request[vi])
    BY <1>3, <1>5, <1>6, <1>8 DEF text
  <2>2. Form!text \in Seq(STRING) /\ Form!text = request[vi].text /\ ahead <= Len(Form!text)
    BY <1>2, <1>8 DEF text, size
  <2>3. Cuttable("ARGS_NAMES", start, ahead)
    BY <1>1, <1>2, <1>3, <1>8, <2>1, <2>2 DEF Cuttable
  <2>4. CutGives(name, "ARGS_NAMES", start, ahead)
    BY <2>3, CutHolds
  <2> QED
    BY <2>4 DEF CutGives
<1>10. /\ val \in Seq(Elements(val))
       /\ \A c \in Elements(val) : /\ c.what = "ARGS" /\ c.value = vi
                                   /\ c.from = after /\ c.to = last
       /\ \A k \in after .. last :
            Form!TooLong(request[vi], k) \/ IsSingle(Elements(val))
  <2>1. \A k \in after .. last : request[vi].text[k] # Form!Separator(request[vi])
    BY <1>3, <1>5, <1>6, <1>8 DEF text
  <2>2. Form!text \in Seq(STRING) /\ Form!text = request[vi].text /\ last <= Len(Form!text)
    BY <1>2, <1>6 DEF text, size
  <2>3. Cuttable("ARGS", after, last)
    BY <1>2, <1>3, <1>6, <1>8, <2>1, <2>2 DEF Cuttable
  <2>4. CutGives(val, "ARGS", after, last)
    BY <2>3, CutHolds
  <2> QED
    BY <2>4 DEF CutGives
<1>11. Form!Scan(name \o val) /\ Form!Continue(sep)
  BY <1>4, <1>6, <1>8
<1> HIDE DEF name, val
<1>12. \A k \in start .. last :
         \/ Form!IsLeftOut(request[vi], k)
         \/ k \in start .. ahead /\ IsSingle(Elements(name))
         \/ k \in after .. last /\ IsSingle(Elements(val))
  <2> SUFFICES ASSUME NEW k \in start .. last, ~Form!IsLeftOut(request[vi], k)
               PROVE  \/ k \in start .. ahead /\ IsSingle(Elements(name))
                      \/ k \in after .. last /\ IsSingle(Elements(val))
    OBVIOUS
  <2>1. ~Form!TooLong(request[vi], k) /\ ~Form!IsFirstEqual(request[vi], k)
    BY DEF Form!IsLeftOut
  <2>2. CASE k = equal
    <3>1. equal <= last /\ equal <= size /\ start <= equal
      BY <1>1, <1>2, <1>6, <1>8, <2>2
    <3>2. Form!IsFirstEqual(request[vi], equal)
      BY <1>1, <1>7, <1>8, <3>1, FirstEqualIs DEF text, size
    <3> QED
      BY <2>1, <2>2, <3>2
  <2>3. CASE k \in start .. ahead
    BY <1>9, <2>1, <2>3
  <2>4. CASE k \in after .. last
    BY <1>10, <2>1, <2>4
  <2>5. k = equal \/ k \in start .. ahead \/ k \in after .. last
    BY <1>1, <1>6, <1>7, <1>8
  <2> QED
    BY <2>2, <2>3, <2>4, <2>5
<1>13. "ARGS" \in Form!Collections \ Whole /\ "ARGS_NAMES" \in Form!Collections \ Whole
  BY DEF Form!Collections, Whole
<1>14. ahead < after /\ ahead < sep /\ last < sep /\ start <= after /\ sep - 1 = last
  BY <1>1, <1>6, <1>7, <1>8
<1>15. /\ \A e \in Elements(name) : /\ e.what \in Form!Collections \ Whole /\ e.value = vi
                                    /\ e.from = start /\ e.to = ahead
       /\ \A e \in Elements(val) : /\ e.what \in Form!Collections \ Whole /\ e.value = vi
                                   /\ e.from = after /\ e.to = last
  BY <1>9, <1>10, <1>13
<1>16. sep <= Len(request[vi].text) => request[vi].text[sep] = Form!Separator(request[vi])
  BY <1>3, <1>5 DEF text, size
<1>17. name \in Seq(Elements(name)) /\ val \in Seq(Elements(val)) /\ start <= start
       /\ sep \in start .. Len(request[vi].text) + 1
  BY <1>1, <1>5, <1>9, <1>10 DEF size
<1>18. CutsInTwo(name, val, sep, start, ahead, after, last)
  BY <1>1, <1>6, <1>8, <1>11, <1>12, <1>14, <1>15, <1>16, <1>17 DEF CutsInTwo
<1> QED
  BY <1>18, TwoParts

\* A part of a cookie is cut whole: cookies are not decoded, so none is too long.
LEMMA CookiePart ==
  ASSUME FormInv, vi \in 1 .. Len(request), request[vi].kind = "cookie",
         NEW what, what \in {"REQUEST_COOKIES", "REQUEST_COOKIES_NAMES"},
         NEW from, NEW to, from \in Nat \ {0}, to \in Nat, to <= Len(request[vi].text),
         \A k \in from .. to : request[vi].text[k] # ";"
  PROVE  /\ Form!Cut(what, from, to) \in Seq(Elements(Form!Cut(what, from, to)))
         /\ \A c \in Elements(Form!Cut(what, from, to)) :
              /\ c.what \in Form!Collections \ Whole /\ c.value = vi
              /\ c.from = from /\ c.to = to
         /\ \A k \in from .. to : IsSingle(Elements(Form!Cut(what, from, to)))
<1>1. Form!text \in Seq(STRING) /\ Form!text = request[vi].text /\ vi \in Nat
  BY ValueIs, FormPlace
<1>2. ~Form!IsDecoded(what) /\ what \in Form!Collections \ Whole
  BY DEF Form!IsDecoded, Form!Collections, Whole
<1>3. Form!Separator(request[vi]) = ";"
  BY DEF Form!Separator
<1>4. Cuttable(what, from, to)
  BY <1>1, <1>2, <1>3 DEF Cuttable
<1>5. CutGives(Form!Cut(what, from, to), what, from, to)
  BY <1>4, CutHolds
<1>6. \A k : ~Form!TooLong(request[vi], k)
  BY DEF Form!TooLong
<1> QED
  BY <1>2, <1>5, <1>6 DEF CutGives

LEMMA CrumbKeeps == ASSUME FormInv, Form!Crumb PROVE FormInv'
<1> DEFINE text == request[vi].text
           size == Len(request[vi].text)
<1>1. /\ pc = "cut" /\ vi \in 1 .. Len(request) /\ request[vi].kind = "cookie"
      /\ start # 0 /\ start \in Nat \ {0} /\ AtComponent
  <2>1. pc = "cut" /\ vi <= Len(request) /\ request[vi].kind = "cookie" /\ start > 0
    BY DEF Form!Crumb, Form!AtValue, Form!val
  <2>2. vi \in 1 .. Len(request) + 1 /\ start \in Nat /\ Len(request) \in Nat
    BY FormPlace DEF FormInv
  <2>3. start # 0 /\ vi \in 1 .. Len(request)
    BY <2>1, <2>2
  <2> QED
    BY <2>1, <2>2, <2>3 DEF FormInv
<1>2. /\ Form!text = text /\ text \in Seq(STRING) /\ size \in Nat
      /\ start <= size + 1 /\ vi \in Nat
  BY <1>1, ValueIs DEF AtComponent
<1>3. Form!Separator(request[vi]) = ";"
  BY <1>1 DEF Form!Separator
<1> HIDE DEF text, size
<1>4. PICK sep, first, last, equal :
        /\ sep = Form!Find(";", start, size) /\ first = Form!TrimLeft(start, sep - 1)
        /\ last = Form!TrimRight(first, sep - 1) /\ equal = Form!Find("=", first, last)
        /\ Form!Scan(IF equal > last THEN Form!Cut("REQUEST_COOKIES", first, last)
                     ELSE Form!Cut("REQUEST_COOKIES_NAMES", first, Form!TrimRight(first, equal - 1))
                          \o Form!Cut("REQUEST_COOKIES", Form!TrimLeft(equal + 1, last), last))
        /\ Form!Continue(sep)
  BY <1>2 DEF Form!Crumb, text, size
<1>5. /\ sep \in start .. size + 1 /\ \A k \in start .. sep - 1 : text[k] # ";"
      /\ sep <= size => text[sep] = ";"
  <2>1. start \in Nat \ {0} /\ size \in Nat /\ start <= size + 1
    BY <1>1, <1>2
  <2>2. /\ Form!Find(";", start, size) \in start .. size + 1
        /\ \A k \in start .. Form!Find(";", start, size) - 1 : Form!text[k] # ";"
        /\ Form!Find(";", start, size) <= size => Form!text[Form!Find(";", start, size)] = ";"
    BY <2>1, FindIs
  <2>3. sep = Form!Find(";", start, size) /\ Form!text = text
    BY <1>2, <1>4
  <2> QED
    BY <2>2, <2>3
<1>6. /\ sep \in Nat /\ sep - 1 \in Nat /\ start <= (sep - 1) + 1
      /\ sep <= size + 1 /\ start \in Nat \ {0} /\ size \in Nat
  <2>1. sep \in start .. size + 1
    BY <1>5
  <2>2. start \in Nat \ {0} /\ size \in Nat
    BY <1>1, <1>2
  <2> QED
    BY <2>1, <2>2
<1>7. first \in start .. sep /\ \A k \in start .. first - 1 : text[k] \in Form!Blanks
  <2>1. /\ first \in start .. (sep - 1) + 1
        /\ \A k \in start .. first - 1 : text[k] \in Form!Blanks
    BY <1>1, <1>2, <1>4, <1>6, TrimLeftIs
  <2> QED
    BY <1>6, <2>1
<1>8. /\ first \in Nat \ {0} /\ first <= (sep - 1) + 1
  BY <1>1, <1>6, <1>7
<1>9. /\ last \in first - 1 .. sep - 1 /\ last \in Nat /\ first <= last + 1
      /\ \A k \in last + 1 .. sep - 1 : text[k] \in Form!Blanks
  <2>1. /\ last \in first - 1 .. sep - 1
        /\ \A k \in last + 1 .. sep - 1 : text[k] \in Form!Blanks
    BY <1>2, <1>4, <1>6, <1>8, TrimRightIs
  <2> QED
    BY <1>6, <1>8, <2>1
<1>10. /\ equal \in first .. last + 1 /\ \A k \in first .. equal - 1 : text[k] # "="
       /\ equal <= last => text[equal] = "="
  <2>1. first \in Nat \ {0} /\ last \in Nat /\ first <= last + 1
    BY <1>8, <1>9
  <2>2. /\ Form!Find("=", first, last) \in first .. last + 1
        /\ \A k \in first .. Form!Find("=", first, last) - 1 : Form!text[k] # "="
        /\ Form!Find("=", first, last) <= last => Form!text[Form!Find("=", first, last)] = "="
    BY <2>1, FindIs
  <2>3. equal = Form!Find("=", first, last) /\ Form!text = text
    BY <1>2, <1>4
  <2> QED
    BY <2>2, <2>3
<1>11. /\ last <= size /\ last < sep /\ equal \in Nat \ {0}
       /\ \A k \in first .. last : k \in start .. sep - 1
  <2>1. first \in start .. sep /\ last \in first - 1 .. sep - 1 /\ equal \in first .. last + 1
    BY <1>7, <1>9, <1>10
  <2>2. /\ sep \in Nat /\ sep <= size + 1 /\ start \in Nat \ {0} /\ size \in Nat
        /\ first \in Nat \ {0} /\ last \in Nat
    BY <1>6, <1>8, <1>9
  <2> QED
    BY <2>1, <2>2
<1>12. \A k \in first .. last : text[k] # ";"
  BY <1>5, <1>11
<1>13. \A k \in start .. sep - 1 : text[k] \in Form!Blanks => Form!IsLeftOut(request[vi], k)
  BY <1>1 DEF Form!IsLeftOut, text
<1>14. /\ sep <= Len(request[vi].text) => request[vi].text[sep] = Form!Separator(request[vi])
       /\ sep \in start .. Len(request[vi].text) + 1
  BY <1>3, <1>5 DEF text, size
<1>15. CASE equal > last
  <2> DEFINE cut == Form!Cut("REQUEST_COOKIES", first, last)
  <2>1. Form!Scan(cut)
    BY <1>4, <1>15
  <2>2. /\ cut \in Seq(Elements(cut))
        /\ \A c \in Elements(cut) : /\ c.what \in Form!Collections \ Whole /\ c.value = vi
                                    /\ c.from = first /\ c.to = last
        /\ \A k \in first .. last : IsSingle(Elements(cut))
    BY <1>1, <1>8, <1>9, <1>11, <1>12, CookiePart DEF text, size
  <2> HIDE DEF cut
  <2>3. ASSUME NEW k \in start .. sep - 1, ~Form!IsLeftOut(request[vi], k)
        PROVE  \E c \in Elements(cut) : {d \in Elements(cut) : k \in d.from .. d.to} = {c}
    <3>1. text[k] \notin Form!Blanks
      BY <1>13, <2>3
    <3>2. k \in first .. last
      BY <1>1, <1>6, <1>7, <1>8, <1>9, <3>1
    <3>3. PICK c \in Elements(cut) : Elements(cut) = {c}
      BY <2>2, <3>2 DEF IsSingle
    <3>4. {d \in Elements(cut) : k \in d.from .. d.to} = {c}
      BY <2>2, <3>2, <3>3
    <3> QED
      BY <3>4
  <2>4. \A c \in Elements(cut) :
          /\ c.what \in Form!Collections \ Whole /\ c.value = vi
          /\ c.from \in Nat /\ c.to \in Nat /\ start <= c.from /\ c.to < sep
    BY <1>1, <1>7, <1>8, <1>9, <1>11, <2>2
  <2>5. CutsComponent(cut, sep)
    BY <1>1, <1>4, <1>14, <2>1, <2>2, <2>3, <2>4 DEF CutsComponent
  <2> QED
    BY <2>5, ComponentKeeps
<1>16. CASE ~(equal > last)
  <2>1. equal <= last /\ equal - 1 \in Nat /\ first <= (equal - 1) + 1
        /\ equal + 1 \in Nat \ {0} /\ equal + 1 <= last + 1
    BY <1>8, <1>9, <1>10, <1>11, <1>16
  <2>2. PICK ahead : ahead = Form!TrimRight(first, equal - 1)
    OBVIOUS
  <2>3. PICK after : after = Form!TrimLeft(equal + 1, last)
    OBVIOUS
  <2>4. /\ ahead \in first - 1 .. equal - 1
        /\ \A k \in ahead + 1 .. equal - 1 : text[k] \in Form!Blanks
    BY <1>2, <1>8, <2>1, <2>2, TrimRightIs
  <2>5. /\ after \in equal + 1 .. last + 1
        /\ \A k \in equal + 1 .. after - 1 : text[k] \in Form!Blanks
    BY <1>2, <1>9, <2>1, <2>3, TrimLeftIs
  <2>6. /\ ahead \in Nat /\ after \in Nat \ {0} /\ ahead <= size /\ ahead < after /\ ahead < sep
        /\ start <= first /\ start <= after
        /\ \A k \in first .. ahead : k \in first .. last
        /\ \A k \in after .. last : k \in first .. last
    BY <1>1, <1>2, <1>6, <1>7, <1>8, <1>9, <1>10, <1>11, <2>1, <2>4, <2>5
  <2> DEFINE name == Form!Cut("REQUEST_COOKIES_NAMES", first, ahead)
             val  == Form!Cut("REQUEST_COOKIES", after, last)
  <2>7. Form!Scan(name \o val) /\ Form!Continue(sep)
    BY <1>4, <1>16, <2>2, <2>3
  <2>8. /\ name \in Seq(Elements(name))
        /\ \A c \in Elements(name) : /\ c.what \in Form!Collections \ Whole /\ c.value = vi
                                     /\ c.from = first /\ c.to = ahead
        /\ \A k \in first .. ahead : IsSingle(Elements(name))
    <3>1. \A k \in first .. ahead : request[vi].text[k] # ";"
      BY <1>12, <2>6 DEF text
    <3>2. ahead <= Len(request[vi].text)
      BY <2>6 DEF size
    <3> QED
      BY <1>1, <1>8, <2>6, <3>1, <3>2, CookiePart
  <2>9. /\ val \in Seq(Elements(val))
        /\ \A c \in Elements(val) : /\ c.what \in Form!Collections \ Whole /\ c.value = vi
                                    /\ c.from = after /\ c.to = last
        /\ \A k \in after .. last : IsSingle(Elements(val))
    <3>1. \A k \in after .. last : request[vi].text[k] # ";"
      BY <1>12, <2>6 DEF text
    <3>2. last <= Len(request[vi].text)
      BY <1>11 DEF size
    <3> QED
      BY <1>1, <1>9, <2>6, <3>1, <3>2, CookiePart
  <2> HIDE DEF name, val
  <2>10. Form!IsFirstEqual(request[vi], equal)
    <3>1. \A k \in start .. equal - 1 : request[vi].text[k] # "="
      <4> SUFFICES ASSUME NEW k \in start .. equal - 1 PROVE text[k] # "="
        BY DEF text
      <4>1. CASE k \in first .. equal - 1
        BY <1>10, <4>1
      <4>2. CASE k \in start .. first - 1
        BY <1>7, <4>2 DEF Form!Blanks
      <4>3. k \in first .. equal - 1 \/ k \in start .. first - 1
        BY <1>1, <1>8, <1>11
      <4> QED
        BY <4>1, <4>2, <4>3
    <3>2. start <= equal /\ equal <= Len(request[vi].text) /\ request[vi].text[equal] = "="
      BY <1>1, <1>2, <1>7, <1>8, <1>9, <1>10, <1>11, <2>1 DEF text, size
    <3> QED
      BY <1>1, <1>11, <3>1, <3>2, FirstEqualIs
  <2>11. ASSUME NEW k \in start .. sep - 1
         PROVE  \/ Form!IsLeftOut(request[vi], k)
                \/ k \in first .. ahead /\ IsSingle(Elements(name))
                \/ k \in after .. last /\ IsSingle(Elements(val))
    <3>1. \/ k \in start .. first - 1 \/ k \in ahead + 1 .. equal - 1
          \/ k \in equal + 1 .. after - 1 \/ k \in last + 1 .. sep - 1
          \/ k = equal \/ k \in first .. ahead \/ k \in after .. last
      <4>1. /\ start \in Nat /\ sep \in Nat /\ first \in Nat /\ last \in Nat /\ equal \in Nat
            /\ ahead \in Nat /\ after \in Nat
        BY <1>6, <1>8, <1>9, <1>11, <2>6
      <4> QED
        BY <4>1
    <3>2. CASE \/ k \in start .. first - 1 \/ k \in ahead + 1 .. equal - 1
               \/ k \in equal + 1 .. after - 1 \/ k \in last + 1 .. sep - 1
      <4>1. text[k] \in Form!Blanks
        BY <1>7, <1>9, <2>4, <2>5, <3>2
      <4> QED
        BY <1>13, <4>1
    <3>3. CASE k = equal
      BY <2>10, <3>3 DEF Form!IsLeftOut
    <3>4. CASE k \in first .. ahead
      BY <2>8, <3>4
    <3>5. CASE k \in after .. last
      BY <2>9, <3>5
    <3> QED
      BY <3>1, <3>2, <3>3, <3>4, <3>5
  <2>12. CutsInTwo(name, val, sep, first, ahead, after, last)
    BY <1>1, <1>6, <1>8, <1>9, <1>11, <1>14, <2>6, <2>7, <2>8, <2>9, <2>11 DEF CutsInTwo
  <2> QED
    BY <2>12, TwoParts
<1> QED
  BY <1>15, <1>16

\* A part of the whole value is no name and no value.
LEMMA WholeKeeps == ASSUME FormInv, Form!Whole PROVE FormInv'
<1>1. /\ pc = "cut" /\ vi \in 1 .. Len(request) /\ request[vi].kind \in {"query", "form", "cookie"}
      /\ request[vi].text # << >> /\ start = 0
      /\ start' = 1 /\ request' = request /\ vi' = vi /\ pc' = pc
  <2>1. /\ pc = "cut" /\ vi <= Len(request) /\ request[vi].kind \in {"query", "form", "cookie"}
        /\ request[vi].text # << >> /\ start = 0
        /\ start' = 1 /\ request' = request /\ vi' = vi /\ pc' = pc
    BY DEF Form!Whole, Form!AtValue, Form!val, Form!text
  <2>2. vi \in 1 .. Len(request) + 1 /\ Len(request) \in Nat
    BY FormPlace DEF FormInv
  <2> QED
    BY <2>1, <2>2
<1> DEFINE size == Len(request[vi].text)
           query == Form!Cut("QUERY_STRING", 1, Len(Form!text))
           header == Form!Cut("REQUEST_HEADERS", 1, Len(Form!text))
<1>2. /\ Form!text = request[vi].text /\ Form!val = request[vi] /\ Form!text \in Seq(STRING)
      /\ size \in Nat
  BY <1>1, ValueIs
<1>3. PICK cuts : cuts \in {query, header, << >>} /\ Form!Scan(cuts)
  <2>1. Form!Scan(CASE request[vi].kind = "query"  -> query
                    [] request[vi].kind = "cookie" -> header
                    [] OTHER -> << >>)
    BY <1>2 DEF Form!Whole
  <2> HIDE DEF query, header
  <2> QED
    BY <2>1
<1>4. ASSUME NEW what \in Whole
      PROVE  LET cut == Form!Cut(what, 1, Len(Form!text)) IN
             /\ cut \in Seq(Elements(cut))
             /\ \A c \in Elements(cut) : c.what \in Whole /\ c.value = vi /\ c.to \in Nat
  <2> DEFINE cut == Form!Cut(what, 1, Len(Form!text))
  <2>1. /\ 1 \in Nat \ {0} /\ Len(Form!text) \in Nat /\ Len(Form!text) <= Len(Form!text)
        /\ Form!text \in Seq(STRING)
    BY <1>2
  <2>2. /\ cut \in Seq(Elements(cut))
        /\ \/ Elements(cut) = {}
           \/ Single(Elements(cut), what, vi, 1, Len(Form!text))
    BY <2>1, CutIs
  <2> HIDE DEF cut
  <2>3. cut \in Seq(Elements(cut))
        /\ \A c \in Elements(cut) : c.what \in Whole /\ c.value = vi /\ c.to \in Nat
    BY <2>1, <2>2 DEF Single
  <2> QED
    BY <2>3 DEF cut
<1>5. /\ query \in Seq(Elements(query)) /\ header \in Seq(Elements(header))
      /\ \A c \in Elements(query) \cup Elements(header) :
           c.what \in Whole /\ c.value = vi /\ c.to \in Nat
  <2>1. "QUERY_STRING" \in Whole /\ "REQUEST_HEADERS" \in Whole
    BY DEF Whole
  <2> QED
    BY <1>4, <2>1
<1> HIDE DEF query, header
<1>6. /\ cuts \in Seq(Elements(cuts))
      /\ \A c \in Elements(cuts) : c.what \in Whole /\ c.value = vi /\ c.to \in Nat
  <2>1. << >> \in Seq(Elements(<< >>)) /\ Elements(<< >>) = {}
    BY DEF Elements
  <2> QED
    BY <1>3, <1>5, <2>1
<1>7. /\ log' \in Seq(Elements(log')) /\ \A l \in Elements(log') : l.result \in Results
      /\ threat' \in Results /\ Made' = Made \cup Elements(cuts)
  BY <1>3, <1>6, ScanMakes DEF FormInv
<1>8. \A s \in Made : /\ s.what \in Form!Collections /\ s.value \in 1 .. vi /\ s.to \in Nat
                      /\ s.value # vi
  BY <1>1 DEF FormInv, ScansAreBehind
<1>9. ScansAreBehind'
  <2>1. \A s \in Made' : /\ s.what \in Form!Collections /\ s.value \in 1 .. vi /\ s.to \in Nat
                         /\ s.value = vi => s.what \in Whole
    <3>1. vi \in 1 .. vi /\ Whole \subseteq Form!Collections
      BY <1>1, FormPlace DEF Whole, Form!Collections
    <3> QED
      BY <1>6, <1>7, <1>8, <3>1
  <2>2. start' # 0 /\ vi' = vi
    BY <1>1
  <2> QED
    BY <2>1, <2>2 DEF ScansAreBehind
<1>10. AtComponent'
  <2>1. start' <= size + 1 /\ \A k \in 1 .. size : ~(k < start') /\ start' # k + 1
    BY <1>1, <1>2
  <2> QED
    BY <1>1, <2>1 DEF AtComponent
<1>11. \A n \in 1 .. Len(request) : n < vi /\ request[n].kind # "other" =>
         \A k \in 1 .. Len(request[n].text) : Counted(n, k)'
  <2> SUFFICES ASSUME NEW n \in 1 .. Len(request), n < vi, request[n].kind # "other",
                      NEW k \in 1 .. Len(request[n].text)
               PROVE  Counted(n, k)'
    OBVIOUS
  <2>1. Counted(n, k)
    BY DEF FormInv
  <2>2. \A c \in Elements(cuts) : ~(c.value = n /\ c.what \notin Whole /\ k \in c.from .. c.to)
    BY <1>6
  <2> QED
    BY <1>1, <1>7, <2>1, <2>2, CountedStays
<1>12. vi' \in 1 .. Len(request') + 1 /\ start' \in Nat
  BY <1>1 DEF FormInv
<1> QED
  BY <1>1, <1>7, <1>9, <1>10, <1>11, <1>12 DEF FormInv

\* Nothing has been cut from a value that is passed over, and there is nothing to
\* cut from it.
LEMMA SkipKeeps == ASSUME FormInv, Form!SkipValue PROVE FormInv'
<1>1. /\ pc = "cut" /\ vi \in 1 .. Len(request)
      /\ request[vi].kind = "other" \/ request[vi].text = << >>
      /\ vi' = vi + 1 /\ start' = start /\ request' = request /\ pc' = pc /\ log' = log
      /\ threat' = threat
  <2>1. /\ pc = "cut" /\ vi <= Len(request)
        /\ request[vi].kind = "other" \/ request[vi].text = << >>
        /\ vi' = vi + 1 /\ start' = start /\ request' = request /\ pc' = pc /\ log' = log
        /\ threat' = threat
    BY DEF Form!SkipValue, Form!AtValue, Form!val, Form!text
  <2>2. vi \in 1 .. Len(request) + 1 /\ Len(request) \in Nat
    BY FormPlace DEF FormInv
  <2> QED
    BY <2>1, <2>2
<1>2. start = 0
  BY <1>1 DEF FormInv, AtComponent
<1>3. Made' = Made
  BY <1>1 DEF Made
<1>4. \A n, k : Counted(n, k) => Counted(n, k)'
  BY <1>1, <1>3 DEF Counted
<1>5. ScansAreBehind'
  <2>1. \A s \in Made : /\ s.what \in Form!Collections /\ s.value \in 1 .. vi /\ s.to \in Nat
                        /\ s.value # vi
    BY <1>2 DEF FormInv, ScansAreBehind
  <2>2. \A x : x = vi + 1 => \A s \in Made : s.value \in 1 .. x /\ s.value # x
    BY <1>1, <2>1, FormPlace
  <2> QED
    BY <1>1, <1>3, <2>1, <2>2 DEF ScansAreBehind
<1>6. \A n \in 1 .. Len(request) : n < vi' /\ request[n].kind # "other" =>
        \A k \in 1 .. Len(request[n].text) : Counted(n, k)'
  <2> SUFFICES ASSUME NEW n \in 1 .. Len(request), n < vi', request[n].kind # "other",
                      NEW k \in 1 .. Len(request[n].text)
               PROVE  Counted(n, k)'
    OBVIOUS
  <2>1. n < vi \/ n = vi
    BY <1>1
  <2>2. CASE n < vi
    BY <1>4, <2>2 DEF FormInv
  <2>3. CASE n = vi
    <3>1. request[vi].text = << >>
      BY <1>1, <2>3
    <3>2. Len(request[vi].text) = 0
      BY <3>1
    <3> QED
      BY <2>3, <3>2
  <2> QED
    BY <2>1, <2>2, <2>3
<1>7. vi' \in 1 .. Len(request') + 1 /\ start' \in Nat /\ start' = 0
  BY <1>1, <1>2, FormPlace
<1> QED
  BY <1>1, <1>5, <1>6, <1>7 DEF FormInv, Elements

-----------------------------------------------------------------------------
(* Form!Spec                                                                *)

LEMMA FormRests ==
  ASSUME FormInv, UNCHANGED <<request, vi, start, threat, log>>, pc' \in {"cut", "done"}
  PROVE  FormInv'
<1>1. Made' = Made /\ start' = start /\ vi' = vi /\ request' = request /\ log' = log
  BY DEF Made
<1>2. \A n, k : Counted(n, k) => Counted(n, k)'
  BY <1>1 DEF Counted
<1>3. ScansAreBehind'
  BY <1>1 DEF FormInv, ScansAreBehind
<1>4. AtComponent => AtComponent'
  BY <1>1, <1>2 DEF AtComponent
<1>5. threat' = threat
  OBVIOUS
<1> QED
  BY <1>1, <1>2, <1>3, <1>4, <1>5 DEF FormInv

LEMMA FormNext == ASSUME FormInv, [Form!Next]_(Form!argVars) PROVE FormInv'
<1>1. CASE Form!SkipValue
  BY <1>1, SkipKeeps
<1>2. CASE Form!Whole
  BY <1>2, WholeKeeps
<1>3. CASE Form!Pair
  BY <1>3, PairKeeps
<1>4. CASE Form!Crumb
  BY <1>4, CrumbKeeps
<1>5. CASE Form!Return
  BY <1>5, FormRests DEF Form!Return
<1>6. CASE UNCHANGED Form!argVars
  <2>1. pc' \in {"cut", "done"}
    BY <1>6 DEF FormInv, Form!argVars
  <2> QED
    BY <1>6, <2>1, FormRests DEF Form!argVars
<1> QED
  BY <1>1, <1>2, <1>3, <1>4, <1>5, <1>6 DEF Form!Next, Form!Step, Form!Finished

LEMMA FormInitially == ASSUME Form!Init, request \in FormRequests PROVE FormInv
<1>1. request \in FormRequests /\ vi = 1 /\ start = 0 /\ threat = 0 /\ pc = "cut" /\ log = << >>
  BY DEF Form!Init
<1>2. Len(request) \in Nat /\ 0 \in Results
  BY <1>1, FormConstants DEF Form!ArgumentAssumption
<1>3. log \in Seq(Elements(log)) /\ Elements(log) = {}
  BY <1>1 DEF Elements
<1>4. Made = {}
  BY <1>3 DEF Made
<1> QED
  BY <1>1, <1>2, <1>3, <1>4 DEF FormInv, ScansAreBehind

\* Query strings, forms and cookies, of any characters, any number and any buffer:
\* what is behind the component being cut has been scanned, each character as part of
\* one name or value, and what comes next has not.
THEOREM FormInvariant == Spec => [](body = "form" => FormInv)
<1>1. Init => (body = "form" => FormInv)
  <2> SUFFICES ASSUME Init, body = "form" PROVE FormInv
    OBVIOUS
  <2>1. Form!Init
    BY DEF Init
  <2>2. request \in FormRequests
    BY <2>1 DEF Form!Init
  <2> QED
    BY <2>1, <2>2, FormInitially
<1>2. (body = "form" => FormInv) /\ [Next]_vars => (body = "form" => FormInv)'
  <2> SUFFICES ASSUME body = "form" => FormInv, [Next]_vars, body' = "form"
               PROVE  FormInv'
    OBVIOUS
  <2>1. body = "form" /\ [Form!Next]_(Form!argVars)
    BY DEF Next, vars, formOnly, Form!argVars
  <2> QED
    BY <2>1, FormNext
<1> QED
  BY <1>1, <1>2, PTL DEF Spec

LEMMA FormIsTyped == ASSUME FormInv PROVE Form!ArgumentTypeOK
<1>1. start # 0 => vi <= Len(request) /\ start <= Len(Form!text) + 1
  <2> SUFFICES ASSUME start # 0 PROVE vi <= Len(request) /\ start <= Len(Form!text) + 1
    OBVIOUS
  <2>1. vi \in 1 .. Len(request) /\ start <= Len(request[vi].text) + 1
    BY DEF FormInv, AtComponent
  <2>2. Form!text = request[vi].text
    BY <2>1, ValueIs
  <2>3. Len(request) \in Nat
    BY FormPlace
  <2> QED
    BY <2>1, <2>2, <2>3
<1>2. \A k \in DOMAIN log : log[k] \in Elements(log)
  BY DEF Elements
<1>3. \A k \in DOMAIN log : log[k].scan.what \in Form!Collections /\ log[k].result \in Results
  BY <1>2 DEF FormInv, ScansAreBehind, Made
<1> QED
  BY <1>1, <1>3 DEF FormInv, Form!ArgumentTypeOK

LEMMA FormDropsNothing == ASSUME FormInv PROVE Form!NothingIsDropped
<1>1. Made = {log[j].scan : j \in DOMAIN log}
  BY DEF Made, Elements
<1>2. \A n, k : Form!PartsWith(n, k) = Holding(Made, n, k)
  BY <1>1 DEF Form!PartsWith, Holding, Whole
<1> SUFFICES ASSUME NEW n \in DOMAIN request, vi > n, request[n].kind # "other",
                    NEW k \in DOMAIN request[n].text
             PROVE  Form!IsLeftOut(request[n], k)
                    \/ \E s \in Form!PartsWith(n, k) : Form!PartsWith(n, k) = {s}
  BY DEF Form!NothingIsDropped
<1>3. n \in 1 .. Len(request) /\ n < vi /\ k \in 1 .. Len(request[n].text)
  BY FormPlace
<1>4. Counted(n, k)
  BY <1>3 DEF FormInv
<1>5. CASE Form!IsLeftOut(request[n], k)
  BY <1>5
<1>6. CASE \E s \in Made : Holding(Made, n, k) = {s}
  <2>1. PICK s \in Made : Holding(Made, n, k) = {s}
    BY <1>6
  <2>2. Form!PartsWith(n, k) = {s}
    BY <1>2, <2>1
  <2> QED
    BY <2>2
<1> QED
  BY <1>4, <1>5, <1>6 DEF Counted

\* What lumina_scan_projected_collections and lumina_parse_and_project_json cut out of
\* a request, for any values, texts, depth limit and buffer: each character of a query,
\* form or cookie is scanned as part of one name or value, unless it is a separator,
\* a first equals sign, a blank of a cookie or in a component too long to be decoded;
\* and each string or scalar of a JSON text is scanned once, as far as it fits the
\* scratch buffer, up to an unmatched or too deep bracket, where the pass stops.
THEOREM NothingEverDropped == Spec => []NothingIsDropped
<1>1. (body = "form" => FormInv) /\ (body = "json" => JsonInv) => NothingIsDropped
  BY FormIsTyped, FormDropsNothing DEF JsonInv, NothingIsDropped
<1> QED
  BY <1>1, FormInvariant, JsonInvariant, PTL

================================================================================
