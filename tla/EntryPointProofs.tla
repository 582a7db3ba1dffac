---------------------------- MODULE EntryPointProofs ----------------------------
(***************************************************************************)
(* The nginx handler, for any requests, any capacity of the bundle and any *)
(* count at which the header counts saturate: the bundle holds what comes  *)
(* first, its description leaves no live header out, the inspection never  *)
(* refuses it, and only a rule blocks the request.                         *)
(*                                                                         *)
(* Then the single-buffer calls, for any requests, buffers and rules: the  *)
(* answer about a buffer is of that buffer and its request alone.  A call  *)
(* folds the scanners and the generated rules over what it works on, and   *)
(* its score is a sum, so first come folds over a finite set.              *)
(***************************************************************************)
EXTENDS MCEntryPoints, FiniteSetTheorems, WellFoundedInduction, TLAPS

\* An entry of the bundle: a part of the URI, or the header it was taken from.
Entry == {"uri", "args"} \cup (Nat \X Nat)

\* The URI opens the bundle, and headers are taken and inspected only after it.
UriComesFirst ==
  /\ vals \in Seq(Entry)
  /\ pc = "start" => vals = <<>>
  /\ pc \in {"headers", "decide"} => vals # <<>>

\* Until the handler answers it has blocked nobody, and before the inspection no
\* threat is known.
UnansweredYet ==
  /\ pc # "done" => answer = "none" /\ blockedBy = 0
  /\ pc \in {"start", "headers"} => threat = 0

\* Before it starts the loop stands at the first header, and nothing is described.
UndescribedYet ==
  pc = "start" => /\ part = 1 /\ pos = 1
                  /\ present = {} /\ counts = [name \in Adapter!Counted |-> 0]
                  /\ processor = Adapter!Nobody

AdapterInv ==
  /\ request \in HttpRequests
  /\ Adapter!AdapterTypeOK
  /\ IsFiniteSet(Adapter!Passed)
  /\ UriComesFirst
  /\ UnansweredYet
  /\ UndescribedYet
  /\ Adapter!KeepsWhatComesFirst /\ Adapter!MetadataIsComplete
  /\ Adapter!NeverRefused /\ Adapter!BlockedByRule
EntryInv == entry = "nginx" => AdapterInv

-----------------------------------------------------------------------------
\* A request has at least one part, and its parts are sequences of headers.
LEMMA RequestsHaveParts ==
  ASSUME NEW q \in HttpRequests
  PROVE  /\ q.parts \in Seq(Seq(Adapter!Header)) /\ Len(q.parts) \in Nat \ {0}
         /\ \A p \in 1 .. Len(q.parts) :
              q.parts[p] \in Seq(Adapter!Header) /\ Len(q.parts[p]) \in Nat
         /\ q.args \in {"null", "empty", "text"}
<1>1. q.parts \in Seq(Seq(Adapter!Header)) /\ q.parts # <<>> /\ q.args \in {"null", "empty", "text"}
  BY AdapterConstants DEF Adapter!AdapterAssumption
<1>2. Len(q.parts) \in Nat \ {0}
  BY <1>1
<1>3. \A p \in 1 .. Len(q.parts) : q.parts[p] \in Seq(Adapter!Header)
  BY <1>1
<1> QED
  BY <1>1, <1>2, <1>3

\* What the loop has passed lies before the place where it stands.
LEMMA PassedIsBehind ==
  ASSUME AdapterInv
  PROVE  /\ part \in Nat \ {0} /\ pos \in Nat \ {0}
         /\ \A x \in Adapter!Passed :
              /\ x = <<x[1], x[2]>> /\ x[1] \in 1 .. part /\ x[2] \in Nat
              /\ Adapter!Before(x, <<part, pos>>)
         /\ <<part, pos>> \notin Adapter!Passed
<1> DEFINE lists == request.parts
<1>1. /\ lists \in Seq(Seq(Adapter!Header))
      /\ \A p \in 1 .. Len(lists) : lists[p] \in Seq(Adapter!Header) /\ Len(lists[p]) \in Nat
  BY RequestsHaveParts DEF AdapterInv
<1>2. part \in 1 .. Len(lists) /\ pos \in 1 .. Len(lists[part]) + 1
  BY <1>1 DEF AdapterInv, Adapter!AdapterTypeOK
<1>3. Len(lists) \in Nat
  BY <1>1
<1>4. part \in Nat \ {0} /\ pos \in Nat \ {0}
  BY <1>1, <1>2, <1>3
<1>5. ASSUME NEW x \in Adapter!Passed
      PROVE  /\ x = <<x[1], x[2]>> /\ x[1] \in 1 .. part /\ x[2] \in Nat
             /\ x[1] < part \/ x[2] < pos
  <2>1. PICK p \in 1 .. part : x \in {p} \X DOMAIN lists[p]
    BY <1>5 DEF Adapter!Passed
  <2>2. p \in 1 .. Len(lists) /\ DOMAIN lists[p] = 1 .. Len(lists[p])
    BY <1>1, <1>2, <1>3, <1>4
  <2>3. x = <<x[1], x[2]>> /\ x[1] = p /\ x[2] \in 1 .. Len(lists[p])
    BY <2>1, <2>2
  <2>4. x[1] < part \/ x[2] < pos
    BY <1>5 DEF Adapter!Passed
  <2> QED
    BY <1>1, <2>2, <2>3, <2>4
<1>6. \A x \in Adapter!Passed : Adapter!Before(x, <<part, pos>>)
  BY <1>4, <1>5 DEF Adapter!Before
<1>7. <<part, pos>> \notin Adapter!Passed
  BY <1>4, <1>6 DEF Adapter!Before
<1> QED
  BY <1>4, <1>5, <1>6, <1>7

\* A live header joins the passed ones when the loop takes it; nothing else does.
LEMMA PassedGrows ==
  ASSUME AdapterInv, Adapter!TakeHeader
  PROVE  LET here == <<part, pos>> IN
         Adapter!Passed' = IF Adapter!HeaderAt(part, pos).live
                             THEN Adapter!Passed \cup {here} ELSE Adapter!Passed
<1> DEFINE lists == request.parts
           here == <<part, pos>>
<1>1. /\ lists \in Seq(Seq(Adapter!Header))
      /\ \A p \in 1 .. Len(lists) : lists[p] \in Seq(Adapter!Header) /\ Len(lists[p]) \in Nat
  BY RequestsHaveParts DEF AdapterInv
<1>2. part \in 1 .. Len(lists) /\ Len(lists) \in Nat /\ pos \in 1 .. Len(lists[part])
  BY <1>1 DEF AdapterInv, Adapter!AdapterTypeOK, Adapter!TakeHeader
<1>3. request' = request /\ part' = part /\ pos' = pos + 1
  BY DEF Adapter!TakeHeader
<1>4. \A p, i : Adapter!HeaderAt(p, i)' = Adapter!HeaderAt(p, i)
  BY <1>3 DEF Adapter!HeaderAt
<1> DEFINE Spots == UNION { {p} \X DOMAIN lists[p] : p \in 1 .. part }
<1>5. \A x \in Spots : x = <<x[1], x[2]>> /\ x[1] \in 1 .. part /\ x[2] \in Nat
  <2>1. ASSUME NEW p \in 1 .. part, NEW x \in {p} \X DOMAIN lists[p]
        PROVE  x = <<x[1], x[2]>> /\ x[1] = p /\ x[2] \in Nat
    BY <1>1, <1>2, <2>1
  <2> QED
    BY <2>1
<1>6. here \in Spots /\ here[1] = part /\ here[2] = pos
  <2>1. pos \in DOMAIN lists[part] /\ part \in 1 .. part
    BY <1>1, <1>2
  <2> QED
    BY <2>1
<1>7. Adapter!Passed = { x \in Spots : (x[1] < part \/ x[2] < pos) /\ Adapter!HeaderAt(x[1], x[2]).live }
  BY DEF Adapter!Passed
<1>8. Adapter!Passed' =
        { x \in Spots : (x[1] < part \/ x[2] < pos + 1) /\ Adapter!HeaderAt(x[1], x[2]).live }
  BY <1>3, <1>4 DEF Adapter!Passed
<1>9. \A x \in Spots : (x[1] < part \/ x[2] < pos + 1) <=> (x[1] < part \/ x[2] < pos) \/ x = here
  <2> SUFFICES ASSUME NEW x \in Spots
               PROVE  (x[1] < part \/ x[2] < pos + 1) <=> (x[1] < part \/ x[2] < pos) \/ x = here
    OBVIOUS
  <2>1. x = <<x[1], x[2]>> /\ x[1] \in 1 .. part /\ x[2] \in Nat
    BY <1>5
  <2> QED
    BY <1>2, <2>1
<1> HIDE DEF Spots, here
<1>10. Adapter!Passed' = IF Adapter!HeaderAt(part, pos).live
                           THEN Adapter!Passed \cup {here} ELSE Adapter!Passed
  BY <1>6, <1>7, <1>8, <1>9
<1> QED
  BY <1>10 DEF here

\* The next part adds no header to the passed ones.
LEMMA NextPartPasses ==
  ASSUME AdapterInv, Adapter!NextPart
  PROVE  Adapter!Passed' = Adapter!Passed
<1> DEFINE lists == request.parts
<1>1. /\ lists \in Seq(Seq(Adapter!Header))
      /\ \A p \in 1 .. Len(lists) : lists[p] \in Seq(Adapter!Header) /\ Len(lists[p]) \in Nat
  BY RequestsHaveParts DEF AdapterInv
<1>2. part \in 1 .. Len(lists) /\ Len(lists) \in Nat /\ part < Len(lists) /\ pos \in Nat
  <2>1. part \in DOMAIN lists /\ part < Len(lists)
    BY DEF AdapterInv, Adapter!AdapterTypeOK, Adapter!NextPart
  <2> QED
    BY <1>1, <2>1, PassedIsBehind
<1>3. request' = request /\ part' = part + 1 /\ pos' = 1 /\ pos > Len(lists[part])
  BY DEF Adapter!NextPart
<1>4. \A p, i : Adapter!HeaderAt(p, i)' = Adapter!HeaderAt(p, i)
  BY <1>3 DEF Adapter!HeaderAt
<1>5. ASSUME NEW p \in 1 .. part + 1, NEW x \in {p} \X DOMAIN lists[p]
      PROVE  x[1] = p /\ x[2] \in 1 .. Len(lists[p]) /\ Len(lists[p]) \in Nat
  BY <1>1, <1>2, <1>5
<1> DEFINE Spots(n) == UNION { {p} \X DOMAIN lists[p] : p \in 1 .. n }
<1>6. Adapter!Passed = { x \in Spots(part) :
        (x[1] < part \/ x[2] < pos) /\ Adapter!HeaderAt(x[1], x[2]).live }
  BY DEF Adapter!Passed
<1>7. Adapter!Passed' = { x \in Spots(part + 1) :
        (x[1] < part + 1 \/ x[2] < 1) /\ Adapter!HeaderAt(x[1], x[2]).live }
  BY <1>3, <1>4 DEF Adapter!Passed
<1>8. \A x \in Spots(part) : x[1] < part + 1 /\ (x[1] < part \/ x[2] < pos)
  <2> SUFFICES ASSUME NEW p \in 1 .. part, NEW x \in {p} \X DOMAIN lists[p]
               PROVE  x[1] < part + 1 /\ (x[1] < part \/ x[2] < pos)
    OBVIOUS
  <2>1. x[1] = p /\ x[2] \in 1 .. Len(lists[p]) /\ Len(lists[p]) \in Nat
    BY <1>2, <1>5
  <2> QED
    BY <1>2, <1>3, <2>1
<1>9. Spots(part) \subseteq Spots(part + 1)
  BY <1>2
<1>10. \A x \in Spots(part + 1) : x[1] < part + 1 \/ x[2] < 1 => x \in Spots(part)
  <2> SUFFICES ASSUME NEW p \in 1 .. part + 1, NEW x \in {p} \X DOMAIN lists[p],
                      x[1] < part + 1 \/ x[2] < 1
               PROVE  x \in Spots(part)
    OBVIOUS
  <2>1. x[1] = p /\ x[2] \in 1 .. Len(lists[p]) /\ Len(lists[p]) \in Nat
    BY <1>5
  <2>2. p \in 1 .. part
    BY <1>2, <2>1
  <2> QED
    BY <2>2
<1> HIDE DEF Spots
<1> QED
  BY <1>6, <1>7, <1>8, <1>9, <1>10

-----------------------------------------------------------------------------
\* What the bundle starts with does not change, and is one entry or two.
LEMMA LeadingEntries ==
  Len(Adapter!Leading) \in {1, 2} /\ DOMAIN Adapter!Leading = 1 .. Len(Adapter!Leading)
<1>1. CASE request.args = "text"
  BY <1>1 DEF Adapter!Leading
<1>2. CASE request.args # "text"
  BY <1>2 DEF Adapter!Leading
<1> QED
  BY <1>1, <1>2

\* Taking a live header keeps what comes first.
LEMMA BundleKeeps ==
  ASSUME AdapterInv, Adapter!TakeHeader, Adapter!HeaderAt(part, pos).live
  PROVE  /\ UriComesFirst' /\ Len(vals') <= Capacity
         /\ Adapter!KeepsWhatComesFirst'
<1> DEFINE h == Adapter!HeaderAt(part, pos)
           here == <<part, pos>>
           top == Len(Adapter!Leading)
<1>1. /\ vals \in Seq(Entry) /\ vals # <<>> /\ Len(vals) <= Capacity
      /\ pc = "headers" /\ pc' = pc /\ request' = request
  BY DEF AdapterInv, UriComesFirst, Adapter!AdapterTypeOK, Adapter!TakeHeader
<1>2. Capacity \in Nat /\ Len(vals) \in Nat
  BY <1>1, AdapterConstants DEF Adapter!AdapterAssumption
<1>3. vals' = IF h.value # "null" /\ Len(vals) < Capacity THEN Append(vals, here) ELSE vals
  BY DEF Adapter!TakeHeader, Adapter!Add, Adapter!Addable, Adapter!Place
<1>4. Adapter!Leading' = Adapter!Leading
  BY <1>1 DEF Adapter!Leading
<1>5. Adapter!Passed' = Adapter!Passed \cup {here}
  BY PassedGrows
<1>6. \A p, i : Adapter!HeaderAt(p, i)' = Adapter!HeaderAt(p, i)
  BY <1>1 DEF Adapter!HeaderAt
<1>7. /\ part \in Nat /\ pos \in Nat
      /\ \A x \in Adapter!Passed : Adapter!Before(x, here)
      /\ here \notin Adapter!Passed
  BY PassedIsBehind
<1>8. top \in {1, 2} /\ DOMAIN Adapter!Leading = 1 .. top
  BY LeadingEntries
<1>9. /\ \A k \in 1 .. top : IF k <= Len(vals) THEN vals[k] = Adapter!Leading[k]
                             ELSE Len(vals) = Capacity
      /\ \A k \in top + 1 .. Len(vals) :
           /\ vals[k] \in Adapter!Passed
           /\ Adapter!HeaderAt(vals[k][1], vals[k][2]).value # "null"
           /\ \A j \in top + 1 .. Len(vals) : j < k => Adapter!Before(vals[j], vals[k])
      /\ \A x \in Adapter!Passed : Adapter!HeaderAt(x[1], x[2]).value # "null" =>
           \/ \E k \in top + 1 .. Len(vals) : vals[k] = x
           \/ Len(vals) = Capacity /\ \A k \in top + 1 .. Len(vals) : Adapter!Before(vals[k], x)
  BY <1>1, <1>8 DEF AdapterInv, Adapter!KeepsWhatComesFirst, Adapter!Started
<1>10. here[1] = part /\ here[2] = pos /\ here \in Entry
  BY <1>7 DEF Entry
<1> HIDE DEF here, h
<1>11. h = Adapter!HeaderAt(here[1], here[2])
  BY <1>10 DEF h
<1>a. CASE h.value # "null" /\ Len(vals) < Capacity
  <2>1. /\ vals' \in Seq(Entry) /\ vals' # <<>> /\ Len(vals') = Len(vals) + 1
        /\ \A k \in 1 .. Len(vals) : vals'[k] = vals[k]
        /\ vals'[Len(vals) + 1] = here
    BY <1>1, <1>2, <1>3, <1>10, <1>a
  <2>2. top <= Len(vals)
    BY <1>2, <1>8, <1>9, <1>a
  <2>3. \A k \in 1 .. top : k <= Len(vals') /\ vals'[k] = Adapter!Leading[k]
    BY <1>2, <1>8, <1>9, <2>1, <2>2
  <2>4. \A k \in top + 1 .. Len(vals') :
          IF k = Len(vals) + 1 THEN vals'[k] = here
          ELSE k \in top + 1 .. Len(vals) /\ vals'[k] = vals[k]
    BY <1>2, <1>8, <2>1
  <2>5. ASSUME NEW k \in top + 1 .. Len(vals')
        PROVE  /\ vals'[k] \in Adapter!Passed \cup {here}
               /\ Adapter!HeaderAt(vals'[k][1], vals'[k][2]).value # "null"
               /\ \A j \in top + 1 .. Len(vals') : j < k => Adapter!Before(vals'[j], vals'[k])
    <3>1. CASE k = Len(vals) + 1
      <4>1. vals'[k] = here /\ \A j \in top + 1 .. Len(vals') : j < k => vals'[j] \in Adapter!Passed
        BY <1>2, <1>8, <1>9, <2>1, <2>4, <3>1
      <4> QED
        BY <1>7, <1>11, <1>a, <4>1
    <3>2. CASE k # Len(vals) + 1
      <4>1. k \in top + 1 .. Len(vals) /\ vals'[k] = vals[k]
        BY <2>4, <3>2
      <4>2. \A j \in top + 1 .. Len(vals') : j < k => j \in top + 1 .. Len(vals) /\ vals'[j] = vals[j]
        BY <1>2, <1>8, <2>4, <4>1
      <4> QED
        BY <1>9, <4>1, <4>2
    <3> QED
      BY <3>1, <3>2
  <2>6. ASSUME NEW x \in Adapter!Passed \cup {here}, Adapter!HeaderAt(x[1], x[2]).value # "null"
        PROVE  \E k \in top + 1 .. Len(vals') : vals'[k] = x
    <3>1. CASE x = here
      BY <1>2, <1>8, <2>1, <2>2, <3>1
    <3>2. CASE x \in Adapter!Passed
      <4>1. PICK k \in top + 1 .. Len(vals) : vals[k] = x
        BY <1>2, <1>9, <1>a, <2>6, <3>2
      <4>2. k \in top + 1 .. Len(vals') /\ vals'[k] = x
        BY <1>2, <1>8, <2>1, <4>1
      <4> QED
        BY <4>2
    <3> QED
      BY <2>6, <3>1, <3>2
  <2>7. Adapter!KeepsWhatComesFirst'
    BY <1>4, <1>5, <1>6, <1>8, <2>3, <2>5, <2>6
       DEF Adapter!KeepsWhatComesFirst, Adapter!Before
  <2> QED
    BY <1>1, <1>2, <1>a, <2>1, <2>7 DEF UriComesFirst
<1>b. CASE ~(h.value # "null" /\ Len(vals) < Capacity)
  <2>1. vals' = vals
    BY <1>3, <1>b
  <2>2. h.value # "null" =>
          Len(vals) = Capacity /\ \A k \in top + 1 .. Len(vals) : Adapter!Before(vals[k], here)
    BY <1>1, <1>2, <1>7, <1>9, <1>b
  <2>3. Adapter!KeepsWhatComesFirst'
    BY <1>4, <1>5, <1>6, <1>8, <1>9, <1>11, <2>1, <2>2
       DEF Adapter!KeepsWhatComesFirst, Adapter!Before
  <2> QED
    BY <1>1, <2>1, <2>3 DEF UriComesFirst
<1> QED
  BY <1>a, <1>b

\* The headers of one name: finitely many, and the one taken joins those of its own.
LEMMA NamedGrows ==
  ASSUME AdapterInv, Adapter!TakeHeader, Adapter!HeaderAt(part, pos).live, NEW n
  PROVE  LET here == <<part, pos>> IN
         /\ IsFiniteSet(Adapter!Named(n)) /\ Cardinality(Adapter!Named(n)) \in Nat
         /\ here \notin Adapter!Named(n)
         /\ Adapter!Named(n)' = IF Adapter!HeaderAt(part, pos).name = n
                                  THEN Adapter!Named(n) \cup {here} ELSE Adapter!Named(n)
         /\ Adapter!HeaderAt(part, pos).name = n =>
              Cardinality(Adapter!Named(n)') = Cardinality(Adapter!Named(n)) + 1
<1> DEFINE here == <<part, pos>>
<1>1. request' = request
  BY DEF Adapter!TakeHeader
<1>2. \A p, i : Adapter!HeaderAt(p, i)' = Adapter!HeaderAt(p, i)
  BY <1>1 DEF Adapter!HeaderAt
<1>3. Adapter!Passed' = Adapter!Passed \cup {here} /\ here \notin Adapter!Passed
  BY PassedGrows, PassedIsBehind
<1>4. IsFiniteSet(Adapter!Named(n)) /\ here \notin Adapter!Named(n)
  BY <1>3, FS_Subset DEF AdapterInv, Adapter!Named
<1>5. here[1] = part /\ here[2] = pos
  OBVIOUS
<1> HIDE DEF here
<1>6. Adapter!Named(n)' = IF Adapter!HeaderAt(part, pos).name = n
                            THEN Adapter!Named(n) \cup {here} ELSE Adapter!Named(n)
  BY <1>2, <1>3, <1>5 DEF Adapter!Named
<1>7. Cardinality(Adapter!Named(n)) \in Nat
  BY <1>4, FS_CardinalityType
<1>8. Cardinality(Adapter!Named(n) \cup {here}) = Cardinality(Adapter!Named(n)) + 1
  BY <1>4, FS_AddElement
<1> QED
  BY <1>4, <1>6, <1>7, <1>8 DEF here

\* Taking a live header, kept in the bundle or not, completes the description.
LEMMA DescriptionCompletes ==
  ASSUME AdapterInv, Adapter!TakeHeader, Adapter!HeaderAt(part, pos).live
  PROVE  /\ present' \subseteq Adapter!Masked
         /\ counts' \in [Adapter!Counted -> 0 .. MaxCount]
         /\ processor' \in Adapter!Selected \cup {Adapter!Nobody}
         /\ Adapter!MetadataIsComplete'
<1> DEFINE h == Adapter!HeaderAt(part, pos)
           here == <<part, pos>>
<1>1. /\ present' = present \cup Adapter!Mask(h.name)
      /\ counts' = Adapter!Count(counts, h.name)
      /\ processor' = Adapter!Process(processor, h)
      /\ request' = request /\ pc = "headers"
  BY DEF Adapter!TakeHeader
<1>2. \A p, i : Adapter!HeaderAt(p, i)' = Adapter!HeaderAt(p, i)
  BY <1>1 DEF Adapter!HeaderAt
<1>3. MaxCount \in Nat \ {0, 1}
  BY AdapterConstants DEF Adapter!AdapterAssumption
<1>4. /\ present \subseteq Adapter!Masked /\ counts \in [Adapter!Counted -> 0 .. MaxCount]
      /\ processor \in Adapter!Selected \cup {Adapter!Nobody} /\ Adapter!Started
  BY <1>1 DEF AdapterInv, Adapter!AdapterTypeOK, UriComesFirst, Adapter!Started
<1>5. /\ present = { n \in Adapter!Masked : Adapter!Named(n) # {} }
      /\ \A n \in Adapter!Counted :
           counts[n] = IF Cardinality(Adapter!Named(n)) < MaxCount
                         THEN Cardinality(Adapter!Named(n)) ELSE MaxCount
      /\ IF \A x \in Adapter!Passed : ~Adapter!Selects(x) THEN processor = Adapter!Nobody
         ELSE \E x \in Adapter!Passed :
                /\ Adapter!Selects(x) /\ processor = Adapter!HeaderAt(x[1], x[2]).media
                /\ \A y \in Adapter!Passed :
                     Adapter!Selects(y) /\ y # x => Adapter!Before(y, x)
  BY <1>4 DEF AdapterInv, Adapter!MetadataIsComplete, Adapter!Cardinality, Cardinality
<1>6. Adapter!Passed' = Adapter!Passed \cup {here}
  BY PassedGrows
<1>7. \A x \in Adapter!Passed : Adapter!Before(x, here)
  BY PassedIsBehind
<1>8. here[1] = part /\ here[2] = pos
  OBVIOUS
<1>9. h.media \in Adapter!Selected \cup {Adapter!Nobody}
  <2>1. /\ request.parts \in Seq(Seq(Adapter!Header))
        /\ request.parts[part] \in Seq(Adapter!Header)
        /\ pos \in DOMAIN request.parts[part]
    BY RequestsHaveParts DEF AdapterInv, Adapter!AdapterTypeOK, Adapter!TakeHeader
  <2>2. h \in Adapter!Header
    BY <2>1 DEF Adapter!HeaderAt
  <2> QED
    BY <2>2 DEF Adapter!Header
<1>10. Adapter!Selects(here) <=> h.name = "Content-Type" /\ h.value # "null" /\ h.media # Adapter!Nobody
  BY <1>8 DEF Adapter!Selects
<1>11. \A x : Adapter!Selects(x)' <=> Adapter!Selects(x)
  BY <1>2 DEF Adapter!Selects
<1>12. \A n : Adapter!Named(n)' = IF h.name = n THEN Adapter!Named(n) \cup {here} ELSE Adapter!Named(n)
  BY NamedGrows
<1>13. \A n : /\ Cardinality(Adapter!Named(n)) \in Nat
              /\ h.name = n => Cardinality(Adapter!Named(n)') = Cardinality(Adapter!Named(n)) + 1
  BY NamedGrows
<1> HIDE DEF here, h
<1>14. present' = { n \in Adapter!Masked : Adapter!Named(n)' # {} }
  BY <1>1, <1>5, <1>12 DEF Adapter!Mask
<1>15. /\ counts' \in [Adapter!Counted -> 0 .. MaxCount]
       /\ \A n \in Adapter!Counted :
            counts'[n] = IF Cardinality(Adapter!Named(n)') < MaxCount
                           THEN Cardinality(Adapter!Named(n)') ELSE MaxCount
  <2>1. \A n \in Adapter!Counted : counts'[n] =
          IF n = h.name /\ counts[n] # MaxCount THEN counts[n] + 1 ELSE counts[n]
    BY <1>1, <1>4 DEF Adapter!Count
  <2>2. counts' \in [Adapter!Counted -> 0 .. MaxCount]
    BY <1>1, <1>3, <1>4 DEF Adapter!Count
  <2>3. ASSUME NEW n \in Adapter!Counted
        PROVE  counts'[n] = IF Cardinality(Adapter!Named(n)') < MaxCount
                              THEN Cardinality(Adapter!Named(n)') ELSE MaxCount
    <3>1. CASE n = h.name
      <4> DEFINE c == Cardinality(Adapter!Named(n))
                 d == Cardinality(Adapter!Named(n)')
      <4>1. c \in Nat /\ d = c + 1 /\ counts[n] = (IF c < MaxCount THEN c ELSE MaxCount)
        BY <1>5, <1>13, <3>1
      <4>2. counts'[n] = IF counts[n] # MaxCount THEN counts[n] + 1 ELSE counts[n]
        BY <2>1, <3>1
      <4> HIDE DEF c, d
      <4>3. counts'[n] = IF d < MaxCount THEN d ELSE MaxCount
        BY <1>3, <4>1, <4>2
      <4> QED
        BY <4>3 DEF d
    <3>2. CASE n # h.name
      <4>1. counts'[n] = counts[n] /\ Adapter!Named(n)' = Adapter!Named(n)
        BY <1>12, <2>1, <3>2
      <4> QED
        BY <1>5, <4>1
    <3> QED
      BY <3>1, <3>2
  <2> QED
    BY <2>2, <2>3
<1>16. processor' \in Adapter!Selected \cup {Adapter!Nobody}
  BY <1>1, <1>4, <1>9 DEF Adapter!Process
<1>17. IF \A x \in Adapter!Passed' : ~Adapter!Selects(x) THEN processor' = Adapter!Nobody
       ELSE \E x \in Adapter!Passed' :
              /\ Adapter!Selects(x) /\ processor' = Adapter!HeaderAt(x[1], x[2]).media
              /\ \A y \in Adapter!Passed' :
                   Adapter!Selects(y) /\ y # x => Adapter!Before(y, x)
  <2>1. CASE Adapter!Selects(here)
    <3>1. processor' = h.media /\ h = Adapter!HeaderAt(here[1], here[2])
      BY <1>1, <1>8, <1>10, <2>1 DEF Adapter!Process, h
    <3> QED
      BY <1>6, <1>7, <2>1, <3>1
  <2>2. CASE ~Adapter!Selects(here)
    <3>1. processor' = processor
      BY <1>1, <1>10, <2>2 DEF Adapter!Process
    <3> QED
      BY <1>5, <1>6, <2>2, <3>1
  <2> QED
    BY <2>1, <2>2
<1>18. Adapter!MetadataIsComplete'
  BY <1>2, <1>11, <1>14, <1>15, <1>17
     DEF Adapter!MetadataIsComplete, Adapter!Before, Adapter!Cardinality, Cardinality
<1>19. present' \subseteq Adapter!Masked
  BY <1>14
<1> QED
  BY <1>15, <1>16, <1>18, <1>19

-----------------------------------------------------------------------------
\* Before the first part the loop has passed nothing.
LEMMA NothingPassedAtFirst ==
  ASSUME NEW q \in HttpRequests, request = q, part = 1, pos = 1
  PROVE  /\ Adapter!Passed = {} /\ \A n : Adapter!Named(n) = {}
         /\ part \in DOMAIN request.parts /\ pos \in 1 .. Len(request.parts[part]) + 1
<1>1. /\ Len(q.parts) \in Nat \ {0} /\ q.parts \in Seq(Seq(Adapter!Header))
      /\ \A p \in 1 .. Len(q.parts) :
           q.parts[p] \in Seq(Adapter!Header) /\ Len(q.parts[p]) \in Nat
  BY RequestsHaveParts
<1>2. 1 \in 1 .. Len(q.parts)
  BY <1>1
<1>3. DOMAIN q.parts[1] = 1 .. Len(q.parts[1])
  BY <1>1, <1>2
<1>4. UNION { {p} \X DOMAIN q.parts[p] : p \in 1 .. 1 } = {1} \X (1 .. Len(q.parts[1]))
  BY <1>3
<1>5. \A x \in {1} \X (1 .. Len(q.parts[1])) : ~(x[1] < 1 \/ x[2] < 1)
  BY <1>1, <1>2
<1>6. Adapter!Passed = {}
  BY <1>4, <1>5 DEF Adapter!Passed
<1> QED
  BY <1>1, <1>2, <1>6 DEF Adapter!Named

LEMMA EntryInitially == Init => EntryInv
<1> SUFFICES ASSUME Init, entry = "nginx" PROVE AdapterInv
  BY DEF EntryInv
<1>1. Adapter!Init
  BY DEF Init
<1>2. /\ request \in HttpRequests /\ pc = "start" /\ part = 1 /\ pos = 1
      /\ vals = <<>> /\ present = {} /\ counts = [n \in Adapter!Counted |-> 0]
      /\ processor = Adapter!Nobody
      /\ origin = 0 /\ blockedBy = 0 /\ threat = 0 /\ answer = "none"
  BY <1>1 DEF Adapter!Init
<1>3. /\ Adapter!Passed = {} /\ part \in DOMAIN request.parts
      /\ pos \in 1 .. Len(request.parts[part]) + 1
  BY <1>2, NothingPassedAtFirst
<1>4. Capacity \in Nat \ {0} /\ MaxCount \in Nat \ {0, 1}
  BY AdapterConstants DEF Adapter!AdapterAssumption
<1>5. Len(vals) = 0 /\ vals \in Seq(Entry)
  BY <1>2
<1>6. Adapter!AdapterTypeOK
  BY <1>2, <1>3, <1>4, <1>5 DEF Adapter!AdapterTypeOK
<1>7. UriComesFirst /\ UnansweredYet /\ UndescribedYet
  BY <1>2, <1>5 DEF UriComesFirst, UnansweredYet, UndescribedYet
<1>8. Adapter!KeepsWhatComesFirst /\ Adapter!MetadataIsComplete
  BY <1>2 DEF Adapter!KeepsWhatComesFirst, Adapter!MetadataIsComplete, Adapter!Started
<1>9. Adapter!NeverRefused /\ Adapter!BlockedByRule
  BY <1>2 DEF Adapter!NeverRefused, Adapter!BlockedByRule
<1>10. IsFiniteSet(Adapter!Passed)
  BY <1>3, FS_EmptySet
<1> QED
  BY <1>2, <1>6, <1>7, <1>8, <1>9, <1>10 DEF AdapterInv

\* The URI, and a query with something in it, open the bundle.
LEMMA StartKeeps ==
  ASSUME AdapterInv, request.args \in {"null", "empty", "text"}, Adapter!Start,
         Adapter!Passed = {}, \A n : Adapter!Named(n) = {}
  PROVE  AdapterInv'
<1>1. /\ pc = "start" /\ pc' = "headers" /\ request' = request /\ part' = part /\ pos' = pos
      /\ present' = present /\ counts' = counts /\ processor' = processor
      /\ origin' = origin /\ blockedBy' = blockedBy /\ answer' = answer /\ threat' = threat
  BY DEF Adapter!Start, Adapter!response
<1>2. Capacity \in Nat \ {0} /\ MaxCount \in Nat \ {0, 1}
  BY AdapterConstants DEF Adapter!AdapterAssumption
<1>3. Adapter!Add(<<>>, "text", FALSE, "uri") = <<"uri">>
  BY <1>2 DEF Adapter!Add, Adapter!Addable
<1>4. vals' = IF request.args = "text" /\ 1 < Capacity THEN Append(<<"uri">>, "args")
              ELSE <<"uri">>
  <2>1. vals' = Adapter!Add(<<"uri">>, request.args, FALSE, "args")
    BY <1>3 DEF Adapter!Start
  <2>2. Len(<<"uri">>) = 1
    OBVIOUS
  <2> QED
    BY <2>1, <2>2 DEF Adapter!Add, Adapter!Addable
<1>5. /\ vals' \in Seq(Entry) /\ vals'[1] = "uri"
      /\ IF request.args = "text" /\ 1 < Capacity THEN Len(vals') = 2 /\ vals'[2] = "args"
         ELSE Len(vals') = 1
  <2>1. <<"uri">> \in Seq(Entry) /\ Len(<<"uri">>) = 1 /\ <<"uri">>[1] = "uri"
    BY DEF Entry
  <2>2. \A s \in Seq(Entry), e \in Entry :
          /\ Append(s, e) \in Seq(Entry) /\ Len(Append(s, e)) = Len(s) + 1
          /\ Append(s, e)[Len(s) + 1] = e
          /\ \A k \in 1 .. Len(s) : Append(s, e)[k] = s[k]
    OBVIOUS
  <2>3. "args" \in Entry
    BY DEF Entry
  <2>4. LET two == Append(<<"uri">>, "args") IN
        two \in Seq(Entry) /\ Len(two) = 2 /\ two[1] = "uri" /\ two[2] = "args"
    BY <2>1, <2>2, <2>3
  <2> QED
    BY <1>4, <2>1, <2>4
<1>len. vals' # <<>> /\ Len(vals') <= Capacity
  <2>1. Len(vals') = 1 \/ (Len(vals') = 2 /\ 1 < Capacity)
    BY <1>5
  <2>2. 1 <= Capacity /\ (1 < Capacity => 2 <= Capacity)
    BY <1>2
  <2>3. Len(vals') <= Capacity
    BY <2>1, <2>2
  <2>4. vals' # <<>>
    BY <2>1
  <2> QED
    BY <2>3, <2>4
<1>6. Adapter!Leading' = Adapter!Leading
  BY <1>1 DEF Adapter!Leading
<1>7. Adapter!Passed' = Adapter!Passed /\ \A n : Adapter!Named(n)' = Adapter!Named(n)
  BY <1>1 DEF Adapter!Passed, Adapter!HeaderAt, Adapter!Named
<1>8. /\ \A k \in DOMAIN Adapter!Leading : IF k <= Len(vals') THEN vals'[k] = Adapter!Leading[k]
                                           ELSE Len(vals') = Capacity
      /\ Len(vals') <= Len(Adapter!Leading)
  <2>1. CASE request.args = "text" /\ 1 < Capacity
    <3>1. Adapter!Leading[1] = "uri" /\ Adapter!Leading[2] = "args"
      BY <2>1 DEF Adapter!Leading
    <3>2. DOMAIN Adapter!Leading = {1, 2} /\ Len(Adapter!Leading) = 2
      BY <2>1 DEF Adapter!Leading
    <3>3. Len(vals') = 2 /\ vals'[1] = "uri" /\ vals'[2] = "args"
      BY <1>5, <2>1
    <3> QED
      BY <3>1, <3>2, <3>3
  <2>2. CASE request.args = "text" /\ ~(1 < Capacity)
    <3>1. Capacity = 1 /\ Len(vals') = 1 /\ vals'[1] = "uri" /\ Adapter!Leading = <<"uri", "args">>
      BY <1>2, <1>5, <2>2 DEF Adapter!Leading
    <3> QED
      BY <3>1
  <2>3. CASE request.args # "text"
    <3>1. DOMAIN Adapter!Leading = {1} /\ Len(Adapter!Leading) = 1 /\ Adapter!Leading[1] = "uri"
      BY <2>3 DEF Adapter!Leading
    <3> QED
      BY <1>5, <2>3, <3>1
  <2> QED
    BY <2>1, <2>2, <2>3
<1>9. Adapter!KeepsWhatComesFirst'
  <2>1. Len(Adapter!Leading) + 1 .. Len(vals') = {}
    BY <1>5, <1>8, LeadingEntries
  <2> QED
    BY <1>6, <1>7, <1>8, <2>1 DEF Adapter!KeepsWhatComesFirst
<1>10. Adapter!MetadataIsComplete'
  <2>1. Cardinality({}) = 0
    BY FS_EmptySet
  <2>2. present = {} /\ counts = [n \in Adapter!Counted |-> 0] /\ processor = Adapter!Nobody
    BY <1>1 DEF AdapterInv, UndescribedYet
  <2>3. \A n \in Adapter!Counted : counts'[n] = 0
    BY <1>1, <2>2
  <2>4. present' = { n \in Adapter!Masked : Adapter!Named(n)' # {} }
    BY <1>1, <1>7, <2>2
  <2>5. \A n \in Adapter!Counted :
          counts'[n] = IF Cardinality(Adapter!Named(n)') < MaxCount
                         THEN Cardinality(Adapter!Named(n)') ELSE MaxCount
    BY <1>2, <1>7, <2>1, <2>3
  <2>6. Adapter!Passed' = {} /\ processor' = Adapter!Nobody
    BY <1>1, <1>7, <2>2
  <2> QED
    BY <2>4, <2>5, <2>6 DEF Adapter!MetadataIsComplete, Adapter!Cardinality, Cardinality
<1>11. Adapter!AdapterTypeOK'
  BY <1>1, <1>5, <1>len DEF AdapterInv, Adapter!AdapterTypeOK
<1>12. UriComesFirst' /\ UnansweredYet' /\ UndescribedYet'
  BY <1>1, <1>5, <1>len DEF AdapterInv, UriComesFirst, UnansweredYet, UndescribedYet
<1>13. Adapter!NeverRefused' /\ Adapter!BlockedByRule'
  BY <1>1 DEF AdapterInv, Adapter!NeverRefused, Adapter!BlockedByRule
<1> QED
  BY <1>1, <1>7, <1>9, <1>10, <1>11, <1>12, <1>13 DEF AdapterInv

\* The loop over the headers.
LEMMA HeadersKeep ==
  ASSUME AdapterInv, Adapter!TakeHeader \/ Adapter!NextPart
  PROVE  AdapterInv'
<1>1. /\ pc = "headers" /\ pc' = pc /\ request' = request /\ threat' = threat
      /\ origin' = origin /\ blockedBy' = blockedBy /\ answer' = answer
  BY DEF Adapter!TakeHeader, Adapter!NextPart, Adapter!response
<1>2. /\ request.parts \in Seq(Seq(Adapter!Header)) /\ Len(request.parts) \in Nat
      /\ \A p \in 1 .. Len(request.parts) : Len(request.parts[p]) \in Nat
  BY RequestsHaveParts DEF AdapterInv
<1>3. part \in 1 .. Len(request.parts) /\ pos \in Nat \ {0}
  BY <1>2, PassedIsBehind DEF AdapterInv, Adapter!AdapterTypeOK
<1>4. UnansweredYet' /\ UndescribedYet' /\ Adapter!NeverRefused' /\ Adapter!BlockedByRule'
  BY <1>1 DEF AdapterInv, UnansweredYet, UndescribedYet, Adapter!NeverRefused, Adapter!BlockedByRule
<1>5. IsFiniteSet(Adapter!Passed')
  <2>1. IsFiniteSet(Adapter!Passed \cup {<<part, pos>>})
    BY FS_AddElement DEF AdapterInv
  <2> QED
    BY <2>1, PassedGrows, NextPartPasses DEF AdapterInv
<1>6. /\ part' \in DOMAIN request.parts /\ pos' \in 1 .. Len(request.parts[part']) + 1
  <2>1. CASE Adapter!NextPart
    <3>1. part' = part + 1 /\ pos' = 1 /\ part < Len(request.parts)
      BY <2>1 DEF Adapter!NextPart
    <3>2. part' \in 1 .. Len(request.parts)
      BY <1>2, <1>3, <3>1
    <3> QED
      BY <1>2, <3>1, <3>2
  <2>2. CASE Adapter!TakeHeader
    <3>1. part' = part /\ pos' = pos + 1 /\ pos \in DOMAIN request.parts[part]
      BY <2>2 DEF Adapter!TakeHeader
    <3>2. request.parts[part] \in Seq(Adapter!Header)
      BY <1>2, <1>3
    <3> QED
      BY <1>2, <1>3, <3>1, <3>2
  <2> QED
    BY <2>1, <2>2
<1>7. /\ Len(vals') <= Capacity /\ UriComesFirst'
      /\ present' \subseteq Adapter!Masked /\ counts' \in [Adapter!Counted -> 0 .. MaxCount]
      /\ processor' \in Adapter!Selected \cup {Adapter!Nobody}
      /\ Adapter!KeepsWhatComesFirst' /\ Adapter!MetadataIsComplete'
  <2>1. CASE Adapter!TakeHeader /\ Adapter!HeaderAt(part, pos).live
    BY <2>1, BundleKeeps, DescriptionCompletes
  <2>2. CASE ~(Adapter!TakeHeader /\ Adapter!HeaderAt(part, pos).live)
    <3>1. vals' = vals /\ present' = present /\ counts' = counts /\ processor' = processor
      BY <2>2 DEF Adapter!TakeHeader, Adapter!NextPart, Adapter!bundle
    <3>2. Adapter!Passed' = Adapter!Passed
      BY <2>2, PassedGrows, NextPartPasses
    <3>3. \A p, i : Adapter!HeaderAt(p, i)' = Adapter!HeaderAt(p, i)
      BY <1>1 DEF Adapter!HeaderAt
    <3>4. \A n : Adapter!Named(n)' = Adapter!Named(n)
      BY <3>2, <3>3 DEF Adapter!Named
    <3>5. Adapter!Leading' = Adapter!Leading /\ (Adapter!Started' <=> Adapter!Started)
      BY <1>1, <3>1 DEF Adapter!Leading, Adapter!Started
    <3>6. Adapter!KeepsWhatComesFirst'
      BY <3>1, <3>2, <3>3, <3>5 DEF AdapterInv, Adapter!KeepsWhatComesFirst, Adapter!Before
    <3>7. \A x : Adapter!Selects(x)' <=> Adapter!Selects(x)
      BY <3>3 DEF Adapter!Selects
    <3>8. Adapter!MetadataIsComplete'
      BY <3>1, <3>2, <3>3, <3>4, <3>5, <3>7
         DEF AdapterInv, Adapter!MetadataIsComplete, Adapter!Before, Adapter!Cardinality, Cardinality
    <3> QED
      BY <1>1, <3>1, <3>6, <3>8 DEF AdapterInv, Adapter!AdapterTypeOK, UriComesFirst
  <2> QED
    BY <2>1, <2>2
<1>8. Adapter!AdapterTypeOK'
  BY <1>1, <1>6, <1>7 DEF AdapterInv, Adapter!AdapterTypeOK
<1> QED
  BY <1>1, <1>4, <1>5, <1>7, <1>8 DEF AdapterInv

\* The inspection and the answer leave the bundle and its description as they are.
LEMMA AnswerKeeps ==
  ASSUME AdapterInv, UNCHANGED <<request, part, pos, vals, present, counts, processor>>,
         Adapter!Bypass \/ Adapter!NoState \/ Adapter!Inspect \/ Adapter!Block
         \/ Adapter!BlockUnallocated \/ Adapter!Pass \/ UNCHANGED <<pc, origin, blockedBy, threat, answer>>
  PROVE  AdapterInv'
<1>1. /\ request' = request /\ part' = part /\ pos' = pos /\ vals' = vals
      /\ present' = present /\ counts' = counts /\ processor' = processor
  OBVIOUS
<1>2. Adapter!Passed' = Adapter!Passed /\ \A n : Adapter!Named(n)' = Adapter!Named(n)
  BY <1>1 DEF Adapter!Passed, Adapter!HeaderAt, Adapter!Named
<1>3. \A p, i : Adapter!HeaderAt(p, i)' = Adapter!HeaderAt(p, i)
  BY <1>1 DEF Adapter!HeaderAt
<1>4. Adapter!Leading' = Adapter!Leading /\ (Adapter!Started' <=> Adapter!Started)
  BY <1>1 DEF Adapter!Leading, Adapter!Started
<1>5. Adapter!KeepsWhatComesFirst'
  BY <1>1, <1>2, <1>3, <1>4 DEF AdapterInv, Adapter!KeepsWhatComesFirst, Adapter!Before
<1>6. \A x : Adapter!Selects(x)' <=> Adapter!Selects(x)
  BY <1>3 DEF Adapter!Selects
<1>7. Adapter!MetadataIsComplete'
  BY <1>1, <1>2, <1>3, <1>4, <1>6
     DEF AdapterInv, Adapter!MetadataIsComplete, Adapter!Before, Adapter!Cardinality, Cardinality
<1>8. /\ vals \in Seq(Entry) /\ Len(vals) <= Capacity /\ Len(vals) \in Nat /\ threat \in Int
      /\ pc # "start" /\ pc # "done" => Len(vals) \in 1 .. Capacity
  <2>1. vals \in Seq(Entry) /\ Len(vals) <= Capacity /\ threat \in Int
    BY DEF AdapterInv, Adapter!AdapterTypeOK, UriComesFirst
  <2>2. pc # "start" /\ pc # "done" => vals # <<>>
    BY DEF AdapterInv, Adapter!AdapterTypeOK, UriComesFirst
  <2>3. Capacity \in Nat \ {0}
    BY AdapterConstants DEF Adapter!AdapterAssumption
  <2> QED
    BY <2>1, <2>2, <2>3
<1>9. Threats \subseteq Int
  BY AdapterConstants DEF Adapter!AdapterAssumption
<1> DEFINE Answered ==
      /\ pc' \in {"start", "headers", "decide", "done"} /\ threat' \in Int
      /\ origin' \in {0, 1} /\ blockedBy' \in Int
      /\ answer' \in {"none", "declined", "error", "forbidden", "crash"}
      /\ pc' = "start" => vals = <<>>
      /\ pc' \in {"headers", "decide"} => vals # <<>>
      /\ UnansweredYet' /\ UndescribedYet' /\ Adapter!NeverRefused' /\ Adapter!BlockedByRule'
<1>10. Answered
  <2>a. CASE Adapter!Bypass \/ Adapter!NoState
    <3>1. /\ pc = "start" /\ pc' = "done" /\ answer' \in {"declined", "error"}
          /\ origin' = origin /\ blockedBy' = blockedBy /\ threat' = threat
      BY <2>a DEF Adapter!Bypass, Adapter!NoState, Adapter!Return
    <3>2. blockedBy = 0 /\ threat = 0 /\ origin \in {0, 1}
      BY <3>1 DEF AdapterInv, UnansweredYet, Adapter!AdapterTypeOK
    <3> QED
      BY <3>1, <3>2 DEF UnansweredYet, UndescribedYet, Adapter!NeverRefused, Adapter!BlockedByRule
  <2>b. CASE Adapter!Inspect
    <3>1. /\ pc = "headers" /\ pc' = "decide" /\ origin' \in {0, 1}
          /\ blockedBy' = blockedBy /\ answer' = answer
          /\ threat' \in IF Adapter!Legal THEN Threats ELSE {0}
      BY <2>b DEF Adapter!Inspect
    <3>2. blockedBy = 0 /\ answer = "none" /\ vals # <<>>
      BY <3>1 DEF AdapterInv, UnansweredYet, UriComesFirst
    <3>3. Adapter!NeverRefused'
      BY <1>1, <1>8, <3>1 DEF Adapter!NeverRefused, Adapter!Legal
    <3>4. threat' \in Int
      BY <1>9, <3>1
    <3> QED
      BY <3>1, <3>2, <3>3, <3>4 DEF UnansweredYet, UndescribedYet, Adapter!BlockedByRule
  <2>c. CASE Adapter!Block \/ Adapter!BlockUnallocated
    <3>1. /\ pc = "decide" /\ pc' = "done" /\ answer' \in {"forbidden", "crash"}
          /\ threat > 0 /\ threat' = threat /\ origin' = origin
          /\ blockedBy' = 0 \/ blockedBy' = blockedBy \/ (blockedBy' = threat /\ answer' = "forbidden")
      BY <2>c DEF Adapter!Block, Adapter!BlockUnallocated, Adapter!Return
    <3>2. blockedBy = 0 /\ origin \in {0, 1}
      BY <3>1 DEF AdapterInv, UnansweredYet, Adapter!AdapterTypeOK
    <3> QED
      BY <1>8, <3>1, <3>2 DEF UnansweredYet, UndescribedYet, Adapter!NeverRefused, Adapter!BlockedByRule
  <2>d. CASE Adapter!Pass
    <3>1. /\ pc = "decide" /\ pc' = "done" /\ answer' = "declined" /\ threat <= 0
          /\ threat' = threat /\ origin' = origin /\ blockedBy' = blockedBy
      BY <2>d DEF Adapter!Pass, Adapter!Return
    <3>2. blockedBy = 0 /\ origin \in {0, 1}
      BY <3>1 DEF AdapterInv, UnansweredYet, Adapter!AdapterTypeOK
    <3> QED
      BY <1>8, <3>1, <3>2 DEF UnansweredYet, UndescribedYet, Adapter!NeverRefused, Adapter!BlockedByRule
  <2>e. CASE UNCHANGED <<pc, origin, blockedBy, threat, answer>>
    BY <1>1, <2>e DEF AdapterInv, Adapter!AdapterTypeOK, UriComesFirst, UnansweredYet, UndescribedYet,
                      Adapter!NeverRefused, Adapter!Legal, Adapter!BlockedByRule
  <2> QED
    BY <2>a, <2>b, <2>c, <2>d, <2>e
<1>11. Adapter!AdapterTypeOK'
  BY <1>1, <1>10 DEF AdapterInv, Adapter!AdapterTypeOK
<1>12. UriComesFirst'
  BY <1>1, <1>8, <1>10 DEF UriComesFirst
<1> QED
  BY <1>1, <1>2, <1>5, <1>7, <1>10, <1>11, <1>12 DEF AdapterInv

-----------------------------------------------------------------------------
\* ngx_http_luminawaf_handler, in every state of every request.
THEOREM HandlerInvariant == Spec => []EntryInv
<1>1. Init => EntryInv
  BY EntryInitially
<1>2. EntryInv /\ [Next]_vars => EntryInv'
  <2> SUFFICES ASSUME entry = "nginx", AdapterInv, [Next]_vars PROVE AdapterInv'
    BY DEF EntryInv, Next, vars
  <2>1. CASE Adapter!Start
    <3>1. request \in HttpRequests /\ pc = "start"
      BY <2>1 DEF AdapterInv, Adapter!Start
    <3>2. part = 1 /\ pos = 1
      BY <3>1 DEF AdapterInv, UndescribedYet
    <3>3. request.args \in {"null", "empty", "text"}
      BY <3>1, RequestsHaveParts
    <3> QED
      BY <2>1, <3>1, <3>2, <3>3, NothingPassedAtFirst, StartKeeps
  <2>2. CASE Adapter!TakeHeader \/ Adapter!NextPart
    BY <2>2, HeadersKeep
  <2>3. CASE Adapter!Bypass \/ Adapter!NoState \/ Adapter!Inspect \/ Adapter!Block
             \/ Adapter!BlockUnallocated \/ Adapter!Pass
    BY <2>3, AnswerKeeps
       DEF Adapter!Bypass, Adapter!NoState, Adapter!Inspect, Adapter!Block,
           Adapter!BlockUnallocated, Adapter!Pass, Adapter!bundle
  <2>4. CASE UNCHANGED <<handlerOnly, answer>>
    BY <2>4, AnswerKeeps DEF handlerOnly
  <2> QED
    BY <2>1, <2>2, <2>3, <2>4
       DEF Next, vars, handlerOnly, Adapter!Next, Adapter!Handle, Adapter!Finished,
           Adapter!adapterVars, Adapter!bundle, Adapter!response
<1> QED
  BY <1>1, <1>2, PTL DEF Spec

\* Whatever the request, the bundle of ngx_http_luminawaf_handler holds what comes
\* first, a full one is still described in full and accepted, and only a rule that
\* was reported blocks.
THEOREM HandlerStaysFaithful == Spec => []HandlerIsFaithful
<1>1. EntryInv => HandlerIsFaithful
  BY DEF EntryInv, AdapterInv, HandlerIsFaithful
<1> QED
  BY <1>1, HandlerInvariant, PTL

-----------------------------------------------------------------------------
\* c chooses an element of each set.
Picks(T, c) == \A s \in SUBSET T : s # {} => c[s] \in s

\* P holds of the empty set, and of a set if it does without the chosen element.
Inherited(T, c, P) == {} \in P /\ \A s \in SUBSET T : s # {} /\ s \ {c[s]} \in P => s \in P

\* What is inherited so holds of every subset of a finite set: of the sizes of
\* those for which it does not, none is the least.
LEMMA ByRemoval ==
  ASSUME NEW T, IsFiniteSet(T), NEW c, Picks(T, c), NEW P, Inherited(T, c, P)
  PROVE  \A s \in SUBSET T : s \in P
<1> USE DEF Picks, Inherited
<1> DEFINE Bad == {n \in Nat : \E s \in SUBSET T : Cardinality(s) = n /\ s \notin P}
<1>1. \A s \in SUBSET T : Cardinality(s) \in Nat /\ (s # {} => Cardinality(s \ {c[s]}) = Cardinality(s) - 1)
  BY FS_Subset, FS_CardinalityType, FS_RemoveElement, FS_EmptySet
<1>2. Bad = {}
  <2> SUFFICES ASSUME Bad # {} PROVE FALSE
    OBVIOUS
  <2>1. PICK m \in Bad : \A n \in Bad : ~(<<n, m>> \in OpToRel(<, Nat))
    <3>1. Bad \in SUBSET Nat
      OBVIOUS
    <3> HIDE DEF Bad
    <3> QED
      BY <3>1, WFMin, NatLessThanWellFounded
  <2>2. PICK s \in SUBSET T : Cardinality(s) = m /\ s \notin P
    OBVIOUS
  <2>3. s # {} /\ s \ {c[s]} \notin P
    BY <2>2
  <2>4. Cardinality(s \ {c[s]}) = m - 1 /\ Cardinality(s \ {c[s]}) \in Nat /\ s \ {c[s]} \in SUBSET T
    BY <1>1, <2>2, <2>3
  <2>5. m - 1 \in Bad
    BY <2>3, <2>4
  <2>6. <<m - 1, m>> \in OpToRel(<, Nat)
    BY <2>5 DEF OpToRel
  <2> QED
    BY <2>1, <2>5, <2>6
<1> QED
  BY <1>1, <1>2

\* What folds a set, taking the elements in the order of c.
Folds(T, c, base, F, g) ==
  g = [s \in SUBSET T |-> IF s = {} THEN base ELSE F[<<c[s], g[s \ {c[s]}]>>]]

\* There is one, and its values stay in any set that F stays in: of the sizes for
\* which there is none, none is the least.
LEMMA FoldsExist ==
  ASSUME NEW T, IsFiniteSet(T), NEW c, Picks(T, c),
         NEW V, NEW base \in V, NEW F \in [T \X V -> V]
  PROVE  \E g \in [SUBSET T -> V] : Folds(T, c, base, F, g)
<1> USE DEF Picks
<1> DEFINE Upto(n) == {s \in SUBSET T : Cardinality(s) <= n}
           Then(g, s) == IF s = {} THEN base ELSE F[<<c[s], g[s \ {c[s]}]>>]
           Part(n, g) == g \in [Upto(n) -> V] /\ g = [s \in Upto(n) |-> Then(g, s)]
           Bad == {n \in Nat : \A g : ~Part(n, g)}
<1>1. \A s \in SUBSET T : /\ IsFiniteSet(s) /\ Cardinality(s) \in Nat /\ Cardinality(s) <= Cardinality(T)
                          /\ s # {} => /\ Cardinality(s) # 0
                                       /\ Cardinality(s \ {c[s]}) = Cardinality(s) - 1
  BY FS_Subset, FS_CardinalityType, FS_RemoveElement, FS_EmptySet
<1>2. Bad = {}
  <2> SUFFICES ASSUME Bad # {} PROVE FALSE
    OBVIOUS
  <2>1. PICK m \in Bad : \A n \in Bad : ~(<<n, m>> \in OpToRel(<, Nat))
    BY WFMin, NatLessThanWellFounded
  <2>2. m \in Nat /\ \A g : ~Part(m, g)
    OBVIOUS
  <2>3. CASE m = 0
    <3> DEFINE g == [s \in Upto(0) |-> base]
    <3>1. \A s \in Upto(0) : s = {}
      <4>1. \A s \in Upto(0) : s \in SUBSET T /\ Cardinality(s) <= 0
        OBVIOUS
      <4>2. \A s \in Upto(0) : Cardinality(s) \in Nat /\ (s # {} => Cardinality(s) # 0)
        BY <1>1, <4>1
      <4> QED
        BY <4>1, <4>2
    <3>2. g = [s \in Upto(0) |-> Then(g, s)]
      BY <3>1
    <3>3. g \in [Upto(0) -> V]
      OBVIOUS
    <3> QED
      BY <2>2, <2>3, <3>2, <3>3
  <2>4. CASE m # 0
    <3>1. m - 1 \in Nat /\ m - 1 < m
      BY <2>2, <2>4
    <3>a. m - 1 \notin Bad
      <4>1. <<m - 1, m>> \in OpToRel(<, Nat)
        BY <2>2, <3>1 DEF OpToRel
      <4> QED
        BY <2>1, <4>1
    <3>2. PICK g : Part(m - 1, g)
      BY <3>1, <3>a
    <3> DEFINE h == [s \in Upto(m) |-> Then(g, s)]
    <3>3. \A t \in Upto(m - 1) : t \in Upto(m) /\ h[t] = g[t] /\ g[t] \in V
      <4> SUFFICES ASSUME NEW t \in Upto(m - 1) PROVE t \in Upto(m) /\ h[t] = g[t] /\ g[t] \in V
        OBVIOUS
      <4>a. t \in SUBSET T /\ Cardinality(t) <= m - 1
        OBVIOUS
      <4>b. Cardinality(t) \in Nat
        BY <1>1, <4>a
      <4>c. Cardinality(t) <= m
        BY <2>2, <4>a, <4>b
      <4>1. t \in Upto(m)
        BY <4>a, <4>c
      <4>2. g[t] = Then(g, t) /\ g[t] \in V
        BY <3>2
      <4> QED
        BY <4>1, <4>2
    <3>4. \A s \in Upto(m) : s # {} => s \ {c[s]} \in Upto(m - 1) /\ c[s] \in T
      <4> SUFFICES ASSUME NEW s \in Upto(m), s # {} PROVE s \ {c[s]} \in Upto(m - 1) /\ c[s] \in T
        OBVIOUS
      <4>1. s \in SUBSET T /\ Cardinality(s) <= m
        OBVIOUS
      <4>2. s \ {c[s]} \in SUBSET T /\ Cardinality(s \ {c[s]}) <= m - 1
        <5>1. Cardinality(s) \in Nat /\ Cardinality(s \ {c[s]}) = Cardinality(s) - 1
          BY <1>1, <4>1
        <5> QED
          BY <2>2, <4>1, <5>1
      <4> QED
        BY <4>1, <4>2
    <3>5. \A s \in Upto(m) : Then(g, s) = Then(h, s)
      BY <3>3, <3>4
    <3>6. h = [s \in Upto(m) |-> Then(h, s)]
      BY <3>5
    <3>7. h \in [Upto(m) -> V]
      <4>1. ASSUME NEW s \in Upto(m)
            PROVE  Then(g, s) \in V
        <5>1. CASE s = {}
          BY <5>1
        <5>2. CASE s # {}
          <6>1. g[s \ {c[s]}] \in V /\ c[s] \in T
            BY <3>3, <3>4, <5>2
          <6> QED
            BY <5>2, <6>1
        <5> QED
          BY <5>1, <5>2
      <4> QED
        BY <4>1
    <3> QED
      BY <2>2, <3>6, <3>7
  <2> QED
    BY <2>3, <2>4
<1>3. Cardinality(T) \in Nat /\ Upto(Cardinality(T)) = SUBSET T
  BY <1>1, FS_CardinalityType
<1>4. PICK g : Part(Cardinality(T), g)
  <2>1. Cardinality(T) \notin Bad
    BY <1>2
  <2> QED
    BY <1>3, <2>1
<1>5. g \in [SUBSET T -> V] /\ g = [s \in SUBSET T |-> Then(g, s)]
  BY <1>3, <1>4
<1> QED
  BY <1>5 DEF Folds

\* The last of some positions of a sequence is one of them.
LEMMA LastIsIn ==
  ASSUME NEW n \in Nat, NEW S \in SUBSET (1 .. n), S # {}
  PROVE  Buffer!Max(S) \in S
<1> DEFINE T == {n - i : i \in S}
<1>1. T \in SUBSET Nat /\ T # {}
  <2>1. \A i \in S : i \in Nat /\ i <= n
    OBVIOUS
  <2>2. \A i \in S : n - i \in Nat
    BY <2>1
  <2> QED
    BY <2>2
<1>2. PICK t \in T : \A u \in T : ~(<<u, t>> \in OpToRel(<, Nat))
  <2> HIDE DEF T
  <2> QED
    BY <1>1, WFMin, NatLessThanWellFounded
<1>3. \A u \in T : u \in Nat /\ t \in Nat /\ ~(u < t)
  BY <1>1, <1>2 DEF OpToRel
<1>4. PICK m \in S : t = n - m
  OBVIOUS
<1>5. \A i \in S : m >= i
  BY <1>3, <1>4
<1> QED
  BY <1>5 DEF Buffer!Max

\* A sequence has finitely many places.
LEMMA PlacesAreFinite == \A n \in Nat : IsFiniteSet(1 .. n)
BY FS_Interval

\* The fold over the hand-written scanners stays in any set that each of them stays in.
LEMMA ScannersStay ==
  ASSUME NEW b, NEW V, NEW s \in V,
         \A t \in V : \A i \in 1 .. Len(Buffer!Stages) : Buffer!Scan(t, b, Buffer!Stages[i]) \in V
  PROVE  Buffer!Scanners(s, b) \in V
<1> DEFINE T == DOMAIN Buffer!Stages
           Latest(x) == Buffer!Max(x)
           c == [x \in SUBSET T |-> Latest(x)]
           F == [p \in T \X V |-> Buffer!Scan(p[2], b, Buffer!Stages[p[1]])]
           Is(g) == g = [x \in SUBSET T |-> IF x = {} THEN s
                                            ELSE Buffer!Scan(g[x \ {Latest(x)}], b, Buffer!Stages[Latest(x)])]
<1>1. Buffer!Scanners(s, b) = (CHOOSE g : Is(g))[T]
  BY DEF Buffer!Scanners, Buffer!FoldLeft, Buffer!MapThenFoldSet
<1>2. T = 1 .. 6 /\ Len(Buffer!Stages) = 6 /\ IsFiniteSet(T)
  <2>1. T = 1 .. 6 /\ Len(Buffer!Stages) = 6
    BY DEF Buffer!Stages
  <2>2. IsFiniteSet(1 .. 6)
    BY PlacesAreFinite
  <2> HIDE DEF T
  <2> QED
    BY <2>1, <2>2
<1>3. \A x \in SUBSET T : x # {} => Latest(x) \in x
  BY <1>2, LastIsIn
<1>4. \A x \in SUBSET T : c[x] = Latest(x)
  OBVIOUS
<1> HIDE DEF T, Latest, c
<1>5. F \in [T \X V -> V]
  BY <1>2
<1> HIDE DEF F
<1>a. Picks(T, c)
  BY <1>3, <1>4 DEF Picks
<1>6. PICK g \in [SUBSET T -> V] : Folds(T, c, s, F, g)
  BY <1>2, <1>5, <1>a, FoldsExist
<1>7. ASSUME NEW x \in SUBSET T, x # {}
      PROVE  F[<<c[x], g[x \ {c[x]}]>>] = Buffer!Scan(g[x \ {Latest(x)}], b, Buffer!Stages[Latest(x)])
  <2>1. c[x] = Latest(x) /\ Latest(x) \in T /\ g[x \ {Latest(x)}] \in V
    BY <1>3, <1>4, <1>6, <1>7
  <2> QED
    BY <2>1 DEF F
<1>8. Is(g)
  BY <1>6, <1>7 DEF Folds
<1> DEFINE h == CHOOSE h : Is(h)
           P == {x \in SUBSET T : h[x] \in V}
<1>9. h = [x \in SUBSET T |-> IF x = {} THEN s
                               ELSE Buffer!Scan(h[x \ {Latest(x)}], b, Buffer!Stages[Latest(x)])]
  <2>1. Is(h)
    <3> HIDE DEF Is
    <3> QED
      BY <1>8
  <2> HIDE DEF h
  <2> QED
    BY <2>1
<1> HIDE DEF h, Is
<1>10. {} \in P
  BY <1>9
<1>11. ASSUME NEW x \in SUBSET T, x # {}, x \ {c[x]} \in P
       PROVE  x \in P
  <2>1. Latest(x) \in 1 .. Len(Buffer!Stages) /\ h[x \ {Latest(x)}] \in V
    BY <1>2, <1>3, <1>4, <1>11
  <2>2. h[x] = Buffer!Scan(h[x \ {Latest(x)}], b, Buffer!Stages[Latest(x)])
    BY <1>9, <1>11
  <2> QED
    BY <2>1, <2>2
<1>12. T \in P
  <2>1. Inherited(T, c, P)
    BY <1>10, <1>11 DEF Inherited
  <2>2. IsFiniteSet(T)
    BY <1>2
  <2> HIDE DEF P
  <2> QED
    BY <1>a, <2>1, <2>2, ByRemoval
<1> QED
  BY <1>1, <1>12 DEF h

\* So does the fold over the generated rules of the table.
LEMMA TableStays ==
  ASSUME NEW b, NEW R, b.generated \in Seq(R), NEW disabled, NEW V, NEW s \in V,
         \A t \in V : \A r \in R : Buffer!Match(t, r, disabled) \in V
  PROVE  Buffer!Generated(s, b, disabled) \in V
<1> DEFINE T == DOMAIN b.generated
           Latest(x) == Buffer!Max(x)
           c == [x \in SUBSET T |-> Latest(x)]
           F == [p \in T \X V |-> Buffer!Match(p[2], b.generated[p[1]], disabled)]
           Is(g) == g = [x \in SUBSET T |-> IF x = {} THEN s
                                            ELSE Buffer!Match(g[x \ {Latest(x)}], b.generated[Latest(x)], disabled)]
<1>1. Buffer!Generated(s, b, disabled) = (CHOOSE g : Is(g))[T]
  BY DEF Buffer!Generated, Buffer!FoldLeft, Buffer!MapThenFoldSet
<1>2. IsFiniteSet(T) /\ \A x \in SUBSET T : x # {} => Latest(x) \in x
  <2>1. T = 1 .. Len(b.generated) /\ Len(b.generated) \in Nat
    OBVIOUS
  <2> HIDE DEF T
  <2> QED
    BY <2>1, PlacesAreFinite, LastIsIn
<1>b. \A i \in T : b.generated[i] \in R
  OBVIOUS
<1>4. \A x \in SUBSET T : c[x] = Latest(x)
  OBVIOUS
<1> HIDE DEF T, Latest, c
<1>5. F \in [T \X V -> V]
  BY <1>b
<1> HIDE DEF F
<1>a. Picks(T, c)
  BY <1>2, <1>4 DEF Picks
<1>6. PICK g \in [SUBSET T -> V] : Folds(T, c, s, F, g)
  BY <1>2, <1>5, <1>a, FoldsExist
<1>7. ASSUME NEW x \in SUBSET T, x # {}
      PROVE  F[<<c[x], g[x \ {c[x]}]>>] = Buffer!Match(g[x \ {Latest(x)}], b.generated[Latest(x)], disabled)
  <2>1. c[x] = Latest(x) /\ Latest(x) \in T /\ g[x \ {Latest(x)}] \in V
    BY <1>2, <1>4, <1>6, <1>7
  <2> QED
    BY <2>1 DEF F
<1>8. Is(g)
  BY <1>6, <1>7 DEF Folds
<1> DEFINE h == CHOOSE h : Is(h)
           P == {x \in SUBSET T : h[x] \in V}
<1>9. h = [x \in SUBSET T |-> IF x = {} THEN s
                               ELSE Buffer!Match(h[x \ {Latest(x)}], b.generated[Latest(x)], disabled)]
  <2>1. Is(h)
    <3> HIDE DEF Is
    <3> QED
      BY <1>8
  <2> HIDE DEF h
  <2> QED
    BY <2>1
<1> HIDE DEF h, Is
<1>10. {} \in P
  BY <1>9
<1>11. ASSUME NEW x \in SUBSET T, x # {}, x \ {c[x]} \in P
       PROVE  x \in P
  <2>1. b.generated[Latest(x)] \in R /\ h[x \ {Latest(x)}] \in V
    BY <1>2, <1>b, <1>4, <1>11
  <2>2. h[x] = Buffer!Match(h[x \ {Latest(x)}], b.generated[Latest(x)], disabled)
    BY <1>9, <1>11
  <2> QED
    BY <2>1, <2>2
<1>12. T \in P
  <2>1. Inherited(T, c, P)
    BY <1>10, <1>11 DEF Inherited
  <2> HIDE DEF P
  <2> QED
    BY <1>2, <1>a, <2>1, ByRemoval
<1> QED
  BY <1>1, <1>12 DEF h

-----------------------------------------------------------------------------
\* How MapThenSumSet takes the terms of a sum.
First(s) == CHOOSE x \in s : TRUE
Summed(T, p, g) == g = [s \in SUBSET T |-> IF s = {} THEN 0 ELSE p[First(s)] + g[s \ {First(s)}]]

\* The sum of finitely many naturals is a natural, defined term by term.
LEMMA SumIs ==
  ASSUME NEW T, IsFiniteSet(T), NEW p \in [T -> Nat]
  PROVE  \E g \in [SUBSET T -> Nat] : Summed(T, p, g) /\ Buffer!Sum(p) = g[T]
<1> DEFINE c == [s \in SUBSET T |-> First(s)]
           F == [x \in T \X Nat |-> p[x[1]] + x[2]]
           Is(g) == g = [s \in SUBSET T |-> IF s = {} THEN 0 ELSE p[First(s)] + g[s \ {First(s)}]]
<1>1. Buffer!Sum(p) = (CHOOSE g : Is(g))[T]
  <2>1. DOMAIN p = T
    OBVIOUS
  <2> QED
    BY <2>1 DEF Buffer!Sum, Buffer!MapThenSumSet, Buffer!MapThenFoldSet, First
<1>2. \A s \in SUBSET T : s # {} => First(s) \in s
  BY DEF First
<1>3. \A s \in SUBSET T : c[s] = First(s)
  OBVIOUS
<1> HIDE DEF c
<1>4. Picks(T, c)
  BY <1>2, <1>3 DEF Picks
<1>5. F \in [T \X Nat -> Nat]
  OBVIOUS
<1> HIDE DEF F
<1>6. PICK g \in [SUBSET T -> Nat] : Folds(T, c, 0, F, g)
  BY <1>4, <1>5, FoldsExist
<1>7. ASSUME NEW s \in SUBSET T, s # {}
      PROVE  F[<<c[s], g[s \ {c[s]}]>>] = p[First(s)] + g[s \ {First(s)}]
  <2>1. c[s] = First(s) /\ First(s) \in T /\ g[s \ {First(s)}] \in Nat
    BY <1>2, <1>3, <1>6, <1>7
  <2> QED
    BY <2>1 DEF F
<1>8. Is(g)
  BY <1>6, <1>7 DEF Folds
<1> DEFINE h == CHOOSE h : Is(h)
           P == {s \in SUBSET T : h[s] \in Nat}
<1>9. Summed(T, p, h)
  <2>1. Is(h)
    <3> HIDE DEF Is
    <3> QED
      BY <1>8
  <2> HIDE DEF h
  <2> QED
    BY <2>1 DEF Summed
<1> HIDE DEF h, Is
<1>10. {} \in P
  BY <1>9 DEF Summed
<1>11. ASSUME NEW s \in SUBSET T, s # {}, s \ {c[s]} \in P
       PROVE  s \in P
  <2>1. First(s) \in T /\ h[s \ {First(s)}] \in Nat
    BY <1>2, <1>3, <1>11
  <2>2. h[s] = p[First(s)] + h[s \ {First(s)}]
    BY <1>9, <1>11 DEF Summed
  <2> QED
    BY <2>1, <2>2
<1>12. \A s \in SUBSET T : s \in P
  <2>1. Inherited(T, c, P)
    BY <1>10, <1>11 DEF Inherited
  <2> HIDE DEF P
  <2> QED
    BY <1>4, <2>1, ByRemoval
<1>13. h \in [SUBSET T -> Nat]
  BY <1>9, <1>12 DEF Summed
<1> QED
  BY <1>1, <1>9, <1>13 DEF h

\* Any term of the sum may be taken out first.
AnyOrder(T, p, g) == \A s \in SUBSET T : \A x \in s : g[s] = p[x] + g[s \ {x}]

\* The order the library takes is one of many: they all give the same sum.
LEMMA AnyTermFirst ==
  ASSUME NEW T, IsFiniteSet(T), NEW p \in [T -> Nat], NEW g \in [SUBSET T -> Nat], Summed(T, p, g)
  PROVE  AnyOrder(T, p, g)
<1> USE DEF AnyOrder
<1> DEFINE Wrong(s) == \E x \in s : g[s] # p[x] + g[s \ {x}]
           Bad == {n \in Nat : \E s \in SUBSET T : Cardinality(s) = n /\ Wrong(s)}
<1>1. \A s \in SUBSET T : Cardinality(s) \in Nat /\ \A x \in s : Cardinality(s \ {x}) = Cardinality(s) - 1
  BY FS_Subset, FS_CardinalityType, FS_RemoveElement
<1>2. Bad = {}
  <2> SUFFICES ASSUME Bad # {} PROVE FALSE
    OBVIOUS
  <2>1. PICK m \in Bad : \A n \in Bad : ~(<<n, m>> \in OpToRel(<, Nat))
    <3>1. Bad \in SUBSET Nat
      OBVIOUS
    <3> HIDE DEF Bad
    <3> QED
      BY <3>1, WFMin, NatLessThanWellFounded
  <2>2. PICK s \in SUBSET T, x \in T : Cardinality(s) = m /\ x \in s /\ g[s] # p[x] + g[s \ {x}]
    OBVIOUS
  <2> DEFINE y == First(s)
  <2>3. y \in s /\ y \in T /\ g[s] = p[y] + g[s \ {y}]
    BY <2>2 DEF First, Summed
  <2> HIDE DEF y
  <2>4. \A u \in SUBSET T : Cardinality(u) = m - 1 => ~Wrong(u)
    <3>1. m - 1 \in Nat => <<m - 1, m>> \in OpToRel(<, Nat)
      BY DEF OpToRel
    <3> QED
      BY <1>1, <2>1, <3>1
  <2>5. x # y
    BY <2>2, <2>3
  <2>6. g[s \ {y}] = p[x] + g[(s \ {y}) \ {x}]
    BY <1>1, <2>2, <2>3, <2>4, <2>5
  <2>7. g[s \ {x}] = p[y] + g[(s \ {x}) \ {y}]
    BY <1>1, <2>2, <2>3, <2>4, <2>5
  <2>8. (s \ {x}) \ {y} = (s \ {y}) \ {x} /\ (s \ {x}) \ {y} \in SUBSET T
    OBVIOUS
  <2>9. p[x] \in Nat /\ p[y] \in Nat /\ g[(s \ {x}) \ {y}] \in Nat
    BY <2>2, <2>3, <2>8
  <2> DEFINE r == g[(s \ {x}) \ {y}]
  <2>10. g[s] = p[y] + (p[x] + r) /\ p[x] + g[s \ {x}] = p[x] + (p[y] + r)
    BY <2>3, <2>6, <2>7, <2>8
  <2>11. r \in Nat
    BY <2>9
  <2> HIDE DEF r
  <2>12. p[y] + (p[x] + r) = p[x] + (p[y] + r)
    BY <2>9, <2>11
  <2> QED
    BY <2>2, <2>10, <2>12
<1> QED
  BY <1>1, <1>2

\* A sum grows by the term that is added.
LEMMA SumGrows ==
  ASSUME NEW S, IsFiniteSet(S), NEW x, x \notin S, NEW p \in [S -> Nat], NEW v \in Nat
  PROVE  Buffer!Sum([y \in S \cup {x} |-> IF y = x THEN v ELSE p[y]]) = Buffer!Sum(p) + v
<1> DEFINE T == S \cup {x}
           q == [y \in T |-> IF y = x THEN v ELSE p[y]]
<1>1. IsFiniteSet(T) /\ q \in [T -> Nat]
  BY FS_AddElement
<1>2. PICK g \in [SUBSET S -> Nat] : Summed(S, p, g) /\ Buffer!Sum(p) = g[S]
  BY SumIs
<1>a. q[x] = v /\ \A y \in S : q[y] = p[y]
  OBVIOUS
<1>b. T \ {x} = S /\ S \in SUBSET T /\ x \in T
  OBVIOUS
<1> HIDE DEF q, T
<1>3. PICK h \in [SUBSET T -> Nat] : Summed(T, q, h) /\ Buffer!Sum(q) = h[T]
  BY <1>1, SumIs
<1> DEFINE P == {s \in SUBSET S : h[s] = g[s]}
           c == [s \in SUBSET S |-> First(s)]
<1>4. S \in P
  <2>1. Picks(S, c)
    BY DEF Picks, First
  <2>2. {} \in P
    BY <1>2, <1>3 DEF Summed
  <2>3. ASSUME NEW s \in SUBSET S, s # {}, s \ {c[s]} \in P
        PROVE  s \in P
    <3>1. c[s] = First(s) /\ First(s) \in S
      BY <2>3 DEF First
    <3>2. g[s] = p[First(s)] + g[s \ {First(s)}]
      BY <1>2, <2>3 DEF Summed
    <3>3. h[s] = q[First(s)] + h[s \ {First(s)}]
      BY <1>3, <1>b, <2>3 DEF Summed
    <3> QED
      BY <1>a, <2>3, <3>1, <3>2, <3>3
  <2>4. Inherited(S, c, P)
    BY <2>2, <2>3 DEF Inherited
  <2> HIDE DEF P, c
  <2> QED
    BY <2>1, <2>4, ByRemoval
<1>5. h[T] = q[x] + h[T \ {x}]
  <2>1. AnyOrder(T, q, h)
    BY <1>1, <1>3, AnyTermFirst
  <2> QED
    BY <1>b, <2>1 DEF AnyOrder
<1>6. Buffer!Sum(q) = Buffer!Sum(p) + v
  <2>1. h[T] = v + h[S] /\ h[S] = g[S] /\ g[S] \in Nat
    BY <1>2, <1>4, <1>5, <1>a, <1>b
  <2>2. v + g[S] = g[S] + v
    BY <2>1
  <2> QED
    BY <1>2, <1>3, <2>1, <2>2
<1> QED
  BY <1>6 DEF q, T

-----------------------------------------------------------------------------
\* The rules a call for b may charge, by a scanner or from the table, and the
\* target removals in force when it does.
ScannedBy(b) == {b.found[i] : i \in Buffer!ToSet(Buffer!Stages)}
RulesOf(b) == ScannedBy(b) \cup {g.rule : g \in Buffer!ToSet(b.generated)}
Removals(st, b) == st.targets \cup b.controls

\* The score of a call is the sum of points of the rules it charged.
Accounted(st, b, t) ==
  \E p \in [t.done \ st.done -> 1 .. 5] :
     (\A x \in t.done \ st.done : p[x] \in Buffer!PointsOf(b, x)) /\ t.score = Buffer!Sum(p)

\* What a call for b in the state st may work on.
Work(st, b) ==
  {t \in [done : SUBSET (st.done \cup RulesOf(b)), off : {st.off}, seen : SUBSET (st.seen \cup RulesOf(b)),
          targets : {Removals(st, b)}, score : Nat, threat : RulesOf(b) \cup {0}] :
     /\ st.done \subseteq t.done
     /\ t.threat \in (t.done \ st.done) \cup {0}
     /\ Accounted(st, b, t)
     /\ \A x \in (t.done \ st.done) \ ScannedBy(b), i \in b.collections :
           [rule |-> x, collection |-> i] \notin Removals(st, b)}

\* Finitely many rules are charged, each for at most five points.
LEMMA RulesAreFinite ==
  ASSUME NEW b \in Buffers
  PROVE  /\ IsFiniteSet(RulesOf(b)) /\ b.generated \in Seq(Buffer!ToSet(b.generated))
         /\ \A g \in Buffer!ToSet(b.generated) : g.points \in 0 .. 5
<1>1. /\ b.generated \in Seq(Buffer!ToSet(b.generated))
      /\ \A g \in Buffer!ToSet(b.generated) : g.points \in 0 .. 5
  BY SessionConstants DEF Buffer!SessionAssumption
<1> DEFINE n == Len(b.generated)
           Table == {g.rule : g \in Buffer!ToSet(b.generated)}
<1>2. IsFiniteSet(Table)
  <2>1. n \in Nat /\ DOMAIN b.generated = 1 .. n
    BY <1>1
  <2>2. [i \in 1 .. n |-> b.generated[i].rule] \in Surjection(1 .. n, Table)
    BY <2>1 DEF Surjection, Buffer!ToSet
  <2>3. IsFiniteSet(1 .. n)
    BY <2>1, PlacesAreFinite
  <2> QED
    BY <2>2, <2>3, FS_Surjection
<1>3. IsFiniteSet(ScannedBy(b))
  <2>1. [i \in 1 .. 6 |-> b.found[Buffer!Stages[i]]] \in Surjection(1 .. 6, ScannedBy(b))
    BY DEF Surjection, Buffer!ToSet, Buffer!Stages, ScannedBy
  <2>2. IsFiniteSet(1 .. 6)
    BY PlacesAreFinite
  <2> QED
    BY <2>1, <2>2, FS_Surjection
<1>4. RulesOf(b) = ScannedBy(b) \cup Table
  BY DEF RulesOf
<1> QED
  BY <1>1, <1>2, <1>3, <1>4, FS_Union

\* A rule that is charged once more is one more rule, and one more term.
LEMMA ChargeKeeps ==
  ASSUME NEW b \in Buffers, NEW st, NEW t \in Work(st, b), NEW rule \in RulesOf(b),
         NEW points \in 1 .. 5, points \in Buffer!PointsOf(b, rule), NEW threshold,
         rule \in ScannedBy(b)
           \/ \A i \in b.collections : [rule |-> rule, collection |-> i] \notin Removals(st, b)
  PROVE  Buffer!Charge(t, rule, points, threshold) \in Work(st, b)
<1> SUFFICES ASSUME rule \notin t.done
             PROVE  [t EXCEPT !.done = @ \cup {rule}, !.score = @ + points,
                              !.threat = IF t.score + points >= threshold THEN rule ELSE @] \in Work(st, b)
  BY DEF Buffer!Charge
<1> DEFINE u == [t EXCEPT !.done = @ \cup {rule}, !.score = @ + points,
                          !.threat = IF t.score + points >= threshold THEN rule ELSE @]
           S == t.done \ st.done
<1>1. /\ t \in [done : SUBSET (st.done \cup RulesOf(b)), off : {st.off}, seen : SUBSET (st.seen \cup RulesOf(b)),
                targets : {Removals(st, b)}, score : Nat, threat : RulesOf(b) \cup {0}]
      /\ st.done \subseteq t.done /\ t.threat \in S \cup {0} /\ Accounted(st, b, t)
      /\ \A x \in S \ ScannedBy(b), i \in b.collections :
            [rule |-> x, collection |-> i] \notin Removals(st, b)
  BY DEF Work
<1>2. /\ u.done = t.done \cup {rule} /\ u.score = t.score + points /\ u.threat \in {rule, t.threat}
      /\ u.off = t.off /\ u.seen = t.seen /\ u.targets = t.targets
  BY <1>1
<1>3. u \in [done : SUBSET (st.done \cup RulesOf(b)), off : {st.off}, seen : SUBSET (st.seen \cup RulesOf(b)),
             targets : {Removals(st, b)}, score : Nat, threat : RulesOf(b) \cup {0}]
  <2>1. t.done \cup {rule} \in SUBSET (st.done \cup RulesOf(b))
    BY <1>1
  <2>2. t.score + points \in Nat
    BY <1>1
  <2>3. (IF t.score + points >= threshold THEN rule ELSE t.threat) \in RulesOf(b) \cup {0}
    BY <1>1
  <2> QED
    BY <1>1, <2>1, <2>2, <2>3
<1> HIDE DEF u
<1>4. u.done \ st.done = S \cup {rule} /\ rule \notin S
  BY <1>1, <1>2
<1>5. Accounted(st, b, u)
  <2>1. PICK p \in [S -> 1 .. 5] : (\A x \in S : p[x] \in Buffer!PointsOf(b, x)) /\ t.score = Buffer!Sum(p)
    BY <1>1 DEF Accounted
  <2> DEFINE q == [y \in S \cup {rule} |-> IF y = rule THEN points ELSE p[y]]
  <2>2. q \in [S \cup {rule} -> 1 .. 5] /\ \A x \in S \cup {rule} : q[x] \in Buffer!PointsOf(b, x)
    BY <1>4, <2>1
  <2>3. IsFiniteSet(S)
    <3>1. S \in SUBSET RulesOf(b)
      BY <1>1
    <3> HIDE DEF S
    <3> QED
      BY <3>1, RulesAreFinite, FS_Subset
  <2>4. p \in [S -> Nat] /\ points \in Nat
    OBVIOUS
  <2>5. Buffer!Sum(q) = Buffer!Sum(p) + points
    <3> HIDE DEF S
    <3> QED
      BY <1>4, <2>3, <2>4, SumGrows
  <2> HIDE DEF q
  <2>6. u.score = Buffer!Sum(q)
    BY <1>2, <2>1, <2>5
  <2> QED
    BY <1>4, <2>2, <2>6 DEF Accounted
<1>6. u.threat \in (u.done \ st.done) \cup {0}
  BY <1>1, <1>2, <1>4
<1>7. \A x \in (u.done \ st.done) \ ScannedBy(b), i \in b.collections :
         [rule |-> x, collection |-> i] \notin Removals(st, b)
  BY <1>1, <1>4
<1>8. st.done \subseteq u.done
  BY <1>1, <1>2
<1>9. u \in Work(st, b)
  BY <1>3, <1>5, <1>6, <1>7, <1>8 DEF Work
<1> QED
  BY <1>9 DEF u

\* A scanner that finds something charges its rule, whatever was removed.
LEMMA ScanKeeps ==
  ASSUME NEW b \in Buffers, NEW st, NEW t \in Work(st, b), NEW stage \in Buffer!ToSet(Buffer!Stages)
  PROVE  Buffer!Scan(t, b, stage) \in Work(st, b)
<1>1. b.found[stage] \in ScannedBy(b) /\ b.found[stage] \in RulesOf(b)
  BY DEF ScannedBy, RulesOf
<1>2. Buffer!Points(b, stage) \in 1 .. 5
  BY DEF Buffer!Points
<1>3. Buffer!Points(b, stage) \in Buffer!PointsOf(b, b.found[stage])
  BY DEF Buffer!PointsOf
<1>4. Buffer!Charge(t, b.found[stage], Buffer!Points(b, stage), Buffer!AdaptiveThreshold(b)) \in Work(st, b)
  BY <1>1, <1>2, <1>3, ChargeKeeps
<1> QED
  BY <1>4 DEF Buffer!Scan

\* A generated rule charges its own only if no removal in force disables it.
LEMMA MatchKeeps ==
  ASSUME NEW b \in Buffers, NEW st, NEW t \in Work(st, b), NEW g \in Buffer!ToSet(b.generated), NEW disabled,
         \A x \in Removals(st, b) : x.collection \in b.collections => x.rule \in disabled
  PROVE  Buffer!Match(t, g, disabled) \in Work(st, b)
<1>1. CASE t.threat # 0 \/ g.rule = 921170 \/ g.rule \in disabled
  BY <1>1 DEF Buffer!Match
<1>2. CASE ~(t.threat # 0 \/ g.rule = 921170 \/ g.rule \in disabled) /\ g.points = 0
  <2>1. Buffer!Match(t, g, disabled) = [t EXCEPT !.seen = @ \cup {g.rule}]
    BY <1>2 DEF Buffer!Match
  <2>2. g.rule \in RulesOf(b)
    BY DEF RulesOf
  <2> DEFINE u == [t EXCEPT !.seen = @ \cup {g.rule}]
  <2>3. /\ u.done = t.done /\ u.score = t.score /\ u.threat = t.threat
        /\ u \in [done : SUBSET (st.done \cup RulesOf(b)), off : {st.off}, seen : SUBSET (st.seen \cup RulesOf(b)),
                  targets : {Removals(st, b)}, score : Nat, threat : RulesOf(b) \cup {0}]
    BY <2>2 DEF Work
  <2> HIDE DEF u
  <2>4. u \in Work(st, b)
    BY <2>3 DEF Work, Accounted
  <2> QED
    BY <2>1, <2>4 DEF u
<1>3. CASE ~(t.threat # 0 \/ g.rule = 921170 \/ g.rule \in disabled) /\ g.points # 0
  <2>1. Buffer!Match(t, g, disabled) = Buffer!Charge(t, g.rule, g.points, Buffer!LUMINA_ANOMALY_THRESHOLD)
    BY <1>3 DEF Buffer!Match
  <2>2. g.rule \in RulesOf(b) /\ g.points \in Buffer!PointsOf(b, g.rule)
    BY DEF RulesOf, Buffer!PointsOf
  <2>3. g.points \in 1 .. 5
    BY <1>3, RulesAreFinite
  <2>4. \A i \in b.collections : [rule |-> g.rule, collection |-> i] \notin Removals(st, b)
    <3> SUFFICES ASSUME NEW i \in b.collections, [rule |-> g.rule, collection |-> i] \in Removals(st, b) PROVE FALSE
      OBVIOUS
    <3>1. [rule |-> g.rule, collection |-> i].collection = i /\ [rule |-> g.rule, collection |-> i].rule = g.rule
      OBVIOUS
    <3> QED
      BY <1>3, <3>1
  <2> QED
    BY <2>1, <2>2, <2>3, <2>4, ChargeKeeps
<1> QED
  BY <1>1, <1>2, <1>3

\* luminawaf_inspect_scratchpad starts with no point and no threat, and every step
\* of it keeps to what the call may work on.
LEMMA ScratchpadWorks ==
  ASSUME NEW b \in Buffers, NEW st
  PROVE  Buffer!Scratchpad(st, b) \in Work(st, b)
<1> DEFINE start == [Buffer!Begin(st, 0) EXCEPT !.targets = @ \cup b.controls]
           disabled == Buffer!Disabled(start, b)
<1>1. start = [done |-> st.done, off |-> st.off, seen |-> st.seen, targets |-> Removals(st, b),
               score |-> 0, threat |-> 0]
  <2>1. Buffer!Begin(st, 0) = [done |-> st.done, off |-> st.off, seen |-> st.seen, targets |-> st.targets,
                               score |-> 0, threat |-> 0]
    BY DEF Buffer!Begin
  <2> DEFINE now == Buffer!Begin(st, 0)
  <2>2. start = [now EXCEPT !.targets = now.targets \cup b.controls] /\ now.targets \cup b.controls = Removals(st, b)
    BY <2>1 DEF Removals
  <2>3. now = [done |-> st.done, off |-> st.off, seen |-> st.seen, targets |-> st.targets,
               score |-> 0, threat |-> 0]
    BY <2>1
  <2> HIDE DEF now, start
  <2> QED
    BY <2>2, <2>3
<1>2. start \in Work(st, b)
  <2>1. Accounted(st, b, start)
    <3> DEFINE p == [x \in {} |-> 1]
    <3>1. st.done \ st.done = {} /\ start.done = st.done /\ start.score = 0
      BY <1>1
    <3>2. p \in [{} -> 1 .. 5] /\ p \in [{} -> Nat]
      OBVIOUS
    <3>3. Buffer!Sum(p) = 0
      <4>1. IsFiniteSet({})
        BY FS_EmptySet
      <4>2. PICK g \in [SUBSET {} -> Nat] : Summed({}, p, g) /\ Buffer!Sum(p) = g[{}]
        BY <3>2, <4>1, SumIs
      <4> QED
        BY <4>2 DEF Summed
    <3> HIDE DEF p, start
    <3> QED
      BY <3>1, <3>2, <3>3 DEF Accounted
  <2> HIDE DEF start
  <2> QED
    BY <1>1, <2>1 DEF Work
<1>3. \A x \in Removals(st, b) : x.collection \in b.collections => x.rule \in disabled
  BY <1>1 DEF Buffer!Disabled
<1> HIDE DEF start, disabled
<1>4. Buffer!Scanners(start, b) \in Work(st, b)
  <2>1. \A i \in 1 .. Len(Buffer!Stages) : Buffer!Stages[i] \in Buffer!ToSet(Buffer!Stages)
    BY DEF Buffer!Stages, Buffer!ToSet
  <2>2. \A t \in Work(st, b) : \A i \in 1 .. Len(Buffer!Stages) :
           Buffer!Scan(t, b, Buffer!Stages[i]) \in Work(st, b)
    BY <2>1, ScanKeeps
  <2> QED
    BY <1>2, <2>2, ScannersStay
<1>5. Buffer!Generated(Buffer!Scanners(start, b), b, disabled) \in Work(st, b)
  <2>1. b.generated \in Seq(Buffer!ToSet(b.generated))
    BY RulesAreFinite
  <2>2. \A t \in Work(st, b) : \A g \in Buffer!ToSet(b.generated) : Buffer!Match(t, g, disabled) \in Work(st, b)
    BY <1>3, MatchKeeps
  <2> QED
    BY <1>4, <2>1, <2>2, TableStays
<1>6. Buffer!Scratchpad(st, b) \in {start, Buffer!Generated(Buffer!Scanners(start, b), b, disabled)}
  BY DEF Buffer!Scratchpad, start, disabled
<1> QED
  BY <1>2, <1>5, <1>6

\* The answer to a buffer is about what the call worked on.
LEMMA OwnAnswerHolds ==
  ASSUME states = [r \in Requests |-> states[r]]
  PROVE  Buffer!OwnAnswer
<1> SUFFICES ASSUME NEW r \in Requests, NEW b \in Buffers, Buffer!InspectBuffer(r, b, FALSE)
             PROVE  LET new == states'[r].done \ states[r].done
                        scanned == {b.found[i] : i \in Buffer!ToSet(Buffer!Stages)}
                    IN /\ \E p \in [new -> 1 .. 5] :
                             (\A x \in new : p[x] \in Buffer!PointsOf(b, x)) /\ score' = Buffer!Sum(p)
                       /\ answer'.threat \in new \cup {0}
                       /\ \A x \in new \ scanned, c \in b.collections :
                             [rule |-> x, collection |-> c] \notin states'[r].targets
                       /\ \A q \in Requests \ {r} : states'[q] = states[q]
  BY DEF Buffer!OwnAnswer
<1> DEFINE st == states[r]
           t == Buffer!Scratchpad(st, b)
<1>1. t \in Work(st, b)
  BY ScratchpadWorks
<1>2. /\ states' = [states EXCEPT ![r] = Buffer!Kept(t)] /\ score' = t.score
      /\ answer' = [call |-> "buffer", request |-> r, status |-> 0, threat |-> t.threat]
  BY DEF Buffer!InspectBuffer, Buffer!Settle, Buffer!Answer
<1> HIDE DEF t
<1>3. states'[r] = Buffer!Kept(t) /\ \A q \in Requests \ {r} : states'[q] = states[q]
  BY <1>2
<1>4. states'[r].done = t.done /\ states'[r].targets = t.targets /\ answer'.threat = t.threat
  BY <1>2, <1>3 DEF Buffer!Kept
<1>5. /\ t.targets = Removals(st, b) /\ t.threat \in (t.done \ st.done) \cup {0} /\ Accounted(st, b, t)
      /\ \A x \in (t.done \ st.done) \ ScannedBy(b), i \in b.collections :
            [rule |-> x, collection |-> i] \notin Removals(st, b)
  BY <1>1 DEF Work
<1> DEFINE new == states'[r].done \ states[r].done
<1>6. new = t.done \ st.done
  BY <1>4
<1> HIDE DEF new
<1>7. \E p \in [new -> 1 .. 5] : (\A x \in new : p[x] \in Buffer!PointsOf(b, x)) /\ score' = Buffer!Sum(p)
  BY <1>2, <1>5, <1>6 DEF Accounted
<1>8. answer'.threat \in new \cup {0}
  BY <1>4, <1>5, <1>6
<1>9. \A x \in new \ {b.found[i] : i \in Buffer!ToSet(Buffer!Stages)}, i \in b.collections :
         [rule |-> x, collection |-> i] \notin states'[r].targets
  BY <1>4, <1>5, <1>6 DEF ScannedBy
<1> QED
  BY <1>3, <1>7, <1>8, <1>9 DEF new

\* While buffers are inspected each request has a state of its own.
SessionInv == entry = "buffer" => states = [r \in Requests |-> states[r]]

\* The answer about a buffer, and the score it leaves, are of that buffer and its
\* request alone, whatever the thread did before.
THEOREM BuffersAnswerForThemselves == Spec => BufferAnswersForItself
<1>1. Init => SessionInv
  BY DEF Init, Buffer!Init, SessionInv
<1>2. SessionInv /\ [Next]_vars => SessionInv'
  <2> SUFFICES ASSUME entry = "buffer", states = [r \in Requests |-> states[r]], [Next]_vars
               PROVE  states' = [r \in Requests |-> states'[r]]
    BY DEF SessionInv, Next, vars
  <2>1. CASE Buffer!Next
    BY <2>1 DEF Buffer!Next, Buffer!Settled, Buffer!InspectBuffer, Buffer!InspectTx, Buffer!NewRequest, Buffer!Settle
  <2>2. CASE UNCHANGED states
    BY <2>2
  <2> QED
    BY <2>1, <2>2 DEF Next, vars, sessionOnly
<1>3. SessionInv => (entry = "buffer" => Buffer!OwnAnswer)
  BY OwnAnswerHolds DEF SessionInv
<1>4. SessionInv /\ [Next]_vars => [entry = "buffer" => Buffer!OwnAnswer]_vars
  BY <1>3
<1> QED
  BY <1>1, <1>2, <1>4, PTL DEF Spec, BufferAnswersForItself
=============================================================================
