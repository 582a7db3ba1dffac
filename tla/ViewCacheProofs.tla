----------------------------- MODULE ViewCacheProofs -----------------------------
(***************************************************************************)
(* Proofs about TransformViewCache, for any rules, chains, values and       *)
(* buffers.  CacheIsCurrent speaks of scans only; what an audit of an empty *)
(* value finds is what earlier scans left, so the inductive invariant also  *)
(* says what the workspace holds between scans.                             *)
(***************************************************************************)
EXTENDS TransformViewCache, TLAPS

InputOf(a, c) == [valid |-> TRUE, addr |-> a, len |-> LenOf[c], dirty |-> Dirty[c]]

EntryOf(s, a, c, o) ==
  [valid |-> TRUE, addr |-> a, len |-> LenOf[c], offset |-> o, chain |-> s]

ShapeOK ==
  /\ mem \in [Addr -> Content]
  /\ scanning \in Addr \cup {NoScan}
  /\ views = [k \in Slotted |-> views[k]]
  /\ scratch = [k \in Slotted |-> scratch[k]]

\* During a scan everything valid belongs to the value being scanned.
InputCurrent == scanning # NoScan => input \in {Empty, InputOf(scanning, mem[scanning])}

EntryCurrent(k, s, o) ==
  /\ Slot(s) = k
  /\ views[k] = EntryOf(s, scanning, mem[scanning], o)
  /\ scratch[k] = Full(s, mem[scanning], o)
  /\ scratch[k] \notin Shrunk

ViewsCurrent ==
  scanning # NoScan => \A k \in Slotted :
    views[k] = Empty \/ \E s \in Chain, o \in Offset : EntryCurrent(k, s, o)

\* At any time it belongs to some value of the recorded length, except for a
\* buffer borrowed since.
InputLeft == input = Empty \/ \E a \in Addr, c \in Content : input = InputOf(a, c)

EntryLeft(k, s, o, a, c) ==
  /\ Slot(s) = k
  /\ views[k] = EntryOf(s, a, c, o)
  /\ scratch[k] \in {Full(s, c, o), Borrowed}
  /\ Full(s, c, o) \notin Shrunk

ViewsLeft ==
  \A k \in Slotted :
    views[k] = Empty \/ \E s \in Chain, o \in Offset, a \in Addr, c \in Content :
                          EntryLeft(k, s, o, a, c)

CacheInv == ShapeOK /\ InputCurrent /\ ViewsCurrent /\ InputLeft /\ ViewsLeft

-----------------------------------------------------------------------------
\* Every chain has a slot.
LEMMA SlotOfChain == ASSUME NEW s \in Chain PROVE Slot(s) \in Slotted
  BY ChainsAssumption DEF Slot, Slots, Slotted

\* The calls the program makes: for the value being scanned, or for an empty one.
Call(r, a, o) ==
  /\ scanning = a \/ (scanning = NoScan /\ LenOf[mem[a]] = 0)
  /\ Dispatch(r, a, o)

\* After the classification, the recorded class is that of the value: the length
\* tells values apart only because no other value is empty.
LEMMA ClassifiedRight ==
  ASSUME CacheInv, NEW a \in Addr, Classify(a),
         scanning = a \/ (scanning = NoScan /\ LenOf[mem[a]] = 0)
  PROVE  input' = InputOf(a, mem[a])
  <1>1. mem[a] \in Content
    BY DEF CacheInv, ShapeOK
  <1>2. CASE ~SameInput(a)
    BY <1>2 DEF Classify, InputOf
  <1>3. CASE SameInput(a)
    <2>1. input.valid /\ input.addr = a /\ input.len = LenOf[mem[a]] /\ input' = input
      BY <1>3 DEF SameInput, Classify
    <2>2. input # Empty
      BY <2>1 DEF Empty
    <2>3. CASE scanning = a
      BY <2>1, <2>2, <2>3, AddressAssumption DEF CacheInv, InputCurrent
    <2>4. CASE scanning = NoScan /\ LenOf[mem[a]] = 0
      <3>1. PICK b \in Addr, c \in Content : input = InputOf(b, c)
        BY <2>2 DEF CacheInv, InputLeft
      <3>2. b = a /\ LenOf[c] = 0
        BY <3>1, <2>1, <2>4 DEF InputOf
      <3>3. c = mem[a]
        BY <3>2, <2>4, <1>1, ChainsAssumption
      <3> QED BY <2>1, <3>1, <3>2, <3>3
    <2> QED BY <2>3, <2>4
  <1> QED BY <1>2, <1>3

\* A hit finds the view of the value, or a buffer borrowed since the last scan.
LEMMA HitIsRight ==
  ASSUME CacheInv, NEW a \in Addr, NEW s \in Chain, NEW o \in Offset, Hit(s, a, o),
         scanning = a \/ (scanning = NoScan /\ LenOf[mem[a]] = 0)
  PROVE  /\ Full(s, mem[a], o) \notin Shrunk
         /\ \/ scratch[Slot(s)] = Full(s, mem[a], o)
            \/ scanning = NoScan /\ scratch[Slot(s)] = Borrowed
  <1> DEFINE k == Slot(s)
  <1>1. k \in Slotted /\ mem[a] \in Content
    BY SlotOfChain DEF CacheInv, ShapeOK
  <1>2. /\ views[k].valid /\ views[k].addr = a /\ views[k].len = LenOf[mem[a]]
        /\ views[k].offset = o /\ views[k].chain = s
    BY DEF Hit, Key
  <1>3. views[k] # Empty
    BY <1>2 DEF Empty
  <1>4. CASE scanning = a
    <2>1. scanning # NoScan
      BY <1>4, AddressAssumption
    <2>2. PICK t \in Chain, p \in Offset : EntryCurrent(k, t, p)
      BY <2>1, <1>1, <1>3 DEF CacheInv, ViewsCurrent
    <2>3. t = s /\ p = o
      BY <2>2, <1>2 DEF EntryCurrent, EntryOf
    <2> QED BY <2>2, <2>3, <1>4 DEF EntryCurrent
  <1>5. CASE scanning = NoScan /\ LenOf[mem[a]] = 0
    <2>1. PICK t \in Chain, p \in Offset, b \in Addr, c \in Content : EntryLeft(k, t, p, b, c)
      BY <1>1, <1>3 DEF CacheInv, ViewsLeft
    <2>2. t = s /\ p = o /\ b = a /\ LenOf[c] = 0
      BY <2>1, <1>2, <1>5 DEF EntryLeft, EntryOf
    <2>3. c = mem[a]
      BY <2>2, <1>5, <1>1, ChainsAssumption
    <2> QED BY <2>1, <2>2, <2>3, <1>5 DEF EntryLeft
  <1> QED BY <1>4, <1>5

-----------------------------------------------------------------------------
\* What one call may run the matcher on.
LEMMA CallAnswers ==
  ASSUME CacheInv, NEW r \in Matcher, NEW a \in Addr, NEW o \in Offset, Call(r, a, o)
  PROVE  \/ seen' \in Answers(r, mem[a], o)
         \/ scanning = NoScan /\ seen' = {Borrowed}
  <1> DEFINE c == mem[a]
             s == ChainOf[r]
  <1>1. s \in Chain
    BY ChainsAssumption
  <1>2. Classify(a) => input'.dirty = Dirty[c]
    BY ClassifiedRight DEF Call, InputOf
  <1>3. CASE RunRaw(r, a, o)
    <2>1. Untransformed(r, c, o)
      BY <1>3, <1>2 DEF RunRaw, Untransformed
    <2> QED BY <2>1, <1>3 DEF Answers, RunRaw
  <1>4. Transforms(r, a, o) => ~Untransformed(r, c, o)
    <2> SUFFICES ASSUME Transforms(r, a, o) PROVE ~Untransformed(r, c, o)
      OBVIOUS
    <2>1. o \in Nat /\ LenOf[c] \in Nat /\ Cap \in Nat
      BY ChainsAssumption DEF CacheInv, ShapeOK
    <2>2. Copied(c, o) \in Int
      BY <2>1 DEF Copied, Context
    <2>3. ~(Copied(c, o) > Cap)
      BY <2>1, <2>2 DEF Transforms
    <2> QED BY <1>2, <2>3 DEF Transforms, Untransformed
  <1>5. CASE RunMulti(r, a, o)
    <2>1. ~Untransformed(r, c, o) /\ r \in Multi
      BY <1>5, <1>4 DEF RunMulti
    <2>2. PICK n \in 0 .. Steps[s] : seen' = {Raw(c, o)} \cup Prefixes(s, n, c, o)
      BY <1>5 DEF RunMulti
    <2> QED BY <2>1, <2>2 DEF Answers
  <1>6. CASE RunCached(r, a, o)
    <2>1. ~Untransformed(r, c, o) /\ r \notin Multi /\ Hit(s, a, o) /\ seen' = {scratch[Slot(s)]}
      BY <1>6, <1>4 DEF RunCached
    <2>2. CASE scratch[Slot(s)] = Full(s, c, o)
      <3>1. Full(s, c, o) \notin Shrunk
        BY <2>1, <1>1, HitIsRight DEF Call
      <3>2. seen' = {Full(s, c, o)} \ Shrunk
        BY <2>1, <2>2, <3>1
      <3> QED BY <2>1, <3>2 DEF Answers
    <2>3. CASE scanning = NoScan /\ scratch[Slot(s)] = Borrowed
      BY <2>1, <2>3
    <2> QED BY <2>1, <2>2, <2>3, <1>1, HitIsRight DEF Call
  <1>7. CASE RunFresh(r, a, o)
    <2>1. ~Untransformed(r, c, o) /\ r \notin Multi /\ seen' = {Full(s, c, o)} \ Shrunk
      BY <1>7, <1>4 DEF RunFresh
    <2> QED BY <2>1 DEF Answers
  <1> QED BY <1>3, <1>5, <1>6, <1>7 DEF Call, Dispatch

-----------------------------------------------------------------------------
\* What a call leaves of the classification.
LEMMA CallKeepsInput ==
  ASSUME CacheInv, NEW r \in Matcher, NEW a \in Addr, NEW o \in Offset, Call(r, a, o)
  PROVE  InputCurrent' /\ InputLeft'
  <1>1. input' = input \/ input' = InputOf(a, mem[a])
    BY ClassifiedRight DEF Call, Dispatch, RunRaw, RunMulti, RunCached, RunFresh, Transforms
  <1>2. mem[a] \in Content /\ UNCHANGED <<mem, scanning>>
    BY DEF CacheInv, ShapeOK, Call, Dispatch
  <1>3. InputCurrent'
    <2> SUFFICES ASSUME scanning # NoScan
                 PROVE  input' \in {Empty, InputOf(scanning, mem[scanning])}
      BY <1>2 DEF InputCurrent, InputOf
    <2>1. scanning = a
      BY DEF Call
    <2> QED BY <1>1, <2>1 DEF CacheInv, InputCurrent
  <1>4. InputLeft'
    BY <1>1, <1>2 DEF CacheInv, InputLeft, InputOf
  <1> QED BY <1>3, <1>4

\* A slot the call does not change stays as good as it was.
LEMMA SlotKept ==
  ASSUME UNCHANGED <<mem, scanning>>, NEW k \in Slotted,
         views'[k] = views[k], scratch'[k] = scratch[k]
  PROVE  /\ \A s \in Chain, o \in Offset : EntryCurrent(k, s, o) => EntryCurrent(k, s, o)'
         /\ \A s \in Chain, o \in Offset, a \in Addr, c \in Content :
              EntryLeft(k, s, o, a, c) => EntryLeft(k, s, o, a, c)'
  BY DEF EntryCurrent, EntryLeft, EntryOf, Full, View, Slot

\* What a call leaves of the views: the one slot it writes is emptied or holds
\* what its entry says.
LEMMA CallKeepsViews ==
  ASSUME CacheInv, NEW r \in Matcher, NEW a \in Addr, NEW o \in Offset, Call(r, a, o)
  PROVE  ShapeOK' /\ ViewsCurrent' /\ ViewsLeft'
  <1> DEFINE c == mem[a]
             s == ChainOf[r]
             k == Slot(s)
  <1>1. s \in Chain /\ k \in Slotted /\ c \in Content
    BY ChainsAssumption, SlotOfChain DEF CacheInv, ShapeOK
  <1>2. UNCHANGED <<mem, scanning>> /\ (scanning # NoScan => scanning = a)
    BY DEF Call, Dispatch
  <1> HIDE DEF c, s, k
  <1>3. SUFFICES
          /\ views' = [j \in Slotted |-> views'[j]]
          /\ scratch' = [j \in Slotted |-> scratch'[j]]
          /\ \A j \in Slotted \ {k} : views'[j] = views[j] /\ scratch'[j] = scratch[j]
          /\ \/ views'[k] = Empty
             \/ views'[k] = views[k] /\ scratch'[k] = scratch[k]
             \/ /\ views'[k] = EntryOf(s, a, c, o)
                /\ scratch'[k] = Full(s, c, o)
                /\ Full(s, c, o) \notin Shrunk
    <2>1. ShapeOK'
      BY <1>2, <1>3 DEF CacheInv, ShapeOK
    <2>2. ASSUME NEW j \in Slotted, j # k \/ (views'[k] = views[k] /\ scratch'[k] = scratch[k])
          PROVE  /\ \A t \in Chain, p \in Offset : EntryCurrent(j, t, p) => EntryCurrent(j, t, p)'
                 /\ \A t \in Chain, p \in Offset, b \in Addr, d \in Content :
                      EntryLeft(j, t, p, b, d) => EntryLeft(j, t, p, b, d)'
                 /\ views'[j] = views[j]
      <3>1. views'[j] = views[j] /\ scratch'[j] = scratch[j]
        BY <2>2, <1>3
      <3> QED BY <3>1, <1>2, SlotKept
    <2>3. ASSUME views'[k] = EntryOf(s, a, c, o), scratch'[k] = Full(s, c, o),
                 Full(s, c, o) \notin Shrunk
          PROVE  /\ scanning # NoScan => EntryCurrent(k, s, o)'
                 /\ EntryLeft(k, s, o, a, c)'
      BY <2>3, <1>2 DEF EntryCurrent, EntryLeft, EntryOf, Full, View, Slot, c, k
    <2>4. ViewsCurrent'
      <3> SUFFICES ASSUME scanning # NoScan, NEW j \in Slotted
                   PROVE  views'[j] = Empty \/ \E t \in Chain, p \in Offset : EntryCurrent(j, t, p)'
        BY <1>2 DEF ViewsCurrent, Empty
      <3>1. views[j] = Empty \/ \E t \in Chain, p \in Offset : EntryCurrent(j, t, p)
        BY DEF CacheInv, ViewsCurrent
      <3> QED BY <3>1, <2>2, <2>3, <1>1, <1>3
    <2>5. ViewsLeft'
      <3> SUFFICES ASSUME NEW j \in Slotted
                   PROVE  views'[j] = Empty \/ \E t \in Chain, p \in Offset, b \in Addr, d \in Content :
                                                EntryLeft(j, t, p, b, d)'
        BY DEF ViewsLeft, Empty
      <3>1. views[j] = Empty \/ \E t \in Chain, p \in Offset, b \in Addr, d \in Content :
                                   EntryLeft(j, t, p, b, d)
        BY DEF CacheInv, ViewsLeft
      <3>2. CASE j # k \/ (views'[k] = views[k] /\ scratch'[k] = scratch[k])
        BY <3>1, <3>2, <2>2
      <3>3. CASE j = k /\ views'[k] = EntryOf(s, a, c, o) /\ scratch'[k] = Full(s, c, o)
                 /\ Full(s, c, o) \notin Shrunk
        <4>1. EntryLeft(k, s, o, a, c)'
          BY <3>3, <2>3
        <4>2. c' = c
          BY <1>2 DEF c
        <4> QED BY <4>1, <4>2, <3>3, <1>1
      <3> QED BY <3>2, <3>3, <1>3
    <2> QED BY <2>1, <2>4, <2>5
  <1>4. views = [j \in Slotted |-> views[j]] /\ scratch = [j \in Slotted |-> scratch[j]]
    BY DEF CacheInv, ShapeOK
  <1>5. CASE RunRaw(r, a, o) \/ RunCached(r, a, o)
    <2>1. views' = views /\ scratch' = scratch
      BY <1>5 DEF RunRaw, RunCached
    <2> QED BY <2>1, <1>4
  <1>6. CASE RunMulti(r, a, o)
    <2>1. /\ views' = [views EXCEPT ![k] = Empty]
          /\ \E v : scratch' = scratch \/ scratch' = [scratch EXCEPT ![k] = v]
      BY <1>6 DEF RunMulti, k, s
    <2> QED BY <2>1, <1>1, <1>4
  <1>7. CASE RunFresh(r, a, o)
    <2>1. scratch' = [scratch EXCEPT ![k] = Full(s, c, o)]
      BY <1>7 DEF RunFresh, k, s, c
    <2>2. views' = [views EXCEPT ![k] = IF Full(s, c, o) \in Shrunk THEN Empty ELSE Key(s, a, o)]
      BY <1>7 DEF RunFresh, k, s, c
    <2>3. Key(s, a, o) = EntryOf(s, a, c, o)
      BY DEF Key, EntryOf, c
    <2> QED BY <2>1, <2>2, <2>3, <1>1, <1>4
  <1> QED BY <1>5, <1>6, <1>7 DEF Call, Dispatch

-----------------------------------------------------------------------------
\* The calls of the next-state relation are those the lemmas are about.
LEMMA NextCall ==
  /\ \A r \in Matcher, o \in Offset : CacheInv /\ Scan(r, o) => scanning \in Addr /\ Call(r, scanning, o)
  /\ \A r \in Matcher, a \in Addr : AuditEmpty(r, a) => Call(r, a, 0)
  BY DEF CacheInv, ShapeOK, Scan, AuditEmpty, Call

\* The offset of the audit of an empty value.
LEMMA OffsetZero == 0 \in Offset
  BY ChainsAssumption

\* The workspace of a new thread is empty.
LEMMA CacheInitial == Init => CacheInv
  BY DEF Init, CacheInv, ShapeOK, InputCurrent, ViewsCurrent, InputLeft, ViewsLeft

\* Every step keeps the workspace sound.
LEMMA CacheInductive == CacheInv /\ [Next]_cacheVars => CacheInv'
  <1> SUFFICES ASSUME CacheInv, [Next]_cacheVars PROVE CacheInv'
    OBVIOUS
  <1>1. ASSUME NEW r \in Matcher, NEW a \in Addr, NEW o \in Offset, Call(r, a, o)
        PROVE  CacheInv'
    BY <1>1, CallKeepsInput, CallKeepsViews DEF CacheInv
  <1>2. ASSUME NEW a \in Addr, Begin(a) PROVE CacheInv'
    <2>1. input' = Empty /\ views' = [k \in Slotted |-> Empty] /\ UNCHANGED <<mem, scratch>>
          /\ scanning' = a
      BY <1>2 DEF Begin
    <2> QED BY <2>1 DEF CacheInv, ShapeOK, InputCurrent, ViewsCurrent, InputLeft, ViewsLeft
  <1>3. ASSUME NEW r \in Matcher, NEW o \in Offset, Scan(r, o) PROVE CacheInv'
    BY <1>1, <1>3, NextCall
  <1>4. CASE End
    <2>1. scanning' = NoScan /\ UNCHANGED <<mem, views, input, scratch>>
      BY <1>4 DEF End
    <2>2. ShapeOK' /\ InputCurrent' /\ ViewsCurrent'
      BY <2>1 DEF CacheInv, ShapeOK, InputCurrent, ViewsCurrent
    <2>3. InputLeft' /\ ViewsLeft'
      BY <2>1 DEF CacheInv, InputLeft, ViewsLeft, EntryLeft
    <2> QED BY <2>2, <2>3 DEF CacheInv
  <1>5. ASSUME NEW a \in Addr, NEW c \in Content, Refill(a, c) PROVE CacheInv'
    <2>1. scanning' = NoScan /\ UNCHANGED <<scanning, views, input, scratch>>
          /\ mem' = [mem EXCEPT ![a] = c]
      BY <1>5 DEF Refill
    <2>2. ShapeOK' /\ InputCurrent' /\ ViewsCurrent'
      BY <2>1 DEF CacheInv, ShapeOK, InputCurrent, ViewsCurrent
    <2>3. InputLeft' /\ ViewsLeft'
      BY <2>1 DEF CacheInv, InputLeft, ViewsLeft, EntryLeft
    <2> QED BY <2>2, <2>3 DEF CacheInv
  <1>6. CASE BorrowScratch
    <2>1. scanning' = NoScan /\ UNCHANGED <<mem, scanning, views, input>>
          /\ scratch' = [scratch EXCEPT ![0] = Borrowed]
      BY <1>6 DEF BorrowScratch
    <2>2. ShapeOK' /\ InputCurrent' /\ ViewsCurrent' /\ InputLeft'
      BY <2>1 DEF CacheInv, ShapeOK, InputCurrent, ViewsCurrent, InputLeft
    <2>3. \A k \in Slotted : scratch'[k] \in {scratch[k], Borrowed}
      BY <2>1 DEF CacheInv, ShapeOK
    <2>4. ViewsLeft'
      BY <2>1, <2>3 DEF CacheInv, ViewsLeft, EntryLeft
    <2> QED BY <2>2, <2>4 DEF CacheInv
  <1>7. ASSUME NEW r \in Matcher, NEW a \in Addr, AuditEmpty(r, a) PROVE CacheInv'
    BY <1>1, <1>7, NextCall, OffsetZero
  <1>8. CASE UNCHANGED cacheVars
    <2>1. UNCHANGED <<mem, scanning, views, input, scratch>>
      BY <1>8 DEF cacheVars
    <2> QED BY <2>1 DEF CacheInv, ShapeOK, InputCurrent, ViewsCurrent, EntryCurrent,
                        InputLeft, ViewsLeft, EntryLeft
  <1> QED BY <1>2, <1>3, <1>4, <1>5, <1>6, <1>7, <1>8 DEF Next

LEMMA CacheAlways == Spec => []CacheInv
  BY CacheInitial, CacheInductive, PTL DEF Spec

-----------------------------------------------------------------------------
\* CacheIsCurrent for any constants: during a scan, whatever the workspace holds
\* valid is the classification and the transforms of the value being scanned.
THEOREM CacheStaysCurrent == Spec => []CacheIsCurrent
  <1>1. CacheInv => CacheIsCurrent
    <2> SUFFICES ASSUME CacheInv, scanning # NoScan
                 PROVE  /\ input.valid => /\ input.addr = scanning
                                          /\ input.dirty = Dirty[mem[scanning]]
                        /\ \A k \in Slotted : views[k].valid =>
                             LET v == views[k] IN
                               /\ v.addr = scanning /\ Slot(v.chain) = k
                               /\ scratch[k] = Full(v.chain, mem[scanning], v.offset)
                               /\ scratch[k] \notin Shrunk
      BY DEF CacheIsCurrent
    <2>1. input.valid => /\ input.addr = scanning
                         /\ input.dirty = Dirty[mem[scanning]]
      BY DEF CacheInv, InputCurrent, InputOf, Empty
    <2>2. ASSUME NEW k \in Slotted, views[k].valid
          PROVE  LET v == views[k] IN
                   /\ v.addr = scanning /\ Slot(v.chain) = k
                   /\ scratch[k] = Full(v.chain, mem[scanning], v.offset)
                   /\ scratch[k] \notin Shrunk
      <3>1. views[k] # Empty
        BY <2>2 DEF Empty
      <3>2. PICK s \in Chain, o \in Offset : EntryCurrent(k, s, o)
        BY <3>1 DEF CacheInv, ViewsCurrent
      <3>3. views[k].addr = scanning /\ views[k].chain = s /\ views[k].offset = o
        BY <3>2 DEF EntryCurrent, EntryOf
      <3> QED BY <3>2, <3>3 DEF EntryCurrent
    <2> QED BY <2>1, <2>2
  <1> QED BY <1>1, CacheAlways, PTL

\* The answers of the contract are those of the detailed module: the instance
\* substitutes every constant by itself.
LEMMA SameAnswers ==
  /\ \A r \in Matcher, c \in Content, o \in Offset : Contract!Answers(r, c, o) = Answers(r, c, o)
  /\ \A o, c : Contract!Within(o, c) <=> Within(o, c)
  /\ Contract!Borrowed = Borrowed
  BY DEF Contract!Answers, Answers, Contract!Untransformed, Untransformed, Contract!Copied,
         Copied, Contract!Context, Context, Contract!Raw, Raw, Contract!View, View,
         Contract!Full, Full, Contract!Prefixes, Prefixes, Contract!Within, Within,
         Contract!Borrowed, Borrowed

\* RunsOnOwnValue for any constants: with its cache, its shared slots and its
\* borrowed buffer, the dispatch runs matchers only on what the contract allows.
THEOREM DispatchKeepsContract == Spec => RunsOnOwnValue
  <1>1. Init => Contract!Init
    BY DEF Init, Contract!Init
  <1>2. CacheInv /\ [Next]_cacheVars => [Contract!Next]_(Contract!contractVars)
    <2> SUFFICES ASSUME CacheInv, [Next]_cacheVars
                 PROVE  Contract!Next \/ UNCHANGED <<mem, scanning, seen>>
      BY DEF Contract!contractVars
    <2>1. \A a \in Addr : mem[a] \in Content
      BY DEF CacheInv, ShapeOK
    <2>2. ASSUME NEW a \in Addr, Begin(a) PROVE Contract!Begin(a)
      BY <2>2 DEF Begin, Contract!Begin
    <2>3. ASSUME NEW r \in Matcher, NEW o \in Offset, Scan(r, o) PROVE Contract!Run(r, o)
      <3>1. scanning \in Addr /\ scanning # NoScan /\ Call(r, scanning, o)
        BY <2>3, NextCall DEF Scan
      <3>2. seen' \in Answers(r, mem[scanning], o)
        BY <3>1, CallAnswers
      <3>3. Within(o, mem[scanning]) /\ UNCHANGED <<mem, scanning>>
        BY <3>1 DEF Call, Dispatch
      <3> QED BY <3>1, <3>2, <3>3, <2>1, SameAnswers DEF Contract!Run
    <2>4. End => Contract!End
      BY DEF End, Contract!End
    <2>5. ASSUME NEW a \in Addr, NEW c \in Content, Refill(a, c) PROVE Contract!Refill(a, c)
      BY <2>5 DEF Refill, Contract!Refill
    <2>6. BorrowScratch => UNCHANGED <<mem, scanning, seen>>
      BY DEF BorrowScratch
    <2>7. ASSUME NEW r \in Matcher, NEW a \in Addr, AuditEmpty(r, a)
          PROVE  Contract!AuditEmpty(r, a)
      <3>1. Call(r, a, 0) /\ scanning = NoScan /\ LenOf[mem[a]] = 0
        BY <2>7, NextCall DEF AuditEmpty
      <3>2. seen' \in Answers(r, mem[a], 0) \/ seen' = {Borrowed}
        BY <3>1, CallAnswers, OffsetZero
      <3>3. UNCHANGED <<mem, scanning>>
        BY <3>1 DEF Call, Dispatch
      <3> QED BY <3>1, <3>2, <3>3, <2>1, SameAnswers, OffsetZero DEF Contract!AuditEmpty
    <2>8. UNCHANGED cacheVars => UNCHANGED <<mem, scanning, seen>>
      BY DEF cacheVars
    <2> QED BY <2>2, <2>3, <2>4, <2>5, <2>6, <2>7, <2>8 DEF Next, Contract!Next
  <1> QED BY <1>1, <1>2, CacheAlways, PTL DEF Spec, RunsOnOwnValue, Contract!Spec
=============================================================================
