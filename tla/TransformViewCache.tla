--------------------------- MODULE TransformViewCache ---------------------------
(***************************************************************************)
(* lumina_dispatch_rule with its thread-local workspace: the classification *)
(* of the current input, eight view slots, and the eight scratch buffers    *)
(* the views live in (emitted by tools/sidecar_translator.py; buffers in    *)
(* src/src/lumina_transforms.c).                                            *)
(*                                                                         *)
(* The cache recognizes a value by its address and length only.  Buffers   *)
(* are reused: one value after another is canonicalized into the same      *)
(* scratchpad, often with the same length.                                 *)
(***************************************************************************)
EXTENDS TransformChains

CONSTANTS Addr, NoScan

ASSUME AddressAssumption == NoScan \notin Addr

VARIABLES
  mem, scanning, seen,   \* as in DispatchContract
  views,                 \* workspace->views, per slot
  input,                 \* workspace->input
  scratch                \* g_xform_scratch, the view each buffer holds

cacheVars == <<mem, scanning, seen, views, input, scratch>>

Slots == 8
Slot(s) == s % Slots
Slotted == 0 .. Slots - 1

Empty == [valid |-> FALSE]

-----------------------------------------------------------------------------
(* Parts of the dispatch *)

\* A value is recognized by its address and length.
SameInput(a) == input.valid /\ input.addr = a /\ input.len = LenOf[mem[a]]

\* lumina_transform_sequence_may_change classifies the input once.
Classify(a) ==
  input' = IF SameInput(a) THEN input
           ELSE [valid |-> TRUE, addr |-> a, len |-> LenOf[mem[a]], dirty |-> Dirty[mem[a]]]

Key(s, a, o) == [valid |-> TRUE, addr |-> a, len |-> LenOf[mem[a]], offset |-> o, chain |-> s]

\* Mutant: the entry is found by the value alone, not by its chain as well.
HitAnyChain(s, a, o) ==
  LET v == views[Slot(s)] IN
    v.valid /\ v.addr = a /\ v.len = LenOf[mem[a]] /\ v.offset = o

Hit(s, a, o) == views[Slot(s)] = Key(s, a, o)

\* The raw call: the rule has no transform, its chain cannot change the input,
\* or the copy does not fit.
RunRaw(r, a, o) ==
  /\ \/ ChainOf[r] = 0 /\ UNCHANGED input
     \/ /\ ChainOf[r] # 0
        /\ Classify(a)
        /\ ChainOf[r] \notin input'.dirty \/ Copied(mem[a], o) > Cap
  /\ seen' = {Raw(mem[a], o)}
  /\ UNCHANGED <<views, scratch>>

\* The rule reaches the transform part of the dispatch.
Transforms(r, a, o) ==
  /\ ChainOf[r] # 0
  /\ Classify(a)
  /\ ChainOf[r] \in input'.dirty /\ Copied(mem[a], o) <= Cap

\* A multiMatch rule takes the slot's buffer for its partial views, so the view
\* cached there is given up first.
RunMulti(r, a, o) ==
  LET s == ChainOf[r] IN
    /\ Transforms(r, a, o) /\ r \in Multi
    /\ views' = [views EXCEPT ![Slot(s)] = Empty]
    /\ \E n \in 0 .. Steps[s] :
         /\ seen' = {Raw(mem[a], o)} \cup Prefixes(s, n, mem[a], o)
         /\ scratch' = IF n = 0 THEN scratch
                       ELSE [scratch EXCEPT ![Slot(s)] = View(s, n, mem[a], o)]

\* Mutant: the cached view is not given up.
RunMultiKeepsView(r, a, o) ==
  LET s == ChainOf[r] IN
    /\ Transforms(r, a, o) /\ r \in Multi
    /\ UNCHANGED views
    /\ \E n \in 0 .. Steps[s] :
         /\ seen' = {Raw(mem[a], o)} \cup Prefixes(s, n, mem[a], o)
         /\ scratch' = IF n = 0 THEN scratch
                       ELSE [scratch EXCEPT ![Slot(s)] = View(s, n, mem[a], o)]

RunCached(r, a, o) ==
  LET s == ChainOf[r] IN
    /\ Transforms(r, a, o) /\ r \notin Multi
    /\ Hit(s, a, o)
    /\ seen' = {scratch[Slot(s)]}
    /\ UNCHANGED <<views, scratch>>

\* A view that ends before the offset is not cached, and the rule not run.
RunFresh(r, a, o) ==
  LET s == ChainOf[r]
      view == Full(s, mem[a], o)
  IN
    /\ Transforms(r, a, o) /\ r \notin Multi
    /\ ~Hit(s, a, o)
    /\ scratch' = [scratch EXCEPT ![Slot(s)] = view]
    /\ views' = [views EXCEPT ![Slot(s)] = IF view \in Shrunk THEN Empty ELSE Key(s, a, o)]
    /\ seen' = {view} \ Shrunk

Dispatch(r, a, o) ==
  /\ Within(o, mem[a])
  /\ RunRaw(r, a, o) \/ RunMulti(r, a, o) \/ RunCached(r, a, o) \/ RunFresh(r, a, o)
  /\ UNCHANGED <<mem, scanning>>

-----------------------------------------------------------------------------
(* The callers *)

\* Mutants: the classification survives; the views survive.
BeginKeepsInput(a) ==
  /\ scanning = NoScan
  /\ scanning' = a
  /\ views' = [k \in Slotted |-> Empty]
  /\ UNCHANGED <<mem, seen, input, scratch>>

BeginKeepsViews(a) ==
  /\ scanning = NoScan
  /\ scanning' = a
  /\ input' = Empty
  /\ UNCHANGED <<mem, seen, views, scratch>>

\* Every scan of a value starts by lumina_reset_transform_view_cache.
Begin(a) ==
  /\ scanning = NoScan
  /\ scanning' = a
  /\ views' = [k \in Slotted |-> Empty]
  /\ input' = Empty
  /\ UNCHANGED <<mem, seen, scratch>>

End ==
  /\ scanning # NoScan
  /\ scanning' = NoScan
  /\ UNCHANGED <<mem, seen, views, input, scratch>>

\* The next value is canonicalized into the same buffer.
Refill(a, c) ==
  /\ scanning = NoScan
  /\ mem' = [mem EXCEPT ![a] = c]
  /\ UNCHANGED <<scanning, seen, views, input, scratch>>

\* Transaction rules decode into the buffer of slot 0 (lumina_xform_scratch).
BorrowScratch ==
  /\ scanning = NoScan
  /\ scratch' = [scratch EXCEPT ![0] = Borrowed]
  /\ UNCHANGED <<mem, scanning, seen, views, input>>

\* lumina_audit_rule_variable of an empty value is the one caller that does not
\* reset the workspace.
AuditEmpty(r, a) ==
  /\ scanning = NoScan
  /\ LenOf[mem[a]] = 0
  /\ Dispatch(r, a, 0)

Init ==
  /\ mem \in [Addr -> Content]
  /\ scanning = NoScan
  /\ seen = {}
  /\ views = [k \in Slotted |-> Empty]
  /\ input = Empty
  /\ scratch = [k \in Slotted |-> Borrowed]

Scan(r, o) == scanning # NoScan /\ Dispatch(r, scanning, o)

Next ==
  \/ \E a \in Addr : Begin(a)
  \/ \E r \in Matcher, o \in Offset : Scan(r, o)
  \/ End
  \/ \E a \in Addr, c \in Content : Refill(a, c)
  \/ BorrowScratch
  \/ \E r \in Matcher, a \in Addr : AuditEmpty(r, a)

Spec == Init /\ [][Next]_cacheVars

-----------------------------------------------------------------------------
(* Properties *)

\* During a scan, a valid entry is the transform of the value being scanned, it
\* is still in its buffer, and the classification is that of this value.
CacheIsCurrent ==
  scanning # NoScan =>
    /\ input.valid => /\ input.addr = scanning
                      /\ input.dirty = Dirty[mem[scanning]]
    /\ \A k \in Slotted : views[k].valid =>
         LET v == views[k] IN
           /\ v.addr = scanning /\ Slot(v.chain) = k
           /\ scratch[k] = Full(v.chain, mem[scanning], v.offset)
           /\ scratch[k] \notin Shrunk

\* Every matcher of a scan runs on views of the value it was called for: never
\* on a view of an earlier value in the same buffer, of another chain that
\* shares the slot, or of a partial multiMatch chain.  The audit of an empty
\* value, which finds the workspace as the last scan left it, can at worst meet
\* a buffer that transaction rules wrote to since.
Contract == INSTANCE DispatchContract
RunsOnOwnValue == Contract!Spec
=============================================================================
