---------------------------- MODULE DispatchContract ----------------------------
(***************************************************************************)
(* What the dispatch of generated rules promises, without a cache and      *)
(* without scratch buffers: whatever was scanned before, from the same     *)
(* memory or not, a matcher runs on views of the value at hand.            *)
(***************************************************************************)
EXTENDS TransformChains

CONSTANTS
  Addr,      \* buffers the values are in
  NoScan     \* not an address

VARIABLES
  mem,       \* content of each buffer
  scanning,  \* buffer being scanned, or NoScan
  seen       \* what the matcher was run on by the last call

contractVars == <<mem, scanning, seen>>

Init ==
  /\ mem \in [Addr -> Content]
  /\ scanning = NoScan
  /\ seen = {}

\* Between two scans a buffer may be filled with another value.
Refill(a, c) ==
  /\ scanning = NoScan
  /\ mem' = [mem EXCEPT ![a] = c]
  /\ UNCHANGED <<scanning, seen>>

Begin(a) ==
  /\ scanning = NoScan
  /\ scanning' = a
  /\ UNCHANGED <<mem, seen>>

Run(r, o) ==
  /\ scanning # NoScan
  /\ Within(o, mem[scanning])
  /\ seen' \in Answers(r, mem[scanning], o)
  /\ UNCHANGED <<mem, scanning>>

End ==
  /\ scanning # NoScan
  /\ scanning' = NoScan
  /\ UNCHANGED <<mem, seen>>

\* The audit of one rule against an empty value is no scan of its own.  It may
\* find the buffer of its view borrowed in between.
AuditEmpty(r, a) ==
  /\ scanning = NoScan
  /\ LenOf[mem[a]] = 0
  /\ seen' \in Answers(r, mem[a], 0) \cup {{Borrowed}}
  /\ UNCHANGED <<mem, scanning>>

Next ==
  \/ \E a \in Addr, c \in Content : Refill(a, c)
  \/ \E a \in Addr : Begin(a)
  \/ \E r \in Matcher, o \in Offset : Run(r, o)
  \/ End
  \/ \E r \in Matcher, a \in Addr : AuditEmpty(r, a)

Spec == Init /\ [][Next]_contractVars
=============================================================================
