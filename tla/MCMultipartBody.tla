---------------------------- MODULE MCMultipartBody ----------------------------
(***************************************************************************)
(* MultipartBody for TLC: every body of an open boundary and up to four     *)
(* more lines, and pairs of short values.                                   *)
(***************************************************************************)
EXTENDS MultipartBody

Plain(kind) == [kind |-> kind, name |-> "none", filename |-> "none", xml |-> FALSE]
Field(name, filename) == [Plain("field") EXCEPT !.name = name, !.filename = filename]
Marked(kind) == [Plain(kind) EXCEPT !.xml = TRUE]

Marks == {Plain("open"), Plain("close"), Plain("blank")}
Words == {Field("text", "none"), Field("empty", "xml"), Field("long", "text"),
          Marked("type"), Plain("type"), Marked("text"), Plain("text")}

Upto(n, S) == UNION {[1 .. k -> S] : k \in 0 .. n}

MCRequests ==
  { [boundary |-> TRUE, values |-> << << Plain("open") >> \o s >>] : s \in Upto(4, Marks \cup Words) }
    \cup { [boundary |-> TRUE, values |-> << << Plain("open"), h >> \o s, t >>] :
             h \in {Field("text", "xml"), Marked("type")},
             s \in Upto(1, {Plain("blank")}), t \in Upto(3, Marks) }
    \cup { [boundary |-> FALSE, values |-> << << Plain("open"), Plain("blank") >> >>] }

MCResults == {-1, 0, 944100}
=============================================================================
