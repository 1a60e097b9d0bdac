------------------------------ MODULE NodeReport ------------------------------
(***************************************************************************)
(* What the name-lister promises, with no lister state: the report is a    *)
(* function of the log read.  The table head is written when the first     *)
(* non-blank line is read; closing writes one cell per distinct name of a  *)
(* state_change line, in the order Object.keys gives them (names that are  *)
(* array indices by value, then the others by where they first occur),     *)
(* then the closing tags.  A run may fail before its first line (bad       *)
(* arguments, unreadable input): it then starts aborted, with no report.   *)
(***************************************************************************)
EXTENDS Integers, Sequences, SequencesExt

CONSTANTS Tokens, Missing, IndexValue

VARIABLES
  log,     \* the lines read so far
  report,  \* the report elements written so far
  status   \* "running", "closed" or "aborted"

vars == <<log, report, status>>

NameOf(t) == IF t = Missing THEN "undefined" ELSE t

Blank == [kind |-> "blank"]
Lines == {Blank, [kind |-> "other"]}
           \cup [kind : {"state_change"}, tok : Tokens \cup {Missing}]

(* The names recorded from log L, and where each first occurs.            *)
NamesIn(L) == {NameOf(L[j].tok) : j \in {j \in DOMAIN L : L[j].kind = "state_change"
                                                        /\ L[j].tok # ""}}
FirstAt(L, n) ==
  CHOOSE j \in DOMAIN L : /\ L[j].kind = "state_change" /\ NameOf(L[j].tok) = n
                          /\ \A i \in 1..(j - 1) : ~(L[i].kind = "state_change"
                                                     /\ NameOf(L[i].tok) = n)

ListOf(L) ==
  LET idx == {n \in NamesIn(L) : IndexValue[n] >= 0}
  IN  SetToSortSeq(idx, LAMBDA a, b : IndexValue[a] < IndexValue[b])
      \o SetToSortSeq(NamesIn(L) \ idx, LAMBDA a, b : FirstAt(L, a) < FirstAt(L, b))

Init ==
  /\ log = <<>>
  /\ report = <<>>
  /\ status \in {"running", "aborted"}

(* A line is read; the first non-blank one opens the table.                *)
Read(l) ==
  /\ status = "running"
  /\ log' = Append(log, l)
  /\ report' = IF l # Blank /\ \A j \in DOMAIN log : log[j] = Blank
                 THEN Append(report, [kind |-> "begin"])
                 ELSE report
  /\ UNCHANGED status

Close ==
  /\ status = "running"
  /\ report' = report \o [i \in DOMAIN ListOf(log) |-> [kind |-> "name", key |-> ListOf(log)[i]]]
                      \o <<[kind |-> "end"]>>
  /\ status' = "closed"
  /\ UNCHANGED log

Next == (\E l \in Lines : Read(l)) \/ Close

Spec == Init /\ [][Next]_vars

=============================================================================
