----------------------------- MODULE GenerateNode -----------------------------
(***************************************************************************)
(* tools/generate_node.js: reads an event log line by line, records the    *)
(* seventh whitespace-separated token of every "state_change:" event as a  *)
(* key of the object node_names, and at the end writes one table row      *)
(* listing Object.keys(node_names).                                        *)
(*                                                                         *)
(* A line is blank, an event of another kind, or a state_change event      *)
(* whose seventh token is one of Tokens or is missing (parts[6] is then    *)
(* undefined, which != "" and becomes the key "undefined").  node_names    *)
(* is kept as its keys in insertion order; Object.keys lists the keys that *)
(* are array indices first, in ascending numeric order, then the others in *)
(* insertion order.                                                        *)
(***************************************************************************)
EXTENDS Integers, Sequences, SequencesExt, TLC

CONSTANTS
  Tokens,      \* seventh tokens of state_change lines ("" after trailing blanks)
  Missing,     \* a state_change line with fewer than seven tokens
  IndexValue,  \* key -> its value as an array index, -1 when it is none
  MaxLines     \* bound on the number of log lines read

Key(t) == IF t = Missing THEN "undefined" ELSE t
Keys   == {Key(t) : t \in Tokens \cup {Missing}}

ASSUME /\ Missing \notin Tokens
       /\ IndexValue \in [Keys -> Int]
       /\ MaxLines \in Nat

Blank      == [kind |-> "blank"]
OtherEvent == [kind |-> "other"]
StateChanges == [kind : {"state_change"}, tok : Tokens \cup {Missing}]
Lines == {Blank, OtherEvent} \cup StateChanges

VARIABLES
  write_table_begin,  \* the table head has been written
  node_names,         \* keys of node_names in insertion order
  out,                \* the report written so far
  proc,               \* "running", "closed", or a StartOutcomes failure
  input               \* the lines delivered so far (history)

vars == <<write_table_begin, node_names, out, proc, input>>

(* Report elements: the table head with its "Nodes:" cell, one cell per    *)
(* listed name, and the closing </tr></table>.                             *)
Elems == {[kind |-> "begin"], [kind |-> "end"]} \cup [kind : {"name"}, key : Keys]

(* Lines 4-27, as in generate_global.js: a wrong argument count exits     *)
(* before anything is opened ("usage"); an input that cannot be opened    *)
(* leaves the output truncated and, its 'error' being only logged at line *)
(* 81, no 'line' or 'close' event ever comes ("unreadable").               *)
StartOutcomes == {"running", "usage", "unreadable"}

TypeOK ==
  /\ write_table_begin \in BOOLEAN
  /\ node_names \in Seq(Keys)
  /\ out \in Seq(Elems)
  /\ proc \in StartOutcomes \cup {"closed"}
  /\ input \in Seq(Lines)

Init ==
  /\ write_table_begin = FALSE
  /\ node_names = <<>>
  /\ out = <<>>
  /\ proc \in StartOutcomes
  /\ input = <<>>

-----------------------------------------------------------------------------
Deliver(l) ==
  /\ proc = "running"
  /\ Len(input) < MaxLines
  /\ input' = Append(input, l)

(* node_names[k] = k: a new key goes last, an existing one keeps its place.*)
SetKey(names, k) == IF Contains(names, k) THEN names ELSE Append(names, k)

(* Bug variant: the raw token is stored, undefined included (TypeOK must  *)
(* catch it).                                                              *)
LineRawToken(l) ==
  /\ l # Blank
  /\ Deliver(l)
  /\ write_table_begin' = TRUE
  /\ out' = IF write_table_begin THEN out ELSE Append(out, [kind |-> "begin"])
  /\ node_names' = IF l.kind = "state_change" /\ l.tok # ""
                     THEN SetKey(node_names, l.tok)
                     ELSE node_names
  /\ UNCHANGED proc

(* Bug variant: write_table_begin is never set, so every non-blank line  *)
(* writes another table head (NodeReportSpec must catch it).               *)
LineNoBeginFlag(l) ==
  /\ l # Blank
  /\ Deliver(l)
  /\ UNCHANGED write_table_begin
  /\ out' = IF write_table_begin THEN out ELSE Append(out, [kind |-> "begin"])
  /\ node_names' = IF l.kind = "state_change" /\ l.tok # ""
                     THEN SetKey(node_names, Key(l.tok))
                     ELSE node_names
  /\ UNCHANGED proc

(* The 'line' handler on a non-blank line: the table head is written once, *)
(* before the first non-blank line is looked at; a state_change event      *)
(* with a non-empty seventh token records it.                              *)
Line(l) ==
  /\ l # Blank
  /\ Deliver(l)
  /\ write_table_begin' = TRUE
  /\ out' = IF write_table_begin THEN out ELSE Append(out, [kind |-> "begin"])
  /\ node_names' = IF l.kind = "state_change" /\ l.tok # ""
                     THEN SetKey(node_names, Key(l.tok))
                     ELSE node_names
  /\ UNCHANGED proc

(* A blank line is ignored.                                                *)
SkipBlank ==
  /\ Deliver(Blank)
  /\ UNCHANGED <<write_table_begin, node_names, out, proc>>

IsIndexKey(k) == IndexValue[k] >= 0

(* Object.keys: integer-like keys ascending, then string keys in insertion *)
(* order.                                                                  *)
ObjectKeys(names) ==
  SortSeq(SelectSeq(names, IsIndexKey),
          LAMBDA a, b : IndexValue[a] < IndexValue[b])
  \o SelectSeq(names, LAMBDA k : ~IsIndexKey(k))

(* The 'close' handler: one cell per key, then </tr></table>, whether or   *)
(* not the head was written.                                               *)
Close ==
  /\ proc = "running"
  /\ out' = out \o [i \in 1..Len(ObjectKeys(node_names)) |->
                      [kind |-> "name", key |-> ObjectKeys(node_names)[i]]]
                \o <<[kind |-> "end"]>>
  /\ proc' = "closed"
  /\ UNCHANGED <<write_table_begin, node_names, input>>

Terminated ==
  /\ proc # "running"
  /\ UNCHANGED vars

Next ==
  \/ \E l \in Lines : Line(l)
  \/ SkipBlank
  \/ Close
  \/ Terminated

Spec == Init /\ [][Next]_vars

-----------------------------------------------------------------------------
(* The names the report lists, in order.                                   *)
Listed == [i \in 1..Len(SelectSeq(out, LAMBDA e : e.kind = "name")) |->
             SelectSeq(out, LAMBDA e : e.kind = "name")[i].key]

(* The state_change lines read, by position.                               *)
ChangeLines == {j \in DOMAIN input : input[j].kind = "state_change"}

(* Spec section 6: the row lists the distinct names in first-seen order.   *)
FirstSeen(k) ==
  Min({j \in ChangeLines : Key(input[j].tok) = k})

NamesInFirstSeenOrder ==
  \A i, j \in DOMAIN Listed : i < j => FirstSeen(Listed[i]) < FirstSeen(Listed[j])

(* Every listed name is a token that some state_change line carries.       *)
ListedNamesOccur ==
  \A i \in DOMAIN Listed : \E j \in ChangeLines : input[j].tok = Listed[i]

-----------------------------------------------------------------------------
(* Refinement: the lister implements NodeReport, with the input history   *)
(* as the log, the report as the report, and a failed start as an abort.  *)
AbstractStatus == IF proc \in {"running", "closed"} THEN proc ELSE "aborted"

Abstract == INSTANCE NodeReport WITH log <- input, report <- out, status <- AbstractStatus

(* Every step of the lister is a step of NodeReport: the one-time head     *)
(* guarded by write_table_begin, and the keys kept in node_names as they   *)
(* are first met, give exactly the report that the log alone determines:  *)
(* one head at the first non-blank line, every recorded name exactly once *)
(* in Object.keys order, the closing tags.                                 *)
NodeReportSpec == Abstract!Spec

=============================================================================
