---------------------------- MODULE GenerateGlobal ----------------------------
(***************************************************************************)
(* tools/generate_global.js: the readline 'line' and 'close' handlers that *)
(* turn a log of periodic cluster snapshots into HTML tables, one table    *)
(* per frame, marking every cell whose value differs from the same         *)
(* participant's value in the previous frame.                              *)
(*                                                                         *)
(* Node runs the handlers one at a time, each to completion, so every     *)
(* handler invocation is one atomic action.  A log line is one of: a      *)
(* blank line, a data line carrying a well-formed snapshot, or a "text"    *)
(* line whose third space-separated token is not a snapshot (a title).     *)
(* A snapshot keeps its fields as a function into the abstract values      *)
(* Vals; the HTML text is abstracted to the elements whose order and       *)
(* change markers the properties talk about.                               *)
(***************************************************************************)
EXTENDS Naturals, Sequences, FiniteSets, FiniteSetsExt, TLC

CONSTANTS
  Ids,          \* participant ids: the top-level key of a payload
  Fields,       \* the per-participant fields the renderer prints
  Highlighted,  \* those whose cell is marked when changed (not elect_ms, ptr)
  PeerIds,      \* keys of a participant's peer map
  PeerFields,   \* match, next, done, grant
  Vals,         \* field values; the code only compares them with !=
  MaxLines      \* bound on the number of log lines read

ASSUME /\ Highlighted \subseteq Fields
       /\ MaxLines \in Nat

PeerMaps == UNION {[P -> [PeerFields -> Vals]] : P \in SUBSET PeerIds}
Snaps    == [fields : [Fields -> Vals], peers : PeerMaps]

Blank     == [kind |-> "blank"]
Text      == [kind |-> "text"]
DataLines == [kind : {"data"}, id : Ids, snap : Snaps]
Lines     == {Blank, Text} \cup DataLines

VARIABLES
  state,       \* "finish" while awaiting a title, "data" inside a frame
  temp,        \* temp_json_objs: participant -> snapshot, current frame
  last,        \* last_json_objs: participant -> snapshot, previous frame
  last_ready,  \* a frame has been completed
  out,         \* the report written so far
  proc,        \* "running", "closed" (close handler ran), "crashed", or a
               \* StartOutcomes failure
  input        \* the lines delivered so far (history, for the properties)

vars == <<state, temp, last, last_ready, out, proc, input>>

(* Report elements: the <table> with its title and split rows, the rows of *)
(* one participant with the change marker of every highlighted cell, and   *)
(* the closing </table>.  "at" is the input line that produced it.         *)
TableElems == [kind : {"table"}, at : Nat]
NodeElems  == [kind : {"node"}, at : Nat, flags : [Highlighted -> BOOLEAN],
               peers : UNION {[P -> [PeerFields -> BOOLEAN]] : P \in SUBSET PeerIds}]
EndElem    == [kind |-> "end"]

(* Lines 4-27, before any event: with other than two arguments the usage  *)
(* is printed and the process exits before any file is opened ("usage"). *)
(* Otherwise the output is opened with 'w+', which truncates it; an input *)
(* that cannot be opened emits 'error' on its read stream, which lines    *)
(* 265-267 only log, and no 'line' or 'close' event follows ("unreadable").*)
StartOutcomes == {"running", "usage", "unreadable"}

TypeOK ==
  /\ state \in {"finish", "data"}
  /\ temp \in UNION {[S -> Snaps] : S \in SUBSET Ids}
  /\ last \in UNION {[S -> Snaps] : S \in SUBSET Ids}
  /\ last_ready \in BOOLEAN
  /\ out \in Seq(TableElems \cup NodeElems \cup {EndElem})
  /\ proc \in StartOutcomes \cup {"closed", "crashed"}
  /\ input \in Seq(Lines)

Init ==
  /\ state = "finish"
  /\ temp = <<>>
  /\ last = <<>>
  /\ last_ready = FALSE
  /\ out = <<>>
  /\ proc \in StartOutcomes
  /\ input = <<>>

-----------------------------------------------------------------------------
(* The 'line' handler.  readline delivers the next line only while the     *)
(* process runs and the input is not exhausted.                            *)
Deliver(l) ==
  /\ proc = "running"
  /\ Len(input) < MaxLines
  /\ input' = Append(input, l)

(* Bug variant: the title does not switch to the data state, so the next  *)
(* line opens another table (FrameReportSpec must catch it).               *)
TitleKeepsFinish(l) ==
  /\ Deliver(l)
  /\ state = "finish"
  /\ l # Blank
  /\ out' = Append(out, [kind |-> "table", at |-> Len(input')])
  /\ UNCHANGED <<state, temp, last, last_ready, proc>>

(* A non-blank line after a blank one (or the first) opens a table whose   *)
(* title is that line, whatever it holds.                                  *)
Title(l) ==
  /\ Deliver(l)
  /\ state = "finish"
  /\ l # Blank
  /\ out' = Append(out, [kind |-> "table", at |-> Len(input')])
  /\ state' = "data"
  /\ UNCHANGED <<temp, last, last_ready, proc>>

(* Repeated blank separators are ignored.                                  *)
SkipBlank ==
  /\ Deliver(Blank)
  /\ state = "finish"
  /\ UNCHANGED <<state, temp, last, last_ready, out, proc>>

(* JSON.parse(parts[2]) throws on a line without a snapshot in its third   *)
(* token; the exception escapes the handler and ends the process before    *)
(* anything of the line is written and before the close handler runs.     *)
ParseFailure ==
  /\ Deliver(Text)
  /\ state = "data"
  /\ proc' = "crashed"
  /\ UNCHANGED <<state, temp, last, last_ready, out>>

(* raft_state != last_json_objs[raftid][0] and the like: a cell is marked  *)
(* when a frame has completed and the previous value differs.  The reads   *)
(* of last_json_objs[raftid] and of ...[3][peer] throw a TypeError when    *)
(* the participant, or the peer, is missing from the previous frame.       *)
Changed(cur, prev) == last_ready /\ cur # prev

MissingPrevious(id, s) ==
  /\ last_ready
  /\ \/ id \notin DOMAIN last
     \/ DOMAIN s.peers \ DOMAIN last[id].peers # {}

NodeRow(k, id, s) ==
  [kind  |-> "node",
   at    |-> k,
   flags |-> [f \in Highlighted |-> Changed(s.fields[f], last[id].fields[f])],
   peers |-> [p \in DOMAIN s.peers |->
                [f \in PeerFields |-> Changed(s.peers[p][f], last[id].peers[p][f])]]]

(* Bug variant: the line handler saves the whole parsed line instead of   *)
(* json_obj[raftid] (TypeOK must catch it).                               *)
NodeLineSavesLine(l) ==
  /\ l \in DataLines
  /\ Deliver(l)
  /\ state = "data"
  /\ temp' = (l.id :> l) @@ temp
  /\ out' = out
  /\ UNCHANGED <<state, last, last_ready, proc>>

(* A data line: the snapshot is saved under its id in temp_json_objs       *)
(* before any comparison, then the participant's rows are written.         *)
NodeLine(l) ==
  /\ l \in DataLines
  /\ Deliver(l)
  /\ state = "data"
  /\ temp' = (l.id :> l.snap) @@ temp
  /\ IF MissingPrevious(l.id, l.snap)
       THEN /\ proc' = "crashed"
            /\ out' = out
       ELSE /\ out' = Append(out, NodeRow(Len(input'), l.id, l.snap))
            /\ proc' = proc
  /\ UNCHANGED <<state, last, last_ready>>

(* Bug variant: temp_json_objs = {} is forgotten, so the next frame is    *)
(* compared against a mix of it and the frame before (FrameReportSpec      *)
(* must catch it).                                                         *)
EndFrameNoReset ==
  /\ Deliver(Blank)
  /\ state = "data"
  /\ state' = "finish"
  /\ last' = temp
  /\ last_ready' = TRUE
  /\ UNCHANGED <<temp, out, proc>>

(* A blank line ends the frame: its snapshots become the comparison base.  *)
EndFrame ==
  /\ Deliver(Blank)
  /\ state = "data"
  /\ state' = "finish"
  /\ last' = temp
  /\ last_ready' = TRUE
  /\ temp' = <<>>
  /\ UNCHANGED <<out, proc>>

(* The 'close' handler, run once at the end of the input: it writes one    *)
(* </table> and ends the write stream.                                     *)
Close ==
  /\ proc = "running"
  /\ out' = Append(out, EndElem)
  /\ proc' = "closed"
  /\ UNCHANGED <<state, temp, last, last_ready, input>>

(* The process has exited.                                                 *)
Terminated ==
  /\ proc # "running"
  /\ UNCHANGED vars

Next ==
  \/ \E l \in Lines : Title(l)
  \/ SkipBlank
  \/ ParseFailure
  \/ \E l \in DataLines : NodeLine(l)
  \/ EndFrame
  \/ Close
  \/ Terminated

Spec == Init /\ [][Next]_vars

-----------------------------------------------------------------------------
(***************************************************************************)
(* Frames of the log, read off the input directly (spec section 4.1): a    *)
(* frame's title is a non-blank line that is first or follows a blank      *)
(* line.                                                                   *)
(***************************************************************************)
NonBlank(k) == input[k] # Blank
IsTitle(k)  == NonBlank(k) /\ (k = 1 \/ input[k - 1] = Blank)
(* Section 3 of the spec: a participant missing from the previous frame   *)
(* has no prior value and is rendered unmarked.  So a log whose non-title *)
(* lines all carry snapshots is converted without the process dying.      *)
NoCrashOnWellFormedLog ==
  proc = "crashed" =>
    \E k \in DOMAIN input : input[k] = Text /\ ~IsTitle(k)

(* Sections 6 and 7: the report is a sequence of table blocks, one per    *)
(* frame, and an empty log gives an empty report: every <table> written   *)
(* by the line handler is closed once the close handler has run.          *)
TablesBalanced ==
  proc = "closed" =>
    Cardinality({i \in DOMAIN out : out[i].kind = "table"}) =
    Cardinality({i \in DOMAIN out : out[i].kind = "end"})

-----------------------------------------------------------------------------
(* Refinement: the converter implements FrameReport, the report as a      *)
(* function of the lines read, with the input history as the log, the    *)
(* report as the report, and a crash or a failed start as an abort.       *)
AbstractStatus ==
  CASE proc = "running" -> "running"
    [] proc = "closed"  -> "closed"
    [] OTHER            -> "aborted"

Abstract == INSTANCE FrameReport WITH log <- input, report <- out, status <- AbstractStatus

(* Every step of the converter is a step of FrameReport: whatever state   *)
(* the handlers keep (temp/last swapped at blank lines, last_ready, the   *)
(* finish/data state), the report written after each line is exactly the  *)
(* frame-by-frame rendering of the log so far, and it stops only on a     *)
(* line FrameReport cannot render.                                         *)
FrameReportSpec == Abstract!Spec
=============================================================================
