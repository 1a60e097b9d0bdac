----------------------------- MODULE FrameReport -----------------------------
(***************************************************************************)
(* What the snapshot-diff converter promises, with no converter state: the *)
(* report written after reading a log is a function of that log alone.     *)
(* Reading a line appends what the line renders to: a <table> for a frame *)
(* title, nothing for a blank line, and for a data line the participant's *)
(* rows, each highlighted cell marked when the value differs from the     *)
(* participant's last value in the frame completed just before.  The run  *)
(* may abort on a line (the converter's uncaught exceptions), after which  *)
(* nothing more is read or written; closing appends one </table>.  A run  *)
(* may also fail before its first line (bad arguments, unreadable input):  *)
(* it then starts aborted, with an empty report.                           *)
(***************************************************************************)
EXTENDS Naturals, Sequences, FiniteSets, FiniteSetsExt

CONSTANTS Ids, Fields, Highlighted, PeerIds, PeerFields, Vals

VARIABLES
  log,     \* the lines read so far
  report,  \* the report elements written so far
  status   \* "running", "closed" or "aborted"

vars == <<log, report, status>>

PeerMaps  == UNION {[P -> [PeerFields -> Vals]] : P \in SUBSET PeerIds}
Snaps     == [fields : [Fields -> Vals], peers : PeerMaps]
Blank     == [kind |-> "blank"]
Text      == [kind |-> "text"]
DataLines == [kind : {"data"}, id : Ids, snap : Snaps]
Lines     == {Blank, Text} \cup DataLines
EndElem   == [kind |-> "end"]

(* Frames of a log L: a title is a non-blank line that is first or follows *)
(* a blank one; a frame runs from its title to the next blank line.       *)
IsTitleIn(L, k) == L[k] # Blank /\ (k = 1 \/ L[k - 1] = Blank)
TitleIn(L, k)   == Max({j \in 1..k : IsTitleIn(L, j)})

(* The frame completed just before line k's frame, empty if there is none. *)
PrevFrameIn(L, k) ==
  LET before == {j \in 1..(TitleIn(L, k) - 1) : L[j] # Blank}
  IN  IF before = {} THEN {} ELSE TitleIn(L, Max(before))..Max(before)

(* The data lines of participant id in that frame (its title excluded).   *)
BaseIn(L, k, id) ==
  {j \in PrevFrameIn(L, k) : /\ j # Min(PrevFrameIn(L, k))
                             /\ L[j].kind = "data" /\ L[j].id = id}

(* Line k of L is a data line that cannot be compared with its previous   *)
(* frame: the participant, or one of its peers, has no value there.        *)
Incomparable(L, k) ==
  LET base == BaseIn(L, k, L[k].id)
  IN  /\ PrevFrameIn(L, k) # {}
      /\ \/ base = {}
         \/ DOMAIN L[k].snap.peers \ DOMAIN L[Max(base)].snap.peers # {}

(* The rows of data line k, marked against the previous frame.             *)
RowsIn(L, k) ==
  LET s    == L[k].snap
      base == BaseIn(L, k, L[k].id)
      prev == L[Max(base)].snap
  IN  [kind  |-> "node",
       at    |-> k,
       flags |-> [f \in Highlighted |-> base # {} /\ s.fields[f] # prev.fields[f]],
       peers |-> [p \in DOMAIN s.peers |->
                    [f \in PeerFields |-> base # {} /\ s.peers[p][f] # prev.peers[p][f]]]]

Init ==
  /\ log = <<>>
  /\ report = <<>>
  /\ status \in {"running", "aborted"}

(* A line is read and its rendering appended.                              *)
Read(l) ==
  LET L == Append(log, l)
      k == Len(L)
  IN  /\ status = "running"
      /\ log' = L
      /\ l = Blank \/ IsTitleIn(L, k) \/ (l # Text /\ ~Incomparable(L, k))
      /\ report' = CASE l = Blank         -> report
                     [] IsTitleIn(L, k)   -> Append(report, [kind |-> "table", at |-> k])
                     [] OTHER             -> Append(report, RowsIn(L, k))
      /\ UNCHANGED status

(* A line the converter cannot render ends the run: a non-title line with *)
(* no snapshot, or an incomparable data line.                              *)
Abort(l) ==
  LET L == Append(log, l)
      k == Len(L)
  IN  /\ status = "running"
      /\ log' = L
      /\ l # Blank /\ ~IsTitleIn(L, k)
      /\ l = Text \/ Incomparable(L, k)
      /\ status' = "aborted"
      /\ UNCHANGED report

Close ==
  /\ status = "running"
  /\ report' = Append(report, EndElem)
  /\ status' = "closed"
  /\ UNCHANGED log

Next == (\E l \in Lines : Read(l) \/ Abort(l)) \/ Close

Spec == Init /\ [][Next]_vars

=============================================================================
