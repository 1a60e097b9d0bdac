------------------------------ MODULE RemuServer ------------------------------
(***************************************************************************)
(* tools/remu_server.js: one HTTP request handler whose work continues in  *)
(* fs callbacks (readdir, stat) and in read streams piped to the response. *)
(* Node interleaves the pending callbacks of all requests on one event     *)
(* loop, and another process may create or delete files in the served     *)
(* directory meanwhile.  An exception escaping the handler or a stream     *)
(* 'error' with no listener ends the process, and with it every request.   *)
(*                                                                         *)
(* Paths are segment sequences (PathJoin); a request target is the kind   *)
(* of URL it is and, for /files/, the segments of the decoded name.        *)
(***************************************************************************)
EXTENDS Naturals, Sequences, SequencesExt, PathJoin

CONSTANTS
  Reqs,         \* the requests (connections) in the model
  Targets,      \* the request targets they may carry
  Dir,          \* directoryPath, as segments
  DirAbsolute,  \* whether web_dir was given as an absolute path
  FilePaths,    \* paths that may be regular files, inside Dir or not
  SubDirs,      \* directories under Dir
  Files0,       \* the regular files when the server starts
  Mutable,      \* the files another process creates and deletes
  HtmlNames,    \* names ending in .html
  CssNames,     \* names ending in .css
  CssPresent    \* remu_web.css exists in the working directory

ASSUME /\ Files0 \subseteq FilePaths /\ Mutable \subseteq FilePaths
       /\ DirAbsolute \in BOOLEAN /\ CssPresent \in BOOLEAN

RootTarget  == [kind |-> "root"]
CssTarget   == [kind |-> "css"]
OtherTarget == [kind |-> "other"]
BadEscape   == [kind |-> "badescape"]   \* /files/ with a malformed %-escape
FileTarget(segs) == [kind |-> "files", segs |-> segs]

VARIABLES
  files,    \* the regular files that exist now
  alive,    \* the server process is running
  req,      \* per request: pc, target, joined path, status, listing
  served    \* paths whose contents were streamed to a client

vars == <<files, alive, req, served>>

Pcs == {"idle", "readdir", "stat", "open", "css", "done"}
Listings == [html : SUBSET STRING, other : SUBSET STRING]
NoListing == [html |-> {}, other |-> {}]

TypeOK ==
  /\ files \subseteq FilePaths
  /\ alive \in BOOLEAN
  /\ \A r \in Reqs : /\ req[r].pc \in Pcs
                     /\ req[r].status \in {0, 200, 404, 500}
                     /\ req[r].listing \in Listings
  /\ served \subseteq FilePaths

Init ==
  /\ files = Files0
  /\ alive = TRUE
  /\ req = [r \in Reqs |-> [pc |-> "idle", target |-> OtherTarget,
                            path |-> <<>>, status |-> 0, listing |-> NoListing]]
  /\ served = {}

-----------------------------------------------------------------------------
(* The synchronous part of the handler, lines 21-100.                      *)
Receive(r, t) ==
  /\ alive
  /\ req[r].pc = "idle"
  /\ t \in Targets
  /\ CASE t.kind = "root" ->
            /\ req' = [req EXCEPT ![r].pc = "readdir", ![r].target = t]
            /\ UNCHANGED alive
       [] t.kind = "files" ->
            /\ req' = [req EXCEPT ![r].pc = "stat", ![r].target = t,
                                  ![r].path = Join(Dir, t.segs, DirAbsolute)]
            /\ UNCHANGED alive
       [] t.kind = "badescape" ->          \* decodeURIComponent throws URIError
            /\ alive' = FALSE
            /\ UNCHANGED req
       [] t.kind = "css" ->                \* header sent, stream opens later
            /\ req' = [req EXCEPT ![r].pc = "css", ![r].target = t,
                                  ![r].status = 200]
            /\ UNCHANGED alive
       [] OTHER ->
            /\ req' = [req EXCEPT ![r].pc = "done", ![r].target = t,
                                  ![r].status = 404]
            /\ UNCHANGED alive
  /\ UNCHANGED <<files, served>>

(* The entries of Dir as readdir returns them, split by files.filter.     *)
Listing(fs) ==
  LET names == {Last(p) : p \in {q \in fs \cup SubDirs :
                           Len(q) = Len(Dir) + 1 /\ IsPrefix(Dir, q)}}
  IN  [html |-> names \cap HtmlNames, other |-> names \ (HtmlNames \cup CssNames)]

(* The readdir callback, lines 23-54: the listing as the directory is at  *)
(* the moment readdir runs.  Dir itself is never removed in the model, so *)
(* the 500 branch does not occur.                                          *)
ReaddirDone(r) ==
  /\ alive
  /\ req[r].pc = "readdir"
  /\ req' = [req EXCEPT ![r].pc = "done", ![r].status = 200,
                        ![r].listing = Listing(files)]
  /\ UNCHANGED <<files, alive, served>>

(* Bug variant: the 404 header is written but res.end() is forgotten, so  *)
(* the client waits forever (EveryRequestAnswered must catch it).          *)
StatDoneNoEnd(r) ==
  /\ alive
  /\ req[r].pc = "stat"
  /\ IF req[r].path \in files
       THEN req' = [req EXCEPT ![r].pc = "open", ![r].status = 200]
       ELSE req' = [req EXCEPT ![r].status = 404]
  /\ UNCHANGED <<files, alive, served>>

(* The stat callback, lines 59-90: 404 unless the path is a regular file  *)
(* now; otherwise the 200 header goes out and the read stream is created. *)
StatDone(r) ==
  /\ alive
  /\ req[r].pc = "stat"
  /\ IF req[r].path \in files
       THEN req' = [req EXCEPT ![r].pc = "open", ![r].status = 200]
       ELSE req' = [req EXCEPT ![r].pc = "done", ![r].status = 404]
  /\ UNCHANGED <<files, alive, served>>

(* Bug variant: the stream is opened on the name from the URL rather than *)
(* on the joined filePath (TypeOK must catch it).                          *)
OpenFileUnjoined(r) ==
  /\ alive
  /\ req[r].pc = "open"
  /\ IF req[r].path \in files
       THEN /\ req' = [req EXCEPT ![r].pc = "done"]
            /\ served' = served \cup {req[r].target.segs}
            /\ UNCHANGED alive
       ELSE /\ alive' = FALSE
            /\ UNCHANGED <<req, served>>
  /\ UNCHANGED files

(* The read stream opens the file asynchronously, lines 91-92.  If it is  *)
(* gone the stream emits 'error'; nothing listens, so the process dies.   *)
OpenFile(r) ==
  /\ alive
  /\ req[r].pc = "open"
  /\ IF req[r].path \in files
       THEN /\ req' = [req EXCEPT ![r].pc = "done"]
            /\ served' = served \cup {req[r].path}
            /\ UNCHANGED alive
       ELSE /\ alive' = FALSE
            /\ UNCHANGED <<req, served>>
  /\ UNCHANGED files

(* The stylesheet stream, line 96, read relative to the working directory. *)
CssOpen(r) ==
  /\ alive
  /\ req[r].pc = "css"
  /\ IF CssPresent
       THEN /\ req' = [req EXCEPT ![r].pc = "done"]
            /\ UNCHANGED alive
       ELSE /\ alive' = FALSE
            /\ UNCHANGED req
  /\ UNCHANGED <<files, served>>

(* Another process deletes or (re)creates a report file.                   *)
RemoveFile(p) ==
  /\ p \in files \cap Mutable
  /\ files' = files \ {p}
  /\ UNCHANGED <<alive, req, served>>

AddFile(p) ==
  /\ p \in Mutable \ files
  /\ files' = files \cup {p}
  /\ UNCHANGED <<alive, req, served>>

(* Every request has been answered, or the process is gone.                *)
Terminated ==
  /\ ~alive \/ \A r \in Reqs : req[r].pc = "done"
  /\ UNCHANGED vars

Next ==
  \/ \E r \in Reqs, t \in Targets : Receive(r, t)
  \/ \E r \in Reqs : ReaddirDone(r) \/ StatDone(r) \/ OpenFile(r) \/ CssOpen(r)
  \/ \E p \in FilePaths : RemoveFile(p) \/ AddFile(p)
  \/ Terminated

(* The event loop runs every callback whose I/O has completed.             *)
Fairness ==
  \A r \in Reqs : /\ WF_vars(ReaddirDone(r))
                  /\ WF_vars(StatDone(r))
                  /\ WF_vars(OpenFile(r))
                  /\ WF_vars(CssOpen(r))

Spec == Init /\ [][Next]_vars /\ Fairness

-----------------------------------------------------------------------------
(* Whatever the clients send and whatever happens to the directory, the    *)
(* process keeps running: no request may end it through an uncaught       *)
(* URIError, or a read stream's 'error' with no listener (file deleted     *)
(* after stat, stylesheet missing from the working directory).             *)
ServerSurvives == alive

(* Only files inside directoryPath are sent: /files/<name> cannot reach a  *)
(* file elsewhere through ".." segments that path.join resolves.           *)
ServesOnlyUnderDir ==
  \A p \in served : Len(p) > Len(Dir) /\ IsPrefix(Dir, p)

(* Every request that reached the handler gets a complete response         *)
(* (res.end, directly or at the end of a pipe) unless the process dies:    *)
(* each continuation ends its response on every branch.                    *)
EveryRequestAnswered ==
  \A r \in Reqs : (req[r].pc # "idle") ~> (req[r].pc = "done" \/ ~alive)

=============================================================================
