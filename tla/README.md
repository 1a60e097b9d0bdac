# TLA+ models of the REMU log tools and graph viewer

This directory holds TLA+ models of the JavaScript in this repository, the TLC
configurations that check them, and `PROJECT.json`, which records each
component, run, mutant, source mapping, finding and hazard.

## 1. Inventory

The repository has four JavaScript programs. None of them shares state with
another; they share only the line-oriented log formats the Raft emulator
writes.

| Component | Source | State it keeps | Operations |
|---|---|---|---|
| Snapshot-diff converter: Driver/FrameSegmenter, SnapshotParser, DiffEngine, ReportRenderer (spec §4) | `src/tools/generate_global.js` | `state` (`finish`/`data`), `temp_json_objs` (the current frame: id → snapshot), `last_json_objs` (the previous frame), `last_ready`, the output stream | readline `line` handler (title, blank-skip, data line, end of frame), `close` handler, the stream `error` handlers |
| Companion name-lister | `src/tools/generate_node.js` | `write_table_begin`, `node_names` (a plain object used as an ordered set), the output stream | `line` handler, `close` handler |
| Static file server | `src/tools/remu_server.js` | none of its own; the served directory and the process working directory | one request handler with three async continuations: `readdir` callback, `stat` callback followed by a piped read stream, the stylesheet read stream |
| Topology viewer | `src/src/vgraph/web/static/js/graph.js` | `nodes`, `links`, `linkLabels` (D3 selections), `highlightedPath`, the simulation | `initGraph`, `loadGraph` (fetch then `updateGraph`), submit handlers for node, edge and shortest path, `highlightPath`, resize, drag |

How they interact. The converter and the lister each make one pass over a
file: readline calls the `line` handler once per line, in order, each call
running to completion, then the `close` handler once. An exception thrown
inside a handler is uncaught and ends the process: no further lines, no
`close`, no `writeStream.end()`. The server runs request handlers and their
fs callbacks interleaved on one event loop, concurrently with whoever
changes the directory. The viewer runs DOM event handlers whose `await`s let
other handlers and fetch responses run in between; responses to separate
requests may complete in any order.

What is hard:

* converter: the diff base is built across a frame and swapped at the blank
  line; whether a participant or peer exists in the base decides between a
  marked cell and a TypeError that kills the run; the table tags are opened
  and closed by different handlers;
* lister: `Object.keys` order, `undefined` tokens, and the close handler
  writing closing tags unconditionally;
* server: a check (`stat`) and its use (`createReadStream`) separated by a
  callback, unhandled stream errors, URL decoding and `path.join`
  normalisation;
* viewer: un-awaited reloads whose responses race, and a highlight state that
  is read but never written.

What makes each correct (the properties):

* converter: each marker agrees with the immediately preceding frame; a
  well-formed log never crashes; one closed table per frame;
* lister: the report is the one the log determines (every name listed
  once, the head once), in first-seen order, and only names that occur;
  a well-formed table;
* server: the process survives any request and any directory change; it
  serves only files under the directory; every request is answered;
* viewer: once requests settle, the drawn graph is the server's latest one;
  a highlighted path stays highlighted across
  reloads.

`PROJECT.json` lists every hazard, at the line where it bites, with the
properties that cover it.

## 2. Plan and status

1. `GenerateGlobal` (done): the core converter of spec §4 and all of its
   handlers. The input history is a ghost variable, so that the diff markers
   can be checked against frames read off the log itself.
2. `GenerateNode` (done): the lister, with the `Object.keys` order as an
   operator.
3. `PathJoin` (done): Node's `path.join` normalisation as a RECURSIVE
   operator over segment sequences, checked against a reference definition.
4. `RemuServer` (done): concurrent requests whose async steps are separate
   actions, another process adding and removing files, and the process
   alive or dead. It uses `PathJoin`.
5. `GraphClient` (done): the viewer's handlers with their awaits, a backend
   graph, and in-flight requests answered in any order.
6. `FrameReport` (done): an abstract specification of the converter, the
   report as a function of the log. `GenerateGlobal` is shown to implement it
   through a refinement mapping.
7. Start-up (done for the two converters): the argument check and the
   opening of the streams are the initial states `StartOutcomes`.
8. `NodeReport` (done): the lister's report as a function of the log.
   `GenerateNode` is shown to implement it.

Still open: the converter's skip-and-continue behaviour that the spec asks
for. It would be a change to the code, so there is nothing to model yet.

## 3. Modules and how they map to the code

### GenerateGlobal (`src/tools/generate_global.js`)

Constants: `Ids`, `Fields`, `Highlighted` (the fields whose cell is
marked: `elect_ms` and the address are printed but never marked), `PeerIds`,
`PeerFields`, `Vals`, `MaxLines`.

A line is `Blank`, `Text` (non-blank, no snapshot in its third token: a
title, or a malformed line) or a data line `[id, snap]`. A snapshot is the
record `[fields, peers]` standing for the positional JSON of spec §4.2.

Variables: `state`, `temp`, `last`, `last_ready` are the code's own
variables; `out` is the report as a sequence of `table` (with its title and
split rows), `node` (a participant's rows with the marker of every
highlighted cell and every peer cell) and `end` (`</table>`) elements;
`proc` is `running`, `closed`, `crashed`, `usage` or `unreadable`; `input`
is the history of lines delivered, used only by the properties.

`StartOutcomes` (lines 4–27) is the set of initial `proc` values. With the
wrong number of arguments the script exits before opening anything
(`usage`). Otherwise both streams are created. The output is opened with
`'w+'`, so it is truncated at once. If the input cannot be opened, its
read stream emits `'error'`, which lines 265–267 only log. No `line` or
`close` event follows (`unreadable`), and the report stays empty and
unclosed. Node 16 and later re-emit the error on the readline interface,
which has no listener, so the process crashes instead; the report ends the
same way.

Actions, one per branch of the handlers:

* `Title(l)` — lines 44–60: any non-blank line in `finish` opens a table;
* `SkipBlank` — lines 44–45: blank in `finish` does nothing;
* `ParseFailure` — line 67: a text line in `data` throws in `JSON.parse`;
* `NodeLine(l)` — lines 62–244: saves the snapshot in `temp`, then either
  throws (`MissingPrevious`: the participant, or one of its peers, is not in
  `last` while `last_ready`) or appends the rows built by `NodeRow`, whose
  markers are `Changed(cur, prev) == last_ready /\ cur # prev`;
* `EndFrame` — lines 245–252: swap `temp` into `last`, set `last_ready`;
* `Close` — lines 256–262: one `</table>`;
* `Terminated` — the process has exited; it stops here.

### GenerateNode (`src/tools/generate_node.js`)

Constants: `Tokens` (seventh tokens; `""` stands for what a trailing blank
leaves), `Missing` (a line with fewer than seven tokens), `IndexValue` (each
key's value as an array index, or -1), `MaxLines`.

Variables: `write_table_begin`, `node_names` (the object's keys in insertion
order), `out`, `proc`, `input`. `StartOutcomes` (lines 4–27) is the same
start-up as the converter's. Actions: `Line(l)` (lines 38–60),
`SkipBlank`, `Close` (lines 62–77), `Terminated`. `ObjectKeys` is the
ordering of `Object.keys`: integer-like keys ascending, then the rest in
insertion order.

### NodeReport (abstract)

Variables `log`, `report` and `status`. `NamesIn(L)` is the set of names
recorded from a log, and `FirstAt(L, n)` is where a name first occurs.
`ListOf(L)` orders the names as `Object.keys` does, but sorts sets instead of
keeping an insertion-ordered list:
* names that are array indices come first, by value;
* the other names follow, by first occurrence.

There are two actions:
* `Read(l)` appends the head at the first non-blank line.
* `Close` appends the name cells and the closing tags.

A run may start `aborted`. `GenerateNode` defines
`Abstract == INSTANCE NodeReport WITH log <- input, report <- out,
status <- AbstractStatus` and checks `NodeReportSpec == Abstract!Spec`. The
property is about the code's `write_table_begin` flag and its incremental
`node_names`. It does not judge the unconditional closing tags of line 73:
`NodeReport` states them as the code writes them.

### FrameReport (abstract; spec §4)

Variables `log`, `report` and `status`. A frame's title is a non-blank line
that is first or follows a blank line (`IsTitleIn`). `PrevFrameIn` is the
frame completed just before a line's frame. `RowsIn` renders a data line with
its markers taken from the participant's last line in that frame.
`Incomparable` marks a data line whose participant or peer has no value
there.

Actions:

* `Read(l)` appends the line's rendering.
* `Abort(l)` covers the lines the converter cannot render.
* `Close` appends `</table>`.

A run may also start `aborted`, with an empty report. This is a converter
that exits on its arguments or cannot open its input.

`GenerateGlobal` defines `Abstract == INSTANCE FrameReport WITH log <- input,
report <- out, status <- AbstractStatus`, where a crash or a failed start
maps to `aborted`.
`FrameReportSpec == Abstract!Spec` is checked as a PROPERTY. The mapping
needs no hidden state: `temp`, `last`, `last_ready` and `state` are exactly
what the code keeps so that it does not have to re-read the log.

### PathJoin (`src/tools/remu_server.js`, line 57)

A path is a sequence of segments. `NormalizeFrom` walks it with the kept
names as a stack, as Node's `normalizeString` does:

* `""` and `.` are dropped;
* `..` pops a kept name;
* a `..` with nothing to pop is dropped in an absolute path and kept in a
  relative one.

`Join(dir, rel, absolute)` normalises the concatenation. `MCRemuServer`
assumes that `Normalize` equals `Reference` on every bounded path, and TLC
evaluates that assumption. `Reference` is a definition without a stack: a name
is kept when every stretch of the path starting at it holds more names than
`..`s.

### RemuServer (`src/tools/remu_server.js`)

Constants:

* `Reqs`, the connections;
* `Targets`, the URL kinds: `/`, `/remu_web.css`, anything else, `/files/`
  with decoded segments, and `/files/` with a malformed escape;
* `Dir`, `DirAbsolute`, `FilePaths`, `SubDirs`, `Files0`;
* `Mutable`, the files another process deletes and recreates;
* `HtmlNames`, `CssNames`, `CssPresent`.

Variables:

* `files`, the regular files that exist;
* `alive`, whether the process runs;
* `req`, per request: `pc`, target, joined path, status and listing;
* `served`, the paths whose contents were streamed.

Actions:

* `Receive(r, t)` is the synchronous handler, lines 21–100. A malformed
  escape kills the process (URIError). `/files/` goes to `stat` with
  `Join(Dir, segs)`. The stylesheet sends 200 and goes to `css`. Any other
  URL gets 404.
* `ReaddirDone` is the readdir callback. `Listing` splits the entries as
  `files.filter` does.
* `StatDone` is the stat callback: 404 unless the path is a regular file now.
* `OpenFile` is the read stream. If the file is gone, the stream emits
  'error' with no listener and the process dies.
* `CssOpen` is the stylesheet stream, read relative to the working directory.
* `RemoveFile` and `AddFile` are the environment.
* `Terminated` is the stutter once everything is answered or the process is
  dead.

### GraphClient (`src/src/vgraph/web/static/js/graph.js`)

Variables:

* `server`, the backend graph as `[node, edge]`;
* `page`, whether the load event has run;
* `loaded`, whether `nodes` and `links` hold selections (they start as
  `[]`);
* `drawn`, the graph on screen;
* `hl`, the red nodes and edges;
* `highlightedPath`;
* `net`, requests and their answers in flight, as a set, so they are handled
  in any order;
* `sent` and `submits`.

Actions:

* `PageLoad` runs `initGraph` and the first `loadGraph`.
* `SubmitNode`, `SubmitEdge` and `SubmitPath` are the form handlers up to
  their await.
* `Serve(m)` is the backend. It is not in this repository and is modelled
  from spec §6: it adds the node, or the edge when both ends exist, and
  answers a path query with a simple path of its graph at that moment, or
  none.
* `PostDone` is the un-awaited `loadGraph()` after a POST.
* `GraphDone` is `loadGraph` resuming, with `UpdateGraph` (everything
  redrawn, highlight gone). Before `initGraph` it throws and the catch
  absorbs the exception.
* `PathDone` is `highlightPath` through `HighlightOf`. Before the first load
  it throws on `[].selectAll` and the catch absorbs it. `highlightPath`
  never assigns `highlightedPath`, so `highlightedPath` stays `null`, and
  `UpdateGraph`'s re-apply branch never runs.
* `Idle` means everything is answered and nothing more is submitted.

## 4. Runs

| Run | Expect | What it checks and shows |
|---|---|---|
| `global_diff` | pass | `FrameReportSpec`: the converter refines `FrameReport`. After every line, the whole report is the frame-by-frame rendering of the log, with each marker taken against the participant's last value in the frame completed just before. `FrameReport` finds frames from the log alone, independently of the code's state machine. |
| `global_crash` | violation | `NoCrashOnWellFormedLog`: a title-only frame followed by a frame with a participant makes the converter throw (TypeError at line 83). |
| `global_tables` | violation | `TablesBalanced`: an empty log produces a lone `</table>`; n frames produce n `<table>` and one `</table>`. |
| `node_names` | pass | `NodeReportSpec`: the lister refines `NodeReport`. After every line and at close, the report is the one the log alone determines: one head at the first non-blank line, every recorded name exactly once in `Object.keys` order, then the closing tags. |
| `node_order` | violation | `NamesInFirstSeenOrder`: `"10"` seen after another name is listed first. |
| `node_undefined` | violation | `ListedNamesOccur`: a short state_change line makes the report list `undefined`. |
| `server_answers` | pass | `EveryRequestAnswered`: with two concurrent requests over every route, and the report deleted and recreated at any moment, every request that reached the handler is answered completely, or the process has died. The model's `ASSUME` checks `PathJoin`'s stack walk against a reference definition for all 7,812 paths of up to 5 segments over `a`, `b`, `..`, `.` and `""`, absolute or relative. TLC evaluates it at the start of every `MCRemuServer` run. |
| `server_race` | violation | `ServerSurvives`: the report is deleted between the stat callback and the stream's open, the stream's 'error' goes unhandled, and the server exits. |
| `server_traversal` | violation | `ServesOnlyUnderDir`: `/files/..%2Fsecret` is joined to `secret`, outside `web`, and served. |
| `graph_views` | pass | `EveryAddedNodeShown`: every node the backend has is drawn at some point. It holds with up to three submissions, before or after the page loads, answered in any order. |
| `graph_highlight` | violation | `HighlightSurvivesReload`: a path is drawn in red, a node submission's reload redraws the graph, and the red path is gone, although `updateGraph`'s comment (line 120) says a highlighted path is re-applied. |
| `graph_stale` | violation | `DrawnGraphCurrent`: the page-load reload is served before a node POST and handled after that POST's own reload. The page then has nothing pending and shows a graph without the new node. `loadGraph` never checks that a response is the latest. |

Every passing property has a mutant in `PROJECT.json`: a variant of a mapped
action with a plausible bug, for which TLC finds the property violated. The
mutants are:

* `temp_json_objs` not reset at the end of a frame;
* the whole line saved instead of the snapshot;
* a title that does not leave the finish state;
* `write_table_begin` never set, so every line writes a head;
* the raw token stored;
* the stream opened on the undecoded name;
* a 404 without `res.end()`;
* the Response drawn without `.json()`;
* no reload after a POST.

Two crash branches of the server are modelled and reachable, but no run
shows them on their own:

* `Receive` on a malformed escape, which `server_answers` does fire;
* `CssOpen` with `CssPresent = FALSE`.

The stat/read race of `server_race` is the one that needs an interleaving.

## 5. Bounds and why they suffice

`MCGenerateGlobal`:

* two participants, two values, one highlighted field, and one peer with one
  field;
* up to 8 lines, at most 3 of them data lines (`MaxDataLines`, a state
  constraint in `MCGenerateGlobal`);
* symmetry over participants and values, which are only compared for
  equality (the refinement property is a safety property, so symmetry is
  sound for it).

The bound reaches every case the marker, the swap and the reset need:
* two complete frames and a third title (`T d B T d B`);
* a frame of two participants followed by a second frame (`T d d B T d`);
* a frame compared against one that came after a title-only frame
  (`T d B T B T d`). This is the first log on which a missing
  `temp_json_objs = {}` shows: at 7 lines. A bound of 6 lines missed it.

Data lines are what multiply the state space: each has 12 values. With 7
lines and no limit on data lines, TLC explores 32 million states in 17
minutes. With the constraint it explores 343,000 states in about 40 seconds.
A second data field or a second peer adds no new control path, because each
cell is marked by the same test. The violation runs use 5 lines and no
constraint.

`MCGenerateNode`: the names `n1`, `n2`, `"2"`, `"10"` and `""`, plus a
missing token, with up to 5 lines. That is enough for two integer-like names
out of order, a name recurring, and every kind of line.

The path assumption in `MCRemuServer`: 5 segments allow two climbs
above the start after two names, and every mix of the five segment kinds.

`MCRemuServer`: two requests are enough for one to be in its stat/open gap
while the other's step or a file change runs. The directory `web` holds:

* `a.html`, which is mutable;
* `b.log`;
* `s.css`, which the listing must omit;
* a subdirectory, whose stat is not a file.

`secret` lies outside the directory. There are 784 states.

`MCGraphClient`:

* node ids 1 and 2, with the backend starting at `{1}`;
* up to three submissions, the fewest for a node, an edge to it and a path
  query over that edge (1.19 million states, about 2 minutes);
* `graph_stale` and `graph_highlight` need only two: two reloads in flight, or
  a path query and the reload that clears it.

## 6. Fairness

The converter and the lister are single passes that end when readline
closes. No liveness property is claimed for them, and `Terminated` makes
their final states stutter rather than deadlock.

`RemuServer` assumes weak fairness of each pending fs continuation per
request: `ReaddirDone`, `StatDone`, `OpenFile` and `CssOpen`. Node's event
loop runs every callback whose I/O has completed. There is no fairness on
`Receive` (clients need not send) or on the environment's file changes.

`GraphClient` assumes weak fairness on three things:

* `PageLoad`, since the browser fires `load`;
* the backend answering some pending request;
* the page handling some arrived answer.

The form submissions have no fairness. The latter two conditions are stated
over all messages together. Submissions are bounded, so that is enough for
every message to be handled eventually.

## 7. Not modelled

* The HTML text, CSS classes and column spans. The properties are about which
  cells are marked and how tables open and close, not their wording.
* `remu_server.js`'s argument check. A server that exits at once receives no
  request, and no property of `RemuServer` is about its start.
* A read or write error in the middle of a file. Only the input that cannot
  be opened is a start outcome. A mid-file error would double the
  converter's state space, and the report would end the same way: empty of
  further rows and unclosed.
* The output file's contents before a run. So the truncation of an existing
  report by a run whose input is unreadable is a listed hazard, not a
  property.
* File contents in `RemuServer`. A report being rewritten by a converter
  while it is served is only represented as the report being removed and
  re-added.
* The server's content types (lines 66–88), which no property tells apart.
  The readdir error branch is also left out: the served directory itself is
  never removed in the model.
* In the viewer: the force layout, drag, resize and weights; `fetch`
  rejections (the handlers' catches only log them). A rejected POST whose
  change the backend did apply skips its reload, and a page with nothing
  else pending keeps the old graph. That is listed as a hazard. A lost-reply
  action would have to be excluded from `EveryAddedNodeShown` case by case,
  and it would multiply a state space that already takes two minutes.
* The backend's shortest-path choice, for which any simple path stands.
* JSON value semantics beyond equality: `JSON.stringify` of the log is an
  equality test on the abstract value.
