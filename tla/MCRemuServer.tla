---------------------------- MODULE MCRemuServer ----------------------------
(***************************************************************************)
(* The server started as "node remu_server.js web": a relative web_dir     *)
(* holding a report, a raw log, a stylesheet and a subdirectory, with a    *)
(* file "secret" beside it in the working directory.                       *)
(***************************************************************************)
EXTENDS RemuServer

CONSTANTS r1, r2

MCDir == <<"web">>
Report == <<"web", "a.html">>
MCFilePaths == {Report, <<"web", "b.log">>, <<"web", "s.css">>, <<"secret">>}
MCSubDirs == {<<"web", "sub">>}
MCMutable == {Report}   \* the converter rewrites, a cleanup deletes
NoMutable == {}

(* Every route, a malformed escape, a file, a directory, an empty name,    *)
(* and a name with a harmless "." segment.                                 *)
TargetsAll ==
  {RootTarget, CssTarget, OtherTarget, BadEscape, FileTarget(<<"a.html">>),
   FileTarget(<<"sub">>), FileTarget(<<>>), FileTarget(<<".", "b.log">>)}
TargetsReport    == {FileTarget(<<"a.html">>)}
TargetsTraversal == {FileTarget(<<"..", "secret">>), FileTarget(<<"a.html">>)}

-----------------------------------------------------------------------------
(***************************************************************************)
(* path.join checked on its own, over every path of up to MaxPathSegs     *)
(* segments, against a definition that does not walk a stack: a name is  *)
(* kept when every stretch of the path starting at it holds more names    *)
(* than ".."s, and in a relative path a ".." survives when every stretch  *)
(* ending at it holds more ".."s than names.                               *)
(***************************************************************************)
PathSegs    == {"a", "b", "..", ".", ""}
MaxPathSegs == 5

Count(s, i, j, P(_)) == Cardinality({k \in i..j : P(s[k])})
Names(s, i, j) == Count(s, i, j, IsName)
Dots(s, i, j)  == Count(s, i, j, LAMBDA x : x = "..")

Kept(s)     == {i \in DOMAIN s : IsName(s[i]) /\
                   \A j \in i..Len(s) : Names(s, i, j) > Dots(s, i, j)}
Climbing(s) == {j \in DOMAIN s : s[j] = ".." /\
                   \A i \in 1..j : Dots(s, i, j) > Names(s, i, j)}

Reference(s, absolute) ==
  (IF absolute THEN <<>> ELSE [k \in 1..Cardinality(Climbing(s)) |-> ".."])
  \o [k \in 1..Cardinality(Kept(s)) |-> s[SetToSortSeq(Kept(s), <)[k]]]

(* path.join keeps exactly the names no later ".." removes and, in a       *)
(* relative path, one ".." per level it climbs above its start.  TLC       *)
(* evaluates the assumption at the start of every run of this model.       *)
ASSUME \A s \in BoundedSeq(PathSegs, MaxPathSegs), absolute \in BOOLEAN :
         Normalize(s, absolute) = Reference(s, absolute)
=============================================================================
