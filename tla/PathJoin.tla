------------------------------- MODULE PathJoin -------------------------------
(***************************************************************************)
(* path.join(directoryPath, decodeURIComponent(fileName)) at line 57 of    *)
(* tools/remu_server.js.  Node joins the arguments with "/" and            *)
(* normalises the result segment by segment: "" (from "//") and "." are    *)
(* dropped, ".." removes the last kept name, and a ".." with nothing left  *)
(* to remove is dropped in an absolute path but kept in a relative one.    *)
(* A path is its sequence of segments; "/" inside the decoded name, %2F    *)
(* included, separates segments like any other.                           *)
(***************************************************************************)
EXTENDS Naturals, Sequences, SequencesExt

IsName(x) == x \notin {"", ".", ".."}

RECURSIVE NormalizeFrom(_, _, _)

(* One pass over the segments with the kept ones as a stack.               *)
NormalizeFrom(kept, rest, absolute) ==
  IF rest = <<>> THEN kept
  ELSE LET x == Head(rest) IN
    NormalizeFrom(
      CASE IsName(x)                               -> Append(kept, x)
        [] x = ".." /\ kept # <<>> /\ Last(kept) # ".." -> Front(kept)
        [] x = ".." /\ ~absolute                   -> Append(kept, x)
        [] OTHER                                   -> kept,
      Tail(rest), absolute)

Normalize(segs, absolute) == NormalizeFrom(<<>>, segs, absolute)

Join(dir, rel, absolute) == Normalize(dir \o rel, absolute)

=============================================================================
