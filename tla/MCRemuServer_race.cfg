CONSTANTS
  r1 = r1
  r2 = r2
  Reqs = {r1, r2}
  Dir <- MCDir
  DirAbsolute = FALSE
  FilePaths <- MCFilePaths
  SubDirs <- MCSubDirs
  Files0 <- MCFilePaths
  HtmlNames = {"a.html"}
  CssNames = {"s.css"}
  Targets <- TargetsReport
  Mutable <- MCMutable
  CssPresent = TRUE
SPECIFICATION Spec
INVARIANT ServerSurvives
