--------------------------- MODULE MCConfigPersist ---------------------------
(* Instances of ConfigPersist for TLC: the files users start with and the   *)
(* commands they type.                                                      *)
EXTENDS ConfigPersist

\* no file; keys of all outputs and of one in the same text, a comment, a key
\* given twice, a section that comes back, a last line without its newline
StartFiles ==
  {Missing,
   <<Part(Top, <<Pair("fit", "cover"), Pair("color", AutoColor), Pair("fit", "span"), Other>>),
     Part("a", <<Pair("fit", "contain"), Pair("image", "p")>>),
     Part("b", << >>),
     Unended(Part("a", <<Pair("image", Blank)>>))>>}

NoFiles == {Missing}

ImgOutput(n, p) == <<SetStage(n, "image", p)>>
ImgBoth(p, n, q) == <<SetStage(Top, "image", p), SetStage(n, "image", q)>>

AllCommands ==
  {ImgBoth("q", "a", "p"),
   <<SetStage(Top, "fit", "tile")>>, <<SetStage(Top, "color", "red")>>,
   <<ClearStage(Top, {"image", "fit"})>>, <<ClearStage("b", {"blank", "fit"})>>}

OutputCommands ==
  {ImgOutput("a", "p"), ImgOutput("b", "q"), <<ClearStage("a", {"image"})>>}
=============================================================================
