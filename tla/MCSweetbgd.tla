----------------------------- MODULE MCSweetbgd -----------------------------
(* Instances of Sweetbgd for TLC: the sets of requests, files and faults    *)
(* that each configuration picks from.                                      *)
EXTENDS Sweetbgd

FileFor(image, n, section) ==
  [DefaultConfig EXCEPT !.image = image, !.outputs[n] = section]

Section(image, fit) == [image |-> image, fit |-> fit]

\* no file, a file that does not parse, a default image with an output kept
\* blank
NoConfig == {DefaultConfig}
BlankFiles == {BadConfig} \cup {FileFor("p", n, Section(Blank, Unset)) : n \in Names}

ImgDefault(p) == [default |-> p, overrides |-> << >>]
ImgOver(n, p) == [default |-> Unset, overrides |-> <<[name |-> n, path |-> p]>>]
ImgBoth(p, n, q) == [default |-> p, overrides |-> <<[name |-> n, path |-> q]>>]

DefaultImgs == {ImgDefault(p) : p \in Paths}
OverImgs == {ImgOver(n, p) : n \in Names, p \in Paths}
TwoImgs == {ImgDefault("p")} \cup {ImgBoth("p", n, "q") : n \in Names}

AllReadable == {Paths}
SomeReadable == {Paths, {}}
NoFaults == {{}}
OneFault == {{}, Names}
NoClears == {}
SomeClears == {{"image"}, {"blank", "fit"}}
=============================================================================
