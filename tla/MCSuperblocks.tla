---------------------------- MODULE MCSuperblocks ----------------------------
(***************************************************************************)
(* Volumes of two and three devices.  A small device ends before its       *)
(* second or third copy; a commit may have been interrupted between two    *)
(* copies or two devices; copies may be damaged or unreadable, and devices *)
(* may be of another volume, given twice, or disagree on their number.     *)
(***************************************************************************)
EXTENDS Superblocks

Copy(g, dev, fs, num) ==
    CASE g = "short" -> Short
      [] g = "unreadable" -> Unreadable
      [] g = "damaged" ->
            [valid |-> FALSE, device |-> dev, fsUUID |-> fs, generation |-> 9,
             numDevices |-> num]
      [] OTHER ->
            [valid |-> TRUE, device |-> dev, fsUUID |-> fs, numDevices |-> num,
             generation |-> IF g = "old" THEN 1 ELSE IF g = "new" THEN 2 ELSE 3]

Device(p, dev, fs, num) == [c \in Copies |-> Copy(p[c], dev, fs, num)]

Few == {<<"old", "short", "short", "short">>, <<"new", "old", "short", "short">>,
        <<"new", "new", "new", "short">>, <<"old", "old", "new", "newest">>,
        <<"short", "short", "short", "short">>}

Many == Few
    \cup {<<a, b, "short", "short">> :
            a, b \in {"old", "new", "damaged", "unreadable"}}
    \cup {<<"old", a, b, "newest">> : a, b \in {"old", "new", "unreadable"}}

Pairs == {<<Device(p, "d1", "fs", 2), Device(q, d, "fs", 2)>> :
             p \in Many, q \in Many, d \in {"d1", "d2"}}
Triples == {<<Device(p, "d1", "fs", 3), Device(q, "d2", "fs", 3),
              Device(r, "d3", "fs", 3)>> : p \in Few, q \in Few, r \in Few}
Others == {<<Device(p, "d1", "fs", m), Device(q, "d2", fs, n)>> :
             p \in Few, q \in Few, m \in {1, 2, 3}, n \in {2, 3},
             fs \in {"fs", "other"}}

MCDeviceLists == Pairs \cup Triples \cup Others

=============================================================================
