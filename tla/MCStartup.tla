----------------------------- MODULE MCStartup -----------------------------
(***************************************************************************)
(* Every list of devices of MCSuperblocks with plain arguments; and a good *)
(* volume with every way to ask for a subvolume, and to press Ctrl+C.      *)
(***************************************************************************)
EXTENDS Startup, MCSuperblocks

Path == [opt |-> "path"]
NoDump == [opt |-> "no-dump"]
DumpOnly == [opt |-> "dump-only"]
ByName(n) == [opt |-> "subvol", value |-> "ok", subvol |-> n]
ByID(id) == [opt |-> "subvol-id", value |-> "ok", subvol |-> id]

TreeItem(id, type, off, n, c) ==
    [objectID |-> id, type |-> type, offset |-> off, name |-> n, child |-> c]

(* Two subvolumes "sub", one in the other, "default", and one that has     *)
(* been deleted and not yet cleaned up.                                    *)
Tree(default) ==
    <<TreeItem(5, "ROOT_ITEM", 0, "", 0),
      TreeItem(5, "ROOT_REF", 256, "sub", 0),
      TreeItem(5, "ROOT_REF", 258, "default", 0),
      TreeItem(6, "DIR_ITEM", 1, "default", default),
      TreeItem(256, "ROOT_ITEM", 0, "", 0),
      TreeItem(256, "ROOT_BACKREF", 5, "sub", 0),
      TreeItem(256, "ROOT_REF", 257, "sub", 0),
      TreeItem(257, "ROOT_ITEM", 0, "", 0),
      TreeItem(257, "ROOT_BACKREF", 256, "sub", 0),
      TreeItem(258, "ROOT_ITEM", 0, "", 0),
      TreeItem(258, "ROOT_BACKREF", 5, "default", 0),
      TreeItem(259, "ROOT_ITEM", 0, "", 0)>>

Plain == <<TreeItem(5, "ROOT_ITEM", 0, "", 0)>>

Arguments(n) ==
    LET paths == [k \in 1 .. n + 1 |-> Path]
    IN  {<<>>, <<Path, NoDump>>, <<NoDump, DumpOnly>> \o paths,
         <<[opt |-> "unknown"]>> \o paths,
         <<[opt |-> "subvol", value |-> "missing"]>> \o paths,
         <<[opt |-> "subvol-id", value |-> "bad"]>> \o paths,
         <<ByName("sub")>> \o paths \o <<ByID(256)>>,
         paths, <<DumpOnly>> \o paths, paths \o <<NoDump>>}
        \cup {<<NoDump>> \o paths \o <<ByName(x)>> :
                 x \in {"sub", "default", "absent"}}
        \cup {<<ByID(x)>> \o paths :
                 x \in {-300, -256, -255, -1, 0, 1, 5, 255, 256, 257, 259, 300}}

Good(n) == [k \in 1 .. n |->
              Device(<<"new", "old", "short", "short">>, <<"d1", "d2">>[k], "fs", n)]

MCStarts ==
    {[args |-> <<NoDump>> \o [k \in 1 .. Len(d) + 1 |-> Path], devices |-> d,
      rootTree |-> Tree(5), ctrlC |-> FALSE] : d \in MCDeviceLists}
    \cup UNION {{[args |-> a, devices |-> Good(n), rootTree |-> t, ctrlC |-> TRUE] :
                    a \in Arguments(n), t \in {Tree(5), Tree(257), Plain}} :
                 n \in 1 .. 2}

MCDevices == {s.devices : s \in MCStarts}

=============================================================================
