--------------------------- MODULE MCPVFS2Client ---------------------------
(* The files and the configurations of the client that are checked. *)
EXTENDS PVFS2Client, TLC

\* One round of a layout divides a window of 6, except for file f, whose round is 5;
\* files d and e share two servers.
MCFiles   == {"a", "b", "c", "d", "e", "f"}
MCStripes == "a" :> <<2, 1>> @@ "b" :> <<1, 2, 3>> @@ "c" :> <<2>>
             @@ "d" :> <<3, 3>> @@ "e" :> <<3, 3>> @@ "f" :> <<2, 3>>

C(files, offsets, lengths, flows, requests) ==
  [files |-> files, offsets |-> offsets, lengths |-> lengths,
   flows |-> flows, requests |-> requests]

\* One request of any offset and length, up to three windows of whole rounds; one of
\* one window that is no whole number of rounds; two requests one after the other;
\* two requests at a time, in one window or two, on the same file or not; three of
\* two flows; and two at a time, of which one takes more exchanges than there are
\* identifiers.
MCConfigurations ==
  { C({"a", "b", "c"}, {0, 1, 2, 3, 5, 7}, {1, 2, 4, 6, 7, 13}, 1, 1),
    C({"f"}, {0, 1, 2, 4, 7}, {1, 3, 5, 6}, 1, 1),
    C({"b", "d"}, {1}, {6, 13}, 1, 2),
    C({"d", "e"}, {3}, {6, 9}, 2, 2),
    C({"d", "e"}, {3}, {6}, 2, 3),
    C({"c", "e"}, {0}, {2, 18}, 2, 2) }

MCSameFile == { C({"d"}, {3}, {6, 9}, 2, 2) }

\* A request of two windows, of one round and a fifth each.
MCOddRound == { C({"f"}, {0, 3}, {7, 9, 12}, 1, 1) }
=============================================================================
