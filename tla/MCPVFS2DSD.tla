---------------------------- MODULE MCPVFS2DSD ----------------------------
(* The configurations of the daemon that are checked. *)
EXTENDS PVFS2DSD

C(sizes, degree, subreqSize, packetSizeLimit, smallIO, ridOffset, delays) ==
  [sizes |-> sizes, degree |-> degree, subreqSize |-> subreqSize,
   packetSizeLimit |-> packetSizeLimit, smallIO |-> smallIO,
   ridOffset |-> ridOffset, delays |-> delays]

Of(n, s) == [x \in 1 .. n |-> s]

\* Three exchanges, reads of several sub-requests of several packets; identifiers
\* that wrap; all processing times; more requests than the degree.
MCConfigurations ==
  { C(Of(3, {4, 9}), 9, 4, 3, 1, 5, {}),
    C(Of(2, {1, 4, 6}), 6, 1, 2, 1, 4, {"write_data", "write_metadata"}),
    C(Of(2, {1, 5}), 9, 2, 2, 2, 10, {"write_data", "write_metadata", "read_metadata"}),
    C(Of(2, {1, 5}), 1, 2, 2, 2, 10, {}) }

\* One exchange, no processing times, as in the repository's configurations.
MCSmallWrite == { C(Of(1, {1, 3}), 4, 4, 2, 2, 5, {}) }
============================================================================
