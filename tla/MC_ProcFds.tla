----------------------------- MODULE MC_ProcFds -----------------------------
(***************************************************************************)
(* Model values for ProcFds: a root-only file, a directory anyone may      *)
(* write, and a path that does not exist yet.                              *)
(***************************************************************************)
EXTENDS ProcFds, TLC

\* 0644, 0600 and 0777 as owner / other read-write bits.
M644 == [own |-> {"r", "w"}, oth |-> {"r"}]
M600 == [own |-> {"r", "w"}, oth |-> {}]
M777 == [own |-> {"r", "w"}, oth |-> {"r", "w"}]

MCInitFiles ==
  [path \in {"secret", "tmp", "new"} |->
     CASE path = "secret" -> [exists |-> TRUE,  dir |-> FALSE, uid |-> 0, mask |-> M600]
       [] path = "tmp"    -> [exists |-> TRUE,  dir |-> TRUE,  uid |-> 0, mask |-> M777]
       [] path = "new"    -> [exists |-> FALSE, dir |-> FALSE, uid |-> 0, mask |-> M600]]

MCPaths == DOMAIN MCInitFiles

\* O_RDONLY, O_WRONLY, O_RDWR|O_CREAT, O_CREAT|O_EXCL, O_CREAT|O_TRUNC,
\* O_DIRECTORY.
MCOpenFlagSets ==
  { {}, {"WRONLY"}, {"RDWR", "CREAT"}, {"CREAT", "EXCL"}, {"CREAT", "TRUNC"},
    {"DIRECTORY"} }

MCCreateModes == {M644}

\* Handles are interchangeable fs_node_t objects.
MCSymmetry == Permutations(Handles)

=============================================================================
