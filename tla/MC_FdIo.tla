------------------------------ MODULE MC_FdIo ------------------------------
EXTENDS FdIo, TLC

\* O_RDONLY, O_RDWR, O_WRONLY|O_APPEND, O_RDWR|O_TRUNC and
\* O_WRONLY|O_TRUNC|O_APPEND.
MCOpenFlagSets ==
  { {}, {"RDWR"}, {"WRONLY", "APPEND"}, {"RDWR", "TRUNC"},
    {"WRONLY", "TRUNC", "APPEND"} }

MCSymmetry == Permutations(Handles)

=============================================================================
