----------------------------- MODULE MCJobPage ------------------------------
\* Two jobs of one owner, who may run one at a time; one of them is watched.
EXTENDS JobPage

=============================================================================
