------------------------------ MODULE MCReorder ------------------------------
\* The instances of Reorder that TLC checks; the values are in the cfg files.
EXTENDS Reorder

=============================================================================
