---------------------------- MODULE MCRegexQueue ----------------------------
\* The instances of RegexQueue that TLC checks; the values are in the cfg files.
EXTENDS RegexQueue

=============================================================================
