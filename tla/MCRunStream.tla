---------------------------- MODULE MCRunStream ----------------------------
EXTENDS RunStream

=============================================================================
