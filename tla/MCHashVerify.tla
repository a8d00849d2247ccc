---------------------------- MODULE MCHashVerify ----------------------------
EXTENDS HashVerify
=============================================================================
