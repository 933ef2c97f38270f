---------------------------- MODULE MCPutRecords ----------------------------
(***************************************************************************)
(* Values of the constants of PutRecords for model checking.               *)
(***************************************************************************)
EXTENDS PutRecords

\* Records of which three, two or one fit, one of them only because a call has
\* at least one record.
SeveralSizes == {1, 2, 4}
OneSize == {1}
OneKey == {1}
=============================================================================
