------------------------------ MODULE MCPscRecv -------------------------------
(* PscRecv with headers of two bytes, a buffer of three and chunks of two:  *)
(* bodies that are empty, fit, just do not fit and need several chunks.     *)
EXTENDS PscRecv

BodyLens  == {0, 2, 3, 4, 7, 8}
HeadBody  == {"head", "body", "last"}
SkipReads == {"skip"}

=============================================================================
