----------------------------- MODULE MCChunker ------------------------------
(* Words that share a chunk of four tokens, one that fills it, and one that *)
(* no chunk has room for.                                                   *)
EXTENDS Chunker
=============================================================================
