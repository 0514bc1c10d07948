---------------------- MODULE MCReliableTranscoder -------------------------
(***************************************************************************)
(* Values under which TLC checks ReliableTranscoder: an index space small  *)
(* enough to wrap within a behaviour, starting just before the wrap as the *)
(* code's 65500 does.                                                      *)
(***************************************************************************)
EXTENDS ReliableTranscoder

MCModulus == 9
MCFirstIndex == 7
MCMaxMessages == 7
=============================================================================
