------------------------------ MODULE MCCorpus ------------------------------
(* One byte of the map shows two hit counts, the other only one.            *)
EXTENDS Corpus

MCMaxCount == <<2, 1>>
=============================================================================
