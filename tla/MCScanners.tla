----------------------------- MODULE MCScanners -----------------------------
(* TLC instance of Scanners. *)
EXTENDS Scanners

MCLetters  == {"a"}
MCSpecials == {"|", "&", ">", "<"}
MCQuotes   == {"\"", "'"}
=============================================================================
