--------------------------- MODULE MCRevisionMapper ---------------------------
(* RevisionMapper for TLC: two commits whose abbreviated names are the same and a  *)
(* third one, revisions with a hole between them, and malformed pairs.             *)
EXTENDS RevisionMapper

CONSTANTS h1, h2, t1, t2

MCDigits7  == {h1, h2}
MCDigits33 == {t1, t2}
MCCall  == ({1, 2, 3} \X {<<h1, t1>>, <<h1, t2>>}) \cup
           {<<3, <<h2, t1>>>>, <<0, <<h2, t1>>>>, <<2, <<h1, NoRest>>>>}
MCSkip  == {2}
MCQuery == {<<h1, t1>>, <<h1, t2>>, <<h2, t2>>, <<h1, NoRest>>, <<h2, NoRest>>}
=============================================================================
