------------------------------- MODULE MCJson -------------------------------
(* A small instance of Json for TLC. *)
EXTENDS Json

Tok(t, n) == [type |-> t, size |-> n]

\* No JSON; {1:2}; {"a"}; [{"a":1,"b":[]}].
ForeignTokens ==
  {<< >>,
   <<Tok("{", 1), Tok("primitive", 1), Tok("primitive", 0)>>,
   <<Tok("{", 1), Tok("string", 0)>>,
   <<Tok("[", 1), Tok("{", 2), Tok("string", 1), Tok("primitive", 0),
     Tok("string", 1), Tok("[", 0)>>}

=============================================================================
