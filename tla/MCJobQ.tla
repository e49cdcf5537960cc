------------------------------- MODULE MCJobQ -------------------------------
(* Small instances of JobQ for TLC. *)
EXTENDS JobQ

\* A thread's share of a constant: main's, another client's or a worker's.
ForThread(main, help, work) ==
  [p \in Thread |-> IF p = Main THEN main
                    ELSE IF p \in Client THEN help ELSE work]

\* Every thread does all it may.
SharedCalls == ForThread(Function, Function \ {"delete"}, {"run"})

=============================================================================
