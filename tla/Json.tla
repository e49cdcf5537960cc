-------------------------------- MODULE Json --------------------------------
(***************************************************************************)
(* The stream and the wrapper one after the other: a text is written, and  *)
(* when the stream gives it out it is parsed and read into a tree; or a    *)
(* text from elsewhere is read.  Between them is jsmn, which is no part of *)
(* libcc.                                                                  *)
(***************************************************************************)
EXTENDS JsonStream, JsonTree

CONSTANTS
  Foreign   \* tokens jsmn makes of texts from elsewhere

vars == <<stream, reader>>

Init == StreamInit /\ ReaderInit

-----------------------------------------------------------------------------
(* jsmn: a token for each bracket that opens and for each name, string and
   primitive, in the order of the text.  A bracket counts its children, the
   names in an object and the values in an array; a name has its value. *)
Token(m) ==
  IF m = "name" THEN [type |-> "string", size |-> 1] ELSE [type |-> m, size |-> 0]

Counted(s, m) ==
  LET inner == Last(s.open)
  IN  IF s.open # << >> /\ (m = "name" \/ s.tokens[inner].type = "[")
      THEN [s.tokens EXCEPT ![inner].size = @ + 1] ELSE s.tokens

Scan(s, m) ==
  CASE m \in {"}", "]"} -> [s EXCEPT !.open = Front(@)]
    [] OTHER -> [tokens |-> Append(Counted(s, m), Token(m)),
                 open   |-> IF m \in Container
                            THEN Append(s.open, Len(s.tokens) + 1) ELSE s.open]

\* The tokens after each of the marks, and which of them are brackets still open.
Scanned(marks) ==
  LET after[n \in 0..Len(marks)] ==
        IF n = 0 THEN [tokens |-> << >>, open |-> << >>]
        ELSE Scan(after[n - 1], marks[n])
  IN  after

\* Commas and colons make no token.
Tokens(t) ==
  LET marks == Keep(t, Mark \ Separator)
  IN  Scanned(marks)[Len(marks)].tokens

-----------------------------------------------------------------------------
WriteStep == outcome = "none" /\ StreamNext /\ UNCHANGED reader
Read == Ready /\ Import(Tokens(text)) /\ UNCHANGED stream
ReadForeign == text = << >> /\ ~refused /\ (\E t \in Foreign : Import(t)) /\ UNCHANGED stream
ReadStep == ReaderNext /\ UNCHANGED stream

\* The stream is deleted and a new one made.
Renew ==
  /\ outcome = "none" /\ text # << >>
  /\ text' = << >> /\ asked' = << >>
  /\ err' = FALSE /\ refused' = FALSE
  /\ depth' = 0
  /\ state' = [d \in 0..(MaxDepth - 1) |-> Blank]
  /\ UNCHANGED reader

Next == WriteStep \/ Read \/ ReadForeign \/ ReadStep \/ Renew

Spec == Init /\ [][Next]_vars

-----------------------------------------------------------------------------
(* The tree that calls of the stream mean, call by call: where the next value
   goes, and what the values so far are made of.  A value is an item of what it
   is in once it is whole. *)
Sibling(p) == IF p = << >> THEN p ELSE [p EXCEPT ![Len(p)] = @ + 1]

Onto(p, m) ==
  CASE m \in Container -> Append(p, 1)
    [] m \in Scalar -> Sibling(p)
    [] m = "name" -> p
    [] OTHER -> Sibling(Front(p))

Item(p) == IF p = << >> THEN {} ELSE {<<"item", p>>}

Adds(p, m) ==
  CASE m \in Container -> {<<"val", p>>, <<m, p>>, <<"list", p>>}
    [] m \in Scalar -> {<<"val", p>>, <<m, p>>} \cup Item(p)
    [] m = "name" -> {<<"keyval", p>>, <<"name", p>>}
    [] OTHER -> Item(Front(p))

Grow(s, m) == [at |-> Onto(s.at, m), tree |-> s.tree \cup Adds(s.at, m)]

Grown(marks) ==
  LET after[n \in 0..Len(marks)] ==
        IF n = 0 THEN [at |-> << >>, tree |-> {}] ELSE Grow(after[n - 1], marks[n])
  IN  after

TreeOf(marks) == Grown(marks)[Len(marks)].tree

(* What a client writes into a stream it reads back: the tree built from the
   text has the objects, arrays, names and values of the calls, in their order
   and as they were nested, and nothing else (cc_jsmnStream.c:167,
   cc_jsmnWrapper.c:220). *)
RoundTrip ==
  outcome = "tree" /\ Ready /\ tokens = Tokens(text) => heap = TreeOf(asked)

=============================================================================
