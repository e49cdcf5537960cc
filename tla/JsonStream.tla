----------------------------- MODULE JsonStream -----------------------------
(***************************************************************************)
(* cc_jsmnStream: JSON text written call by call.  The text is a sequence  *)
(* of marks: brackets, separators, and one mark for any name, string or    *)
(* primitive.  The stream keeps a state for each object and array that is  *)
(* open, and an error flag.                                                *)
(***************************************************************************)
EXTENDS CCSeq

CONSTANTS
  MaxDepth,  \* CC_JSMN_STREAM_MAX_DEPTH
  MaxText,   \* bound: the length of a text that is still written to
  MaxErrText \* bound: the same after a call that returned 0

ASSUME StreamAssumption ==
  MaxDepth \in Nat \ {0} /\ MaxText \in Nat /\ MaxErrText \in Nat

VARIABLES
  text,     \* self->buffer
  err,
  depth,
  state,
  asked,    \* ghost: the calls that returned 1, by their marks
  refused   \* ghost: a call returned 0

stream == <<text, err, depth, state, asked, refused>>

Container == {"{", "["}
Scalar == {"string", "primitive"}

\* A state is the type of its value, written as its first mark, and flags.
Blank == [type |-> "undefined", has_key |-> FALSE, has_end |-> FALSE, count |-> 0]
Begun(type) ==
  [type |-> type, has_key |-> FALSE, has_end |-> type \in Scalar, count |-> 0]

StreamInit ==
  /\ text = << >>
  /\ err = FALSE
  /\ depth = 0
  /\ state = [d \in 0..(MaxDepth - 1) |-> Blank]
  /\ asked = << >>
  /\ refused = FALSE

-----------------------------------------------------------------------------
Returns1(m) == asked' = Append(asked, m) /\ UNCHANGED <<err, refused>>
Returns0 == err' = TRUE /\ refused' = TRUE /\ UNCHANGED asked

(* The marks a call writes.  One that cannot be written, for want of memory,
   ends the call; what is left of it in the buffer is never given out. *)
Write(before, m, after) ==
  \/ text' = text \o before \o <<m>> \o after /\ Returns1(m)
  \/ text' = text \o before /\ Returns0

Comma(s) == IF s.count > 0 THEN <<",">> ELSE << >>

\* A value may stand here.  Mutant: an array takes values after its end.
MutantTakes(s) ==
  \/ s.type = "undefined"
  \/ s.type = "{" /\ s.has_key /\ ~s.has_end
  \/ s.type = "["
Takes(s) ==
  \/ s.type = "undefined"
  \/ s.type = "{" /\ s.has_key /\ ~s.has_end
  \/ s.type = "[" /\ ~s.has_end

(* The state a value is added to; a root value has its own. *)
Adding(s, type) ==
  CASE s.type = "undefined" -> Begun(type)
    [] s.type = "{" -> [s EXCEPT !.has_key = FALSE]
    [] OTHER -> [s EXCEPT !.count = @ + 1]

Val(type) ==
  LET s     == state[depth]
      comma == IF s.type = "[" THEN Comma(s) ELSE << >>
      nests == s.type # "undefined" /\ type \in Container
      here  == [state EXCEPT ![depth] = Adding(s, type)]
  IN  \/ /\ ~Takes(s) \/ comma # << >>
         /\ Returns0
         /\ UNCHANGED <<text, depth, state>>
      \/ /\ Takes(s) /\ nests /\ depth + 1 >= MaxDepth
         /\ state' = here
         /\ text' = text \o comma
         /\ Returns0
         /\ UNCHANGED depth
      \/ /\ Takes(s) /\ nests /\ depth + 1 < MaxDepth
         /\ depth' = depth + 1
         /\ state' = [here EXCEPT ![depth + 1] = Begun(type)]
         /\ Write(comma, type, << >>)
      \/ /\ Takes(s) /\ ~nests
         /\ state' = here
         /\ Write(comma, type, << >>)
         /\ UNCHANGED depth

\* A name may stand here, and an object may end.
BetweenNames(s) == s.type = "{" /\ ~s.has_key /\ ~s.has_end

StreamKey ==
  LET s     == state[depth]
      keyed == [s EXCEPT !.has_key = TRUE]
  IN  /\ \/ /\ ~BetweenNames(s)
            /\ Returns0
            /\ UNCHANGED <<text, state>>
         \/ /\ BetweenNames(s) /\ s.count > 0
            /\ state' = [state EXCEPT ![depth] = keyed]
            /\ Returns0
            /\ UNCHANGED text
         \/ /\ BetweenNames(s)
            /\ state' = [state EXCEPT ![depth] = [keyed EXCEPT !.count = @ + 1]]
            /\ Write(Comma(s), "name", <<":">>)
      /\ UNCHANGED depth

Ends(m) ==
  /\ text' = Append(text, m) /\ Returns1(m)
  /\ state' = [state EXCEPT ![depth].has_end = TRUE]
  /\ depth' = IF depth > 0 THEN depth - 1 ELSE depth

End ==
  \/ BetweenNames(state[depth]) /\ Ends("}")
  \/ state[depth].type = "[" /\ ~state[depth].has_end /\ Ends("]")
  \/ Returns0 /\ UNCHANGED <<text, depth, state>>

\* buffer and export give the text out.
Ready ==
  /\ ~err /\ depth = 0
  /\ state[0].type # "undefined" /\ ~state[0].has_key /\ state[0].has_end

Buffer == ~Ready /\ Returns0 /\ UNCHANGED <<text, depth, state>>

StreamNext ==
  /\ Len(text) < IF refused THEN MaxErrText ELSE MaxText
  /\ \/ \E type \in Container \cup Scalar : Val(type)
     \/ StreamKey
     \/ End
     \/ Buffer

StreamSpec == StreamInit /\ [][StreamNext]_stream

-----------------------------------------------------------------------------
(* JSON, mark by mark: what is open, innermost last, and what may come next.
   "first" is a value or the end of an array, "name" or its "firstname" after
   which an object may end, "more" a comma or an end. *)
Start == [open |-> << >>, want |-> "value"]
Bad == [open |-> << >>, want |-> "nothing"]

AfterValue(open) ==
  [open |-> open, want |-> IF open = << >> THEN "end" ELSE "more"]

Inner(p) == p.open[Len(p.open)]
Closed(p) == AfterValue(SubSeq(p.open, 1, Len(p.open) - 1))

Accept(p, m) ==
  CASE p.want \in {"value", "first"} /\ m \in Scalar -> AfterValue(p.open)
    [] p.want \in {"value", "first"} /\ m = "{" ->
         [open |-> Append(p.open, "{"), want |-> "firstname"]
    [] p.want \in {"value", "first"} /\ m = "[" ->
         [open |-> Append(p.open, "["), want |-> "first"]
    [] p.want = "first" /\ m = "]" -> Closed(p)
    [] p.want = "firstname" /\ m = "}" -> Closed(p)
    [] p.want \in {"name", "firstname"} /\ m = "name" ->
         [open |-> p.open, want |-> "colon"]
    [] p.want = "colon" /\ m = ":" -> [open |-> p.open, want |-> "value"]
    [] p.want = "more" /\ m = "," ->
         [open |-> p.open, want |-> IF Inner(p) = "{" THEN "name" ELSE "value"]
    [] p.want = "more" /\ m = "}" /\ Inner(p) = "{" -> Closed(p)
    [] p.want = "more" /\ m = "]" /\ Inner(p) = "[" -> Closed(p)
    [] OTHER -> Bad

Parsed(t) ==
  LET after[n \in 0..Len(t)] ==
        IF n = 0 THEN Start ELSE Accept(after[n - 1], t[n])
  IN  after[Len(t)]

Separator == {",", ":"}
Mark == Container \cup {"}", "]", "name"} \cup Scalar \cup Separator

(* What the stream's states say of the text. *)
Wanted(s) ==
  IF s.type = "undefined" \/ s.has_key THEN "value"
  ELSE IF s.has_end THEN "end"
  ELSE IF s.count > 0 THEN "more"
  ELSE IF s.type = "{" THEN "firstname" ELSE "first"

Expected ==
  LET s == state[depth]
  IN  [open |-> IF s.type \in Container /\ ~s.has_end
                THEN [d \in 1..(depth + 1) |-> state[d - 1].type] ELSE << >>,
       want |-> Wanted(s)]

(* In whatever order its calls are made, a stream without an error holds the
   beginning of a JSON text, and its states say how to go on; what it gives out
   is a whole text, with the marks of the calls in their order, and nothing is
   given out once a call has failed (cc_jsmnStream.c:126, :187, :284). *)
TextOK ==
  /\ ~err => Parsed(text) = Expected
  /\ Ready => /\ Parsed(text) = [open |-> << >>, want |-> "end"]
              /\ Keep(text, Mark \ Separator) = asked
              /\ ~refused

=============================================================================
