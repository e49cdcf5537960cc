----------------------------- MODULE JsonProofs -----------------------------
(***************************************************************************)
(* Theorems about Json, for any depth of the stream, any bounds and any    *)
(* tokens.                                                                 *)
(***************************************************************************)
EXTENDS Json, CCSeqLemmas

-----------------------------------------------------------------------------
(* Parsing, mark by mark. *)

Wants == {"value", "first", "firstname", "name", "colon", "more", "end", "nothing"}
Point == [open : Seq(Container), want : Wants]

LEMMA AcceptTyped ==
  ASSUME NEW p \in Point, NEW m
  PROVE  Accept(p, m) \in Point
<1>1. p.open \in Seq(Container) /\ p.want \in Wants
  BY DEF Point
<1>2. \A open \in Seq(Container) : AfterValue(open) \in Point
  BY DEF AfterValue, Point, Wants
<1>3. SubSeq(p.open, 1, Len(p.open) - 1) \in Seq(Container)
  BY <1>1
<1>4. Closed(p) \in Point
  BY <1>2, <1>3 DEF Closed
<1>5. Append(p.open, "{") \in Seq(Container) /\ Append(p.open, "[") \in Seq(Container)
  <2>1. "{" \in Container /\ "[" \in Container
    BY DEF Container
  <2>2. \A open \in Seq(Container), x \in Container : Append(open, x) \in Seq(Container)
    OBVIOUS
  <2> QED
    BY <1>1, <2>1, <2>2
<1>6. \A open \in Seq(Container), want \in Wants : [open |-> open, want |-> want] \in Point
  BY DEF Point
<1>7. Bad \in Point
  BY DEF Bad, Point, Wants
<1>8. {"firstname", "first", "colon", "value", "name"} \subseteq Wants
  BY DEF Wants
<1> DEFINE a == AfterValue(p.open)
           b == [open |-> Append(p.open, "{"), want |-> "firstname"]
           c == [open |-> Append(p.open, "["), want |-> "first"]
           d == Closed(p)
           e == [open |-> p.open, want |-> "colon"]
           f == [open |-> p.open, want |-> "value"]
           g == [open |-> p.open, want |-> IF Inner(p) = "{" THEN "name" ELSE "value"]
<1>9. /\ a \in Point /\ b \in Point /\ c \in Point /\ d \in Point
      /\ e \in Point /\ f \in Point /\ g \in Point
  BY <1>1, <1>2, <1>4, <1>5, <1>6, <1>8
<1>10. Accept(p, m) \in {a, b, c, d, e, f, g, Bad}
  BY DEF Accept
<1> HIDE DEF a, b, c, d, e, f, g
<1> QED
  BY <1>7, <1>9, <1>10

Parses(t, f) ==
  /\ f \in [0..Len(t) -> Point]
  /\ f[0] = Start
  /\ \A i \in 1..Len(t) : f[i] = Accept(f[i - 1], t[i])
  /\ Parsed(t) = f[Len(t)]

LEMMA ParsedUnfolds ==
  ASSUME NEW T, NEW t \in Seq(T)
  PROVE  \E f : Parses(t, f)
<1> DEFINE N == Len(t)
           step == [x \in (1..N) \X Point |-> Accept(x[2], t[x[1]])]
           f == CHOOSE after : after = [n \in 0..N |->
                  IF n = 0 THEN Start ELSE Accept(after[n - 1], t[n])]
<1>1. N \in Nat
  OBVIOUS
<1>2. Start \in Point
  BY DEF Start, Point, Wants
<1>3. \A x \in (1..N) \X Point : Accept(x[2], t[x[1]]) \in Point
  BY AcceptTyped
<1>4. IsStep(step, N, Point)
  BY <1>3 DEF IsStep
<1>5. \A i \in 1..N, p \in Point : step[<<i, p>>] = Accept(p, t[i])
  OBVIOUS
<1>6. Parsed(t) = f[N]
  BY Zenon DEF Parsed
<1> HIDE DEF N, step, f
<1>7. PICK g : Unrolls(g, N, Point, Start, step)
  BY <1>1, <1>2, <1>4, RecursionUpTo
<1>8. g \in [0..N -> Point] /\ g[0] = Start /\ \A i \in 1..N : g[i] = Accept(g[i - 1], t[i])
  <2>1. g \in [0..N -> Point] /\ g[0] = Start
        /\ \A i \in 1..N : g[i] = step[<<i, g[i - 1]>>]
    BY <1>7 DEF Unrolls
  <2>2. \A i \in 1..N : g[i - 1] \in Point
    BY <1>1, <2>1
  <2> QED
    BY <1>5, <2>1, <2>2
<1>9. g = [n \in 0..N |-> IF n = 0 THEN Start ELSE Accept(g[n - 1], t[n])]
  <2>1. \A n \in 0..N : g[n] = IF n = 0 THEN Start ELSE Accept(g[n - 1], t[n])
    BY <1>1, <1>8
  <2> QED
    BY <1>8, <2>1
<1>10. f = [n \in 0..N |-> IF n = 0 THEN Start ELSE Accept(f[n - 1], t[n])]
  BY <1>9, Zenon DEF f
<1>11. \A n \in 0..N : f[n] = IF n = 0 THEN Start ELSE Accept(f[n - 1], t[n])
  BY <1>10, Zenon
<1>12. f[0] = Start
  BY <1>1, <1>11
<1>13. \A i \in 1..N : f[i] = Accept(f[i - 1], t[i])
  BY <1>1, <1>11
<1>14. f \in [0..N -> Point]
  <2> DEFINE D == {n \in 0..N : f[n] \in Point}
  <2>1. 0 \in D
    BY <1>1, <1>2, <1>12
  <2>2. \A n \in 0..(N - 1) : n \in D => n + 1 \in D
    BY <1>1, <1>13, AcceptTyped
  <2> HIDE DEF D
  <2>3. 0..N \subseteq D
    BY <1>1, <2>1, <2>2, InductionUpTo
  <2>4. \A n \in 0..N : f[n] \in Point
    BY <2>3 DEF D
  <2>5. DOMAIN f = 0..N /\ f = [n \in 0..N |-> f[n]]
    BY <1>10
  <2> QED
    BY <2>4, <2>5
<1> QED
  BY <1>6, <1>12, <1>13, <1>14 DEF Parses, N

LEMMA ParsedEmpty == Parsed(<< >>) = Start
<1> DEFINE e == << >>
<1>0. e \in Seq({}) /\ Len(e) = 0
  OBVIOUS
<1> HIDE DEF e
<1>1. PICK f : Parses(e, f)
  BY <1>0, ParsedUnfolds
<1>2. Parsed(e) = Start
  BY <1>0, <1>1 DEF Parses
<1> QED
  BY <1>2 DEF e

LEMMA ParsedTyped ==
  ASSUME NEW T, NEW t \in Seq(T)
  PROVE  Parsed(t) \in Point
<1>1. PICK f : Parses(t, f)
  BY ParsedUnfolds
<1> QED
  BY <1>1 DEF Parses

LEMMA ParsedAppend ==
  ASSUME NEW T, NEW t \in Seq(T), NEW m \in T
  PROVE  Parsed(Append(t, m)) = Accept(Parsed(t), m)
<1> DEFINE u == Append(t, m)
           N == Len(t)
<1>1. /\ u \in Seq(T) /\ N \in Nat /\ Len(u) = N + 1 /\ u[N + 1] = m
      /\ \A i \in 1..N : u[i] = t[i]
  OBVIOUS
<1>2. PICK f : Parses(t, f)
  BY ParsedUnfolds
<1>3. PICK g : Parses(u, g)
  BY <1>1, ParsedUnfolds
<1> HIDE DEF u
<1> DEFINE D == {n \in 0..N : g[n] = f[n]}
<1>4. 0 \in D
  BY <1>1, <1>2, <1>3 DEF Parses
<1>5. ASSUME NEW n \in 0..(N - 1), n \in D PROVE n + 1 \in D
  <2>1. n + 1 \in 1..N /\ n + 1 \in 1..Len(u) /\ n + 1 - 1 = n
    BY <1>1
  <2>2. f[n + 1] = Accept(f[n], t[n + 1])
    BY <1>2, <2>1 DEF Parses
  <2>3. g[n + 1] = Accept(g[n], u[n + 1])
    BY <1>3, <2>1 DEF Parses
  <2> QED
    BY <1>1, <1>5, <2>1, <2>2, <2>3
<1>6. 0..N \subseteq D
  <2> HIDE DEF D, N
  <2> QED
    BY <1>1, <1>4, <1>5, InductionUpTo
<1>7. g[N] = f[N]
  BY <1>1, <1>6
<1>8. g[N + 1] = Accept(g[N], u[N + 1])
  <2> DEFINE M == N + 1
  <2>1. M \in 1..Len(u) /\ M - 1 = N
    BY <1>1
  <2> HIDE DEF N, M
  <2>2. g[M] = Accept(g[M - 1], u[M])
    BY <1>3, <2>1 DEF Parses
  <2> QED
    BY <2>1, <2>2 DEF M
<1>9. Parsed(t) = f[N] /\ Parsed(u) = g[N + 1]
  BY <1>1, <1>2, <1>3 DEF Parses
<1> QED
  BY <1>1, <1>7, <1>8, <1>9 DEF u

-----------------------------------------------------------------------------
(* What is kept of a text that grows. *)

LEMMA KeepOfNone ==
  ASSUME NEW S
  PROVE  Keep(<< >>, S) = << >>
<1> DEFINE e == << >>
<1>0. e \in Seq({}) /\ Len(e) = 0
  OBVIOUS
<1> HIDE DEF e
<1>1. PICK f : KeepSteps(e, S, f)
  BY <1>0, KeepUnfolds
<1>2. Keep(e, S) = << >>
  BY <1>0, <1>1 DEF KeepSteps
<1> QED
  BY <1>2 DEF e

LEMMA KeepAppend ==
  ASSUME NEW T, NEW t \in Seq(T), NEW m \in T, NEW S
  PROVE  Keep(Append(t, m), S)
           = IF m \in S THEN Append(Keep(t, S), m) ELSE Keep(t, S)
<1> DEFINE u == Append(t, m)
           N == Len(t)
<1>1. /\ u \in Seq(T) /\ N \in Nat /\ Len(u) = N + 1 /\ u[N + 1] = m
      /\ \A i \in 1..N : u[i] = t[i]
  OBVIOUS
<1>2. PICK f : KeepSteps(t, S, f)
  BY KeepUnfolds
<1>3. PICK g : KeepSteps(u, S, g)
  BY <1>1, KeepUnfolds
<1> HIDE DEF u
<1>4. /\ f[0] = << >> /\ Keep(t, S) = f[N]
      /\ \A n \in 0..(N - 1) :
           f[n + 1] = IF t[n + 1] \in S THEN Append(f[n], t[n + 1]) ELSE f[n]
  BY <1>2 DEF KeepSteps
<1>5. /\ g[0] = << >> /\ Keep(u, S) = g[N + 1]
      /\ \A n \in 0..N :
           g[n + 1] = IF u[n + 1] \in S THEN Append(g[n], u[n + 1]) ELSE g[n]
  BY <1>1, <1>3 DEF KeepSteps
<1> DEFINE D == {n \in 0..N : g[n] = f[n]}
<1>6. 0 \in D
  BY <1>1, <1>4, <1>5
<1>7. ASSUME NEW n \in 0..(N - 1), n \in D PROVE n + 1 \in D
  <2>1. n + 1 \in 1..N /\ n \in 0..N
    BY <1>1
  <2> QED
    BY <1>1, <1>4, <1>5, <1>7, <2>1
<1>8. 0..N \subseteq D
  <2> HIDE DEF D, N
  <2> QED
    BY <1>1, <1>6, <1>7, InductionUpTo
<1>9. g[N] = f[N]
  BY <1>1, <1>8
<1>10. g[N + 1] = IF u[N + 1] \in S THEN Append(g[N], u[N + 1]) ELSE g[N]
  BY <1>1, <1>5
<1> QED
  BY <1>1, <1>4, <1>5, <1>9, <1>10 DEF u

-----------------------------------------------------------------------------
(* What the grammar makes of each mark. *)

LEMMA AcceptScalar ==
  ASSUME NEW p, p.want \in {"value", "first"}, NEW m \in Scalar
  PROVE  Accept(p, m) = AfterValue(p.open)
BY DEF Accept, Scalar

\* What comes first in a bracket.
FirstIn(m) == IF m = "{" THEN "firstname" ELSE "first"

LEMMA AcceptContainer ==
  ASSUME NEW p, p.want \in {"value", "first"}, NEW m \in Container
  PROVE  Accept(p, m) = [open |-> Append(p.open, m),
                         want |-> FirstIn(m)]
BY DEF FirstIn, Accept, Container, Scalar

LEMMA AcceptComma ==
  ASSUME NEW p, p.want = "more"
  PROVE  Accept(p, ",") = [open |-> p.open,
                           want |-> IF Inner(p) = "{" THEN "name" ELSE "value"]
BY DEF Accept, Scalar

LEMMA AcceptName ==
  ASSUME NEW p, p.want \in {"name", "firstname"}
  PROVE  Accept(p, "name") = [open |-> p.open, want |-> "colon"]
BY DEF Accept, Scalar

LEMMA AcceptColon ==
  ASSUME NEW p, p.want = "colon"
  PROVE  Accept(p, ":") = [open |-> p.open, want |-> "value"]
BY DEF Accept, Scalar

LEMMA AcceptEnd ==
  ASSUME NEW p, NEW m,
         \/ m = "}" /\ (p.want = "firstname" \/ (p.want = "more" /\ Inner(p) = "{"))
         \/ m = "]" /\ (p.want = "first" \/ (p.want = "more" /\ Inner(p) = "["))
  PROVE  Accept(p, m) = Closed(p)
BY DEF Accept, Scalar

-----------------------------------------------------------------------------
(* The states of a stream that has not failed: the levels below the current one
   are objects and arrays that wait for the value above them. *)

State == [type : {"undefined"} \cup Container \cup Scalar, has_key : BOOLEAN,
          has_end : BOOLEAN, count : Nat]

\* A state that has opened a bracket.
Opened(s) == s.type \in Container /\ ~s.has_end

\* A level below the current one.
Below(s) == s.type \in Container /\ ~s.has_end /\ ~s.has_key /\ s.count > 0

Current(s) ==
  /\ s.type = "undefined" => s = Blank
  /\ s.type \in Scalar => s.has_end /\ ~s.has_key
  /\ s.has_key => s.type = "{" /\ ~s.has_end /\ s.count > 0

Shaped(st, d) ==
  /\ d \in 0..(MaxDepth - 1)
  /\ st \in [0..(MaxDepth - 1) -> State]
  /\ \A e \in 0..(d - 1) : Below(st[e])
  /\ Current(st[d])
  /\ d > 0 => Opened(st[d])

Opens(st, d) == [e \in 1..(d + 1) |-> st[e - 1].type]

Says(st, d) ==
  [open |-> IF Opened(st[d]) THEN Opens(st, d) ELSE << >>, want |-> Wanted(st[d])]

LEMMA ExpectedSays == Expected = Says(state, depth) /\ Expected' = Says(state', depth')
BY DEF Expected, Says, Opened, Opens

\* Which mark a state waits for.
LEMMA WantedIs ==
  ASSUME NEW s \in State, Current(s)
  PROVE  /\ s.type = "undefined" \/ s.has_key => Wanted(s) = "value"
         /\ s.type # "undefined" /\ s.has_end => Wanted(s) = "end"
         /\ Opened(s) /\ ~s.has_key /\ s.count > 0 => Wanted(s) = "more"
         /\ Opened(s) /\ ~s.has_key /\ s.count = 0 =>
              Wanted(s) = IF s.type = "{" THEN "firstname" ELSE "first"
<1>1. s.type = "undefined" \/ s.has_key => Wanted(s) = "value"
  BY Zenon DEF Wanted
<1>2. s.type # "undefined" /\ s.has_end => Wanted(s) = "end"
  <2>1. s.has_end => ~s.has_key
    BY Zenon DEF Current
  <2> QED
    BY <2>1, Zenon DEF Wanted
<1>3. Opened(s) => s.type # "undefined" /\ ~s.has_end
  <2>1. s.type \in Container => s.type # "undefined"
    BY DEF Container
  <2> QED
    BY <2>1, Zenon DEF Opened
<1>4. s.count = 0 => ~(s.count > 0)
  OBVIOUS
<1>5. Opened(s) /\ ~s.has_key /\ s.count > 0 => Wanted(s) = "more"
  BY <1>3, Zenon DEF Wanted
<1>6. Opened(s) /\ ~s.has_key /\ s.count = 0 =>
        Wanted(s) = IF s.type = "{" THEN "firstname" ELSE "first"
  BY <1>3, <1>4, Zenon DEF Wanted
<1> QED
  BY <1>1, <1>2, <1>5, <1>6

LEMMA BlankIs ==
  /\ Blank \in State
  /\ Blank.type = "undefined" /\ ~Blank.has_key /\ ~Blank.has_end /\ Blank.count = 0
  /\ \A type \in Container \cup Scalar :
       /\ Begun(type) \in State /\ Begun(type).type = type
       /\ ~Begun(type).has_key /\ Begun(type).count = 0
       /\ Begun(type).has_end <=> type \in Scalar
       /\ Current(Begun(type))
<1>1. Blank \in State
  BY DEF Blank, State
<1>2. ASSUME NEW type \in Container \cup Scalar
      PROVE  /\ Begun(type) \in State /\ Begun(type).type = type
             /\ ~Begun(type).has_key /\ Begun(type).count = 0
             /\ Begun(type).has_end <=> type \in Scalar
  <2> DEFINE ends == type \in Scalar
  <2>1. ends \in BOOLEAN
    OBVIOUS
  <2>2. Begun(type) = [type |-> type, has_key |-> FALSE, has_end |-> ends, count |-> 0]
    BY Zenon DEF Begun
  <2> HIDE DEF ends
  <2>3. Begun(type) \in State
    BY <2>1, <2>2 DEF State
  <2>4. /\ Begun(type).type = type /\ ~Begun(type).has_key /\ Begun(type).count = 0
        /\ Begun(type).has_end = ends
    BY <2>2
  <2> QED
    BY <2>3, <2>4 DEF ends
<1>3. ASSUME NEW type \in Container \cup Scalar PROVE Current(Begun(type))
  <2>1. type # "undefined"
    BY DEF Container, Scalar
  <2> QED
    BY <1>2, <2>1 DEF Current
<1> QED
  BY <1>1, <1>2, <1>3 DEF Blank

LEMMA OpensIs ==
  ASSUME NEW st, NEW d, Shaped(st, d), Opened(st[d])
  PROVE  /\ Opens(st, d) \in Seq(Container)
         /\ Len(Opens(st, d)) = d + 1
         /\ Opens(st, d) # << >>
         /\ Opens(st, d)[d + 1] = st[d].type
         /\ \A e \in 1..(d + 1) : Opens(st, d)[e] = st[e - 1].type
<1>1. d \in Nat /\ d + 1 \in Nat
  BY StreamAssumption DEF Shaped
<1>2. \A e \in 1..(d + 1) : st[e - 1].type \in Container
  BY <1>1 DEF Shaped, Below, Opened
<1>3. Opens(st, d) \in Seq(Container) /\ Len(Opens(st, d)) = d + 1
  BY <1>1, <1>2 DEF Opens
<1>4. \A e \in 1..(d + 1) : Opens(st, d)[e] = st[e - 1].type
  BY DEF Opens
<1>5. Opens(st, d)[d + 1] = st[d].type
  BY <1>1, <1>4
<1> QED
  BY <1>1, <1>3, <1>4, <1>5

\* The same brackets are open when no type changes.
LEMMA OpensSame ==
  ASSUME NEW st, NEW st2, NEW d, \A e \in 0..d : st2[e].type = st[e].type,
         Shaped(st, d)
  PROVE  Opens(st2, d) = Opens(st, d)
<1>1. \A e \in 1..(d + 1) : e - 1 \in 0..d
  BY StreamAssumption DEF Shaped
<1> QED
  BY <1>1 DEF Opens

-----------------------------------------------------------------------------
(* A stream that has not failed. *)

Good(tx, as, st, d) ==
  /\ tx \in Seq(Mark) /\ as \in Seq(Mark)
  /\ Shaped(st, d)
  /\ Parsed(tx) = Says(st, d)
  /\ Keep(tx, Mark \ Separator) = as

\* What a level says that has opened a bracket, and the root that has not.
LEMMA SaysOpened ==
  ASSUME NEW st, NEW d, Shaped(st, d), Opened(st[d])
  PROVE  /\ Says(st, d).open = Opens(st, d)
         /\ Says(st, d).want = Wanted(st[d])
         /\ Inner(Says(st, d)) = st[d].type
         /\ Says(st, d) = [open |-> Opens(st, d), want |-> Wanted(st[d])]
<1>1. Says(st, d) = [open |-> Opens(st, d), want |-> Wanted(st[d])]
  BY Zenon DEF Says
<1>2. Says(st, d).open = Opens(st, d) /\ Says(st, d).want = Wanted(st[d])
  BY <1>1
<1>3. Inner(Says(st, d)) = st[d].type
  BY <1>2, OpensIs DEF Inner
<1> QED
  BY <1>1, <1>2, <1>3

LEMMA SaysClosed ==
  ASSUME NEW st, NEW d, ~Opened(st[d])
  PROVE  Says(st, d) = [open |-> << >>, want |-> Wanted(st[d])]
BY Zenon DEF Says

LEMMA ShapedFacts ==
  ASSUME NEW st, NEW d, Shaped(st, d)
  PROVE  /\ d \in Nat /\ d < MaxDepth /\ d \in DOMAIN st /\ DOMAIN st = 0..(MaxDepth - 1)
         /\ st[d] \in State /\ st[d].has_key \in BOOLEAN /\ st[d].has_end \in BOOLEAN
         /\ st[d].count \in Nat
         /\ st[d].type \in {"undefined"} \cup Container \cup Scalar
         /\ Current(st[d])
<1>1. d \in 0..(MaxDepth - 1) /\ st \in [0..(MaxDepth - 1) -> State] /\ Current(st[d])
  BY DEF Shaped
<1>2. st[d] \in State
  BY <1>1
<1>3. /\ st[d].has_key \in BOOLEAN /\ st[d].has_end \in BOOLEAN /\ st[d].count \in Nat
      /\ st[d].type \in {"undefined"} \cup Container \cup Scalar
  BY <1>2 DEF State
<1> QED
  BY <1>1, <1>2, <1>3, StreamAssumption

\* A text to which one mark is added.
LEMMA TextGrows ==
  ASSUME NEW tx \in Seq(Mark), NEW m \in Mark
  PROVE  /\ Append(tx, m) \in Seq(Mark)
         /\ Parsed(Append(tx, m)) = Accept(Parsed(tx), m)
         /\ m \in Separator => Keep(Append(tx, m), Mark \ Separator) = Keep(tx, Mark \ Separator)
         /\ m \notin Separator =>
              Keep(Append(tx, m), Mark \ Separator) = Append(Keep(tx, Mark \ Separator), m)
<1>1. Append(tx, m) \in Seq(Mark)
  OBVIOUS
<1>2. Parsed(Append(tx, m)) = Accept(Parsed(tx), m)
  BY ParsedAppend
<1>3. Keep(Append(tx, m), Mark \ Separator)
        = IF m \in Mark \ Separator THEN Append(Keep(tx, Mark \ Separator), m)
          ELSE Keep(tx, Mark \ Separator)
  BY KeepAppend
<1> QED
  BY <1>1, <1>2, <1>3

LEMMA PointFields ==
  ASSUME NEW p, NEW open, NEW want, p = [open |-> open, want |-> want]
  PROVE  p.open = open /\ p.want = want
OBVIOUS

\* After the comma, if one is due, the next value or name may come.
Comes(t, tx, p, want) ==
  /\ t \in Seq(Mark)
  /\ Parsed(t).open = p.open
  /\ Parsed(t).want \in want
  /\ Keep(t, Mark \ Separator) = Keep(tx, Mark \ Separator)

LEMMA MarksAre ==
  /\ "," \in Mark /\ "," \in Separator /\ ":" \in Mark /\ ":" \in Separator
  /\ "name" \in Mark /\ "name" \notin Separator
  /\ "}" \in Mark /\ "}" \notin Separator
  /\ "]" \in Mark /\ "]" \notin Separator
  /\ \A type \in Container \cup Scalar : type \in Mark /\ type \notin Separator
BY DEF Mark, Separator, Container, Scalar

LEMMA CommaComes ==
  ASSUME NEW tx, NEW as, NEW st, NEW d, Good(tx, as, st, d),
         Opened(st[d]), ~st[d].has_key
  PROVE  Comes(tx \o Comma(st[d]), tx, Says(st, d),
               IF st[d].type = "{" THEN {"name", "firstname"} ELSE {"value", "first"})
<1> DEFINE p == Says(st, d)
           want == IF st[d].type = "{" THEN {"name", "firstname"} ELSE {"value", "first"}
<1>1. /\ tx \in Seq(Mark) /\ Shaped(st, d) /\ Parsed(tx) = p
  BY DEF Good
<1>2. st[d] \in State /\ Current(st[d]) /\ st[d].count \in Nat
  BY <1>1, ShapedFacts
<1>3. p.want = Wanted(st[d]) /\ Inner(p) = st[d].type
  BY <1>1, SaysOpened
<1> HIDE DEF p
<1>4. CASE st[d].count > 0
  <2>1. tx \o Comma(st[d]) = Append(tx, ",")
    <3>1. Comma(st[d]) = <<",">>
      BY <1>4, Zenon DEF Comma
    <3>2. tx \o <<",">> = Append(tx, ",")
      BY <1>1, MarksAre, AppendIsConcat
    <3> QED
      BY <3>1, <3>2
  <2>2. p.want = "more"
    BY <1>2, <1>3, <1>4, WantedIs
  <2>3. Accept(p, ",") = [open |-> p.open, want |-> IF st[d].type = "{" THEN "name" ELSE "value"]
    BY <1>3, <2>2, AcceptComma
  <2>4. /\ Append(tx, ",") \in Seq(Mark)
        /\ Parsed(Append(tx, ",")) = Accept(p, ",")
        /\ Keep(Append(tx, ","), Mark \ Separator) = Keep(tx, Mark \ Separator)
    BY <1>1, MarksAre, TextGrows
  <2>5. Accept(p, ",").open = p.open /\ Accept(p, ",").want \in want
    <3> DEFINE w == IF st[d].type = "{" THEN "name" ELSE "value"
    <3>1. w \in want
      OBVIOUS
    <3> HIDE DEF w, want
    <3>2. Accept(p, ",") = [open |-> p.open, want |-> w]
      BY <2>3 DEF w
    <3> DEFINE a == Accept(p, ",")
    <3>3. a = [open |-> p.open, want |-> w]
      BY <3>2
    <3> HIDE DEF a
    <3>4. a.open = p.open /\ a.want = w
      BY <3>3, PointFields
    <3> QED
      BY <3>1, <3>4 DEF a
  <2> HIDE DEF want
  <2>6. Comes(Append(tx, ","), tx, p, want)
    BY <2>4, <2>5, Zenon DEF Comes
  <2> QED
    BY <2>1, <2>6 DEF p, want
<1>5. CASE ~(st[d].count > 0)
  <2>1. tx \o Comma(st[d]) = tx
    <3>1. Comma(st[d]) = << >>
      BY <1>5, Zenon DEF Comma
    <3> QED
      BY <1>1, <3>1
  <2>2. st[d].count = 0
    BY <1>2, <1>5
  <2>3. p.want = IF st[d].type = "{" THEN "firstname" ELSE "first"
    BY <1>2, <1>3, <2>2, WantedIs
  <2>4. Comes(tx, tx, p, want)
    BY <1>1, <2>3 DEF Comes
  <2> QED
    BY <2>1, <2>4 DEF p
<1> QED
  BY <1>4, <1>5

LEMMA TakesOpened ==
  ASSUME NEW s \in State, Current(s), Takes(s), s.type # "undefined"
  PROVE  Opened(s) /\ (s.type = "{" <=> s.has_key) /\ (s.type = "[" \/ s.type = "{")
<1>1. \/ s.type = "{" /\ s.has_key /\ ~s.has_end
      \/ s.type = "[" /\ ~s.has_end
  BY Zenon DEF Takes
<1>2. "{" # "[" /\ "{" \in Container /\ "[" \in Container
  BY DEF Container
<1>3. s.has_key => s.type = "{"
  BY Zenon DEF Current
<1> QED
  BY <1>1, <1>2, <1>3, Zenon DEF Opened

\* A value may stand where the stream takes one.
LEMMA ValueComes ==
  ASSUME NEW tx, NEW as, NEW st, NEW d, Good(tx, as, st, d), Takes(st[d])
  PROVE  Comes(tx \o (IF st[d].type = "[" THEN Comma(st[d]) ELSE << >>), tx,
               Says(st, d), {"value", "first"})
<1>1. tx \in Seq(Mark) /\ Shaped(st, d) /\ Parsed(tx) = Says(st, d)
  BY DEF Good
<1>2. st[d] \in State /\ Current(st[d])
  BY <1>1, ShapedFacts
<1>3. CASE st[d].type = "["
  <2>1. Opened(st[d])
    BY <1>2, <1>3, TakesOpened
  <2>2. ~st[d].has_key /\ st[d].type # "{"
    BY <1>2, <1>3, Zenon DEF Current
  <2>3. Comes(tx \o Comma(st[d]), tx, Says(st, d),
              IF st[d].type = "{" THEN {"name", "firstname"} ELSE {"value", "first"})
    BY <2>1, <2>2, CommaComes
  <2>4. (IF st[d].type = "{" THEN {"name", "firstname"} ELSE {"value", "first"})
          = {"value", "first"}
    BY <2>2
  <2>5. (IF st[d].type = "[" THEN Comma(st[d]) ELSE << >>) = Comma(st[d])
    BY <1>3
  <2> QED
    BY <2>3, <2>4, <2>5, Zenon
<1>4. CASE st[d].type # "["
  <2>1. tx \o (IF st[d].type = "[" THEN Comma(st[d]) ELSE << >>) = tx
    <3>1. (IF st[d].type = "[" THEN Comma(st[d]) ELSE << >>) = << >>
      BY <1>4
    <3> QED
      BY <1>1, <3>1, ConcatEmptySeq
  <2>2. st[d].type = "undefined" \/ st[d].has_key
    BY <1>2, <1>4, TakesOpened
  <2>3. Wanted(st[d]) = "value"
    BY <1>2, <2>2, WantedIs
  <2>4. Says(st, d).want = "value"
    BY <2>3 DEF Says
  <2>5. Comes(tx, tx, Says(st, d), {"value", "first"})
    BY <1>1, <2>4 DEF Comes
  <2> QED
    BY <2>1, <2>5
<1> QED
  BY <1>3, <1>4

\* The level a value is added to, when it had one.
LEMMA AddedLevel ==
  ASSUME NEW st, NEW d, Shaped(st, d), Takes(st[d]), st[d].type # "undefined",
         NEW type, NEW st2, st2 = [st EXCEPT ![d] = Adding(st[d], type)]
  PROVE  /\ st2 \in [0..(MaxDepth - 1) -> State]
         /\ \A e \in 0..d : st2[e].type = st[e].type
         /\ \A e \in 0..d : Below(st2[e])
<1> DEFINE s == st[d]
           a == Adding(s, type)
<1>1. /\ s \in State /\ Current(s) /\ d \in Nat /\ d \in 0..(MaxDepth - 1)
      /\ s.count \in Nat
      /\ st \in [0..(MaxDepth - 1) -> State]
  BY ShapedFacts DEF Shaped
<1>2. Opened(s) /\ (s.type = "{" <=> s.has_key) /\ (s.type = "[" \/ s.type = "{")
  BY <1>1, TakesOpened
<1>3. s.type \in Container /\ ~s.has_end
  BY <1>2 DEF Opened
<1> HIDE DEF s
<1>4. a \in State /\ a.type = s.type /\ Below(a)
  <2>1. CASE s.type = "{"
    <3>1. a = [s EXCEPT !.has_key = FALSE]
      BY <2>1 DEF Adding
    <3>2. s.count > 0
      BY <1>1, <1>2, <2>1, Zenon DEF Current
    <3>3. a \in State
      BY <1>1, <3>1 DEF State
    <3>4. a.type = s.type /\ ~a.has_key /\ a.has_end = s.has_end /\ a.count = s.count
      BY <1>1, <3>1 DEF State
    <3> QED
      BY <1>3, <3>2, <3>3, <3>4 DEF Below
  <2>2. CASE s.type = "["
    <3>1. a = [s EXCEPT !.count = @ + 1]
      BY <2>2 DEF Adding
    <3>2. ~s.has_key
      BY <1>2, <2>2
    <3>3. a \in State
      BY <1>1, <3>1 DEF State
    <3>4. /\ a.type = s.type /\ a.has_key = s.has_key /\ a.has_end = s.has_end
          /\ a.count = s.count + 1
      BY <1>1, <3>1 DEF State
    <3>5. a.count > 0
      BY <1>1, <3>4
    <3>6. ~a.has_key /\ ~a.has_end
      BY <1>3, <3>2, <3>4
    <3> QED
      BY <1>3, <3>3, <3>4, <3>5, <3>6 DEF Below
  <2> QED
    BY <1>2, <2>1, <2>2
<1>5. st2 = [st EXCEPT ![d] = a]
  BY DEF s
<1>6. \A e \in 0..(d - 1) : Below(st[e])
  BY DEF Shaped
<1> HIDE DEF a
<1>7. st2 \in [0..(MaxDepth - 1) -> State]
  BY <1>1, <1>4, <1>5
<1>8. st2[d] = a /\ \A e \in 0..d : e # d => st2[e] = st[e]
  BY <1>1, <1>5
<1>9. ASSUME NEW e \in 0..d PROVE st2[e].type = st[e].type /\ Below(st2[e])
  <2>1. e = d \/ e \in 0..(d - 1)
    BY <1>1
  <2>2. CASE e = d
    BY <1>4, <1>8, <2>2 DEF s
  <2>3. CASE e # d
    BY <1>6, <1>8, <2>1, <2>3
  <2> QED
    BY <2>2, <2>3
<1> QED
  BY <1>7, <1>9

LEMMA BelowSays ==
  ASSUME NEW st, NEW d, st \in [0..(MaxDepth - 1) -> State], d \in 0..(MaxDepth - 1),
         \A e \in 0..d : Below(st[e])
  PROVE  /\ Shaped(st, d)
         /\ Opened(st[d])
         /\ Says(st, d) = [open |-> Opens(st, d), want |-> "more"]
<1>1. d \in Nat /\ d \in 0..d /\ \A e \in 0..(d - 1) : e \in 0..d
  BY StreamAssumption
<1>2. Below(st[d]) /\ st[d] \in State
  BY <1>1
<1>3. Opened(st[d]) /\ ~st[d].has_key /\ st[d].count > 0
  BY <1>2, Zenon DEF Below, Opened
<1>4. Current(st[d])
  <2>1. st[d].type # "undefined" /\ st[d].type \notin Scalar
    BY <1>2 DEF Below, Container, Scalar
  <2> QED
    BY <1>3, <2>1, Zenon DEF Current
<1>5. Shaped(st, d)
  BY <1>1, <1>3, <1>4 DEF Shaped
<1>6. Wanted(st[d]) = "more"
  BY <1>2, <1>3, <1>4, WantedIs
<1> QED
  BY <1>3, <1>5, <1>6, SaysOpened

LEMMA AfterMore ==
  ASSUME NEW open, open # << >>
  PROVE  AfterValue(open) = [open |-> open, want |-> "more"]
BY Zenon DEF AfterValue

-----------------------------------------------------------------------------
(* The calls that return 1. *)

\* A mark written after t that is no separator, by a call that returned 1.
Written(t, as, m) ==
  /\ Append(t, m) \in Seq(Mark) /\ Append(as, m) \in Seq(Mark)
  /\ Parsed(Append(t, m)) = Accept(Parsed(t), m)
  /\ Keep(Append(t, m), Mark \ Separator) = Append(as, m)

LEMMA MarkWritten ==
  ASSUME NEW tx, NEW as, NEW st, NEW d, Good(tx, as, st, d),
         NEW t, NEW p, NEW want, Comes(t, tx, p, want), NEW m \in Mark, m \notin Separator
  PROVE  Written(t, as, m)
<1>1. t \in Seq(Mark) /\ Keep(t, Mark \ Separator) = Keep(tx, Mark \ Separator)
  BY DEF Comes
<1>2. as \in Seq(Mark) /\ Keep(tx, Mark \ Separator) = as
  BY DEF Good
<1>3. /\ Append(t, m) \in Seq(Mark)
      /\ Parsed(Append(t, m)) = Accept(Parsed(t), m)
      /\ Keep(Append(t, m), Mark \ Separator) = Append(Keep(t, Mark \ Separator), m)
  BY <1>1, TextGrows
<1>4. Append(as, m) \in Seq(Mark)
  <2>1. as \in Seq(Mark)
    BY <1>2
  <2> QED
    BY <2>1, AppendProperties
<1> QED
  BY <1>1, <1>2, <1>3, <1>4 DEF Written

CommaFor(s) == IF s.type = "[" THEN Comma(s) ELSE << >>

LEMMA ScalarStep ==
  ASSUME NEW tx, NEW as, NEW st, NEW d, Good(tx, as, st, d), Takes(st[d]),
         st[d].type # "undefined", NEW type \in Scalar
  PROVE  Good(Append(tx \o CommaFor(st[d]), type), Append(as, type),
              [st EXCEPT ![d] = Adding(st[d], type)], d)
<1> DEFINE t == tx \o CommaFor(st[d])
           st2 == [st EXCEPT ![d] = Adding(st[d], type)]
           p == Says(st, d)
<1>1. Shaped(st, d) /\ Parsed(tx) = p
  BY DEF Good
<1>2. Comes(t, tx, p, {"value", "first"})
  BY ValueComes DEF CommaFor
<1>3. type \in Mark /\ type \notin Separator
  BY MarksAre
<1>4. /\ st2 \in [0..(MaxDepth - 1) -> State]
      /\ \A e \in 0..d : st2[e].type = st[e].type
      /\ \A e \in 0..d : Below(st2[e])
  BY <1>1, AddedLevel
<1>5. st[d] \in State /\ Current(st[d]) /\ d \in 0..(MaxDepth - 1)
  BY <1>1, ShapedFacts DEF Shaped
<1>6. Opened(st[d])
  BY <1>5, TakesOpened
<1>7. p.open = Opens(st, d) /\ Opens(st, d) # << >>
  BY <1>1, <1>6, SaysOpened, OpensIs
<1> HIDE DEF t, st2, p
<1>8. Opens(st2, d) = Opens(st, d)
  BY <1>1, <1>4, OpensSame
<1>9. Shaped(st2, d) /\ Says(st2, d) = [open |-> Opens(st2, d), want |-> "more"]
  BY <1>4, <1>5, BelowSays
<1>10. /\ Append(t, type) \in Seq(Mark) /\ Append(as, type) \in Seq(Mark)
       /\ Parsed(Append(t, type)) = Accept(Parsed(t), type)
       /\ Keep(Append(t, type), Mark \ Separator) = Append(as, type)
  <2>1. Written(t, as, type)
    BY <1>2, <1>3, MarkWritten
  <2> QED
    BY <2>1, Zenon DEF Written
<1>11. Parsed(t).open = Opens(st, d) /\ Parsed(t).want \in {"value", "first"}
  BY <1>2, <1>7 DEF Comes
<1>12. Accept(Parsed(t), type) = AfterValue(Parsed(t).open)
  BY <1>11, AcceptScalar
<1>13. AfterValue(Opens(st, d)) = [open |-> Opens(st, d), want |-> "more"]
  BY <1>7, AfterMore
<1>14. Parsed(Append(t, type)) = Says(st2, d)
  BY <1>8, <1>9, <1>10, <1>11, <1>12, <1>13
<1>15. Good(Append(t, type), Append(as, type), st2, d)
  BY <1>9, <1>10, <1>14 DEF Good
<1> QED
  BY <1>15 DEF t, st2

LEMMA NestStep ==
  ASSUME NEW tx, NEW as, NEW st, NEW d, Good(tx, as, st, d), Takes(st[d]),
         st[d].type # "undefined", NEW type \in Container, d + 1 < MaxDepth
  PROVE  Good(Append(tx \o CommaFor(st[d]), type), Append(as, type),
              [[st EXCEPT ![d] = Adding(st[d], type)] EXCEPT ![d + 1] = Begun(type)],
              d + 1)
<1> DEFINE t == tx \o CommaFor(st[d])
           st2 == [st EXCEPT ![d] = Adding(st[d], type)]
           st3 == [st2 EXCEPT ![d + 1] = Begun(type)]
           p == Says(st, d)
<1>1. Shaped(st, d) /\ Parsed(tx) = p
  BY DEF Good
<1>2. Comes(t, tx, p, {"value", "first"})
  BY ValueComes DEF CommaFor
<1>3. type \in Mark /\ type \notin Separator
  BY MarksAre
<1>4. /\ st2 \in [0..(MaxDepth - 1) -> State]
      /\ \A e \in 0..d : st2[e].type = st[e].type
      /\ \A e \in 0..d : Below(st2[e])
  BY <1>1, AddedLevel
<1>5. st[d] \in State /\ Current(st[d]) /\ d \in 0..(MaxDepth - 1) /\ d \in Nat
  BY <1>1, ShapedFacts DEF Shaped
<1>6. Opened(st[d])
  BY <1>5, TakesOpened
<1>7. /\ p.open = Opens(st, d) /\ Opens(st, d) \in Seq(Container)
      /\ Len(Opens(st, d)) = d + 1
  BY <1>1, <1>6, SaysOpened, OpensIs
<1>8. d + 1 \in 0..(MaxDepth - 1) /\ d + 1 - 1 = d /\ d + 1 \in Nat /\ d + 1 > 0
  BY <1>5, StreamAssumption
<1>9. type \notin Scalar /\ type # "undefined"
  BY DEF Container, Scalar
<1>10. /\ Begun(type) \in State /\ Begun(type).type = type
       /\ ~Begun(type).has_key /\ Begun(type).count = 0 /\ ~Begun(type).has_end
       /\ Current(Begun(type))
  BY <1>9, BlankIs
<1> HIDE DEF st2
<1>11. /\ st3 \in [0..(MaxDepth - 1) -> State]
       /\ st3[d + 1] = Begun(type)
       /\ \A e \in 0..d : st3[e] = st2[e]
  BY <1>4, <1>5, <1>8, <1>10
<1> HIDE DEF t, st3, p
<1>12. Opened(st3[d + 1])
  BY <1>10, <1>11 DEF Opened
<1>13. Shaped(st3, d + 1)
  <2>1. \A e \in 0..((d + 1) - 1) : Below(st3[e])
    BY <1>4, <1>5, <1>11
  <2>2. Current(st3[d + 1])
    BY <1>10, <1>11
  <2>3. st3 \in [0..(MaxDepth - 1) -> State]
    BY <1>11
  <2> QED
    BY <1>8, <1>12, <2>1, <2>2, <2>3, Zenon DEF Shaped
<1>14. Opens(st3, d + 1) = Append(Opens(st, d), type)
  <2>1. Opens(st3, d + 1) \in Seq(Container) /\ Len(Opens(st3, d + 1)) = d + 2
        /\ \A e \in 1..(d + 2) : Opens(st3, d + 1)[e] = st3[e - 1].type
    <3>1. /\ Opens(st3, d + 1) \in Seq(Container)
          /\ Len(Opens(st3, d + 1)) = (d + 1) + 1
          /\ \A e \in 1..((d + 1) + 1) : Opens(st3, d + 1)[e] = st3[e - 1].type
      BY <1>12, <1>13, OpensIs
    <3>2. (d + 1) + 1 = d + 2
      BY <1>5
    <3> QED
      BY <3>1, <3>2
  <2>2. \A e \in 1..(d + 1) : Opens(st, d)[e] = st[e - 1].type
    BY <1>1, <1>6, OpensIs
  <2>3. ASSUME NEW e \in 1..(d + 1) PROVE Opens(st3, d + 1)[e] = Opens(st, d)[e]
    <3>1. e - 1 \in 0..d /\ e \in 1..(d + 2)
      BY <1>5
    <3>2. st3[e - 1].type = st[e - 1].type
      BY <1>4, <1>11, <3>1
    <3> QED
      BY <2>1, <2>2, <3>1, <3>2
  <2>4. Opens(st3, d + 1)[d + 2] = type
    <3>1. d + 2 \in 1..(d + 2) /\ d + 2 - 1 = d + 1
      BY <1>5
    <3>2. \A e \in 1..(d + 2) : e - 1 = d + 1 => Opens(st3, d + 1)[e] = type
      BY <1>10, <1>11, <2>1
    <3> DEFINE k == d + 2
    <3>3. k \in 1..k /\ k - 1 = d + 1
      BY <1>5
    <3>4. \A e \in 1..k : e - 1 = d + 1 => Opens(st3, d + 1)[e] = type
      BY <3>2
    <3> HIDE DEF k
    <3>5. Opens(st3, d + 1)[k] = type
      BY <3>3, <3>4, Zenon
    <3> QED
      BY <3>5 DEF k
  <2> DEFINE a == Opens(st3, d + 1)
             b == Opens(st, d)
  <2> HIDE DEF a, b
  <2>5. /\ a \in Seq(Container) /\ b \in Seq(Container) /\ Len(a) = d + 2 /\ Len(b) = d + 1
        /\ \A e \in 1..(d + 1) : a[e] = b[e]
        /\ a[d + 2] = type
    BY <1>7, <2>1, <2>3, <2>4 DEF a, b
  <2>6. a = Append(b, type)
    BY <1>5, <2>5
  <2> QED
    BY <2>6 DEF a, b
<1>15. Says(st3, d + 1) = [open |-> Append(Opens(st, d), type),
                           want |-> FirstIn(type)]
  <2>1. Says(st3, d + 1) = [open |-> Opens(st3, d + 1), want |-> Wanted(st3[d + 1])]
    BY <1>12, <1>13, SaysOpened
  <2>2. Wanted(st3[d + 1]) = FirstIn(type)
    <3>1. Opened(Begun(type))
      BY <1>11, <1>12
    <3> QED
      BY <1>10, <1>11, <3>1, WantedIs DEF FirstIn
  <2> QED
    BY <1>14, <2>1, <2>2
<1>16. /\ Append(t, type) \in Seq(Mark) /\ Append(as, type) \in Seq(Mark)
       /\ Parsed(Append(t, type)) = Accept(Parsed(t), type)
       /\ Keep(Append(t, type), Mark \ Separator) = Append(as, type)
  <2>1. Written(t, as, type)
    BY <1>2, <1>3, MarkWritten
  <2> QED
    BY <2>1, Zenon DEF Written
<1>17. Parsed(t).open = Opens(st, d) /\ Parsed(t).want \in {"value", "first"}
  BY <1>2, <1>7 DEF Comes
<1>18. Accept(Parsed(t), type) = [open |-> Append(Parsed(t).open, type),
                                  want |-> FirstIn(type)]
  <2> DEFINE q == Parsed(t)
  <2>1. q.want \in {"value", "first"}
    BY <1>17
  <2> HIDE DEF q
  <2>2. Accept(q, type) = [open |-> Append(q.open, type),
                           want |-> FirstIn(type)]
    BY <2>1, AcceptContainer
  <2> QED
    BY <2>2 DEF q
<1>19. Parsed(Append(t, type)) = Says(st3, d + 1)
  BY <1>15, <1>16, <1>17, <1>18
<1>20. Good(Append(t, type), Append(as, type), st3, d + 1)
  BY <1>13, <1>16, <1>19 DEF Good
<1> QED
  BY <1>20 DEF t, st3, st2

LEMMA RootStep ==
  ASSUME NEW tx, NEW as, NEW st, NEW d, Good(tx, as, st, d),
         st[d].type = "undefined", NEW type \in Container \cup Scalar
  PROVE  Good(Append(tx \o CommaFor(st[d]), type), Append(as, type),
              [st EXCEPT ![d] = Adding(st[d], type)], d)
<1> DEFINE t == tx \o CommaFor(st[d])
           st2 == [st EXCEPT ![d] = Adding(st[d], type)]
           p == Says(st, d)
<1>1. Shaped(st, d) /\ Parsed(tx) = p
  BY DEF Good
<1>2. Takes(st[d])
  BY DEF Takes
<1>3. Comes(t, tx, p, {"value", "first"})
  BY <1>2, ValueComes DEF CommaFor
<1>4. type \in Mark /\ type \notin Separator
  BY MarksAre
<1>5. st[d] \in State /\ d \in 0..(MaxDepth - 1) /\ st \in [0..(MaxDepth - 1) -> State]
  BY <1>1, ShapedFacts DEF Shaped
<1>6. ~Opened(st[d])
  BY DEF Opened, Container
<1>7. d = 0
  <2>1. ~(d > 0)
    BY <1>1, <1>6 DEF Shaped
  <2> QED
    BY <1>5, <2>1
<1>8. p.open = << >>
  BY <1>6 DEF Says
<1>9. Adding(st[d], type) = Begun(type)
  BY DEF Adding
<1>10. /\ Begun(type) \in State /\ Begun(type).type = type
       /\ ~Begun(type).has_key /\ Begun(type).count = 0
       /\ Begun(type).has_end <=> type \in Scalar
       /\ Current(Begun(type))
  BY BlankIs
<1>11. st2 \in [0..(MaxDepth - 1) -> State] /\ st2[0] = Begun(type)
  BY <1>5, <1>7, <1>9, <1>10
<1> HIDE DEF t, st2, p
<1>12. Shaped(st2, 0)
  BY <1>5, <1>7, <1>10, <1>11 DEF Shaped
<1>13. /\ Append(t, type) \in Seq(Mark) /\ Append(as, type) \in Seq(Mark)
       /\ Parsed(Append(t, type)) = Accept(Parsed(t), type)
       /\ Keep(Append(t, type), Mark \ Separator) = Append(as, type)
  <2>1. Written(t, as, type)
    BY <1>3, <1>4, MarkWritten
  <2> QED
    BY <2>1, Zenon DEF Written
<1>14. Parsed(t).open = << >> /\ Parsed(t).want \in {"value", "first"}
  BY <1>3, <1>8 DEF Comes
<1>15. Accept(Parsed(t), type) = Says(st2, 0)
  <2> DEFINE q == Parsed(t)
  <2>0. q.open = << >> /\ q.want \in {"value", "first"}
    BY <1>14
  <2> HIDE DEF q
  <2>1. CASE type \in Scalar
    <3>1. Accept(q, type) = AfterValue(q.open)
      BY <2>0, <2>1, AcceptScalar
    <3>2. AfterValue(<< >>) = [open |-> << >>, want |-> "end"]
      BY Zenon DEF AfterValue
    <3>3. ~Opened(st2[0])
      BY <1>10, <1>11, <2>1 DEF Opened
    <3>4. Wanted(st2[0]) = "end"
      <4>1. type # "undefined"
        BY DEF Scalar, Container
      <4>2. Wanted(Begun(type)) = "end"
        BY <1>10, <2>1, <4>1, WantedIs
      <4> QED
        BY <1>11, <4>2
    <3>5. Says(st2, 0) = [open |-> << >>, want |-> "end"]
      BY <3>3, <3>4, SaysClosed
    <3> QED
      BY <2>0, <3>1, <3>2, <3>5 DEF q
  <2>2. CASE type \in Container
    <3>1. Accept(q, type) = [open |-> Append(q.open, type), want |-> FirstIn(type)]
      <4>0. q.want \in {"value", "first"}
        BY <2>0
      <4>1. ASSUME NEW m \in Container
            PROVE  Accept(q, m) = [open |-> Append(q.open, m), want |-> FirstIn(m)]
        BY <4>0, AcceptContainer
      <4> QED
        BY <2>2, <4>1
    <3>2. type \notin Scalar
      BY <2>2 DEF Container, Scalar
    <3>3. Opened(Begun(type)) /\ Opened(st2[0])
      BY <1>10, <1>11, <2>2, <3>2 DEF Opened
    <3>4. Wanted(st2[0]) = FirstIn(type)
      BY <1>10, <1>11, <3>3, WantedIs DEF FirstIn
    <3>5. Opens(st2, 0) = Append(<< >>, type)
      <4>1. /\ Opens(st2, 0) \in Seq(Container) /\ Len(Opens(st2, 0)) = 0 + 1
            /\ Opens(st2, 0)[0 + 1] = st2[0].type
        BY <1>12, <3>3, OpensIs
      <4> DEFINE a == Opens(st2, 0)
      <4>2. a \in Seq(Container) /\ Len(a) = 1 /\ a[1] = type
        BY <1>10, <1>11, <4>1
      <4> HIDE DEF a
      <4>3. a = Append(<< >>, type)
        BY <4>2
      <4> QED
        BY <4>3 DEF a
    <3>6. Says(st2, 0) = [open |-> Opens(st2, 0), want |-> Wanted(st2[0])]
      BY <1>12, <3>3, SaysOpened
    <3> QED
      BY <2>0, <3>1, <3>4, <3>5, <3>6 DEF q
  <2> QED
    BY <2>1, <2>2
<1>16. Good(Append(t, type), Append(as, type), st2, 0)
  BY <1>12, <1>13, <1>15 DEF Good
<1> QED
  BY <1>7, <1>16 DEF t, st2

LEMMA KeyStep ==
  ASSUME NEW tx, NEW as, NEW st, NEW d, Good(tx, as, st, d), BetweenNames(st[d])
  PROVE  Good(Append(Append(tx \o Comma(st[d]), "name"), ":"), Append(as, "name"),
              [st EXCEPT ![d] = [[st[d] EXCEPT !.has_key = TRUE] EXCEPT !.count = @ + 1]], d)
<1> DEFINE t == tx \o Comma(st[d])
           s == st[d]
           s2 == [[s EXCEPT !.has_key = TRUE] EXCEPT !.count = @ + 1]
           st2 == [st EXCEPT ![d] = s2]
           p == Says(st, d)
<1>1. Shaped(st, d) /\ Parsed(tx) = p
  BY DEF Good
<1>2. /\ s \in State /\ d \in 0..(MaxDepth - 1) /\ d \in Nat /\ s.count \in Nat
      /\ st \in [0..(MaxDepth - 1) -> State]
  BY <1>1, ShapedFacts DEF Shaped
<1>3. s.type = "{" /\ ~s.has_key /\ ~s.has_end
  BY DEF BetweenNames
<1>4. Opened(s)
  BY <1>3 DEF Opened, Container
<1>5. Comes(t, tx, p, {"name", "firstname"})
  <2>1. Comes(tx \o Comma(st[d]), tx, Says(st, d),
              IF st[d].type = "{" THEN {"name", "firstname"} ELSE {"value", "first"})
    BY <1>3, <1>4, CommaComes
  <2>2. (IF st[d].type = "{" THEN {"name", "firstname"} ELSE {"value", "first"})
          = {"name", "firstname"}
    BY <1>3
  <2> QED
    BY <2>1, <2>2, Zenon
<1>6. p.open = Opens(st, d)
  BY <1>1, <1>4, SaysOpened
<1>7. /\ s2 \in State /\ s2.type = "{" /\ s2.has_key /\ ~s2.has_end /\ s2.count > 0
  <2> DEFINE k == [s EXCEPT !.has_key = TRUE]
  <2>5. k \in State
    BY <1>2 DEF State
  <2>6. k.type = s.type /\ k.has_key = TRUE /\ k.has_end = s.has_end /\ k.count = s.count
    BY <1>2 DEF State
  <2>7. s2 = [k EXCEPT !.count = @ + 1]
    OBVIOUS
  <2> HIDE DEF k, s2
  <2>1. s2 \in State
    BY <2>5, <2>7 DEF State
  <2>2. s2.type = s.type /\ s2.has_key = TRUE /\ s2.has_end = s.has_end
    BY <2>5, <2>6, <2>7 DEF State
  <2>3. s2.count = s.count + 1
    BY <2>5, <2>6, <2>7 DEF State
  <2>4. s2.count > 0
    BY <1>2, <2>3
  <2> QED
    BY <1>3, <2>1, <2>2, <2>4
<1>8. \A e \in 0..(d - 1) : Below(st[e])
  BY <1>1 DEF Shaped
<1> HIDE DEF s, s2
<1>9. /\ st2 \in [0..(MaxDepth - 1) -> State] /\ st2[d] = s2
      /\ \A e \in 0..d : e # d => st2[e] = st[e]
  <2>1. st2 \in [0..(MaxDepth - 1) -> State]
    BY <1>2, <1>7
  <2>2. st2[d] = s2 /\ \A e \in 0..d : e # d => st2[e] = st[e]
    BY <1>2
  <2> QED
    BY <2>1, <2>2
<1> HIDE DEF t, st2, p
<1>10. Opened(s2)
  BY <1>7 DEF Opened, Container
<1>11. Current(s2)
  <2>1. s2.type # "undefined" /\ s2.type \notin Scalar
    BY <1>7 DEF Scalar
  <2> QED
    BY <1>7, <2>1, Zenon DEF Current
<1>12. Shaped(st2, d)
  <2>1. \A e \in 0..(d - 1) : Below(st2[e])
    BY <1>2, <1>8, <1>9
  <2>2. Current(st2[d]) /\ Opened(st2[d])
    BY <1>9, <1>10, <1>11
  <2> QED
    BY <1>2, <1>9, <2>1, <2>2, Zenon DEF Shaped
<1>13. Opens(st2, d) = Opens(st, d)
  <2>1. \A e \in 0..d : st2[e].type = st[e].type
    BY <1>3, <1>7, <1>9 DEF s
  <2> QED
    BY <1>1, <2>1, OpensSame
<1>14. Says(st2, d) = [open |-> Opens(st, d), want |-> "value"]
  <2>1. Wanted(s2) = "value"
    BY <1>7, <1>11, WantedIs
  <2>2. Says(st2, d) = [open |-> Opens(st2, d), want |-> Wanted(st2[d])]
    BY <1>9, <1>10, <1>12, SaysOpened
  <2> QED
    BY <1>9, <1>13, <2>1, <2>2
<1>15. "name" \in Mark /\ "name" \notin Separator /\ ":" \in Mark /\ ":" \in Separator
  BY MarksAre
<1> DEFINE u == Append(t, "name")
<1>16. /\ u \in Seq(Mark) /\ Append(as, "name") \in Seq(Mark)
       /\ Parsed(u) = Accept(Parsed(t), "name")
       /\ Keep(u, Mark \ Separator) = Append(as, "name")
  <2>1. Written(t, as, "name")
    BY <1>5, <1>15, MarkWritten
  <2> QED
    BY <2>1, Zenon DEF Written, u
<1>17. Parsed(t).open = Opens(st, d) /\ Parsed(t).want \in {"name", "firstname"}
  BY <1>5, <1>6 DEF Comes
<1>18. Accept(Parsed(t), "name") = [open |-> Opens(st, d), want |-> "colon"]
  <2> DEFINE q == Parsed(t)
  <2>1. q.open = Opens(st, d) /\ q.want \in {"name", "firstname"}
    BY <1>17
  <2> HIDE DEF q
  <2>2. Accept(q, "name") = [open |-> q.open, want |-> "colon"]
    BY <2>1, AcceptName
  <2> QED
    BY <2>1, <2>2 DEF q
<1> HIDE DEF u
<1>19. /\ Append(u, ":") \in Seq(Mark)
       /\ Parsed(Append(u, ":")) = Accept(Parsed(u), ":")
       /\ Keep(Append(u, ":"), Mark \ Separator) = Keep(u, Mark \ Separator)
  BY <1>15, <1>16, TextGrows
<1>20. Accept(Parsed(u), ":") = [open |-> Opens(st, d), want |-> "value"]
  <2> DEFINE q == Parsed(u)
  <2>1. q = [open |-> Opens(st, d), want |-> "colon"]
    BY <1>16, <1>18
  <2> HIDE DEF q
  <2>2. q.open = Opens(st, d) /\ q.want = "colon"
    BY <2>1, PointFields
  <2>3. Accept(q, ":") = [open |-> q.open, want |-> "value"]
    BY <2>2, AcceptColon
  <2> QED
    BY <2>2, <2>3 DEF q
<1>21. Good(Append(u, ":"), Append(as, "name"), st2, d)
  BY <1>12, <1>14, <1>16, <1>19, <1>20 DEF Good
<1> QED
  BY <1>21 DEF u, t, st2, s2, s

\* The types below the innermost bracket.
LEMMA OpensFront ==
  ASSUME NEW st, NEW d \in Nat, d > 0, Shaped(st, d), Opened(st[d]),
         NEW st2, Shaped(st2, d - 1), Opened(st2[d - 1]),
         \A e \in 0..(d - 1) : st2[e].type = st[e].type
  PROVE  SubSeq(Opens(st, d), 1, Len(Opens(st, d)) - 1) = Opens(st2, d - 1)
<1> DEFINE a == Opens(st, d)
           b == Opens(st2, d - 1)
           c == SubSeq(a, 1, Len(a) - 1)
<1>1. a \in Seq(Container) /\ Len(a) = d + 1 /\ \A e \in 1..(d + 1) : a[e] = st[e - 1].type
  BY OpensIs
<1>2. b \in Seq(Container) /\ Len(b) = (d - 1) + 1
      /\ \A e \in 1..((d - 1) + 1) : b[e] = st2[e - 1].type
  BY OpensIs
<1>3. (d - 1) + 1 = d
  OBVIOUS
<1>4. Len(b) = d /\ \A e \in 1..d : b[e] = st2[e - 1].type
  BY <1>2, <1>3
<1>5. \A e \in 1..d : b[e] = a[e]
  <2>1. \A e \in 1..d : e \in 1..(d + 1) /\ e - 1 \in 0..(d - 1)
    OBVIOUS
  <2>2. \A e \in 1..d : b[e] = st[e - 1].type
    BY <1>4, <2>1
  <2> QED
    BY <1>1, <2>1, <2>2
<1> HIDE DEF a, b
<1>6. c \in Seq(Container) /\ Len(c) = d /\ \A e \in 1..d : c[e] = a[e]
  BY <1>1
<1> HIDE DEF c
<1>7. c = b
  BY <1>2, <1>4, <1>5, <1>6
<1> QED
  BY <1>7 DEF a, b, c

\* The bracket of a level may be closed by m.
Ending(s, m) ==
  \/ m = "}" /\ BetweenNames(s)
  \/ m = "]" /\ s.type = "[" /\ ~s.has_end

LEMMA EndStep ==
  ASSUME NEW tx, NEW as, NEW st, NEW d, Good(tx, as, st, d), NEW m, Ending(st[d], m)
  PROVE  Good(Append(tx, m), Append(as, m), [st EXCEPT ![d].has_end = TRUE],
              IF d > 0 THEN d - 1 ELSE d)
<1> DEFINE s == st[d]
           s2 == [s EXCEPT !.has_end = TRUE]
           st2 == [st EXCEPT ![d].has_end = TRUE]
           p == Says(st, d)
           open == Opens(st, d)
           q == AfterValue(SubSeq(open, 1, Len(open) - 1))
<1>1. tx \in Seq(Mark) /\ Shaped(st, d) /\ Parsed(tx) = p
  BY DEF Good
<1>2. /\ s \in State /\ d \in 0..(MaxDepth - 1) /\ d \in Nat /\ s.count \in Nat
      /\ st \in [0..(MaxDepth - 1) -> State] /\ Current(s) /\ s.has_end \in BOOLEAN
  BY <1>1, ShapedFacts DEF Shaped
<1>3. s.type \in Container /\ ~s.has_key /\ ~s.has_end /\ Opened(s)
  <2>1. "{" \in Container /\ "[" \in Container /\ "{" # "["
    BY DEF Container
  <2>2. s.type = "{" \/ s.type = "["
    BY Zenon DEF Ending, BetweenNames
  <2>3. ~s.has_end
    BY Zenon DEF Ending, BetweenNames
  <2>4. s.type = "[" => ~s.has_key
    BY <1>2, <2>1, Zenon DEF Current
  <2>5. s.type = "{" => ~s.has_key
    BY <2>1, Zenon DEF Ending, BetweenNames
  <2> QED
    BY <2>1, <2>2, <2>3, <2>4, <2>5, Zenon DEF Opened
<1>4. m \in Mark /\ m \notin Separator
  BY MarksAre DEF Ending
<1>5. p.open = open /\ p.want = Wanted(s) /\ Inner(p) = s.type
  BY <1>1, <1>3, SaysOpened
<1>6. \/ m = "}" /\ s.type = "{"
      \/ m = "]" /\ s.type = "["
  BY Zenon DEF Ending, BetweenNames
<1>7. p.want = "more" \/ p.want = IF s.type = "{" THEN "firstname" ELSE "first"
  <2>1. s.count > 0 \/ s.count = 0
    BY <1>2
  <2>2. s.count > 0 => Wanted(s) = "more"
    BY <1>2, <1>3, WantedIs
  <2>3. s.count = 0 => Wanted(s) = IF s.type = "{" THEN "firstname" ELSE "first"
    BY <1>2, <1>3, WantedIs
  <2> QED
    BY <1>5, <2>1, <2>2, <2>3
<1> HIDE DEF s, p, open
<1>8. Accept(p, m) = q
  <2>1. \/ m = "}" /\ (p.want = "firstname" \/ (p.want = "more" /\ Inner(p) = "{"))
        \/ m = "]" /\ (p.want = "first" \/ (p.want = "more" /\ Inner(p) = "["))
    BY <1>5, <1>6, <1>7
  <2>2. Accept(p, m) = Closed(p)
    BY <2>1, AcceptEnd
  <2> QED
    BY <1>5, <2>2 DEF Closed
<1>9. /\ Append(tx, m) \in Seq(Mark)
      /\ Parsed(Append(tx, m)) = Accept(p, m)
      /\ Keep(Append(tx, m), Mark \ Separator) = Append(as, m)
  <2>1. Keep(tx, Mark \ Separator) = as
    BY DEF Good
  <2> QED
    BY <1>1, <1>4, <2>1, TextGrows
<1>10. Append(as, m) \in Seq(Mark)
  <2>1. as \in Seq(Mark)
    BY DEF Good
  <2> QED
    BY <1>4, <2>1, AppendProperties
<1>11. s2 \in State /\ s2.type = s.type /\ s2.has_end /\ ~s2.has_key
  <2>1. s2 \in State
    BY <1>2 DEF State
  <2>2. s2.type = s.type /\ s2.has_end = TRUE /\ s2.has_key = s.has_key
    BY <1>2 DEF State
  <2> QED
    BY <1>3, <2>1, <2>2
<1>12. /\ st2 \in [0..(MaxDepth - 1) -> State] /\ st2[d] = s2
       /\ \A e \in 0..d : e # d => st2[e] = st[e]
  <2>1. st2 = [st EXCEPT ![d] = s2]
    BY Zenon DEF s
  <2> HIDE DEF s2, st2
  <2>2. st2 \in [0..(MaxDepth - 1) -> State]
    BY <1>2, <1>11, <2>1
  <2>3. st2[d] = s2 /\ \A e \in 0..d : e # d => st2[e] = st[e]
    BY <1>2, <2>1
  <2> QED
    BY <2>2, <2>3
<1>13. \A e \in 0..(d - 1) : Below(st[e])
  BY <1>1 DEF Shaped
<1>14. open \in Seq(Container) /\ Len(open) = d + 1
  BY <1>1, <1>3, OpensIs DEF open, s
<1> HIDE DEF st2, s2, q
<1>15. CASE d = 0
  <2>1. q = [open |-> << >>, want |-> "end"]
    <3>1. SubSeq(open, 1, Len(open) - 1) = << >>
      BY <1>14, <1>15
    <3> QED
      BY <3>1, Zenon DEF q, AfterValue
  <2>2. Current(s2)
    <3>1. s2.type # "undefined" /\ s2.type \notin Scalar
      BY <1>3, <1>11 DEF Container, Scalar
    <3> QED
      BY <1>11, <3>1, Zenon DEF Current
  <2>3. Shaped(st2, 0)
    BY <1>2, <1>12, <1>15, <2>2 DEF Shaped
  <2>4. ~Opened(st2[0])
    BY <1>11, <1>12, <1>15 DEF Opened
  <2>5. Wanted(s2) = "end"
    <3>1. s2.type # "undefined"
      BY <1>3, <1>11 DEF Container
    <3> QED
      BY <1>11, <2>2, <3>1, WantedIs
  <2>6. Says(st2, 0) = [open |-> << >>, want |-> "end"]
    BY <1>12, <1>15, <2>4, <2>5, SaysClosed
  <2>7. Good(Append(tx, m), Append(as, m), st2, 0)
    BY <1>8, <1>9, <1>10, <2>1, <2>3, <2>6 DEF Good
  <2>8. (IF d > 0 THEN d - 1 ELSE d) = 0
    BY <1>15
  <2> QED
    BY <2>7, <2>8, Zenon DEF st2
<1>16. CASE d > 0
  <2> DEFINE c == d - 1
  <2>0. d \in Nat /\ MaxDepth \in Nat /\ d \in 0..(MaxDepth - 1)
    BY <1>2, StreamAssumption
  <2>1. /\ c \in 0..(MaxDepth - 1) /\ c \in Nat
        /\ \A e \in 0..c : e # d /\ e \in 0..d /\ e \in 0..(d - 1)
    BY <1>16, <2>0
  <2>2. \A e \in 0..c : Below(st2[e]) /\ st2[e].type = st[e].type
    BY <1>12, <1>13, <2>1
  <2>3. /\ Shaped(st2, c) /\ Opened(st2[c])
        /\ Says(st2, c) = [open |-> Opens(st2, c), want |-> "more"]
    <3> HIDE DEF c
    <3> QED
      BY <1>12, <2>1, <2>2, BelowSays
  <2>4. SubSeq(open, 1, Len(open) - 1) = Opens(st2, c)
    BY <1>1, <1>2, <1>3, <1>16, <2>2, <2>3, OpensFront DEF open, s
  <2>5. Opens(st2, c) # << >>
    <3> HIDE DEF c
    <3> QED
      BY <2>3, OpensIs
  <2>6. q = Says(st2, c)
    <3> HIDE DEF c
    <3> QED
      BY <2>3, <2>4, <2>5, AfterMore DEF q
  <2> HIDE DEF c
  <2>7. Good(Append(tx, m), Append(as, m), st2, c)
    BY <1>8, <1>9, <1>10, <2>3, <2>6 DEF Good
  <2>8. (IF d > 0 THEN d - 1 ELSE d) = c
    BY <1>16 DEF c
  <2> QED
    BY <2>7, <2>8, Zenon DEF st2
<1>17. d = 0 \/ d > 0
  BY <1>2
<1> QED
  BY <1>15, <1>16, <1>17

-----------------------------------------------------------------------------
(* The invariant: a stream that has not failed is good, and one that has
   failed keeps its error. *)

StreamInv ==
  /\ refused => err
  /\ ~err => Good(text, asked, state, depth)

LEMMA StreamGood ==
  ASSUME StreamInv
  PROVE  TextOK
<1>1. ~err => Parsed(text) = Expected
  BY ExpectedSays DEF StreamInv, Good
<1>2. ASSUME Ready
      PROVE  /\ Parsed(text) = [open |-> << >>, want |-> "end"]
             /\ Keep(text, Mark \ Separator) = asked
             /\ ~refused
  <2>1. ~err /\ depth = 0 /\ state[0].type # "undefined" /\ ~state[0].has_key /\ state[0].has_end
    BY <1>2 DEF Ready
  <2>2. Good(text, asked, state, 0) /\ ~refused
    BY <2>1 DEF StreamInv
  <2>3. Shaped(state, 0)
    BY <2>2 DEF Good
  <2>4. state[0] \in State /\ Current(state[0])
    BY <2>3, ShapedFacts
  <2>5. Wanted(state[0]) = "end"
    BY <2>1, <2>4, WantedIs
  <2>6. ~Opened(state[0])
    BY <2>1 DEF Opened
  <2>7. Says(state, 0) = [open |-> << >>, want |-> "end"]
    BY <2>5, <2>6, SaysClosed
  <2> QED
    BY <2>2, <2>7 DEF Good
<1> QED
  BY <1>1, <1>2 DEF TextOK

LEMMA GoodBlank == Good(<< >>, << >>, [d \in 0..(MaxDepth - 1) |-> Blank], 0)
<1> DEFINE st == [d \in 0..(MaxDepth - 1) |-> Blank]
<1>1. /\ Blank \in State /\ Blank.type = "undefined"
  BY BlankIs
<1>2. 0 \in 0..(MaxDepth - 1)
  BY StreamAssumption
<1>3. st \in [0..(MaxDepth - 1) -> State] /\ st[0] = Blank
  BY <1>1, <1>2
<1>4. Current(Blank)
  <2>1. "undefined" \notin Scalar /\ ~Blank.has_key
    BY BlankIs DEF Scalar
  <2> QED
    BY <1>1, <2>1, Zenon DEF Current
<1> HIDE DEF st
<1>5. Shaped(st, 0)
  BY <1>2, <1>3, <1>4 DEF Shaped
<1>6. ~Opened(st[0])
  BY <1>1, <1>3 DEF Opened, Container
<1>7. Wanted(Blank) = "value"
  BY <1>1, <1>4, WantedIs
<1>8. Says(st, 0) = Start
  BY <1>3, <1>6, <1>7, SaysClosed DEF Start
<1>9. << >> \in Seq(Mark)
  OBVIOUS
<1>10. Good(<< >>, << >>, st, 0)
  BY <1>5, <1>8, <1>9, ParsedEmpty, KeepOfNone DEF Good
<1> QED
  BY <1>10 DEF st

\* A call that returns 0 keeps the invariant, whatever it leaves behind.
LEMMA FailsSafe ==
  ASSUME Returns0
  PROVE  StreamInv'
BY DEF Returns0, StreamInv

LEMMA WrittenIs ==
  ASSUME NEW tx \in Seq(Mark), NEW before \in Seq(Mark), NEW m \in Mark
  PROVE  /\ tx \o before \o <<m>> \o << >> = Append(tx \o before, m)
         /\ \A n \in Mark : tx \o before \o <<m>> \o <<n>> = Append(Append(tx \o before, m), n)
<1> DEFINE u == tx \o before
           v == Append(u, m)
<1>1. u \in Seq(Mark)
  OBVIOUS
<1> HIDE DEF u
<1>2. u \o <<m>> = v /\ v \in Seq(Mark)
  BY <1>1, AppendIsConcat, AppendProperties
<1> HIDE DEF v
<1>3. v \o << >> = v
  BY <1>2, ConcatEmptySeq
<1>4. \A n \in Mark : v \o <<n>> = Append(v, n)
  BY <1>2, AppendIsConcat
<1> QED
  BY <1>2, <1>3, <1>4 DEF u, v

LEMMA CommaTyped ==
  ASSUME NEW s
  PROVE  Comma(s) \in Seq(Mark) /\ CommaFor(s) \in Seq(Mark)
<1>1. <<",">> \in Seq(Mark) /\ << >> \in Seq(Mark)
  <2>1. "," \in Mark
    BY MarksAre
  <2>2. \A m \in Mark : <<m>> \in Seq(Mark)
    OBVIOUS
  <2>3. << >> \in Seq(Mark)
    OBVIOUS
  <2> QED
    BY <2>1, <2>2, <2>3, Zenon
<1>2. Comma(s) \in {<<",">>, << >>}
  BY Zenon DEF Comma
<1>3. CommaFor(s) \in {Comma(s), << >>}
  BY Zenon DEF CommaFor
<1> QED
  BY <1>1, <1>2, <1>3

\* A call that writes a mark and returns 1.
LEMMA ReturnsSafe ==
  ASSUME StreamInv, NEW m, Returns1(m),
         ~err => Good(text', Append(asked, m), state', depth')
  PROVE  StreamInv'
BY DEF StreamInv, Returns1

LEMMA ValKeeps ==
  ASSUME StreamInv, NEW type \in Container \cup Scalar, Val(type)
  PROVE  StreamInv'
<1> DEFINE s == state[depth]
           nests == s.type # "undefined" /\ type \in Container
           here == [state EXCEPT ![depth] = Adding(s, type)]
<1>1. type \in Mark
  BY MarksAre
<1>2. ~err => Good(text, asked, state, depth)
  BY DEF StreamInv
<1>3. ~err => text \in Seq(Mark)
  BY <1>2 DEF Good
<1>4. \/ Returns0
      \/ /\ Takes(s) /\ nests /\ depth + 1 < MaxDepth
         /\ depth' = depth + 1
         /\ state' = [here EXCEPT ![depth + 1] = Begun(type)]
         /\ Write(CommaFor(s), type, << >>)
      \/ /\ Takes(s) /\ ~nests
         /\ state' = here
         /\ Write(CommaFor(s), type, << >>)
         /\ depth' = depth
  BY Zenon DEF Val, CommaFor
<1>5. Write(CommaFor(s), type, << >>) =>
        \/ Returns0
        \/ text' = text \o CommaFor(s) \o <<type>> \o << >> /\ Returns1(type)
  BY Zenon DEF Write
<1>6. ~err => text \o CommaFor(s) \o <<type>> \o << >> = Append(text \o CommaFor(s), type)
  <2>1. CommaFor(s) \in Seq(Mark)
    BY CommaTyped
  <2> HIDE DEF s
  <2> QED
    BY <1>1, <1>3, <2>1, WrittenIs
<1>7. CASE Returns0
  BY <1>7, FailsSafe
<1>8. CASE /\ Takes(s) /\ nests /\ depth + 1 < MaxDepth
           /\ depth' = depth + 1
           /\ state' = [here EXCEPT ![depth + 1] = Begun(type)]
           /\ text' = text \o CommaFor(s) \o <<type>> \o << >> /\ Returns1(type)
  <2>1. ASSUME ~err PROVE Good(text', Append(asked, type), state', depth')
    <3>1. Good(Append(text \o CommaFor(s), type), Append(asked, type),
               [here EXCEPT ![depth + 1] = Begun(type)], depth + 1)
      BY <1>2, <1>8, <2>1, NestStep
    <3> QED
      BY <1>6, <1>8, <2>1, <3>1
  <2> QED
    BY <1>8, <2>1, ReturnsSafe
<1>9. CASE /\ Takes(s) /\ ~nests
           /\ state' = here
           /\ text' = text \o CommaFor(s) \o <<type>> \o << >> /\ Returns1(type)
           /\ depth' = depth
  <2>1. ASSUME ~err PROVE Good(text', Append(asked, type), state', depth')
    <3>1. Good(Append(text \o CommaFor(s), type), Append(asked, type), here, depth)
      <4>1. CASE s.type = "undefined"
        BY <1>2, <2>1, <4>1, RootStep
      <4>2. CASE s.type # "undefined"
        <5>1. type \in Scalar
          BY <1>9, <4>2
        <5> QED
          BY <1>2, <1>9, <2>1, <4>2, <5>1, ScalarStep
      <4> QED
        BY <4>1, <4>2
    <3> QED
      BY <1>6, <1>9, <2>1, <3>1
  <2> QED
    BY <1>9, <2>1, ReturnsSafe
<1> HIDE DEF s, nests, here
<1> QED
  BY <1>4, <1>5, <1>7, <1>8, <1>9, Zenon

LEMMA KeyKeeps ==
  ASSUME StreamInv, StreamKey
  PROVE  StreamInv'
<1> DEFINE s == state[depth]
           keyed == [[s EXCEPT !.has_key = TRUE] EXCEPT !.count = @ + 1]
<1>1. /\ "name" \in Mark /\ ":" \in Mark
  BY MarksAre
<1>2. ~err => Good(text, asked, state, depth)
  BY DEF StreamInv
<1>3. ~err => text \in Seq(Mark)
  BY <1>2 DEF Good
<1>4. \/ Returns0
      \/ /\ BetweenNames(s)
         /\ state' = [state EXCEPT ![depth] = keyed]
         /\ Write(Comma(s), "name", <<":">>)
         /\ depth' = depth
  BY Zenon DEF StreamKey
<1>5. Write(Comma(s), "name", <<":">>) =>
        \/ Returns0
        \/ text' = text \o Comma(s) \o <<"name">> \o <<":">> /\ Returns1("name")
  BY Zenon DEF Write
<1>6. ~err => text \o Comma(s) \o <<"name">> \o <<":">>
                = Append(Append(text \o Comma(s), "name"), ":")
  <2>1. Comma(s) \in Seq(Mark)
    BY CommaTyped
  <2> HIDE DEF s
  <2> QED
    BY <1>1, <1>3, <2>1, WrittenIs, Zenon
<1>7. CASE Returns0
  BY <1>7, FailsSafe
<1>8. CASE /\ BetweenNames(s)
           /\ state' = [state EXCEPT ![depth] = keyed]
           /\ text' = text \o Comma(s) \o <<"name">> \o <<":">> /\ Returns1("name")
           /\ depth' = depth
  <2>1. ASSUME ~err PROVE Good(text', Append(asked, "name"), state', depth')
    <3>1. Good(Append(Append(text \o Comma(s), "name"), ":"), Append(asked, "name"),
               [state EXCEPT ![depth] = keyed], depth)
      BY <1>2, <1>8, <2>1, KeyStep
    <3> HIDE DEF s, keyed
    <3> QED
      BY <1>6, <1>8, <2>1, <3>1
  <2> QED
    BY <1>8, <2>1, ReturnsSafe
<1> HIDE DEF s, keyed
<1> QED
  BY <1>4, <1>5, <1>7, <1>8, Zenon

LEMMA EndKeeps ==
  ASSUME StreamInv, End
  PROVE  StreamInv'
<1>1. Returns0 \/ \E m \in {"}", "]"} : Ending(state[depth], m) /\ Ends(m)
  BY DEF End, Ending
<1>2. CASE Returns0
  BY <1>2, FailsSafe
<1>3. ASSUME NEW m \in {"}", "]"}, Ending(state[depth], m), Ends(m)
      PROVE  StreamInv'
  <2>1. /\ text' = Append(text, m) /\ Returns1(m)
        /\ state' = [state EXCEPT ![depth].has_end = TRUE]
        /\ depth' = IF depth > 0 THEN depth - 1 ELSE depth
    BY <1>3 DEF Ends
  <2>2. ASSUME ~err PROVE Good(text', Append(asked, m), state', depth')
    <3>1. Good(text, asked, state, depth)
      BY <2>2 DEF StreamInv
    <3>2. Good(Append(text, m), Append(asked, m), [state EXCEPT ![depth].has_end = TRUE],
               IF depth > 0 THEN depth - 1 ELSE depth)
      BY <1>3, <3>1, EndStep
    <3> QED
      BY <2>1, <3>2, Zenon
  <2> QED
    BY <2>1, <2>2, ReturnsSafe
<1> QED
  BY <1>1, <1>2, <1>3

LEMMA StreamStep ==
  ASSUME StreamInv, StreamNext
  PROVE  StreamInv'
<1>1. ASSUME NEW type \in Container \cup Scalar, Val(type) PROVE StreamInv'
  BY <1>1, ValKeeps
<1>2. CASE StreamKey
  BY <1>2, KeyKeeps
<1>3. CASE End
  BY <1>3, EndKeeps
<1>4. CASE Buffer
  BY <1>4, FailsSafe DEF Buffer
<1> QED
  BY <1>1, <1>2, <1>3, <1>4, Zenon DEF StreamNext

LEMMA StreamStays ==
  ASSUME StreamInv, UNCHANGED stream
  PROVE  StreamInv'
<1>1. /\ text' = text /\ err' = err /\ depth' = depth /\ state' = state
      /\ asked' = asked /\ refused' = refused
  BY DEF stream
<1> QED
  BY <1>1 DEF StreamInv

(* The inductive invariant of the stream: unless a call has failed, its states
   say where in JSON the text stands, over calls in any order, at any depth
   (cc_jsmnStream.c:115, :319, :357). *)
THEOREM JsonStreamInvariant == Spec => []StreamInv
<1>1. Init => StreamInv
  <2> SUFFICES ASSUME Init PROVE StreamInv
    OBVIOUS
  <2>1. StreamInit
    BY DEF Init
  <2> QED
    BY <2>1, GoodBlank DEF StreamInit, StreamInv
<1>2. StreamInv /\ [Next]_vars => StreamInv'
  <2> SUFFICES ASSUME StreamInv, [Next]_vars PROVE StreamInv'
    OBVIOUS
  <2>1. CASE WriteStep
    BY <2>1, StreamStep DEF WriteStep
  <2>2. CASE UNCHANGED stream
    BY <2>2, StreamStays
  <2>3. CASE Renew
    <3>1. /\ text' = << >> /\ asked' = << >> /\ refused' = FALSE /\ depth' = 0
          /\ state' = [d \in 0..(MaxDepth - 1) |-> Blank]
      BY <2>3 DEF Renew
    <3> QED
      BY <3>1, GoodBlank DEF StreamInv
  <2>4. UNCHANGED vars => UNCHANGED stream
    BY DEF vars
  <2> QED
    BY <2>1, <2>2, <2>3, <2>4 DEF Next, Read, ReadForeign, ReadStep
<1> QED
  BY <1>1, <1>2, PTL DEF Spec

(* In whatever order the calls are made, what buffer and export give out is a
   whole JSON text with the marks of the calls, and no call that failed is in it
   (cc_jsmnStream.c:126, :187, :284). *)
THEOREM JsonTextOK == Spec => []TextOK
<1>1. StreamInv => TextOK
  BY StreamGood
<1> QED
  BY <1>1, JsonStreamInvariant, PTL

-----------------------------------------------------------------------------
(* The reader: what the frames are, what is on the heap for them, and what
   holds what. *)

Fn == {"val", "keyval"} \cup Container
Kind == {"val", "keyval", "name", "item", "list", "string", "primitive"} \cup Container
Path == Seq(Nat)
Alloc == Kind \X Path

IsFrame(f) ==
  /\ f = [fn |-> f.fn, path |-> f.path, begun |-> f.begun, size |-> f.size,
          done |-> f.done]
  /\ f.fn \in Fn /\ f.path \in Path /\ f.begun \in BOOLEAN /\ f.done \in Nat

NextChild(f) == Append(f.path, f.done + 1)

\* f calls g.
CalledBy(f, g) ==
  /\ f.begun
  /\ \/ f.fn = "val" /\ g.fn \in Container /\ g.path = f.path
     \/ f.fn = "keyval" /\ g.fn = "val" /\ g.path = f.path
     \/ f.fn = "{" /\ g.fn = "keyval" /\ g.path = NextChild(f)
     \/ f.fn = "[" /\ g.fn = "val" /\ g.path = NextChild(f)

IsStack(fr) == Len(fr) \in Nat /\ fr = [i \in 1..Len(fr) |-> fr[i]]

Chained(fr, bk) ==
  /\ IsStack(fr)
  /\ \A i \in 1..Len(fr) : IsFrame(fr[i])
  /\ fr # << >> => fr[1].fn = "val" /\ fr[1].path = << >>
  /\ \A i \in 1..(Len(fr) - 1) : CalledBy(fr[i], fr[i + 1])
  /\ bk # "none" /\ fr # << >> => fr[Len(fr)].begun

\* What a function has allocated itself.
Own(f) ==
  CASE f.fn = "val" -> {<<"val", f.path>>}
    [] f.fn = "keyval" -> {<<"keyval", f.path>>, <<"name", f.path>>}
    [] OTHER -> {<<f.fn, f.path>>, <<"list", f.path>>}

\* q is the path of a child of the value at p, or of one below it.
Inside(p, q) == \E i \in Nat : IsPrefix(Append(p, i), q)

(* An allocation a function answers for: its own, and those of the children in
   its list. *)
Mine(f, a) ==
  /\ f.begun
  /\ \/ a \in Own(f)
     \/ f.fn \in Container /\ \E i \in 1..f.done : IsPrefix(Append(f.path, i), a[2])

\* One that a function got from the one it called.
Got(f, a) ==
  \/ /\ f.fn = "val"
     /\ \/ a[2] = f.path /\ a[1] \in {"{", "[", "list"}
        \/ Inside(f.path, a[2])
  \/ /\ f.fn = "keyval"
     /\ \/ a[2] = f.path /\ a[1] \in {"{", "[", "list", "val", "string", "primitive"}
        \/ Inside(f.path, a[2])
  \/ /\ f.fn \in Container
     /\ IsPrefix(NextChild(f), a[2]) /\ a # <<"item", NextChild(f)>>

\* An allocation that a function answers for, or the tree that was returned.
Located(fr, bk, a) ==
  \/ \E i \in 1..Len(fr) : Mine(fr[i], a)
  \/ bk = "ok" /\ (fr = << >> => a # <<"item", << >>>>)
               /\ (fr # << >> => Got(fr[Len(fr)], a))

HolderIn(hp, a) ==
  LET p == a[2]
  IN  CASE a[1] = "val" -> IF <<"keyval", p>> \in hp THEN <<"keyval", p>> ELSE <<"item", p>>
        [] a[1] = "keyval" -> <<"item", p>>
        [] a[1] = "name" -> <<"keyval", p>>
        [] a[1] = "item" -> <<"list", Front(p)>>
        [] a[1] = "list" -> IF <<"{", p>> \in hp THEN <<"{", p>> ELSE <<"[", p>>
        [] OTHER -> <<"val", p>>

\* A child that is not in the list yet.
Coming(f, a) ==
  f.fn \in Container /\ a \in {<<"val", NextChild(f)>>, <<"keyval", NextChild(f)>>}

Held(fr, bk, hp, a) ==
  \/ a = <<"val", << >>>>
  \/ HolderIn(hp, a) \in hp
  \/ \E i \in 1..(Len(fr) - 1) : Coming(fr[i], a)
  \/ bk = "ok" /\ fr # << >> /\ Coming(fr[Len(fr)], a)

Rooted(fr, bk, hp) ==
  /\ \A i \in 1..Len(fr) : fr[i].begun => Own(fr[i]) \subseteq hp
  /\ \A a \in hp : Held(fr, bk, hp, a)
  /\ bk = "ok" /\ fr = << >> => <<"val", << >>>> \in hp

\* hp is the heap without the parser's own.
Reading(fr, bk, hp) ==
  /\ hp \subseteq Alloc
  /\ bk \in {"none", "ok", "null"}
  /\ Chained(fr, bk)
  /\ \A a \in hp : Located(fr, bk, a)
  /\ bk # "null" => Rooted(fr, bk, hp)

ReaderInv ==
  /\ outcome \in {"none", "reading", "tree", "null"}
  /\ outcome = "none" => back = "none"
  /\ outcome \in {"none", "null"} => heap = {}
  /\ outcome # "reading" => frames = << >>
  /\ outcome = "tree" => back = "ok" /\ Reading(frames, back, heap)
  /\ outcome = "reading" => Reading(frames, back, heap \ Parser)

\* Paths.
LEMMA PrefixOf ==
  ASSUME NEW p \in Path
  PROVE  IsPrefix(p, p) /\ IsPrefix(<< >>, p)
BY DEF IsPrefix, Path

LEMMA PrefixOfLonger ==
  ASSUME NEW p \in Path, NEW q \in Path, NEW i \in Nat, IsPrefix(Append(p, i), q)
  PROVE  IsPrefix(p, q) /\ q # p
<1> DEFINE r == Append(p, i)
           n == Len(p)
<1>1. /\ n \in Nat /\ r \in Seq(Nat) /\ Len(r) = n + 1
      /\ \A j \in 1..n : r[j] = p[j]
  BY DEF Path
<1>2. p \in Seq(Nat) /\ q \in Seq(Nat) /\ Len(q) \in Nat /\ Len(p) = n
  BY DEF Path
<1> HIDE DEF r, n
<1>3. n + 1 <= Len(q) /\ SubSeq(r, 1, n + 1) = SubSeq(q, 1, n + 1)
  BY <1>1 DEF IsPrefix, r
<1>4. \A j \in 1..n : q[j] = p[j]
  <2> TAKE j \in 1..n
  <2>1. j \in 1..(n + 1)
    BY <1>1
  <2>2. SubSeq(r, 1, n + 1)[j] = r[j] /\ SubSeq(q, 1, n + 1)[j] = q[j]
    BY <1>1, <1>2, <1>3, <2>1
  <2> QED
    BY <1>1, <1>3, <2>2
<1>5. SubSeq(p, 1, n) = SubSeq(q, 1, n)
  BY <1>1, <1>2, <1>3, <1>4
<1>6. IsPrefix(p, q)
  BY <1>1, <1>2, <1>3, <1>5 DEF IsPrefix
<1>7. q # p
  BY <1>1, <1>2, <1>3
<1> QED
  BY <1>6, <1>7

LEMMA FrontOfAppend ==
  ASSUME NEW p \in Path, NEW i \in Nat
  PROVE  Front(Append(p, i)) = p /\ Append(p, i) \in Path
<1> DEFINE r == Append(p, i)
           n == Len(p)
<1>1. /\ n \in Nat /\ r \in Seq(Nat) /\ Len(r) = n + 1
      /\ \A j \in 1..n : r[j] = p[j]
  BY DEF Path
<1>2. p \in Seq(Nat) /\ Len(p) = n
  BY DEF Path
<1> HIDE DEF r, n
<1>3. SubSeq(r, 1, Len(r) - 1) = p
  <2>1. Len(r) - 1 = n
    BY <1>1
  <2>2. SubSeq(r, 1, n) = p
    BY <1>1, <1>2
  <2> QED
    BY <2>1, <2>2
<1> QED
  BY <1>1, <1>3 DEF Front, r, Path

\* Stacks.
LEMMA StackIsSeq ==
  ASSUME NEW s, IsStack(s), NEW x, NEW y
  PROVE  LET T == {s[i] : i \in 1..Len(s)} \cup {x, y}
         IN  s \in Seq(T) /\ x \in T /\ y \in T /\ Len(s) \in Nat
BY DEF IsStack

\* The top is replaced by x.
Topped(s, t, x) ==
  /\ IsStack(t) /\ Len(t) = Len(s) /\ t[Len(s)] = x
  /\ \A i \in 1..(Len(s) - 1) : t[i] = s[i]

\* The top is removed.
Popped(s, t) ==
  /\ IsStack(t) /\ Len(t) = Len(s) - 1 /\ t # s
  /\ \A i \in 1..(Len(s) - 1) : t[i] = s[i]

\* The top is replaced by x, and y is above it.
Pushed(s, t, x, y) ==
  /\ IsStack(t) /\ Len(t) = Len(s) + 1 /\ t[Len(s)] = x /\ t[Len(s) + 1] = y
  /\ \A i \in 1..(Len(s) - 1) : t[i] = s[i]

LEMMA StackMoves ==
  ASSUME NEW s, IsStack(s), s # << >>, NEW x, NEW y
  PROVE  /\ Len(s) \in Nat /\ Len(s) > 0
         /\ Popped(s, Front(s))
         /\ Topped(s, Append(Front(s), x), x)
         /\ Pushed(s, Front(s) \o <<x, y>>, x, y)
<1> DEFINE T == {s[i] : i \in 1..Len(s)} \cup {x, y}
           n == Len(s)
           f == SubSeq(s, 1, n - 1)
           a == Append(f, x)
           b == f \o <<x, y>>
<1>1. s \in Seq(T) /\ x \in T /\ y \in T /\ n \in Nat
  BY StackIsSeq
<1> HIDE DEF T
<1>2. n > 0
  BY <1>1
<1>3. /\ f \in Seq(T) /\ Len(f) = n - 1 /\ \A i \in 1..(n - 1) : f[i] = s[i]
  <2>1. n - 1 \in 0..n /\ n - 1 \in Nat
    BY <1>1, <1>2
  <2>2. f \in Seq(T)
    BY <1>1
  <2>3. Len(f) = n - 1
    <3> DEFINE k == n - 1
    <3>1. Len(SubSeq(s, 1, k)) = IF 1 <= k THEN k - 1 + 1 ELSE 0
      <4>1. k \in Int /\ 1 \in Int
        BY <2>1
      <4>2. \A i \in 1..k : s[i] \in T
        BY <1>1, <2>1
      <4> HIDE DEF k
      <4> QED
        BY <4>1, <4>2, SubSeqProperties
    <3>2. k \in Nat
      BY <2>1
    <3> HIDE DEF k
    <3>3. (IF 1 <= k THEN k - 1 + 1 ELSE 0) = k
      BY <3>2
    <3> QED
      BY <3>1, <3>3 DEF k
  <2>4. \A i \in 1..(n - 1) : f[i] = s[i]
    BY <1>1, <2>1
  <2> QED
    BY <2>2, <2>3, <2>4
<1>4. Front(s) = f
  BY DEF Front
<1> HIDE DEF n, f
<1>5. /\ a \in Seq(T) /\ Len(a) = n /\ a[n] = x /\ \A i \in 1..(n - 1) : a[i] = s[i]
  BY <1>1, <1>2, <1>3
<1>6. /\ b \in Seq(T) /\ Len(b) = n + 1 /\ b[n] = x /\ b[n + 1] = y
      /\ \A i \in 1..(n - 1) : b[i] = s[i]
  <2>1. <<x, y>> \in Seq(T) /\ Len(<<x, y>>) = 2
    BY <1>1
  <2> DEFINE c == <<x, y>>
  <2>2. c \in Seq(T) /\ Len(c) = 2 /\ c[1] = x /\ c[2] = y
    BY <2>1
  <2> HIDE DEF c
  <2>3. /\ f \o c \in Seq(T) /\ Len(f \o c) = n + 1
        /\ \A i \in 1..(n + 1) : (f \o c)[i] = IF i <= n - 1 THEN f[i] ELSE c[i - (n - 1)]
    <3> DEFINE m == n - 1
    <3>1. m \in Nat /\ m + 2 = n + 1
      BY <1>1, <1>2
    <3> HIDE DEF m
    <3>2. Len(f) = m
      BY <1>3 DEF m
    <3>3. /\ f \o c \in Seq(T) /\ Len(f \o c) = m + 2
          /\ \A i \in 1..(m + 2) : (f \o c)[i] = IF i <= m THEN f[i] ELSE c[i - m]
      <4>1. f \in Seq(T) /\ c \in Seq(T) /\ Len(c) = 2
        BY <1>3, <2>2
      <4>2. /\ f \o c \in Seq(T) /\ Len(f \o c) = Len(f) + Len(c)
            /\ \A i \in 1..(Len(f) + Len(c)) :
                 (f \o c)[i] = IF i <= Len(f) THEN f[i] ELSE c[i - Len(f)]
        BY <4>1, ConcatProperties, Zenon
      <4>3. Len(f) + Len(c) = m + 2
        BY <3>1, <3>2, <4>1
      <4> QED
        BY <3>2, <4>2, <4>3
    <3> QED
      BY <3>1, <3>3 DEF m
  <2>4. n \in 1..(n + 1) /\ n + 1 \in 1..(n + 1) /\ ~(n <= n - 1) /\ ~(n + 1 <= n - 1)
        /\ n - (n - 1) = 1 /\ (n + 1) - (n - 1) = 2
        /\ \A i \in 1..(n - 1) : i \in 1..(n + 1) /\ i <= n - 1
    BY <1>1, <1>2
  <2>5. (f \o c)[n] = x
    BY <2>2, <2>3, <2>4
  <2>6. (f \o c)[n + 1] = y
    BY <2>2, <2>3, <2>4
  <2>7. \A i \in 1..(n - 1) : (f \o c)[i] = s[i]
    BY <1>3, <2>3, <2>4
  <2> QED
    BY <2>3, <2>5, <2>6, <2>7 DEF c
<1>7. \A t \in Seq(T) : IsStack(t)
  BY DEF IsStack
<1> HIDE DEF a, b
<1>8. Popped(s, f)
  <2>1. f # s
    BY <1>1, <1>2, <1>3 DEF n
  <2> QED
    BY <1>3, <1>7, <2>1 DEF Popped, n
<1>9. Topped(s, a, x)
  BY <1>5, <1>7 DEF Topped, n
<1>10. Pushed(s, b, x, y)
  BY <1>6, <1>7 DEF Pushed, n
<1> QED
  BY <1>1, <1>2, <1>4, <1>8, <1>9, <1>10 DEF n, a, b

LEMMA EmptyStack ==
  ASSUME NEW s, IsStack(s)
  PROVE  s = << >> <=> Len(s) = 0
<1>1. Len(s) = 0 => s = << >>
  <2> HAVE Len(s) = 0
  <2>1. s = [i \in 1..0 |-> s[i]]
    BY DEF IsStack
  <2> QED
    BY <2>1
<1>2. Len(<< >>) = 0
  OBVIOUS
<1> QED
  BY <1>1, <1>2

\* Frames.
LEMMA FrameIs ==
  ASSUME NEW fn \in Fn, NEW path \in Path
  PROVE  /\ IsFrame(Frame(fn, path))
         /\ Frame(fn, path).fn = fn /\ Frame(fn, path).path = path
         /\ ~Frame(fn, path).begun
BY DEF Frame, IsFrame

\* g is f further on.
Onward(f, g) ==
  /\ IsFrame(g) /\ g.begun
  /\ g.fn = f.fn /\ g.path = f.path

FrameOf(S) == [fn : Fn, path : Path, begun : BOOLEAN, size : S, done : Nat]

LEMMA FrameTyped ==
  ASSUME NEW S, NEW g \in FrameOf(S)
  PROVE  IsFrame(g)
BY DEF FrameOf, IsFrame

LEMMA FrameChanges ==
  ASSUME NEW f, IsFrame(f)
  PROVE  /\ Onward(f, Started(f)) /\ Started(f).done = f.done
         /\ \A z : Onward(f, [Started(f) EXCEPT !.size = z])
         /\ f.begun => Onward(f, f)
         /\ f.begun => Onward(f, [f EXCEPT !.done = @ + 1])
                       /\ [f EXCEPT !.done = @ + 1].done = f.done + 1
<1>1. \A z : f \in FrameOf({f.size, z})
  BY DEF FrameOf, IsFrame
<1>2. ASSUME NEW z
      PROVE  /\ Started(f) \in FrameOf({f.size, z}) /\ Started(f).begun
             /\ Started(f).fn = f.fn /\ Started(f).path = f.path
             /\ Started(f).done = f.done
  BY <1>1 DEF FrameOf, Started
<1>3. ASSUME NEW z PROVE Onward(f, [Started(f) EXCEPT !.size = z])
  <2> DEFINE g == Started(f)
             h == [g EXCEPT !.size = z]
             S == {f.size, z}
  <2>1. g \in FrameOf(S) /\ g.begun /\ g.fn = f.fn /\ g.path = f.path
    BY <1>2
  <2>2. z \in S
    OBVIOUS
  <2> HIDE DEF g, S
  <2>3. h \in FrameOf(S) /\ h.begun = g.begun /\ h.fn = g.fn /\ h.path = g.path
    BY <2>1, <2>2 DEF FrameOf
  <2>4. IsFrame(h)
    BY <2>3, FrameTyped
  <2> QED
    BY <2>1, <2>3, <2>4 DEF Onward, g
<1>4. Onward(f, Started(f)) /\ Started(f).done = f.done
  BY <1>2, FrameTyped DEF Onward
<1>5. f.begun => Onward(f, f)
  BY DEF Onward
<1>6. ASSUME f.begun
      PROVE  Onward(f, [f EXCEPT !.done = @ + 1]) /\ [f EXCEPT !.done = @ + 1].done = f.done + 1
  <2> DEFINE h == [f EXCEPT !.done = @ + 1]
             S == {f.size}
  <2>1. f \in FrameOf(S)
    BY <1>1
  <2> HIDE DEF S
  <2>2. h \in FrameOf(S)
    BY <2>1 DEF FrameOf
  <2>3. h.begun = f.begun /\ h.fn = f.fn /\ h.path = f.path /\ h.done = f.done + 1
    BY <2>1 DEF FrameOf
  <2>4. IsFrame(h)
    BY <2>2, FrameTyped
  <2> QED
    BY <1>6, <2>3, <2>4 DEF Onward
<1> QED
  BY <1>3, <1>4, <1>5, <1>6

LEMMA ChildTyped ==
  ASSUME NEW f, IsFrame(f)
  PROVE  NextChild(f) \in Path /\ Front(NextChild(f)) = f.path /\ f.path \in Path
         /\ f.done \in Nat /\ f.done + 1 \in Nat
<1>1. f.path \in Path /\ f.done \in Nat
  BY DEF IsFrame
<1>2. f.done + 1 \in Nat
  BY <1>1
<1> QED
  BY <1>1, <1>2, FrontOfAppend DEF NextChild

LEMMA CallerSame ==
  ASSUME NEW f, NEW g, NEW h, CalledBy(f, g), h.fn = g.fn, h.path = g.path
  PROVE  CalledBy(f, h)
BY DEF CalledBy

\* Holders stay when the heap grows.
LEMMA HolderGrows ==
  ASSUME NEW hp, NEW new, NEW a, HolderIn(hp, a) \in hp
  PROVE  HolderIn(hp \cup new, a) \in hp \cup new
<1> DEFINE p == a[2]
<1>1. CASE a[1] = "val"
  <2>1. \A h : HolderIn(h, a) = IF <<"keyval", p>> \in h THEN <<"keyval", p>> ELSE <<"item", p>>
    BY <1>1 DEF HolderIn
  <2> HIDE DEF p
  <2> QED
    BY <2>1
<1>2. CASE a[1] = "list"
  <2>1. \A h : HolderIn(h, a) = IF <<"{", p>> \in h THEN <<"{", p>> ELSE <<"[", p>>
    BY <1>2 DEF HolderIn
  <2> HIDE DEF p
  <2> QED
    BY <2>1
<1>3. CASE a[1] # "val" /\ a[1] # "list"
  <2>1. HolderIn(hp \cup new, a) = HolderIn(hp, a)
    BY <1>3 DEF HolderIn
  <2> QED
    BY <2>1
<1> QED
  BY <1>1, <1>2, <1>3

\* What a function returns is what its caller gets.
Result(f, a) ==
  \/ /\ f.fn = "val"
     /\ \/ a[2] = f.path /\ a[1] \in {"{", "[", "list", "val", "string", "primitive"}
        \/ Inside(f.path, a[2])
  \/ f.fn = "keyval" /\ IsPrefix(f.path, a[2]) /\ a # <<"item", f.path>>
  \/ /\ f.fn \in Container
     /\ \/ a[2] = f.path /\ a[1] \in {"{", "[", "list"}
        \/ Inside(f.path, a[2])

LEMMA AllocIs ==
  ASSUME NEW a \in Alloc
  PROVE  a = <<a[1], a[2]>> /\ a[1] \in Kind /\ a[2] \in Path
BY DEF Alloc

LEMMA InsideIs ==
  ASSUME NEW p \in Path, NEW q \in Path, Inside(p, q)
  PROVE  IsPrefix(p, q) /\ q # p
BY PrefixOfLonger DEF Inside

LEMMA ResultGot ==
  ASSUME NEW f, NEW g, IsFrame(f), CalledBy(g, f), NEW a \in Alloc, Result(f, a)
  PROVE  Got(g, a)
<1>0. f.path \in Path /\ a[2] \in Path /\ a = <<a[1], a[2]>>
  BY AllocIs DEF IsFrame
<1>1. CASE g.fn = "val" /\ f.fn \in Container /\ f.path = g.path
  <2>1. f.fn # "val" /\ f.fn # "keyval"
    BY <1>1 DEF Container
  <2> QED
    BY <1>1, <2>1 DEF Result, Got
<1>2. CASE g.fn = "keyval" /\ f.fn = "val" /\ f.path = g.path
  BY <1>2 DEF Result, Got, Container
<1>3. CASE g.fn = "{" /\ f.fn = "keyval" /\ f.path = NextChild(g)
  BY <1>3 DEF Result, Got, Container
<1>4. CASE g.fn = "[" /\ f.fn = "val" /\ f.path = NextChild(g)
  <2>1. \/ a[2] = f.path /\ a[1] \in {"{", "[", "list", "val", "string", "primitive"}
        \/ Inside(f.path, a[2])
    BY <1>4 DEF Result, Container
  <2>2. IsPrefix(f.path, a[2])
    BY <1>0, <2>1, PrefixOf, InsideIs
  <2>3. a # <<"item", f.path>>
    <3> SUFFICES ASSUME a = <<"item", f.path>> PROVE FALSE
      OBVIOUS
    <3>1. a[1] = "item" /\ a[2] = f.path
      OBVIOUS
    <3> QED
      BY <1>0, <2>1, <3>1, InsideIs
  <2> QED
    BY <1>4, <2>2, <2>3 DEF Got, Container
<1> QED
  BY <1>1, <1>2, <1>3, <1>4 DEF CalledBy

LEMMA ResultOfRoot ==
  ASSUME NEW f, IsFrame(f), f.fn = "val", NEW a \in Alloc, Result(f, a), f.path = << >>
  PROVE  a # <<"item", << >>>>
<1>1. f.path \in Path /\ a[2] \in Path
  BY AllocIs DEF IsFrame
<1>2. \/ a[2] = f.path /\ a[1] \in {"{", "[", "list", "val", "string", "primitive"}
      \/ Inside(f.path, a[2])
  BY DEF Result, Container
<1> SUFFICES ASSUME a = <<"item", << >>>> PROVE FALSE
  OBVIOUS
<1>3. a[1] = "item" /\ a[2] = << >>
  OBVIOUS
<1> QED
  BY <1>1, <1>2, <1>3, InsideIs

\* The frames after a return, a call, and a step within a function.
LEMMA ChainFacts ==
  ASSUME NEW fr, NEW bk, Chained(fr, bk), fr # << >>
  PROVE  /\ IsStack(fr) /\ Len(fr) \in Nat /\ Len(fr) > 0 /\ Len(fr) \in 1..Len(fr)
         /\ IsFrame(fr[Len(fr)])
         /\ Popped(fr, Front(fr))
         /\ Len(fr) = 1 => fr[Len(fr)].fn = "val" /\ fr[Len(fr)].path = << >>
         /\ Len(fr) = 1 => Front(fr) = << >>
         /\ Len(fr) # 1 => /\ Front(fr) # << >> /\ Len(Front(fr)) \in 1..Len(fr)
                           /\ Front(fr)[Len(Front(fr))] = fr[Len(fr) - 1]
                           /\ CalledBy(fr[Len(fr) - 1], fr[Len(fr)])
                           /\ Len(fr) - 1 \in 1..(Len(fr) - 1)
<1>1. IsStack(fr)
  BY DEF Chained
<1>2. Len(fr) \in Nat /\ Len(fr) > 0 /\ Popped(fr, Front(fr))
  BY <1>1, StackMoves
<1>3. Len(fr) \in 1..Len(fr)
  BY <1>2
<1>4. IsFrame(fr[Len(fr)])
  BY <1>3 DEF Chained
<1>5. Len(fr) = 1 => fr[Len(fr)].fn = "val" /\ fr[Len(fr)].path = << >>
  BY DEF Chained
<1>6. IsStack(Front(fr)) /\ Len(Front(fr)) = Len(fr) - 1
      /\ \A i \in 1..(Len(fr) - 1) : Front(fr)[i] = fr[i]
  BY <1>2 DEF Popped
<1>7. Front(fr) = << >> <=> Len(fr) - 1 = 0
  BY <1>6, EmptyStack
<1>8. Len(fr) = 1 <=> Len(fr) - 1 = 0
  BY <1>2
<1>9. ASSUME Len(fr) # 1
      PROVE  /\ Len(fr) - 1 \in 1..(Len(fr) - 1) /\ Len(fr) - 1 \in 1..Len(fr)
             /\ Len(fr) - 1 + 1 = Len(fr)
  BY <1>2, <1>9
<1>10. ASSUME Len(fr) # 1
       PROVE  CalledBy(fr[Len(fr) - 1], fr[Len(fr)])
  <2>1. CalledBy(fr[Len(fr) - 1], fr[Len(fr) - 1 + 1])
    BY <1>9, <1>10 DEF Chained
  <2> QED
    BY <1>9, <1>10, <2>1
<1>11. ASSUME Len(fr) # 1
       PROVE  Front(fr)[Len(Front(fr))] = fr[Len(fr) - 1] /\ Len(Front(fr)) \in 1..Len(fr)
  BY <1>6, <1>9, <1>11
<1> QED
  BY <1>1, <1>2, <1>3, <1>4, <1>5, <1>7, <1>8, <1>9, <1>10, <1>11

LEMMA ChainPops ==
  ASSUME NEW fr, NEW bk, Chained(fr, bk), fr # << >>, NEW r
  PROVE  Chained(Front(fr), r)
<1> DEFINE t == Front(fr)
           n == Len(fr)
<1>1. n \in Nat /\ n > 0 /\ Popped(fr, t)
  BY ChainFacts
<1>2. /\ \A i \in 1..n : IsFrame(fr[i])
      /\ fr[1].fn = "val" /\ fr[1].path = << >>
      /\ \A i \in 1..(n - 1) : CalledBy(fr[i], fr[i + 1])
  BY DEF Chained
<1> HIDE DEF t, n
<1>3. IsStack(t) /\ Len(t) = n - 1 /\ \A i \in 1..(n - 1) : t[i] = fr[i]
  BY <1>1 DEF Popped, n
<1>4. \A i \in 1..Len(t) : IsFrame(t[i])
  BY <1>1, <1>2, <1>3
<1>5. t # << >> => Len(t) # 0
  BY <1>3, EmptyStack
<1>6. t # << >> => t[1].fn = "val" /\ t[1].path = << >>
  BY <1>1, <1>2, <1>3, <1>5
<1>7. \A i \in 1..(Len(t) - 1) : CalledBy(t[i], t[i + 1])
  <2> TAKE i \in 1..(Len(t) - 1)
  <2>1. i \in 1..(n - 1) /\ i + 1 \in 1..(n - 1)
    BY <1>1, <1>3
  <2> QED
    BY <1>2, <1>3, <2>1
<1>8. t # << >> => t[Len(t)].begun
  <2> HAVE t # << >>
  <2>1. Len(t) \in 1..(n - 1)
    BY <1>1, <1>3, <1>5
  <2>2. CalledBy(fr[Len(t)], fr[Len(t) + 1]) /\ t[Len(t)] = fr[Len(t)]
    BY <1>2, <1>3, <2>1
  <2> QED
    BY <2>2 DEF CalledBy
<1> QED
  BY <1>3, <1>4, <1>6, <1>7, <1>8 DEF Chained, t

LEMMA ChainStays ==
  ASSUME NEW fr, NEW bk, Chained(fr, bk), fr # << >>,
         NEW g, Onward(fr[Len(fr)], g)
  PROVE  Chained(Append(Front(fr), g), "none") /\ Topped(fr, Append(Front(fr), g), g)
         /\ Append(Front(fr), g) # << >>
<1> DEFINE t == Append(Front(fr), g)
           n == Len(fr)
<1>1. n \in Nat /\ n > 0 /\ Topped(fr, t, g)
  BY StackMoves DEF Chained
<1>2. /\ \A i \in 1..n : IsFrame(fr[i])
      /\ fr[1].fn = "val" /\ fr[1].path = << >>
      /\ \A i \in 1..(n - 1) : CalledBy(fr[i], fr[i + 1])
  BY DEF Chained
<1> HIDE DEF t, n
<1>3. /\ IsStack(t) /\ Len(t) = n /\ t[n] = g
      /\ \A i \in 1..(n - 1) : t[i] = fr[i]
  BY <1>1 DEF Topped, n
<1>4. IsFrame(g) /\ g.fn = fr[n].fn /\ g.path = fr[n].path
  BY DEF Onward, n
<1>5. \A i \in 1..n : IsFrame(t[i])
  <2> TAKE i \in 1..n
  <2>1. i = n \/ i \in 1..(n - 1)
    BY <1>1
  <2> QED
    BY <1>2, <1>3, <1>4, <2>1
<1>6. t[1].fn = "val" /\ t[1].path = << >>
  <2>1. n = 1 \/ 1 \in 1..(n - 1)
    BY <1>1
  <2> QED
    BY <1>2, <1>3, <1>4, <2>1
<1>7. \A i \in 1..(n - 1) : CalledBy(t[i], t[i + 1])
  <2> TAKE i \in 1..(n - 1)
  <2>1. CalledBy(fr[i], fr[i + 1]) /\ t[i] = fr[i]
    BY <1>2, <1>3
  <2>2. i + 1 = n \/ i + 1 \in 1..(n - 1)
    BY <1>1
  <2>3. CASE i + 1 = n
    <3>1. t[i + 1] = g /\ fr[i + 1] = fr[n]
      BY <1>3, <2>3
    <3> QED
      BY <1>4, <2>1, <3>1, CallerSame
  <2>4. CASE i + 1 \in 1..(n - 1)
    BY <1>3, <2>1, <2>4
  <2> QED
    BY <2>2, <2>3, <2>4
<1>8. t # << >>
  BY <1>1, <1>3, EmptyStack
<1>9. Chained(t, "none")
  BY <1>3, <1>5, <1>6, <1>7 DEF Chained
<1> QED
  BY <1>1, <1>8, <1>9 DEF t

LEMMA ChainCalls ==
  ASSUME NEW fr, NEW bk, Chained(fr, bk), fr # << >>,
         NEW g, Onward(fr[Len(fr)], g), NEW h, IsFrame(h), CalledBy(g, h)
  PROVE  Chained(Front(fr) \o <<g, h>>, "none") /\ Pushed(fr, Front(fr) \o <<g, h>>, g, h)
         /\ Front(fr) \o <<g, h>> # << >>
<1> DEFINE t == Front(fr) \o <<g, h>>
           n == Len(fr)
<1>1. n \in Nat /\ n > 0 /\ Pushed(fr, t, g, h)
  BY StackMoves DEF Chained
<1>2. /\ \A i \in 1..n : IsFrame(fr[i])
      /\ fr[1].fn = "val" /\ fr[1].path = << >>
      /\ \A i \in 1..(n - 1) : CalledBy(fr[i], fr[i + 1])
  BY DEF Chained
<1> HIDE DEF t, n
<1>3. /\ IsStack(t) /\ Len(t) = n + 1 /\ t[n] = g /\ t[n + 1] = h
      /\ \A i \in 1..(n - 1) : t[i] = fr[i]
  BY <1>1 DEF Pushed, n
<1>4. IsFrame(g) /\ g.fn = fr[n].fn /\ g.path = fr[n].path
  BY DEF Onward, n
<1>5. \A i \in 1..(n + 1) : IsFrame(t[i])
  <2> TAKE i \in 1..(n + 1)
  <2>1. i = n \/ i = n + 1 \/ (i \in 1..(n - 1) /\ i \in 1..n)
    BY <1>1
  <2>2. CASE i = n
    BY <1>3, <1>4, <2>2
  <2>3. CASE i = n + 1
    BY <1>3, <2>3
  <2>4. CASE i \in 1..(n - 1) /\ i \in 1..n
    <3>1. t[i] = fr[i]
      BY <1>3, <2>4
    <3> QED
      BY <1>2, <2>4, <3>1
  <2> QED
    BY <2>1, <2>2, <2>3, <2>4
<1>6. t[1].fn = "val" /\ t[1].path = << >>
  <2>1. n = 1 \/ 1 \in 1..(n - 1)
    BY <1>1
  <2> QED
    BY <1>2, <1>3, <1>4, <2>1
<1>7. \A i \in 1..n : CalledBy(t[i], t[i + 1])
  <2> TAKE i \in 1..n
  <2>1. i = n \/ (i \in 1..(n - 1) /\ i + 1 = n) \/ (i \in 1..(n - 1) /\ i + 1 \in 1..(n - 1))
    BY <1>1
  <2>2. CASE i = n
    BY <1>3, <2>2
  <2>3. CASE i \in 1..(n - 1) /\ i + 1 = n
    <3>1. CalledBy(fr[i], fr[i + 1]) /\ t[i] = fr[i]
      BY <1>2, <1>3, <2>3
    <3>2. t[i + 1] = g /\ fr[i + 1] = fr[n]
      BY <1>3, <2>3
    <3> QED
      BY <1>4, <3>1, <3>2, CallerSame
  <2>4. CASE i \in 1..(n - 1) /\ i + 1 \in 1..(n - 1)
    BY <1>2, <1>3, <2>4
  <2> QED
    BY <2>1, <2>2, <2>3, <2>4
<1>8. t # << >>
  BY <1>1, <1>3, EmptyStack
<1>9. Chained(t, "none")
  <2>1. Len(t) - 1 = n
    BY <1>1, <1>3
  <2> QED
    BY <1>3, <1>5, <1>6, <1>7, <2>1 DEF Chained
<1> QED
  BY <1>1, <1>8, <1>9 DEF t

-----------------------------------------------------------------------------
(* What a step of a function does to the frames and the heap. *)
LEMMA HeldGrows ==
  ASSUME NEW fr, NEW bk, NEW hp, NEW new, NEW a, Held(fr, bk, hp, a)
  PROVE  Held(fr, bk, hp \cup new, a)
BY HolderGrows DEF Held

\* After a return the child that was coming is the one returned.
LEMMA HeldPops ==
  ASSUME NEW fr, NEW bk, Chained(fr, bk), fr # << >>,
         NEW hp, NEW a, Held(fr, "none", hp, a)
  PROVE  Held(Front(fr), "ok", hp, a)
<1> DEFINE t == Front(fr)
           n == Len(fr)
<1>1. /\ n \in Nat /\ n > 0 /\ Len(t) = n - 1
      /\ \A i \in 1..(n - 1) : t[i] = fr[i]
  BY ChainFacts DEF Popped
<1>2. IsStack(t)
  BY ChainFacts DEF Popped
<1>3. \/ a = <<"val", << >>>>
      \/ HolderIn(hp, a) \in hp
      \/ \E i \in 1..(n - 1) : Coming(fr[i], a)
  BY DEF Held
<1>4. ASSUME NEW i \in 1..(n - 1), Coming(fr[i], a)
      PROVE  Held(t, "ok", hp, a)
  <2> HIDE DEF t, n
  <2>1. t[i] = fr[i]
    BY <1>1
  <2>2. t # << >>
    <3>1. Len(t) # 0
      BY <1>1
    <3> QED
      BY <1>2, <3>1, EmptyStack
  <2>3. i = Len(t) \/ i \in 1..(Len(t) - 1)
    BY <1>1
  <2> QED
    BY <1>4, <2>1, <2>2, <2>3 DEF Held
<1> QED
  BY <1>3, <1>4 DEF Held

\* A function, the top of fr, may return what it has, of which new is new.
MayReturn(fr, bk, hp, new) ==
  LET top == fr[Len(fr)]
  IN  /\ new \subseteq Alloc
      /\ \A a \in new : Result(top, a) /\ Held(fr, "none", hp \cup new, a)
      /\ \A a \in hp : Mine(top, a) \/ (bk = "ok" /\ Got(top, a)) => Result(top, a)
      /\ bk = "ok" => top.fn \notin Container
      /\ top.fn = "val" => <<"val", top.path>> \in hp \cup new

LEMMA ReturnedOk ==
  ASSUME NEW fr, NEW bk, NEW hp, Reading(fr, bk, hp), fr # << >>, bk # "null",
         NEW new, MayReturn(fr, bk, hp, new)
  PROVE  Reading(Front(fr), "ok", hp \cup new)
<1> DEFINE t == Front(fr)
           n == Len(fr)
           top == fr[n]
           hq == hp \cup new
<1>0. /\ new \subseteq Alloc
      /\ \A a \in new : Result(top, a) /\ Held(fr, "none", hq, a)
      /\ \A a \in hp : Mine(top, a) \/ (bk = "ok" /\ Got(top, a)) => Result(top, a)
      /\ bk = "ok" => top.fn \notin Container
      /\ top.fn = "val" => <<"val", top.path>> \in hq
  BY DEF MayReturn
<1>1. /\ hp \subseteq Alloc /\ Chained(fr, bk)
      /\ \A a \in hp : Located(fr, bk, a)
      /\ Rooted(fr, bk, hp)
  BY DEF Reading
<1>2. /\ n \in Nat /\ n > 0 /\ n \in 1..n /\ IsFrame(top) /\ Len(t) = n - 1
      /\ \A i \in 1..(n - 1) : t[i] = fr[i]
  BY <1>1, ChainFacts DEF Popped
<1>3. /\ n = 1 => top.fn = "val" /\ top.path = << >> /\ t = << >>
      /\ n # 1 => t # << >> /\ t[Len(t)] = fr[n - 1] /\ CalledBy(fr[n - 1], top)
  BY <1>1, ChainFacts
<1>4. Chained(t, "ok")
  BY <1>1, ChainPops
<1>5. hq \subseteq Alloc
  BY <1>0, <1>1
<1>6. \A a \in hq : Result(top, a) \/ \E i \in 1..(n - 1) : Mine(fr[i], a)
  <2> TAKE a \in hq
  <2>1. CASE a \in new
    BY <1>0, <2>1
  <2>2. CASE a \in hp
    <3>1. (\E i \in 1..n : Mine(fr[i], a)) \/ (bk = "ok" /\ Got(top, a))
      BY <1>1, <2>2 DEF Located
    <3>2. \A i \in 1..n : i = n \/ i \in 1..(n - 1)
      BY <1>2
    <3> QED
      BY <1>0, <2>2, <3>1, <3>2
  <2> QED
    BY <2>1, <2>2
<1>7. \A a \in hq : Located(t, "ok", a)
  <2> TAKE a \in hq
  <2>1. CASE \E i \in 1..(n - 1) : Mine(fr[i], a)
    <3> PICK i \in 1..(n - 1) : Mine(fr[i], a)
      BY <2>1
    <3>1. i \in 1..Len(t) /\ Mine(t[i], a)
      BY <1>2
    <3> QED
      BY <3>1 DEF Located
  <2>2. CASE Result(top, a)
    <3>0. a \in Alloc
      BY <1>5
    <3> HIDE DEF t, n, top, hq
    <3>1. CASE n = 1
      <4>1. a # <<"item", << >>>>
        BY <1>2, <1>3, <2>2, <3>0, <3>1, ResultOfRoot
      <4> QED
        BY <1>3, <3>1, <4>1 DEF Located
    <3>2. CASE n # 1
      <4>1. Got(t[Len(t)], a)
        BY <1>2, <1>3, <2>2, <3>0, <3>2, ResultGot
      <4> QED
        BY <1>3, <3>2, <4>1 DEF Located
    <3> QED
      BY <3>1, <3>2
  <2> QED
    BY <1>6, <2>1, <2>2
<1>8. Rooted(t, "ok", hq)
  <2>1. \A i \in 1..Len(t) : t[i].begun => Own(t[i]) \subseteq hq
    <3> TAKE i \in 1..Len(t)
    <3>1. i \in 1..n /\ t[i] = fr[i]
      BY <1>2
    <3>2. fr[i].begun => Own(fr[i]) \subseteq hp
      BY <1>1, <3>1 DEF Rooted
    <3> HIDE DEF t, n, top
    <3> QED
      BY <3>1, <3>2
  <2>2. \A a \in hq : Held(fr, "none", hq, a)
    <3> TAKE a \in hq
    <3>1. CASE a \in new
      BY <1>0, <3>1
    <3>2. CASE a \in hp
      <4>1. Held(fr, bk, hp, a)
        BY <1>1, <3>2 DEF Rooted
      <4>2. ~(bk = "ok" /\ Coming(top, a))
        BY <1>0 DEF Coming
      <4>3. Held(fr, "none", hp, a)
        BY <4>1, <4>2 DEF Held
      <4> HIDE DEF t, n, top
      <4> QED
        BY <4>3, HeldGrows
    <3> QED
      BY <3>1, <3>2
  <2>3. \A a \in hq : Held(t, "ok", hq, a)
    BY <1>1, <2>2, HeldPops
  <2>4. t = << >> => <<"val", << >>>> \in hq
    <3> HAVE t = << >>
    <3>1. n = 1
      BY <1>3
    <3> QED
      BY <1>0, <1>3, <3>1
  <2> HIDE DEF t, n, top, hq
  <2> QED
    BY <2>1, <2>3, <2>4 DEF Rooted
<1> HIDE DEF t, n, top, hq
<1>9. Reading(t, "ok", hq)
  BY <1>4, <1>5, <1>7, <1>8 DEF Reading
<1> QED
  BY <1>9 DEF t, hq

\* A function gives back what it has.
LEMMA ReturnedNull ==
  ASSUME NEW fr, NEW bk, NEW hp, Reading(fr, bk, hp), fr # << >>,
         NEW less, less \subseteq hp,
         \A a \in less : ~Mine(fr[Len(fr)], a) /\ ~(bk = "ok" /\ Got(fr[Len(fr)], a))
  PROVE  Reading(Front(fr), "null", less)
<1> DEFINE t == Front(fr)
           n == Len(fr)
<1>1. hp \subseteq Alloc /\ Chained(fr, bk) /\ \A a \in hp : Located(fr, bk, a)
  BY DEF Reading
<1>2. /\ n \in Nat /\ n > 0 /\ Len(t) = n - 1
      /\ \A i \in 1..(n - 1) : t[i] = fr[i]
  BY <1>1, ChainFacts DEF Popped
<1>3. Chained(t, "null")
  BY <1>1, ChainPops
<1>4. \A a \in less : Located(t, "null", a)
  <2> TAKE a \in less
  <2>1. \E i \in 1..n : Mine(fr[i], a)
    <3>1. Located(fr, bk, a)
      BY <1>1
    <3> QED
      BY <3>1 DEF Located
  <2> PICK i \in 1..n : Mine(fr[i], a)
    BY <2>1
  <2>2. i # n
    OBVIOUS
  <2>3. i \in 1..(n - 1)
    BY <1>2, <2>2
  <2>4. i \in 1..Len(t) /\ Mine(t[i], a)
    BY <1>2, <2>3
  <2> QED
    BY <2>4 DEF Located
<1> HIDE DEF t, n
<1>5. Reading(t, "null", less)
  BY <1>1, <1>3, <1>4 DEF Reading
<1> QED
  BY <1>5 DEF t

\* A function calls another.
LEMMA Called ==
  ASSUME NEW fr, NEW hp, Reading(fr, "none", hp), fr # << >>,
         NEW g, Onward(fr[Len(fr)], g), g.done = fr[Len(fr)].done,
         NEW h, IsFrame(h), ~h.begun, CalledBy(g, h),
         NEW new, new \subseteq Alloc, Own(g) \subseteq hp \cup new,
         \A a \in new : Mine(g, a) /\ Held(fr, "none", hp \cup new, a)
  PROVE  Reading(Front(fr) \o <<g, h>>, "none", hp \cup new)
<1> DEFINE t == Front(fr) \o <<g, h>>
           n == Len(fr)
           top == fr[n]
           hq == hp \cup new
<1>1. /\ hp \subseteq Alloc /\ Chained(fr, "none")
      /\ \A a \in hp : Located(fr, "none", a)
      /\ Rooted(fr, "none", hp)
  BY DEF Reading
<1>2. /\ n \in Nat /\ n > 0
  BY <1>1, ChainFacts
<1>3. Chained(t, "none") /\ Pushed(fr, t, g, h) /\ t # << >>
  BY <1>1, ChainCalls
<1>4. /\ Len(t) = n + 1 /\ t[n] = g /\ t[n + 1] = h
      /\ \A i \in 1..(n - 1) : t[i] = fr[i]
  BY <1>3 DEF Pushed
<1>5. hq \subseteq Alloc
  BY <1>1
<1>6. \A a : Mine(top, a) => Mine(g, a)
  BY DEF Mine, Onward, Own
<1> HIDE DEF t, n
<1>7. \A a \in hq : \E i \in 1..Len(t) : Mine(t[i], a)
  <2> TAKE a \in hq
  <2>0. n \in 1..Len(t) /\ t[n] = g
    BY <1>2, <1>4
  <2>1. CASE a \in new
    BY <2>0, <2>1
  <2>2. CASE a \in hp
    <3>1. Located(fr, "none", a)
      BY <1>1, <2>2
    <3>2. PICK i \in 1..n : Mine(fr[i], a)
      BY <3>1 DEF Located, n
    <3>3. CASE i = n
      BY <1>6, <2>0, <3>2, <3>3
    <3>4. CASE i # n
      <4>1. i \in 1..(n - 1) /\ i \in 1..Len(t)
        BY <1>2, <1>4, <3>4
      <4> QED
        BY <1>4, <3>2, <4>1
    <3> QED
      BY <3>3, <3>4
  <2> QED
    BY <2>1, <2>2
<1>8. \A i \in 1..Len(t) : t[i].begun => Own(t[i]) \subseteq hq
  <2> TAKE i \in 1..Len(t)
  <2>1. i = n \/ i = n + 1 \/ (i \in 1..(n - 1) /\ i \in 1..n)
    BY <1>2, <1>4
  <2>2. CASE i = n
    BY <1>4, <2>2
  <2>3. CASE i = n + 1
    BY <1>4, <2>3
  <2>4. CASE i \in 1..(n - 1) /\ i \in 1..n
    <3>1. t[i] = fr[i]
      BY <1>4, <2>4
    <3>2. fr[i].begun => Own(fr[i]) \subseteq hp
      BY <1>1, <2>4 DEF Rooted, n
    <3> QED
      BY <3>1, <3>2
  <2> QED
    BY <2>1, <2>2, <2>3, <2>4
<1>9. \A a \in hq : Held(t, "none", hq, a)
  <2> TAKE a \in hq
  <2>1. Held(fr, "none", hq, a)
    <3>1. CASE a \in new
      BY <3>1
    <3>2. CASE a \in hp
      <4>1. Held(fr, "none", hp, a)
        BY <1>1, <3>2 DEF Rooted
      <4> QED
        BY <4>1, HeldGrows
    <3> QED
      BY <3>1, <3>2
  <2>2. ASSUME NEW i \in 1..(n - 1), Coming(fr[i], a)
        PROVE  Held(t, "none", hq, a)
    <3>1. i \in 1..(Len(t) - 1) /\ t[i] = fr[i]
      BY <1>2, <1>4
    <3> QED
      BY <2>2, <3>1 DEF Held
  <2> HIDE DEF hq
  <2>3. \/ a = <<"val", << >>>> \/ HolderIn(hq, a) \in hq
        \/ \E i \in 1..(n - 1) : Coming(fr[i], a)
    BY <2>1 DEF Held, n
  <2> QED
    BY <2>2, <2>3 DEF Held
<1> HIDE DEF top, hq
<1>10. Rooted(t, "none", hq)
  BY <1>3, <1>8, <1>9 DEF Rooted
<1>11. Reading(t, "none", hq)
  BY <1>3, <1>5, <1>7, <1>10 DEF Reading, Located
<1> QED
  BY <1>11 DEF t, hq

\* The top of fr may go on as g, with new.
MayStay(fr, bk, hp, new, g) ==
  LET top == fr[Len(fr)]
      hq == hp \cup new
  IN  /\ Onward(top, g)
      /\ new \subseteq Alloc /\ Own(g) \subseteq hq
      /\ \A a \in new : Mine(g, a) /\ Held(fr, "none", hq, a)
      /\ \A a \in hp : Mine(top, a) \/ (bk = "ok" /\ Got(top, a)) => Mine(g, a)
      /\ \A a \in hp : bk = "ok" /\ Coming(top, a) => HolderIn(hq, a) \in hq

LEMMA Stayed ==
  ASSUME NEW fr, NEW bk, NEW hp, Reading(fr, bk, hp), fr # << >>, bk # "null",
         NEW g, NEW new, MayStay(fr, bk, hp, new, g)
  PROVE  Reading(Append(Front(fr), g), "none", hp \cup new)
<1> DEFINE t == Append(Front(fr), g)
           n == Len(fr)
           top == fr[n]
           hq == hp \cup new
<1>0. /\ Onward(top, g)
      /\ new \subseteq Alloc /\ Own(g) \subseteq hq
      /\ \A a \in new : Mine(g, a) /\ Held(fr, "none", hq, a)
      /\ \A a \in hp : Mine(top, a) \/ (bk = "ok" /\ Got(top, a)) => Mine(g, a)
      /\ \A a \in hp : bk = "ok" /\ Coming(top, a) => HolderIn(hq, a) \in hq
  BY DEF MayStay
<1>1. /\ hp \subseteq Alloc /\ Chained(fr, bk)
      /\ \A a \in hp : Located(fr, bk, a)
      /\ Rooted(fr, bk, hp)
  BY DEF Reading
<1>2. /\ n \in Nat /\ n > 0
  BY <1>1, ChainFacts
<1>3. Chained(t, "none") /\ Topped(fr, t, g) /\ t # << >>
  BY <1>0, <1>1, ChainStays
<1>4. /\ Len(t) = n /\ t[n] = g
      /\ \A i \in 1..(n - 1) : t[i] = fr[i]
  BY <1>3 DEF Topped
<1>5. hq \subseteq Alloc
  BY <1>0, <1>1
<1> HIDE DEF t, n
<1>6. \A a \in hq : \E i \in 1..Len(t) : Mine(t[i], a)
  <2> TAKE a \in hq
  <2>0. n \in 1..Len(t) /\ t[n] = g
    BY <1>2, <1>4
  <2>1. CASE a \in new
    BY <1>0, <2>0, <2>1
  <2>2. CASE a \in hp
    <3>1. Located(fr, bk, a)
      BY <1>1, <2>2
    <3>2. (\E i \in 1..n : Mine(fr[i], a)) \/ (bk = "ok" /\ Got(top, a))
      BY <3>1 DEF Located, n
    <3>3. Mine(top, a) \/ (bk = "ok" /\ Got(top, a)) => Mine(g, a)
      BY <1>0, <2>2
    <3>4. ASSUME NEW i \in 1..n, Mine(fr[i], a), i # n
          PROVE  i \in 1..Len(t) /\ Mine(t[i], a)
      <4>1. i \in 1..(n - 1) /\ i \in 1..Len(t)
        BY <1>2, <1>4, <3>4
      <4> QED
        BY <1>4, <3>4, <4>1
    <3> QED
      BY <2>0, <3>2, <3>3, <3>4
  <2> QED
    BY <2>1, <2>2
<1>7. \A i \in 1..Len(t) : t[i].begun => Own(t[i]) \subseteq hq
  <2> TAKE i \in 1..Len(t)
  <2>1. i = n \/ (i \in 1..(n - 1) /\ i \in 1..n)
    BY <1>2, <1>4
  <2>2. CASE i = n
    BY <1>0, <1>4, <2>2
  <2>3. CASE i \in 1..(n - 1) /\ i \in 1..n
    <3>1. t[i] = fr[i]
      BY <1>4, <2>3
    <3>2. fr[i].begun => Own(fr[i]) \subseteq hp
      BY <1>1, <2>3 DEF Rooted, n
    <3> QED
      BY <3>1, <3>2
  <2> QED
    BY <2>1, <2>2, <2>3
<1>8. \A a \in hq : Held(t, "none", hq, a)
  <2> TAKE a \in hq
  <2>1. Held(fr, "none", hq, a) \/ HolderIn(hq, a) \in hq
    <3>1. CASE a \in new
      BY <1>0, <3>1
    <3>2. CASE a \in hp
      <4>1. Held(fr, bk, hp, a)
        BY <1>1, <3>2 DEF Rooted
      <4>2. CASE bk = "ok" /\ Coming(top, a)
        <5>1. HolderIn(hq, a) \in hq
          BY <1>0, <3>2, <4>2
        <5> QED
          BY <5>1
      <4>3. CASE ~(bk = "ok" /\ Coming(top, a))
        <5>1. Held(fr, "none", hp, a)
          BY <4>1, <4>3 DEF Held, n
        <5> QED
          BY <5>1, HeldGrows
      <4> QED
        BY <4>2, <4>3
    <3> QED
      BY <3>1, <3>2
  <2>2. ASSUME NEW i \in 1..(n - 1), Coming(fr[i], a)
        PROVE  Held(t, "none", hq, a)
    <3>1. i \in 1..(Len(t) - 1) /\ t[i] = fr[i]
      BY <1>2, <1>4
    <3> QED
      BY <2>2, <3>1 DEF Held
  <2> HIDE DEF hq
  <2>3. \/ a = <<"val", << >>>> \/ HolderIn(hq, a) \in hq
        \/ \E i \in 1..(n - 1) : Coming(fr[i], a)
    BY <2>1 DEF Held, n
  <2> QED
    BY <2>2, <2>3 DEF Held
<1> HIDE DEF top, hq
<1>9. Rooted(t, "none", hq)
  BY <1>3, <1>7, <1>8 DEF Rooted
<1>10. Reading(t, "none", hq)
  BY <1>3, <1>5, <1>6, <1>9 DEF Reading, Located
<1> QED
  BY <1>10 DEF t, hq

\* What holds the allocations of a function that has just been called.
LEMMA HeldByCaller ==
  ASSUME NEW fr, NEW hp, Reading(fr, "none", hp), fr # << >>, NEW new,
         NEW top, top = fr[Len(fr)], NEW p, p = top.path
  PROVE  /\ top.fn = "val" => Held(fr, "none", hp \cup new, <<"val", p>>)
         /\ top.fn = "keyval" => Held(fr, "none", hp \cup new, <<"keyval", p>>)
         /\ top.fn \in Container => <<"val", p>> \in hp
<1> DEFINE n == Len(fr)
           c == fr[n - 1]
           hq == hp \cup new
<1>1. Chained(fr, "none") /\ Rooted(fr, "none", hp)
  BY DEF Reading
<1>2. /\ n \in Nat /\ n > 0
      /\ n = 1 => top.fn = "val" /\ p = << >>
      /\ n # 1 => CalledBy(c, top) /\ n - 1 \in 1..(n - 1)
  BY <1>1, ChainFacts
<1>3. n # 1 => Own(c) \subseteq hp
  <2> HAVE n # 1
  <2>1. n - 1 \in 1..n
    BY <1>2
  <2> QED
    BY <1>1, <1>2, <2>1 DEF Rooted, CalledBy
<1>4. \A a : n # 1 /\ Coming(c, a) => Held(fr, "none", hq, a)
  BY <1>2 DEF Held
<1>5. \A a : HolderIn(hq, a) \in hq => Held(fr, "none", hq, a)
  BY DEF Held
<1>6. Held(fr, "none", hq, <<"val", << >>>>)
  BY DEF Held
<1>7. /\ <<"keyval", p>> \in hq => HolderIn(hq, <<"val", p>>) = <<"keyval", p>>
  BY DEF HolderIn
<1>8. c.fn = "keyval" => <<"keyval", c.path>> \in Own(c)
  BY DEF Own
<1>9. c.fn = "val" => <<"val", c.path>> \in Own(c)
  BY DEF Own
<1>10. hp \subseteq hq
  OBVIOUS
<1>11. \/ n = 1 /\ top.fn = "val" /\ p = << >>
       \/ n # 1 /\ c.fn = "val" /\ top.fn \in Container /\ p = c.path
       \/ n # 1 /\ c.fn = "keyval" /\ top.fn = "val" /\ p = c.path
       \/ n # 1 /\ c.fn = "{" /\ top.fn = "keyval" /\ p = NextChild(c)
       \/ n # 1 /\ c.fn = "[" /\ top.fn = "val" /\ p = NextChild(c)
  BY <1>2 DEF CalledBy
<1>12. c.fn \in Container => Coming(c, <<"val", NextChild(c)>>) /\ Coming(c, <<"keyval", NextChild(c)>>)
  BY DEF Coming
<1> HIDE DEF n, c, hq
<1>13. top.fn = "val" => Held(fr, "none", hq, <<"val", p>>)
  <2> HAVE top.fn = "val"
  <2>1. \/ n = 1 /\ p = << >>
        \/ n # 1 /\ c.fn = "keyval" /\ p = c.path
        \/ n # 1 /\ c.fn = "[" /\ p = NextChild(c)
    BY <1>11 DEF Container
  <2>2. CASE n = 1 /\ p = << >>
    BY <1>6, <2>2
  <2>3. CASE n # 1 /\ c.fn = "keyval" /\ p = c.path
    <3>1. <<"keyval", p>> \in hq
      BY <1>3, <1>8, <1>10, <2>3
    <3> QED
      BY <1>5, <1>7, <3>1
  <2>4. CASE n # 1 /\ c.fn = "[" /\ p = NextChild(c)
    BY <1>4, <1>12, <2>4 DEF Container
  <2> QED
    BY <2>1, <2>2, <2>3, <2>4
<1>14. top.fn = "keyval" => Held(fr, "none", hq, <<"keyval", p>>)
  <2> HAVE top.fn = "keyval"
  <2>1. n # 1 /\ c.fn = "{" /\ p = NextChild(c)
    BY <1>11 DEF Container
  <2> QED
    BY <1>4, <1>12, <2>1 DEF Container
<1>15. top.fn \in Container => <<"val", p>> \in hp
  <2> HAVE top.fn \in Container
  <2>1. n # 1 /\ c.fn = "val" /\ p = c.path
    BY <1>11 DEF Container
  <2> QED
    BY <1>3, <1>9, <2>1
<1> QED
  BY <1>13, <1>14, <1>15 DEF hq

-----------------------------------------------------------------------------
(* The steps of the reader. *)
LEMMA GrownHeap ==
  ASSUME NEW hp, NEW new, new \subseteq Alloc
  PROVE  (hp \cup new) \ Parser = (hp \ Parser) \cup new
<1>1. \A a \in new : a \notin Parser
  <2> TAKE a \in new
  <2>1. a[1] \in Kind
    BY AllocIs
  <2>2. a[1] # "wrapper" /\ a[1] # "tokens"
    BY <2>1 DEF Kind, Container
  <2>3. \A b \in Parser : b[1] = "wrapper" \/ b[1] = "tokens"
    BY DEF Parser
  <2> QED
    BY <2>2, <2>3
<1> QED
  BY <1>1

LEMMA Reads ==
  ASSUME ReaderInv, NEW fns, In(fns)
  PROVE  /\ outcome = "reading" /\ frames # << >> /\ Top = frames[Len(frames)]
         /\ Top.fn \in fns /\ Reading(frames, back, heap \ Parser)
         /\ IsFrame(Top) /\ Top.path \in Path /\ Callers = Front(frames)
<1>1. outcome = "reading" /\ frames # << >> /\ Top = frames[Len(frames)] /\ Top.fn \in fns
      /\ Callers = Front(frames)
  BY DEF In, Top, Callers
<1>2. Reading(frames, back, heap \ Parser)
  BY <1>1 DEF ReaderInv
<1>3. Chained(frames, back)
  BY <1>2 DEF Reading
<1>4. IsFrame(frames[Len(frames)])
  BY <1>1, <1>3, ChainFacts
<1> QED
  BY <1>1, <1>2, <1>4 DEF IsFrame

LEMMA EntersReads ==
  ASSUME ReaderInv, NEW fns, Enters(fns)
  PROVE  back = "none" /\ Reading(frames, "none", heap \ Parser)
<1>1. /\ frames # << >> /\ Top = frames[Len(frames)]
      /\ Reading(frames, back, heap \ Parser)
  BY Reads DEF Enters
<1>2. Chained(frames, back) /\ ~Top.begun
  BY <1>1 DEF Reading, Enters
<1>3. back = "none"
  BY <1>1, <1>2, Zenon DEF Chained
<1> QED
  BY <1>1, <1>3

LEMMA ResumesReads ==
  ASSUME ReaderInv, NEW fns, Resumes(fns)
  PROVE  Top.begun /\ back \in {"ok", "null"}
<1>1. /\ frames # << >> /\ Top = frames[Len(frames)]
      /\ Reading(frames, back, heap \ Parser)
  BY Reads DEF Resumes
<1>2. Chained(frames, back) /\ back # "none" /\ back \in {"none", "ok", "null"}
  BY <1>1 DEF Reading, Resumes
<1>3. Top.begun
  BY <1>1, <1>2, Zenon DEF Chained
<1> QED
  BY <1>2, <1>3

LEMMA StillReading ==
  ASSUME outcome' = "reading", Reading(frames', back', heap' \ Parser)
  PROVE  ReaderInv'
BY DEF ReaderInv

\* A function that has just been called returns NULL.
LEMMA GivesUp ==
  ASSUME ReaderInv, NEW fns, Enters(fns), UNCHANGED <<heap, outcome>>, Returns("null")
  PROVE  ReaderInv'
<1> DEFINE hp == heap \ Parser
<1>1. /\ outcome = "reading" /\ frames # << >> /\ Top = frames[Len(frames)]
      /\ Reading(frames, back, hp) /\ back = "none" /\ ~Top.begun
      /\ Callers = Front(frames)
  BY Reads, EntersReads DEF Enters
<1>2. \A a \in hp : ~Mine(Top, a)
  BY <1>1 DEF Mine
<1>3. frames' = Front(frames) /\ back' = "null" /\ heap' = heap /\ outcome' = outcome
  BY <1>1 DEF Returns
<1> HIDE DEF hp
<1>4. Reading(Front(frames), "null", hp)
  BY <1>1, <1>2, ReturnedNull
<1> QED
  BY <1>1, <1>3, <1>4, StillReading DEF hp

LEMMA ValEnterKeeps ==
  ASSUME ReaderInv, ValEnter
  PROVE  ReaderInv'
<1> DEFINE hp == heap \ Parser
           p == Top.path
           type == tokens[pos].type
<1>1. /\ outcome = "reading" /\ frames # << >> /\ Top = frames[Len(frames)] /\ Top.fn = "val"
      /\ Reading(frames, "none", hp) /\ back = "none" /\ ~Top.begun /\ IsFrame(Top)
      /\ Callers = Front(frames) /\ p \in Path
  <2>1. In({"val"}) /\ Enters({"val"}) /\ ~Top.begun
    BY DEF ValEnter, Enters
  <2>2. /\ outcome = "reading" /\ frames # << >> /\ Top = frames[Len(frames)]
        /\ Top.fn \in {"val"} /\ Reading(frames, back, heap \ Parser)
        /\ IsFrame(Top) /\ Top.path \in Path /\ Callers = Front(frames)
    BY <2>1, Reads, Zenon
  <2>3. back = "none" /\ Reading(frames, "none", heap \ Parser)
    BY <2>1, EntersReads, Zenon
  <2> QED
    BY <2>1, <2>2, <2>3
<1>2. Enters({"val"}) /\ outcome' = outcome
  BY DEF ValEnter
<1>3. \/ UNCHANGED <<heap, pos>> /\ Returns("null")
      \/ /\ type \in Container
         /\ heap' = heap \cup {<<"val", p>>}
         /\ Calls(Started(Top), type, p)
      \/ /\ type \in {"string", "primitive"}
         /\ heap' = heap \cup {<<"val", p>>, <<type, p>>}
         /\ Returns("ok")
  BY Zenon DEF ValEnter, TokenIs, Container
<1> HIDE DEF hp, p, type
<1>4. \A new : Held(frames, "none", hp \cup new, <<"val", p>>)
  BY <1>1, HeldByCaller DEF p
<1>5. CASE UNCHANGED <<heap, pos>> /\ Returns("null")
  BY <1>2, <1>5, GivesUp
<1>6. CASE /\ type \in Container
           /\ heap' = heap \cup {<<"val", p>>}
           /\ Calls(Started(Top), type, p)
  <2> DEFINE new == {<<"val", p>>}
             g == Started(Top)
             h == Frame(type, p)
  <2>1. /\ frames' = Front(frames) \o <<g, h>> /\ back' = "none"
    BY <1>1, <1>6 DEF Calls
  <2>2. Onward(Top, g) /\ g.done = Top.done
    BY <1>1, FrameChanges
  <2>3. IsFrame(h) /\ ~h.begun /\ h.fn = type /\ h.path = p
    BY <1>1, <1>6, FrameIs DEF Fn
  <2> HIDE DEF g, h
  <2>4. g.begun /\ g.fn = "val" /\ g.path = p
    BY <1>1, <2>2 DEF Onward, p
  <2>5. CalledBy(g, h)
    BY <1>6, <2>3, <2>4 DEF CalledBy
  <2>6. Own(g) = new
    BY <2>4 DEF Own
  <2>7. new \subseteq Alloc
    BY <1>1 DEF Alloc, Kind
  <2>8. Own(g) \subseteq hp \cup new /\ \A a \in new : Mine(g, a)
    BY <2>4, <2>6 DEF Mine
  <2>9. \A a \in new : Held(frames, "none", hp \cup new, a)
    BY <1>4
  <2>10. heap' \ Parser = hp \cup new
    BY <1>6, <2>7, GrownHeap DEF hp
  <2> HIDE DEF new
  <2>11. Reading(Front(frames) \o <<g, h>>, "none", hp \cup new)
    BY <1>1, <2>2, <2>3, <2>5, <2>7, <2>8, <2>9, Called
  <2> QED
    BY <1>1, <1>2, <2>1, <2>10, <2>11, StillReading
<1>7. CASE /\ type \in {"string", "primitive"}
           /\ heap' = heap \cup {<<"val", p>>, <<type, p>>}
           /\ Returns("ok")
  <2> DEFINE new == {<<"val", p>>, <<type, p>>}
  <2>1. /\ frames' = Front(frames) /\ back' = "ok"
    BY <1>1, <1>7 DEF Returns
  <2>2. new \subseteq Alloc
    BY <1>1, <1>7 DEF Alloc, Kind
  <2>3. \A a \in new : Result(Top, a)
    <3> TAKE a \in new
    <3>1. a[2] = p /\ a[1] \in {"val", "string", "primitive"}
      BY <1>7
    <3> QED
      BY <1>1, <3>1 DEF Result, p
  <2>4. Held(frames, "none", hp \cup new, <<type, p>>)
    <3>1. HolderIn(hp \cup new, <<type, p>>) = <<"val", p>>
      BY <1>7 DEF HolderIn
    <3> QED
      BY <3>1 DEF Held
  <2>5. \A a \in new : Held(frames, "none", hp \cup new, a)
    BY <1>4, <2>4
  <2>6. \A a \in hp : ~Mine(Top, a)
    BY <1>1 DEF Mine
  <2>7. heap' \ Parser = hp \cup new
    BY <1>7, <2>2, GrownHeap DEF hp
  <2>8. <<"val", Top.path>> \in hp \cup new
    BY DEF p
  <2> HIDE DEF new
  <2>9. Reading(Front(frames), "ok", hp \cup new)
    <3>1. MayReturn(frames, "none", hp, new)
      BY <1>1, <2>2, <2>3, <2>5, <2>6, <2>8 DEF MayReturn
    <3> QED
      BY <1>1, <3>1, ReturnedOk
  <2> QED
    BY <1>1, <1>2, <2>1, <2>7, <2>9, StillReading
<1> QED
  BY <1>3, <1>5, <1>6, <1>7

LEMMA ValResumeKeeps ==
  ASSUME ReaderInv, ValResume
  PROVE  ReaderInv'
<1> DEFINE hp == heap \ Parser
           p == Top.path
<1>1. /\ outcome = "reading" /\ frames # << >> /\ Top = frames[Len(frames)] /\ Top.fn = "val"
      /\ Reading(frames, back, hp) /\ back \in {"ok", "null"} /\ Top.begun /\ IsFrame(Top)
      /\ Callers = Front(frames) /\ p \in Path
  <2>1. In({"val"}) /\ Resumes({"val"})
    BY DEF ValResume, Resumes
  <2>2. /\ outcome = "reading" /\ frames # << >> /\ Top = frames[Len(frames)]
        /\ Top.fn \in {"val"} /\ Reading(frames, back, heap \ Parser)
        /\ IsFrame(Top) /\ Top.path \in Path /\ Callers = Front(frames)
    BY <2>1, Reads, Zenon
  <2>3. Top.begun /\ back \in {"ok", "null"}
    BY <2>1, ResumesReads, Zenon
  <2> QED
    BY <2>2, <2>3
<1>2. /\ outcome' = outcome /\ frames' = Front(frames) /\ back' = back
      /\ heap' = IF back = "ok" THEN heap ELSE heap \ {<<"val", p>>}
  BY <1>1 DEF ValResume, Returns
<1>3. back \in {"ok", "null"} /\ (back # "null" => Rooted(frames, back, hp))
  BY <1>1 DEF Reading
<1>4. \A a : Mine(Top, a) => a = <<"val", p>>
  BY <1>1 DEF Mine, Own, Container
<1> HIDE DEF hp, p
<1>5. CASE back = "ok"
  <2>1. \A a \in hp : Mine(Top, a) \/ Got(Top, a) => Result(Top, a)
    <3> TAKE a \in hp
    <3>1. CASE Mine(Top, a)
      <4>1. a = <<"val", p>>
        BY <1>4, <3>1
      <4> QED
        BY <1>1, <4>1 DEF Result, p
    <3>2. CASE Got(Top, a)
      BY <1>1, <3>2 DEF Got, Result, Container
    <3> QED
      BY <3>1, <3>2
  <2>2. <<"val", Top.path>> \in hp
    <3>1. Len(frames) \in 1..Len(frames)
      BY <1>1, ChainFacts DEF Reading
    <3>2. Own(Top) \subseteq hp
      BY <1>1, <1>3, <1>5, <3>1 DEF Rooted
    <3> QED
      BY <1>1, <3>2 DEF Own
  <2>3. Top.fn \notin Container
    BY <1>1 DEF Container
  <2>4. hp \cup {} = hp
    OBVIOUS
  <2>5. Reading(Front(frames), "ok", hp \cup {})
    <3>1. MayReturn(frames, back, hp, {})
      BY <1>1, <2>1, <2>2, <2>3, <2>4 DEF MayReturn
    <3> QED
      BY <1>1, <1>5, <3>1, ReturnedOk
  <2>6. heap' \ Parser = hp
    BY <1>2, <1>5 DEF hp
  <2> QED
    BY <1>1, <1>2, <1>5, <2>4, <2>5, <2>6, StillReading
<1>6. CASE back = "null"
  <2> DEFINE less == heap' \ Parser
  <2>1. heap' = heap \ {<<"val", p>>}
    BY <1>2, <1>6
  <2>2. less \subseteq hp /\ <<"val", p>> \notin less
    BY <2>1 DEF hp
  <2> HIDE DEF less
  <2>3. \A a \in less : ~Mine(Top, a)
    BY <1>4, <2>2
  <2>4. Reading(Front(frames), "null", less)
    BY <1>1, <1>6, <2>2, <2>3, ReturnedNull
  <2> QED
    BY <1>1, <1>2, <1>6, <2>4, StillReading DEF less
<1> QED
  BY <1>1, <1>3, <1>5, <1>6

LEMMA KeyvalEnterKeeps ==
  ASSUME ReaderInv, KeyvalEnter
  PROVE  ReaderInv'
<1> DEFINE hp == heap \ Parser
           p == Top.path
<1>1. /\ outcome = "reading" /\ frames # << >> /\ Top = frames[Len(frames)] /\ Top.fn = "keyval"
      /\ Reading(frames, "none", hp) /\ back = "none" /\ ~Top.begun /\ IsFrame(Top)
      /\ Callers = Front(frames) /\ p \in Path
  <2>1. In({"keyval"}) /\ Enters({"keyval"}) /\ ~Top.begun
    BY DEF KeyvalEnter, Enters
  <2>2. /\ outcome = "reading" /\ frames # << >> /\ Top = frames[Len(frames)]
        /\ Top.fn \in {"keyval"} /\ Reading(frames, back, heap \ Parser)
        /\ IsFrame(Top) /\ Top.path \in Path /\ Callers = Front(frames)
    BY <2>1, Reads, Zenon
  <2>3. back = "none" /\ Reading(frames, "none", heap \ Parser)
    BY <2>1, EntersReads, Zenon
  <2> QED
    BY <2>1, <2>2, <2>3
<1>2. Enters({"keyval"}) /\ outcome' = outcome
  BY DEF KeyvalEnter
<1>3. \/ heap' = heap /\ Returns("null")
      \/ /\ heap' = heap \cup {<<"keyval", p>>, <<"name", p>>}
         /\ Calls(Started(Top), "val", p)
  BY Zenon DEF KeyvalEnter
<1> HIDE DEF hp, p
<1>4. \A new : Held(frames, "none", hp \cup new, <<"keyval", p>>)
  BY <1>1, HeldByCaller DEF p
<1>5. CASE heap' = heap /\ Returns("null")
  BY <1>2, <1>5, GivesUp
<1>6. CASE /\ heap' = heap \cup {<<"keyval", p>>, <<"name", p>>}
           /\ Calls(Started(Top), "val", p)
  <2> DEFINE new == {<<"keyval", p>>, <<"name", p>>}
             g == Started(Top)
             h == Frame("val", p)
  <2>1. /\ frames' = Front(frames) \o <<g, h>> /\ back' = "none"
    BY <1>1, <1>6 DEF Calls
  <2>2. Onward(Top, g) /\ g.done = Top.done
    BY <1>1, FrameChanges
  <2>3. IsFrame(h) /\ ~h.begun /\ h.fn = "val" /\ h.path = p
    BY <1>1, FrameIs DEF Fn
  <2> HIDE DEF g, h
  <2>4. g.begun /\ g.fn = "keyval" /\ g.path = p
    BY <1>1, <2>2 DEF Onward, p
  <2>5. CalledBy(g, h)
    BY <2>3, <2>4 DEF CalledBy
  <2>6. Own(g) = new
    BY <2>4 DEF Own
  <2>7. new \subseteq Alloc
    BY <1>1 DEF Alloc, Kind
  <2>8. Own(g) \subseteq hp \cup new /\ \A a \in new : Mine(g, a)
    BY <2>4, <2>6 DEF Mine
  <2>9. Held(frames, "none", hp \cup new, <<"name", p>>)
    <3>1. HolderIn(hp \cup new, <<"name", p>>) = <<"keyval", p>>
      BY DEF HolderIn
    <3> QED
      BY <3>1 DEF Held
  <2>10. \A a \in new : Held(frames, "none", hp \cup new, a)
    BY <1>4, <2>9
  <2>11. heap' \ Parser = hp \cup new
    BY <1>6, <2>7, GrownHeap DEF hp
  <2> HIDE DEF new
  <2>12. Reading(Front(frames) \o <<g, h>>, "none", hp \cup new)
    BY <1>1, <2>2, <2>3, <2>5, <2>7, <2>8, <2>10, Called
  <2> QED
    BY <1>1, <1>2, <2>1, <2>11, <2>12, StillReading
<1> QED
  BY <1>3, <1>5, <1>6

LEMMA KeyvalResumeKeeps ==
  ASSUME ReaderInv, KeyvalResume
  PROVE  ReaderInv'
<1> DEFINE hp == heap \ Parser
           p == Top.path
<1>1. /\ outcome = "reading" /\ frames # << >> /\ Top = frames[Len(frames)] /\ Top.fn = "keyval"
      /\ Reading(frames, back, hp) /\ back \in {"ok", "null"} /\ Top.begun /\ IsFrame(Top)
      /\ Callers = Front(frames) /\ p \in Path
  <2>1. In({"keyval"}) /\ Resumes({"keyval"})
    BY DEF KeyvalResume, Resumes
  <2>2. /\ outcome = "reading" /\ frames # << >> /\ Top = frames[Len(frames)]
        /\ Top.fn \in {"keyval"} /\ Reading(frames, back, heap \ Parser)
        /\ IsFrame(Top) /\ Top.path \in Path /\ Callers = Front(frames)
    BY <2>1, Reads, Zenon
  <2>3. Top.begun /\ back \in {"ok", "null"}
    BY <2>1, ResumesReads, Zenon
  <2> QED
    BY <2>2, <2>3
<1>2. /\ outcome' = outcome /\ frames' = Front(frames) /\ back' = back
      /\ heap' = IF back = "ok" THEN heap ELSE heap \ {<<"keyval", p>>, <<"name", p>>}
  BY <1>1 DEF KeyvalResume, Returns
<1>3. hp \subseteq Alloc
  BY <1>1 DEF Reading
<1>4. \A a : Mine(Top, a) => a \in {<<"keyval", p>>, <<"name", p>>}
  BY <1>1 DEF Mine, Own, Container
<1> HIDE DEF hp, p
<1>5. CASE back = "ok"
  <2>1. \A a \in hp : Mine(Top, a) \/ Got(Top, a) => Result(Top, a)
    <3> TAKE a \in hp
    <3>0. a[2] \in Path /\ a = <<a[1], a[2]>>
      BY <1>3, AllocIs
    <3>1. CASE Mine(Top, a)
      <4>1. a[2] = p /\ a[1] \in {"keyval", "name"}
        BY <1>4, <3>1
      <4>2. IsPrefix(p, a[2]) /\ a # <<"item", p>>
        BY <1>1, <4>1, PrefixOf
      <4> QED
        BY <1>1, <4>2 DEF Result, p
    <3>2. CASE Got(Top, a)
      <4>1. \/ a[2] = p /\ a[1] \in {"{", "[", "list", "val", "string", "primitive"}
            \/ Inside(p, a[2])
        BY <1>1, <3>2 DEF Got, Container, p
      <4>2. IsPrefix(p, a[2]) /\ (a[2] # p \/ a[1] # "item")
        BY <1>1, <3>0, <4>1, PrefixOf, InsideIs
      <4>3. a # <<"item", p>>
        BY <4>2
      <4> QED
        BY <1>1, <4>2, <4>3 DEF Result, p
    <3> QED
      BY <3>1, <3>2
  <2>3. Top.fn \notin Container /\ Top.fn # "val"
    BY <1>1 DEF Container
  <2>4. hp \cup {} = hp
    OBVIOUS
  <2>5. Reading(Front(frames), "ok", hp \cup {})
    <3>1. MayReturn(frames, back, hp, {})
      BY <1>1, <2>1, <2>3, <2>4 DEF MayReturn
    <3> QED
      BY <1>1, <1>5, <3>1, ReturnedOk
  <2>6. heap' \ Parser = hp
    BY <1>2, <1>5 DEF hp
  <2> QED
    BY <1>1, <1>2, <1>5, <2>4, <2>5, <2>6, StillReading
<1>6. CASE back = "null"
  <2> DEFINE less == heap' \ Parser
  <2>1. heap' = heap \ {<<"keyval", p>>, <<"name", p>>}
    BY <1>2, <1>6
  <2>2. less \subseteq hp /\ \A a \in less : a \notin {<<"keyval", p>>, <<"name", p>>}
    BY <2>1 DEF hp
  <2> HIDE DEF less
  <2>3. \A a \in less : ~Mine(Top, a)
    BY <1>4, <2>2
  <2>4. Reading(Front(frames), "null", less)
    BY <1>1, <1>6, <2>2, <2>3, ReturnedNull
  <2> QED
    BY <1>1, <1>2, <1>6, <2>4, StillReading DEF less
<1> QED
  BY <1>1, <1>5, <1>6

\* A container that has been called.
LEMMA ContainerEntered ==
  ASSUME ReaderInv, ContainerEnter
  PROVE  /\ outcome = "reading" /\ frames # << >> /\ Top = frames[Len(frames)]
         /\ Top.fn \in Container /\ Reading(frames, "none", heap \ Parser) /\ back = "none"
         /\ ~Top.begun /\ IsFrame(Top) /\ Callers = Front(frames) /\ Top.path \in Path
<1>1. In({"{", "["}) /\ Enters({"{", "["}) /\ ~Top.begun
  BY DEF ContainerEnter, Enters
<1>2. /\ outcome = "reading" /\ frames # << >> /\ Top = frames[Len(frames)]
      /\ Top.fn \in {"{", "["} /\ Reading(frames, back, heap \ Parser)
      /\ IsFrame(Top) /\ Top.path \in Path /\ Callers = Front(frames)
  BY <1>1, Reads, Zenon
<1>3. back = "none" /\ Reading(frames, "none", heap \ Parser)
  BY <1>1, EntersReads, Zenon
<1> QED
  BY <1>1, <1>2, <1>3 DEF Container

LEMMA ContainerEnterKeeps ==
  ASSUME ReaderInv, ContainerEnter
  PROVE  ReaderInv'
<1> DEFINE hp == heap \ Parser
           p == Top.path
           fn == Top.fn
           new == {<<fn, p>>, <<"list", p>>}
           z == tokens[pos].size
           g == [Started(Top) EXCEPT !.size = z]
<1>1. /\ outcome = "reading" /\ frames # << >> /\ Top = frames[Len(frames)] /\ fn \in Container
      /\ Reading(frames, "none", hp) /\ back = "none" /\ ~Top.begun /\ IsFrame(Top)
      /\ Callers = Front(frames) /\ p \in Path
  BY ContainerEntered
<1>2. Enters({"{", "["}) /\ outcome' = outcome
  BY DEF ContainerEnter
<1>3. \/ heap' = heap /\ Returns("null")
      \/ heap' = heap \cup new /\ Stays(g)
  BY Zenon DEF ContainerEnter
<1>4. CASE heap' = heap /\ Returns("null")
  BY <1>2, <1>4, GivesUp
<1>5. CASE heap' = heap \cup new /\ Stays(g)
  <2>1. /\ frames' = Append(Front(frames), g) /\ back' = "none" /\ heap' = heap \cup new
    BY <1>1, <1>5 DEF Stays
  <2>2. Onward(Top, g)
    BY <1>1, FrameChanges, Zenon
  <2> HIDE DEF z, g
  <2>3. g.begun /\ g.fn = fn /\ g.path = p
    BY <2>2 DEF Onward
  <2>4. <<"val", p>> \in hp
    BY <1>1, HeldByCaller
  <2> HIDE DEF hp, p, fn
  <2>5. Own(g) = new
    <3>1. fn # "val" /\ fn # "keyval"
      BY <1>1 DEF Container
    <3> QED
      BY <2>3, <3>1 DEF Own
  <2>6. new \subseteq Alloc
    BY <1>1 DEF Alloc, Kind
  <2>7. \A a \in new : Mine(g, a)
    BY <2>3, <2>5 DEF Mine
  <2>8. Held(frames, "none", hp \cup new, <<fn, p>>)
    <3>1. HolderIn(hp \cup new, <<fn, p>>) = <<"val", p>>
      BY <1>1 DEF HolderIn, Container
    <3> QED
      BY <2>4, <3>1 DEF Held
  <2>9. Held(frames, "none", hp \cup new, <<"list", p>>)
    <3> DEFINE hq == hp \cup new
    <3>1. HolderIn(hq, <<"list", p>>) = IF <<"{", p>> \in hq THEN <<"{", p>> ELSE <<"[", p>>
      BY DEF HolderIn
    <3>2. <<"{", p>> \in hq \/ <<"[", p>> \in hq
      BY <1>1 DEF Container
    <3> HIDE DEF hq
    <3>3. HolderIn(hq, <<"list", p>>) \in hq
      BY <3>1, <3>2
    <3> QED
      BY <3>3 DEF Held, hq
  <2>10. \A a \in new : Held(frames, "none", hp \cup new, a)
    BY <2>8, <2>9
  <2>11. \A a \in hp : ~Mine(Top, a)
    BY <1>1 DEF Mine
  <2>12. heap' \ Parser = hp \cup new
    BY <2>1, <2>6, GrownHeap DEF hp
  <2> HIDE DEF new
  <2>13. MayStay(frames, "none", hp, new, g)
    BY <1>1, <2>2, <2>5, <2>6, <2>7, <2>10, <2>11 DEF MayStay
  <2>14. Reading(Append(Front(frames), g), "none", hp \cup new)
    BY <1>1, <2>13, Stayed
  <2> QED
    BY <1>1, <1>2, <2>1, <2>12, <2>14, StillReading
<1> HIDE DEF g, new
<1> QED
  BY <1>3, <1>4, <1>5

\* A container at its children.
LEMMA ContainerRuns ==
  ASSUME ReaderInv, In({"{", "["}), Top.begun
  PROVE  /\ outcome = "reading" /\ frames # << >> /\ Top = frames[Len(frames)]
         /\ Top.fn \in Container /\ Reading(frames, back, heap \ Parser)
         /\ IsFrame(Top) /\ Callers = Front(frames) /\ Top.path \in Path
         /\ Child = NextChild(Top) /\ Child \in Path /\ Front(Child) = Top.path
         /\ Top.done \in Nat
         /\ back # "null" => Own(Top) \subseteq heap \ Parser
<1>1. /\ outcome = "reading" /\ frames # << >> /\ Top = frames[Len(frames)]
      /\ Top.fn \in {"{", "["} /\ Reading(frames, back, heap \ Parser)
      /\ IsFrame(Top) /\ Top.path \in Path /\ Callers = Front(frames)
  BY Reads, Zenon
<1>2. Child = NextChild(Top)
  BY DEF Child, NextChild
<1>3. NextChild(Top) \in Path /\ Front(NextChild(Top)) = Top.path /\ Top.done \in Nat
  BY <1>1, ChildTyped
<1>4. back # "null" => Own(Top) \subseteq heap \ Parser
  <2> HAVE back # "null"
  <2>1. Rooted(frames, back, heap \ Parser) /\ Chained(frames, back)
    BY <1>1 DEF Reading
  <2>2. Len(frames) \in 1..Len(frames)
    BY <1>1, <2>1, ChainFacts
  <2> QED
    BY <1>1, <2>1, <2>2, Zenon DEF Rooted
<1> QED
  BY <1>1, <1>2, <1>3, <1>4 DEF Container

LEMMA OwnOfContainer ==
  ASSUME NEW f, f.fn \in Container
  PROVE  Own(f) = {<<f.fn, f.path>>, <<"list", f.path>>}
<1>1. f.fn # "val" /\ f.fn # "keyval"
  BY DEF Container
<1> QED
  BY <1>1 DEF Own

LEMMA ContainerLoopKeeps ==
  ASSUME ReaderInv, ContainerLoop
  PROVE  ReaderInv'
<1> DEFINE hp == heap \ Parser
           p == Top.path
           kind == IF Top.fn = "{" THEN "keyval" ELSE "val"
<1>0. In({"{", "["}) /\ Top.begun /\ back = "none"
  BY DEF ContainerLoop
<1>1. /\ outcome = "reading" /\ frames # << >> /\ Top = frames[Len(frames)] /\ Top.fn \in Container
      /\ Reading(frames, "none", hp) /\ IsFrame(Top)
      /\ Callers = Front(frames) /\ p \in Path
      /\ Child = NextChild(Top) /\ Child \in Path /\ Top.done \in Nat
      /\ Own(Top) \subseteq hp
  BY <1>0, ContainerRuns
<1>2. /\ outcome' = outcome /\ heap' = heap
      /\ Returns("ok") \/ Calls(Top, kind, Child)
  BY Zenon DEF ContainerLoop
<1>3. heap' \ Parser = hp \cup {}
  BY <1>2
<1> HIDE DEF hp, kind
<1>4. CASE Returns("ok")
  <2>1. /\ frames' = Front(frames) /\ back' = "ok"
    BY <1>1, <1>4 DEF Returns
  <2>2. \A a \in hp : Mine(Top, a) => Result(Top, a)
    <3> TAKE a \in hp
    <3> HAVE Mine(Top, a)
    <3>1. \/ a \in Own(Top)
          \/ \E i \in 1..Top.done : IsPrefix(Append(p, i), a[2])
      BY DEF Mine
    <3>2. CASE a \in Own(Top)
      <4>1. a \in {<<Top.fn, p>>, <<"list", p>>}
        BY <1>1, <3>2, OwnOfContainer
      <4>2. a[2] = p /\ a[1] \in {"{", "[", "list"}
        <5>1. CASE a = <<Top.fn, p>>
          <6>1. a[2] = p /\ a[1] = Top.fn
            BY <5>1
          <6> QED
            BY <1>1, <6>1 DEF Container
        <5>2. CASE a = <<"list", p>>
          BY <5>2
        <5> QED
          BY <4>1, <5>1, <5>2
      <4> QED
        BY <1>1, <4>2 DEF Result
    <3>3. CASE \E i \in 1..Top.done : IsPrefix(Append(p, i), a[2])
      <4>1. \A i \in 1..Top.done : i \in Nat
        BY <1>1
      <4>2. Inside(p, a[2])
        BY <3>3, <4>1 DEF Inside
      <4> QED
        BY <1>1, <4>2 DEF Result
    <3> QED
      BY <3>1, <3>2, <3>3
  <2>3. MayReturn(frames, "none", hp, {})
    <3>1. Top.fn # "val"
      BY <1>1 DEF Container
    <3> QED
      BY <1>1, <2>2, <3>1 DEF MayReturn
  <2>4. Reading(Front(frames), "ok", hp \cup {})
    BY <1>1, <2>3, ReturnedOk
  <2> QED
    BY <1>1, <1>2, <1>3, <2>1, <2>4, StillReading
<1>5. CASE Calls(Top, kind, Child)
  <2> DEFINE h == Frame(kind, Child)
  <2>1. /\ frames' = Front(frames) \o <<Top, h>> /\ back' = "none"
    BY <1>1, <1>5 DEF Calls
  <2>2. Onward(Top, Top)
    BY <1>0, <1>1, FrameChanges
  <2>3. /\ kind \in Fn
        /\ Top.fn = "{" => kind = "keyval"
        /\ Top.fn = "[" => kind = "val"
    BY DEF kind, Fn
  <2>4. IsFrame(h) /\ ~h.begun /\ h.fn = kind /\ h.path = Child
    BY <1>1, <2>3, FrameIs
  <2> HIDE DEF h
  <2>5. CalledBy(Top, h)
    BY <1>0, <1>1, <2>3, <2>4 DEF CalledBy, Container
  <2>6. {} \subseteq Alloc /\ Own(Top) \subseteq hp \cup {}
    BY <1>1
  <2>7. Reading(Front(frames) \o <<Top, h>>, "none", hp \cup {})
    BY <1>1, <2>2, <2>4, <2>5, <2>6, Called
  <2> QED
    BY <1>1, <1>2, <1>3, <2>1, <2>7, StillReading
<1> QED
  BY <1>2, <1>4, <1>5

\* What a failing container frees is all that it has.
LEMMA FreedMine ==
  ASSUME Top.fn \in Container, NEW a \in heap, Mine(Top, a)
  PROVE  a \in Undone
<1> DEFINE p == Top.path
<1>1. \/ a \in Own(Top)
      \/ \E i \in 1..Top.done : IsPrefix(Append(p, i), a[2])
  BY DEF Mine
<1>2. CASE a \in Own(Top)
  <2>1. a \in {<<Top.fn, p>>, <<"list", p>>}
    BY <1>2, OwnOfContainer
  <2> QED
    BY <2>1 DEF Undone
<1>3. CASE \E i \in 1..Top.done : IsPrefix(Append(p, i), a[2])
  <2> PICK i \in 1..Top.done : IsPrefix(Append(p, i), a[2])
    BY <1>3
  <2>1. a \in Tree(Append(p, i)) \cup {<<"item", Append(p, i)>>}
    BY DEF Tree
  <2>2. a \in Listed
    BY <2>1 DEF Listed
  <2> QED
    BY <2>2 DEF Undone
<1> QED
  BY <1>1, <1>2, <1>3

LEMMA FreedGot ==
  ASSUME Top.fn \in Container, Child = NextChild(Top), NEW a \in heap, Got(Top, a)
  PROVE  a \in Unlisted
<1>1. Top.fn # "val" /\ Top.fn # "keyval"
  BY DEF Container
<1>2. IsPrefix(Child, a[2]) /\ a # <<"item", Child>>
  BY <1>1 DEF Got
<1> QED
  BY <1>2 DEF Unlisted, Tree

LEMMA ContainerResumeKeeps ==
  ASSUME ReaderInv, ContainerResume
  PROVE  ReaderInv'
<1> DEFINE hp == heap \ Parser
           p == Top.path
           c == Child
           new == {<<"item", c>>}
           g == [Top EXCEPT !.done = @ + 1]
<1>0. In({"{", "["}) /\ Resumes({"{", "["})
  BY DEF ContainerResume, Resumes
<1>1. Top.begun /\ back \in {"ok", "null"}
  BY <1>0, ResumesReads, Zenon
<1>2. /\ outcome = "reading" /\ frames # << >> /\ Top = frames[Len(frames)] /\ Top.fn \in Container
      /\ Reading(frames, back, hp) /\ IsFrame(Top)
      /\ Callers = Front(frames) /\ p \in Path
      /\ c = NextChild(Top) /\ c \in Path /\ Front(c) = p /\ Top.done \in Nat
      /\ back # "null" => Own(Top) \subseteq hp
  BY <1>0, <1>1, ContainerRuns
<1>3. /\ outcome' = outcome
      /\ \/ back = "ok" /\ heap' = heap \cup new /\ Stays(g)
         \/ back = "ok" /\ heap' = heap \ (Unlisted \cup Undone) /\ Returns("null")
         \/ back = "null" /\ heap' = heap \ Undone /\ Returns("null")
  BY Zenon DEF ContainerResume
<1>4. hp \subseteq heap
  OBVIOUS
<1>5. ASSUME Returns("null"), heap' \ Parser \subseteq hp,
             \A a \in heap' \ Parser : a \notin Undone /\ (back = "ok" => a \notin Unlisted)
      PROVE  ReaderInv'
  <2> DEFINE less == heap' \ Parser
  <2>1. /\ frames' = Front(frames) /\ back' = "null"
    BY <1>2, <1>5 DEF Returns
  <2>2. \A a \in less : ~Mine(Top, a) /\ ~(back = "ok" /\ Got(Top, a))
    <3> TAKE a \in less
    <3>1. a \in heap
      BY <1>4, <1>5
    <3>2. ~Mine(Top, a)
      BY <1>2, <1>5, <3>1, FreedMine
    <3>3. Got(Top, a) => a \in Unlisted
      BY <1>2, <3>1, FreedGot
    <3> QED
      BY <1>5, <3>2, <3>3
  <2>3. less \subseteq hp
    BY <1>5
  <2> HIDE DEF less, hp
  <2>4. Reading(Front(frames), "null", less)
    BY <1>2, <2>2, <2>3, ReturnedNull
  <2> QED
    BY <1>2, <1>3, <2>1, <2>4, StillReading DEF less
<1>6. CASE back = "ok" /\ heap' = heap \cup new /\ Stays(g)
  <2>1. /\ frames' = Append(Front(frames), g) /\ back' = "none" /\ heap' = heap \cup new
    BY <1>2, <1>6 DEF Stays
  <2>2. Onward(Top, g) /\ g.done = Top.done + 1
    BY <1>1, <1>2, FrameChanges
  <2> HIDE DEF hp, c, g
  <2>3. g.begun /\ g.fn = Top.fn /\ g.path = p
    BY <2>2 DEF Onward
  <2>4. Own(g) = Own(Top) /\ <<"list", p>> \in Own(Top)
    <3>1. Own(g) = {<<g.fn, g.path>>, <<"list", g.path>>}
      BY <1>2, <2>3, OwnOfContainer
    <3>2. Own(Top) = {<<Top.fn, p>>, <<"list", p>>}
      BY <1>2, OwnOfContainer
    <3> QED
      BY <2>3, <3>1, <3>2
  <2>5. new \subseteq Alloc
    BY <1>2 DEF Alloc, Kind
  <2>6. g.done \in 1..g.done /\ \A i \in 1..Top.done : i \in 1..g.done
    BY <1>2, <2>2
  <2>7. c = Append(p, g.done)
    BY <1>2, <2>2 DEF NextChild
  <2>8. \A a : IsPrefix(c, a[2]) => Mine(g, a)
    BY <1>2, <2>3, <2>6, <2>7 DEF Mine
  <2>9. \A a \in new : Mine(g, a) /\ Held(frames, "none", hp \cup new, a)
    <3> DEFINE item == <<"item", c>>
               hq == hp \cup new
    <3>1. IsPrefix(c, c) /\ item[2] = c
      BY <1>2, PrefixOf
    <3>2. HolderIn(hq, item) = <<"list", p>>
      BY <1>2 DEF HolderIn
    <3>3. <<"list", p>> \in hq
      BY <1>2, <1>6, <2>4
    <3> HIDE DEF hq
    <3>4. Mine(g, item)
      BY <2>8, <3>1
    <3>5. Held(frames, "none", hq, item)
      BY <3>2, <3>3 DEF Held
    <3> QED
      BY <3>4, <3>5 DEF hq
  <2>10. \A a : Mine(Top, a) => Mine(g, a)
    BY <2>3, <2>4, <2>6 DEF Mine
  <2>11. \A a : Got(Top, a) => Mine(g, a)
    <3>1. Top.fn # "val" /\ Top.fn # "keyval"
      BY <1>2 DEF Container
    <3>2. \A a : Got(Top, a) => IsPrefix(c, a[2])
      BY <1>2, <3>1 DEF Got
    <3> QED
      BY <2>8, <3>2
  <2>12. \A a : Coming(Top, a) => HolderIn(hp \cup new, a) \in hp \cup new
    <3> DEFINE hq == hp \cup new
    <3>1. <<"item", c>> \in hq
      OBVIOUS
    <3> HIDE DEF hq
    <3>2. HolderIn(hq, <<"val", c>>) = IF <<"keyval", c>> \in hq THEN <<"keyval", c>> ELSE <<"item", c>>
      BY DEF HolderIn
    <3>3. HolderIn(hq, <<"keyval", c>>) = <<"item", c>>
      BY DEF HolderIn
    <3>4. HolderIn(hq, <<"val", c>>) \in hq /\ HolderIn(hq, <<"keyval", c>>) \in hq
      BY <3>1, <3>2, <3>3
    <3>5. \A a : Coming(Top, a) => a \in {<<"val", c>>, <<"keyval", c>>}
      BY <1>2 DEF Coming
    <3>6. \A a : Coming(Top, a) => HolderIn(hq, a) \in hq
      BY <3>4, <3>5
    <3> QED
      BY <3>6 DEF hq
  <2>13. heap' \ Parser = hp \cup new
    BY <2>1, <2>5, GrownHeap DEF hp
  <2> HIDE DEF new
  <2>14. MayStay(frames, back, hp, new, g)
    BY <1>2, <1>6, <2>2, <2>4, <2>5, <2>9, <2>10, <2>11, <2>12 DEF MayStay
  <2>15. Reading(Append(Front(frames), g), "none", hp \cup new)
    BY <1>2, <1>6, <2>14, Stayed
  <2> QED
    BY <1>2, <1>3, <2>1, <2>13, <2>15, StillReading
<1>7. CASE back = "ok" /\ heap' = heap \ (Unlisted \cup Undone) /\ Returns("null")
  BY <1>5, <1>7
<1>8. CASE back = "null" /\ heap' = heap \ Undone /\ Returns("null")
  BY <1>5, <1>8
<1> HIDE DEF g, new
<1> QED
  BY <1>3, <1>6, <1>7, <1>8

LEMMA RootFrame ==
  ASSUME NEW h, IsFrame(h), h.fn = "val", h.path = << >>, ~h.begun
  PROVE  Reading(<<h>>, "none", {})
<1> DEFINE fr == <<h>>
<1>1. /\ Len(fr) = 1 /\ fr[1] = h /\ IsStack(fr)
  BY DEF IsStack
<1>2. fr # << >>
  OBVIOUS
<1> HIDE DEF fr
<1>3. \A i \in 1..Len(fr) : i = 1
  BY <1>1
<1>4. 1..(Len(fr) - 1) = {}
  BY <1>1
<1>5. Chained(fr, "none")
  BY <1>1, <1>3, <1>4 DEF Chained
<1>6. Rooted(fr, "none", {})
  BY <1>1, <1>3 DEF Rooted
<1> QED
  BY <1>5, <1>6 DEF Reading, fr

LEMMA ImportKeeps ==
  ASSUME ReaderInv, NEW t, Import(t)
  PROVE  ReaderInv'
<1> DEFINE h == Frame("val", << >>)
<1>1. heap = {} /\ frames = << >> /\ outcome = "none" /\ back = "none"
  BY DEF Import, ReaderInv
<1>2. /\ back' = back
      /\ \/ heap' = heap \cup Parser /\ frames' = <<h>> /\ outcome' = "reading"
         \/ heap' = heap /\ frames' = frames /\ outcome' = "null"
  BY Zenon DEF Import
<1>3. IsFrame(h) /\ h.fn = "val" /\ h.path = << >> /\ ~h.begun
  <2>1. << >> \in Path /\ "val" \in Fn
    BY DEF Path, Fn
  <2> QED
    BY <2>1, FrameIs
<1> HIDE DEF h
<1>4. CASE heap' = heap \cup Parser /\ frames' = <<h>> /\ outcome' = "reading"
  <2>1. Reading(<<h>>, "none", {})
    BY <1>3, RootFrame
  <2>2. heap' \ Parser = {}
    BY <1>1, <1>4
  <2> QED
    BY <1>1, <1>2, <1>4, <2>1, <2>2, StillReading
<1>5. CASE heap' = heap /\ frames' = frames /\ outcome' = "null"
  BY <1>1, <1>5 DEF ReaderInv
<1> QED
  BY <1>2, <1>4, <1>5

\* Without frames there is a tree or nothing.
LEMMA NoFrames ==
  ASSUME NEW bk, NEW hp, Reading(<< >>, bk, hp)
  PROVE  /\ bk # "ok" => hp = {}
         /\ bk = "ok" => /\ \A a \in hp : a[2] \in Path /\ a # <<"item", << >>>>
                         /\ <<"val", << >>>> \in hp
                         /\ \A a \in hp \ {<<"val", << >>>>} : HolderIn(hp, a) \in hp
<1> DEFINE e == << >>
<1>1. 1..Len(e) = {} /\ 1..(Len(e) - 1) = {} /\ e = << >>
  OBVIOUS
<1>2. Reading(e, bk, hp)
  OBVIOUS
<1> HIDE DEF e
<1>3. hp \subseteq Alloc /\ \A a \in hp : Located(e, bk, a)
  BY <1>2 DEF Reading
<1>4. \A a \in hp : bk = "ok" /\ a # <<"item", << >>>>
  BY <1>1, <1>3 DEF Located
<1>5. bk = "ok" => Rooted(e, bk, hp)
  BY <1>2 DEF Reading
<1>6. bk = "ok" => /\ <<"val", << >>>> \in hp
                   /\ \A a \in hp \ {<<"val", << >>>>} : HolderIn(hp, a) \in hp
  BY <1>1, <1>5 DEF Rooted, Held
<1>7. \A a \in hp : a[2] \in Path
  BY <1>3, AllocIs
<1> QED
  BY <1>4, <1>6, <1>7

LEMMA ImportedKeeps ==
  ASSUME ReaderInv, Imported
  PROVE  ReaderInv'
<1> DEFINE hp == heap \ Parser
<1>1. /\ outcome = "reading" /\ frames = << >> /\ heap' = hp
      /\ outcome' = IF back = "ok" THEN "tree" ELSE "null"
      /\ frames' = frames /\ back' = back
  BY DEF Imported
<1>2. Reading(<< >>, back, hp)
  BY <1>1 DEF ReaderInv
<1> HIDE DEF hp
<1>3. CASE back = "ok"
  BY <1>1, <1>2, <1>3 DEF ReaderInv
<1>4. CASE back # "ok"
  <2>1. heap' = {}
    BY <1>1, <1>2, <1>4, NoFrames
  <2> QED
    BY <1>1, <1>4, <2>1 DEF ReaderInv
<1> QED
  BY <1>3, <1>4

LEMMA DiscardKeeps ==
  ASSUME ReaderInv, Discard
  PROVE  ReaderInv'
<1>1. /\ outcome \in {"tree", "null"} /\ outcome' = "none" /\ back' = "none"
      /\ heap' = IF outcome = "tree" THEN heap \ Tree(<< >>) ELSE heap
      /\ frames' = frames
  BY DEF Discard
<1>2. frames = << >>
  BY <1>1 DEF ReaderInv
<1>3. heap' = {}
  <2>1. CASE outcome = "null"
    BY <1>1, <2>1 DEF ReaderInv
  <2>2. CASE outcome = "tree"
    <3>1. Reading(<< >>, back, heap) /\ back = "ok"
      BY <1>2, <2>2 DEF ReaderInv
    <3>2. \A a \in heap : a[2] \in Path /\ a # <<"item", << >>>>
      BY <3>1, NoFrames
    <3>3. \A a \in heap : a \in Tree(<< >>)
      BY <3>2, PrefixOf DEF Tree
    <3> QED
      BY <1>1, <2>2, <3>3
  <2> QED
    BY <1>1, <2>1, <2>2
<1> QED
  BY <1>1, <1>2, <1>3 DEF ReaderInv

LEMMA ReaderStep ==
  ASSUME ReaderInv, ReaderNext
  PROVE  ReaderInv'
BY ValEnterKeeps, ValResumeKeeps, KeyvalEnterKeeps, KeyvalResumeKeeps, ContainerEnterKeeps,
   ContainerLoopKeeps, ContainerResumeKeeps, ImportedKeeps, DiscardKeeps DEF ReaderNext

LEMMA ReaderStays ==
  ASSUME ReaderInv, UNCHANGED reader
  PROVE  ReaderInv'
<1>1. frames' = frames /\ back' = back /\ heap' = heap /\ outcome' = outcome
  BY DEF reader
<1> QED
  BY <1>1 DEF ReaderInv

(* The inductive invariant of the reader: the frames are a chain of calls, every
   allocation is answered for by one of them or is in what was just returned,
   and unless NULL was returned each hangs on another or is the child being read
   (cc_jsmnWrapper.c:147, :247, :345). *)
THEOREM JsonTreeInvariant == Spec => []ReaderInv
<1>1. Init => ReaderInv
  BY DEF Init, ReaderInit, ReaderInv
<1>2. ReaderInv /\ [Next]_vars => ReaderInv'
  <2> SUFFICES ASSUME ReaderInv, [Next]_vars PROVE ReaderInv'
    OBVIOUS
  <2>1. ASSUME NEW t, Import(t) PROVE ReaderInv'
    BY <2>1, ImportKeeps
  <2>2. CASE ReaderNext
    BY <2>2, ReaderStep
  <2>3. CASE UNCHANGED reader
    BY <2>3, ReaderStays
  <2>4. UNCHANGED vars => UNCHANGED reader
    BY DEF vars
  <2> QED
    BY <2>1, <2>2, <2>3, <2>4 DEF Next, WriteStep, Read, ReadForeign, ReadStep, Renew
<1> QED
  BY <1>1, <1>2, PTL DEF Spec

(* An import that fails, at whatever depth and allocation, leaves nothing, one
   that succeeds leaves a tree in which each part hangs on another, and deleting
   the tree frees all of it, for any tokens (cc_jsmnWrapper.c:230, :328, :680). *)
THEOREM JsonTreeOwned == Spec => []TreeOwned
<1>1. ReaderInv => TreeOwned
  <2> SUFFICES ASSUME ReaderInv PROVE TreeOwned
    OBVIOUS
  <2>1. outcome \in {"none", "null"} => heap = {}
    BY DEF ReaderInv
  <2>2. ASSUME outcome = "tree"
        PROVE  /\ <<"val", << >>>> \in heap
               /\ \A a \in heap \ {<<"val", << >>>>} : Holder(a) \in heap
    <3>1. Reading(<< >>, back, heap) /\ back = "ok"
      BY <2>2 DEF ReaderInv
    <3>2. \A a : Holder(a) = HolderIn(heap, a)
      BY Zenon DEF Holder, HolderIn
    <3> QED
      BY <3>1, <3>2, NoFrames
  <2> QED
    BY <2>1, <2>2 DEF TreeOwned
<1> QED
  BY <1>1, JsonTreeInvariant, PTL

-----------------------------------------------------------------------------
(* What jsmn makes of the marks of a text, and the tree they mean, mark by
   mark: the recursive functions do what they say. *)

TokenOf == [type : Mark, size : Nat]
Scans == [tokens : Seq(TokenOf), open : Seq(Nat)]
Trees == [at : Path, tree : SUBSET Alloc]

ScanStart == [tokens |-> << >>, open |-> << >>]
TreeStart == [at |-> << >>, tree |-> {}]

Bead == Mark \ Separator
Value == Container \cup Scalar
Close == {"}", "]"}

LEMMA BeadCases ==
  /\ Bead = Container \cup Scalar \cup Close \cup {"name"}
  /\ \A m \in Bead : m \in Mark
  /\ Value \subseteq Bead /\ Close \subseteq Bead /\ "name" \in Bead
BY DEF Bead, Mark, Separator, Container, Scalar, Close, Value

LEMMA FrontTyped ==
  ASSUME NEW T, NEW s \in Seq(T)
  PROVE  Front(s) \in Seq(T)
<1>1. CASE s = << >>
  <2>1. Len(s) - 1 = -1
    BY <1>1
  <2>2. SubSeq(s, 1, -1) = << >>
    BY <1>1
  <2> QED
    BY <2>1, <2>2 DEF Front
<1>2. CASE s # << >>
  <2>1. Len(s) - 1 \in 0..Len(s) /\ \A i \in 1..(Len(s) - 1) : s[i] \in T
    BY <1>2
  <2>2. SubSeq(s, 1, Len(s) - 1) \in Seq(T)
    BY <2>1
  <2> QED
    BY <2>2 DEF Front
<1> QED
  BY <1>1, <1>2

LEMMA FrontFacts ==
  ASSUME NEW T, NEW s \in Seq(T), s # << >>
  PROVE  /\ Front(s) \in Seq(T)
         /\ Len(s) \in Nat \ {0}
         /\ Len(Front(s)) = Len(s) - 1
         /\ \A i \in 1..(Len(s) - 1) : Front(s)[i] = s[i]
<1>1. Len(s) \in Nat \ {0}
  OBVIOUS
<1>2. Len(s) - 1 \in Nat /\ Len(s) - 1 <= Len(s)
  BY <1>1
<1>3. /\ Len(SubSeq(s, 1, Len(s) - 1)) = Len(s) - 1
      /\ \A i \in 1..(Len(s) - 1) : SubSeq(s, 1, Len(s) - 1)[i] = s[i]
  <2> DEFINE n == Len(s) - 1
  <2>1. n \in Int /\ 1 \in Int /\ \A i \in 1..n : s[i] \in T
    BY <1>1
  <2>2. n \in Nat /\ n - 1 + 1 = n /\ \A i \in Int : 1 + i - 1 = i
    BY <1>2
  <2> HIDE DEF n
  <2>3. /\ Len(SubSeq(s, 1, n)) = IF 1 <= n THEN n - 1 + 1 ELSE 0
        /\ \A i \in 1..(n - 1 + 1) : SubSeq(s, 1, n)[i] = s[1 + i - 1]
    BY <2>1, SubSeqProperties
  <2>4. Len(SubSeq(s, 1, n)) = n
    BY <2>2, <2>3
  <2>5. \A i \in 1..n : SubSeq(s, 1, n)[i] = s[i]
    BY <2>2, <2>3
  <2> QED
    BY <2>4, <2>5 DEF n
<1> QED
  BY <1>1, <1>3, FrontTyped DEF Front

LEMMA TokenTyped ==
  ASSUME NEW m \in Mark
  PROVE  Token(m) \in TokenOf
<1>1. "string" \in Mark
  BY DEF Mark, Scalar
<1>2. CASE m = "name"
  <2>1. Token(m) = [type |-> "string", size |-> 1]
    BY <1>2 DEF Token
  <2> QED
    BY <1>1, <2>1 DEF TokenOf
<1>3. CASE m # "name"
  <2>1. Token(m) = [type |-> m, size |-> 0]
    BY <1>3 DEF Token
  <2> QED
    BY <2>1 DEF TokenOf
<1> QED
  BY <1>2, <1>3

\* A token of s.tokens counts one more.
LEMMA TokenCounts ==
  ASSUME NEW ts \in Seq(TokenOf), NEW i \in Nat
  PROVE  LET r == [ts EXCEPT ![i].size = @ + 1]
         IN  /\ r \in Seq(TokenOf) /\ Len(r) = Len(ts)
             /\ \A k \in 1..Len(ts) : k # i => r[k] = ts[k]
             /\ i \in 1..Len(ts) => r[i] = [type |-> ts[i].type, size |-> ts[i].size + 1]
<1> DEFINE r == [ts EXCEPT ![i].size = @ + 1]
<1>1. Len(ts) \in Nat /\ DOMAIN ts = 1..Len(ts) /\ ts \in [1..Len(ts) -> TokenOf]
  OBVIOUS
<1>2. \A t \in TokenOf : [t EXCEPT !.size = @ + 1] = [type |-> t.type, size |-> t.size + 1]
                         /\ [t EXCEPT !.size = @ + 1] \in TokenOf
  BY DEF TokenOf
<1>3. r = [ts EXCEPT ![i] = [ts[i] EXCEPT !.size = @ + 1]]
  OBVIOUS
<1> HIDE DEF r
<1>4. DOMAIN r = 1..Len(ts) /\ \A k \in 1..Len(ts) : k # i => r[k] = ts[k]
  BY <1>1, <1>3
<1>5. r = [k \in 1..Len(ts) |-> r[k]]
  BY <1>1, <1>3
<1>6. i \in 1..Len(ts) => r[i] = [type |-> ts[i].type, size |-> ts[i].size + 1]
                          /\ r[i] \in TokenOf
  <2> SUFFICES ASSUME i \in 1..Len(ts)
               PROVE  r[i] = [type |-> ts[i].type, size |-> ts[i].size + 1] /\ r[i] \in TokenOf
    OBVIOUS
  <2>1. r[i] = [ts[i] EXCEPT !.size = @ + 1] /\ ts[i] \in TokenOf
    BY <1>1, <1>3
  <2> QED
    BY <1>2, <2>1
<1>7. \A k \in 1..Len(ts) : r[k] \in TokenOf
  BY <1>1, <1>4, <1>6
<1>8. r \in [1..Len(ts) -> TokenOf]
  BY <1>5, <1>7
<1>9. r \in Seq(TokenOf) /\ Len(r) = Len(ts)
  BY <1>1, <1>8
<1> QED
  BY <1>4, <1>6, <1>9 DEF r

LEMMA ScanTyped ==
  ASSUME NEW s \in Scans
  PROVE  /\ s = [tokens |-> s.tokens, open |-> s.open]
         /\ s.tokens \in Seq(TokenOf) /\ s.open \in Seq(Nat)
         /\ Len(s.tokens) \in Nat /\ Len(s.open) \in Nat
BY DEF Scans

LEMMA CountedFacts ==
  ASSUME NEW s \in Scans, NEW m
  PROVE  LET inner == s.open[Len(s.open)]
             adds  == s.open # << >> /\ (m = "name" \/ s.tokens[inner].type = "[")
             r     == Counted(s, m)
         IN  /\ r \in Seq(TokenOf) /\ Len(r) = Len(s.tokens)
             /\ ~adds => r = s.tokens
             /\ adds => \A k \in 1..Len(s.tokens) : k # inner => r[k] = s.tokens[k]
             /\ adds /\ inner \in 1..Len(s.tokens) =>
                  r[inner] = [type |-> s.tokens[inner].type, size |-> s.tokens[inner].size + 1]
<1> DEFINE inner == s.open[Len(s.open)]
           adds == s.open # << >> /\ (m = "name" \/ s.tokens[inner].type = "[")
<1>1. /\ s.tokens \in Seq(TokenOf) /\ s.open \in Seq(Nat)
      /\ s.open # << >> => inner \in Nat
  BY ScanTyped
<1>2. Counted(s, m) = IF adds THEN [s.tokens EXCEPT ![inner].size = @ + 1] ELSE s.tokens
  BY DEF Counted, Last
<1>3. CASE ~adds
  BY <1>1, <1>2, <1>3
<1>4. CASE adds
  <2>1. inner \in Nat
    BY <1>1, <1>4
  <2>2. Counted(s, m) = [s.tokens EXCEPT ![inner].size = @ + 1]
    BY <1>2, <1>4
  <2> DEFINE r == [s.tokens EXCEPT ![inner].size = @ + 1]
  <2>3. /\ r \in Seq(TokenOf) /\ Len(r) = Len(s.tokens)
        /\ \A k \in 1..Len(s.tokens) : k # inner => r[k] = s.tokens[k]
        /\ inner \in 1..Len(s.tokens) =>
             r[inner] = [type |-> s.tokens[inner].type, size |-> s.tokens[inner].size + 1]
    <3> HIDE DEF inner, adds
    <3> QED
      BY <1>1, <2>1, TokenCounts
  <2> HIDE DEF r
  <2>4. Counted(s, m) = r
    BY <2>2 DEF r
  <2> HIDE DEF inner, adds
  <2>5. /\ Counted(s, m) \in Seq(TokenOf) /\ Len(Counted(s, m)) = Len(s.tokens)
        /\ \A k \in 1..Len(s.tokens) : k # inner => Counted(s, m)[k] = s.tokens[k]
        /\ inner \in 1..Len(s.tokens) =>
             Counted(s, m)[inner]
               = [type |-> s.tokens[inner].type, size |-> s.tokens[inner].size + 1]
    BY <2>3, <2>4
  <2>6. adds
    BY <1>4
  <2> QED
    BY <2>5, <2>6 DEF inner, adds
<1> QED
  BY <1>3, <1>4

LEMMA ScanIs ==
  ASSUME NEW s, NEW m
  PROVE  /\ m \in Close => Scan(s, m) = [s EXCEPT !.open = Front(@)]
         /\ m \notin Close =>
              Scan(s, m) = [tokens |-> Append(Counted(s, m), Token(m)),
                            open   |-> IF m \in Container
                                       THEN Append(s.open, Len(s.tokens) + 1) ELSE s.open]
BY DEF Scan, Close

LEMMA ScanClosed ==
  ASSUME NEW s \in Scans, NEW m \in Close
  PROVE  Scan(s, m) \in Scans /\ Scan(s, m) = [tokens |-> s.tokens, open |-> Front(s.open)]
<1>1. Scan(s, m) = [s EXCEPT !.open = Front(@)]
  BY ScanIs
<1>2. s = [tokens |-> s.tokens, open |-> s.open] /\ s.open \in Seq(Nat) /\ s.tokens \in Seq(TokenOf)
  BY ScanTyped
<1>3. Scan(s, m) = [tokens |-> s.tokens, open |-> Front(s.open)]
  BY <1>1, <1>2
<1>4. Front(s.open) \in Seq(Nat)
  BY <1>2, FrontTyped
<1> QED
  BY <1>2, <1>3, <1>4 DEF Scans

LEMMA ScanAdded ==
  ASSUME NEW s \in Scans, NEW m \in Mark \ Close
  PROVE  LET r == Scan(s, m)
         IN  /\ r \in Scans
             /\ r.tokens = Append(Counted(s, m), Token(m))
             /\ r.open = IF m \in Container THEN Append(s.open, Len(s.tokens) + 1) ELSE s.open
             /\ Len(r.tokens) = Len(s.tokens) + 1
             /\ r.tokens[Len(s.tokens) + 1] = Token(m)
             /\ \A k \in 1..Len(s.tokens) : r.tokens[k] = Counted(s, m)[k]
<1> DEFINE c == Counted(s, m)
           o == IF m \in Container THEN Append(s.open, Len(s.tokens) + 1) ELSE s.open
           r == [tokens |-> Append(c, Token(m)), open |-> o]
<1>1. Scan(s, m) = r
  BY ScanIs
<1>2. c \in Seq(TokenOf) /\ Len(c) = Len(s.tokens)
  BY CountedFacts
<1>3. s.open \in Seq(Nat) /\ Len(s.tokens) \in Nat
  BY ScanTyped
<1>4. o \in Seq(Nat)
  BY <1>3
<1>5. Token(m) \in TokenOf
  BY TokenTyped
<1> HIDE DEF c
<1>6. /\ Append(c, Token(m)) \in Seq(TokenOf)
      /\ Len(Append(c, Token(m))) = Len(c) + 1
      /\ Append(c, Token(m))[Len(c) + 1] = Token(m)
      /\ \A k \in 1..Len(c) : Append(c, Token(m))[k] = c[k]
  BY <1>2, <1>5, AppendFacts
<1> HIDE DEF o
<1>7. r \in Scans
  BY <1>4, <1>6 DEF Scans
<1> QED
  BY <1>1, <1>2, <1>6, <1>7 DEF c, o

LEMMA ScanStays ==
  ASSUME NEW s \in Scans, NEW m \in Mark
  PROVE  Scan(s, m) \in Scans
BY ScanClosed, ScanAdded

\* The places and the parts of a tree.
LEMMA SiblingTyped ==
  ASSUME NEW p \in Path
  PROVE  /\ Sibling(p) \in Path /\ Len(Sibling(p)) = Len(p)
         /\ \A i \in 1..Len(p) : Sibling(p)[i] = IF i = Len(p) THEN p[i] + 1 ELSE p[i]
<1>1. p \in Seq(Nat) /\ Len(p) \in Nat /\ DOMAIN p = 1..Len(p)
  BY DEF Path
<1>2. CASE p = << >>
  <2>1. Sibling(p) = p /\ Len(p) = 0
    BY <1>2 DEF Sibling
  <2> QED
    BY <1>1, <2>1
<1>3. CASE p # << >>
  <2> DEFINE n == Len(p)
             q == [p EXCEPT ![n] = @ + 1]
  <2>1. Sibling(p) = q
    BY <1>3 DEF Sibling
  <2>2. n \in 1..Len(p) /\ p[n] + 1 \in Nat
    BY <1>1, <1>3
  <2>3. q \in Seq(Nat) /\ Len(q) = Len(p)
    BY <1>1, <2>2
  <2>4. \A i \in 1..Len(p) : q[i] = IF i = n THEN p[i] + 1 ELSE p[i]
    BY <1>1, <2>2
  <2> QED
    BY <2>1, <2>3, <2>4 DEF Path
<1> QED
  BY <1>2, <1>3

LEMMA ItemTyped ==
  ASSUME NEW p \in Path
  PROVE  Item(p) \subseteq Alloc
<1>1. <<"item", p>> \in Alloc
  BY DEF Alloc, Kind
<1> QED
  BY <1>1 DEF Item

LEMMA GrowIs ==
  ASSUME NEW p, NEW m
  PROVE  /\ m \in Container => /\ Onto(p, m) = Append(p, 1)
                               /\ Adds(p, m) = {<<"val", p>>, <<m, p>>, <<"list", p>>}
         /\ m \in Scalar => /\ Onto(p, m) = Sibling(p)
                            /\ Adds(p, m) = {<<"val", p>>, <<m, p>>} \cup Item(p)
         /\ m = "name" => /\ Onto(p, m) = p
                          /\ Adds(p, m) = {<<"keyval", p>>, <<"name", p>>}
         /\ m \notin Value \cup {"name"} => /\ Onto(p, m) = Sibling(Front(p))
                                            /\ Adds(p, m) = Item(Front(p))
BY DEF Onto, Adds, Container, Scalar, Value

LEMMA GrowTyped ==
  ASSUME NEW p \in Path, NEW m
  PROVE  Onto(p, m) \in Path /\ Adds(p, m) \subseteq Alloc
<1>0. Front(p) \in Path
  BY FrontTyped DEF Path
<1>1. /\ Append(p, 1) \in Path /\ Sibling(p) \in Path /\ Sibling(Front(p)) \in Path
      /\ Item(p) \subseteq Alloc /\ Item(Front(p)) \subseteq Alloc
  <2>1. Append(p, 1) \in Path
    BY DEF Path
  <2> QED
    BY <1>0, <2>1, SiblingTyped, ItemTyped
<1>2. /\ <<"val", p>> \in Alloc /\ <<"list", p>> \in Alloc
      /\ <<"keyval", p>> \in Alloc /\ <<"name", p>> \in Alloc
      /\ m \in Value => <<m, p>> \in Alloc
  BY DEF Alloc, Kind, Value, Container, Scalar
<1>3. m \in Container \/ m \in Scalar \/ m = "name" \/ m \notin Value \cup {"name"}
  BY DEF Value
<1>4. Container \subseteq Value /\ Scalar \subseteq Value
  BY DEF Value
<1>5. CASE m \in Container
  <2>1. m \in Value
    BY <1>4, <1>5
  <2>2. Onto(p, m) = Append(p, 1) /\ Adds(p, m) = {<<"val", p>>, <<m, p>>, <<"list", p>>}
    BY <1>5, GrowIs
  <2> QED
    BY <1>1, <1>2, <2>1, <2>2
<1>6. CASE m \in Scalar
  BY <1>1, <1>2, <1>4, <1>6, GrowIs
<1>7. CASE m = "name"
  BY <1>0, <1>1, <1>2, <1>7, GrowIs
<1>8. CASE m \notin Value \cup {"name"}
  BY <1>1, <1>8, GrowIs
<1> QED
  BY <1>3, <1>5, <1>6, <1>7, <1>8

LEMMA GrowStays ==
  ASSUME NEW w \in Trees, NEW m
  PROVE  /\ Grow(w, m) \in Trees
         /\ Grow(w, m).at = Onto(w.at, m)
         /\ Grow(w, m).tree = w.tree \cup Adds(w.at, m)
<1>1. w.at \in Path /\ w.tree \subseteq Alloc
  BY DEF Trees
<1>2. Grow(w, m) = [at |-> Onto(w.at, m), tree |-> w.tree \cup Adds(w.at, m)]
  BY DEF Grow
<1>3. Onto(w.at, m) \in Path /\ Adds(w.at, m) \subseteq Alloc
  BY <1>1, GrowTyped
<1> QED
  BY <1>1, <1>2, <1>3 DEF Trees

LEMMA ScannedUnfolds ==
  ASSUME NEW a \in Seq(Mark)
  PROVE  /\ Scanned(a) \in [0..Len(a) -> Scans]
         /\ Scanned(a)[0] = ScanStart
         /\ \A i \in 1..Len(a) : Scanned(a)[i] = Scan(Scanned(a)[i - 1], a[i])
<1> DEFINE N == Len(a)
           step == [x \in (1..N) \X Scans |-> Scan(x[2], a[x[1]])]
           f == CHOOSE after : after = [n \in 0..N |->
                  IF n = 0 THEN ScanStart ELSE Scan(after[n - 1], a[n])]
<1>1. N \in Nat /\ \A i \in 1..N : a[i] \in Mark
  OBVIOUS
<1>2. ScanStart \in Scans
  BY DEF ScanStart, Scans, Path
<1>3. \A x \in (1..N) \X Scans : Scan(x[2], a[x[1]]) \in Scans
  BY <1>1, ScanStays
<1>4. IsStep(step, N, Scans)
  BY <1>3 DEF IsStep
<1>5. \A i \in 1..N, p \in Scans : step[<<i, p>>] = Scan(p, a[i])
  OBVIOUS
<1>6. Scanned(a) = f
  BY Zenon DEF Scanned, ScanStart
<1> HIDE DEF N, step, f
<1>7. PICK g : Unrolls(g, N, Scans, ScanStart, step)
  BY <1>1, <1>2, <1>4, RecursionUpTo
<1>8. g \in [0..N -> Scans] /\ g[0] = ScanStart /\ \A i \in 1..N : g[i] = Scan(g[i - 1], a[i])
  <2>1. g \in [0..N -> Scans] /\ g[0] = ScanStart
        /\ \A i \in 1..N : g[i] = step[<<i, g[i - 1]>>]
    BY <1>7 DEF Unrolls
  <2>2. \A i \in 1..N : g[i - 1] \in Scans
    BY <1>1, <2>1
  <2> QED
    BY <1>5, <2>1, <2>2
<1>9. g = [n \in 0..N |-> IF n = 0 THEN ScanStart ELSE Scan(g[n - 1], a[n])]
  <2>1. \A n \in 0..N : g[n] = IF n = 0 THEN ScanStart ELSE Scan(g[n - 1], a[n])
    BY <1>1, <1>8
  <2> QED
    BY <1>8, <2>1
<1>10. f = [n \in 0..N |-> IF n = 0 THEN ScanStart ELSE Scan(f[n - 1], a[n])]
  BY <1>9, Zenon DEF f
<1>11. \A n \in 0..N : f[n] = IF n = 0 THEN ScanStart ELSE Scan(f[n - 1], a[n])
  BY <1>10, Zenon
<1>12. f[0] = ScanStart
  BY <1>1, <1>11
<1>13. \A i \in 1..N : f[i] = Scan(f[i - 1], a[i])
  BY <1>1, <1>11
<1>14. f \in [0..N -> Scans]
  <2> DEFINE D == {n \in 0..N : f[n] \in Scans}
  <2>1. 0 \in D
    BY <1>1, <1>2, <1>12
  <2>2. ASSUME NEW n \in 0..(N - 1), n \in D PROVE n + 1 \in D
    <3>1. n + 1 \in 1..N /\ n + 1 \in 0..N /\ n + 1 - 1 = n
      BY <1>1
    <3>2. f[n + 1] = Scan(f[n], a[n + 1]) /\ a[n + 1] \in Mark
      BY <1>1, <1>13, <3>1
    <3> QED
      BY <2>2, <3>1, <3>2, ScanStays
  <2> HIDE DEF D
  <2>3. 0..N \subseteq D
    BY <1>1, <2>1, <2>2, InductionUpTo
  <2>4. \A n \in 0..N : f[n] \in Scans
    BY <2>3 DEF D
  <2>5. DOMAIN f = 0..N /\ f = [n \in 0..N |-> f[n]]
    BY <1>10
  <2> QED
    BY <2>4, <2>5
<1> QED
  BY <1>6, <1>12, <1>13, <1>14 DEF N

LEMMA ScannedAppend ==
  ASSUME NEW a \in Seq(Mark), NEW m \in Mark
  PROVE  /\ \A n \in 0..Len(a) : Scanned(Append(a, m))[n] = Scanned(a)[n]
         /\ Scanned(Append(a, m))[Len(a) + 1] = Scan(Scanned(a)[Len(a)], m)
<1> DEFINE b == Append(a, m)
           N == Len(a)
           f == Scanned(a)
           g == Scanned(b)
<1>1. /\ b \in Seq(Mark) /\ N \in Nat /\ Len(b) = N + 1 /\ b[N + 1] = m
      /\ \A i \in 1..N : b[i] = a[i]
  BY AppendFacts
<1>2. f[0] = ScanStart /\ \A i \in 1..N : f[i] = Scan(f[i - 1], a[i])
  BY ScannedUnfolds
<1> HIDE DEF b
<1>3. g[0] = ScanStart /\ \A i \in 1..(N + 1) : g[i] = Scan(g[i - 1], b[i])
  BY <1>1, ScannedUnfolds
<1> DEFINE D == {n \in 0..N : g[n] = f[n]}
<1>4. 0 \in D
  BY <1>1, <1>2, <1>3
<1>5. ASSUME NEW n \in 0..(N - 1), n \in D PROVE n + 1 \in D
  <2>1. n + 1 \in 1..N /\ n + 1 \in 1..(N + 1) /\ n + 1 - 1 = n
    BY <1>1
  <2>2. f[n + 1] = Scan(f[n], a[n + 1])
    BY <1>2, <2>1
  <2>3. g[n + 1] = Scan(g[n], b[n + 1])
    BY <1>3, <2>1
  <2> QED
    BY <1>1, <1>5, <2>1, <2>2, <2>3
<1>6. 0..N \subseteq D
  <2> HIDE DEF D, N
  <2> QED
    BY <1>1, <1>4, <1>5, InductionUpTo
<1>7. \A n \in 0..N : g[n] = f[n]
  BY <1>6
<1>8. g[N + 1] = Scan(f[N], m)
  <2> DEFINE M == N + 1
  <2>1. M \in 1..(N + 1) /\ M - 1 = N /\ N \in 0..N
    BY <1>1
  <2> HIDE DEF N, M, f, g
  <2>2. g[M] = Scan(g[M - 1], b[M])
    BY <1>3, <2>1
  <2> QED
    BY <1>1, <1>7, <2>1, <2>2 DEF M
<1> QED
  BY <1>7, <1>8 DEF b

LEMMA GrownUnfolds ==
  ASSUME NEW a \in Seq(Mark)
  PROVE  /\ Grown(a) \in [0..Len(a) -> Trees]
         /\ Grown(a)[0] = TreeStart
         /\ \A i \in 1..Len(a) : Grown(a)[i] = Grow(Grown(a)[i - 1], a[i])
<1> DEFINE N == Len(a)
           step == [x \in (1..N) \X Trees |-> Grow(x[2], a[x[1]])]
           f == CHOOSE after : after = [n \in 0..N |->
                  IF n = 0 THEN TreeStart ELSE Grow(after[n - 1], a[n])]
<1>1. N \in Nat /\ \A i \in 1..N : a[i] \in Mark
  OBVIOUS
<1>2. TreeStart \in Trees
  BY DEF TreeStart, Trees, Path
<1>3. \A x \in (1..N) \X Trees : Grow(x[2], a[x[1]]) \in Trees
  BY <1>1, GrowStays
<1>4. IsStep(step, N, Trees)
  BY <1>3 DEF IsStep
<1>5. \A i \in 1..N, p \in Trees : step[<<i, p>>] = Grow(p, a[i])
  OBVIOUS
<1>6. Grown(a) = f
  BY Zenon DEF Grown, TreeStart
<1> HIDE DEF N, step, f
<1>7. PICK g : Unrolls(g, N, Trees, TreeStart, step)
  BY <1>1, <1>2, <1>4, RecursionUpTo
<1>8. g \in [0..N -> Trees] /\ g[0] = TreeStart /\ \A i \in 1..N : g[i] = Grow(g[i - 1], a[i])
  <2>1. g \in [0..N -> Trees] /\ g[0] = TreeStart
        /\ \A i \in 1..N : g[i] = step[<<i, g[i - 1]>>]
    BY <1>7 DEF Unrolls
  <2>2. \A i \in 1..N : g[i - 1] \in Trees
    BY <1>1, <2>1
  <2> QED
    BY <1>5, <2>1, <2>2
<1>9. g = [n \in 0..N |-> IF n = 0 THEN TreeStart ELSE Grow(g[n - 1], a[n])]
  <2>1. \A n \in 0..N : g[n] = IF n = 0 THEN TreeStart ELSE Grow(g[n - 1], a[n])
    BY <1>1, <1>8
  <2> QED
    BY <1>8, <2>1
<1>10. f = [n \in 0..N |-> IF n = 0 THEN TreeStart ELSE Grow(f[n - 1], a[n])]
  BY <1>9, Zenon DEF f
<1>11. \A n \in 0..N : f[n] = IF n = 0 THEN TreeStart ELSE Grow(f[n - 1], a[n])
  BY <1>10, Zenon
<1>12. f[0] = TreeStart
  BY <1>1, <1>11
<1>13. \A i \in 1..N : f[i] = Grow(f[i - 1], a[i])
  BY <1>1, <1>11
<1>14. f \in [0..N -> Trees]
  <2> DEFINE D == {n \in 0..N : f[n] \in Trees}
  <2>1. 0 \in D
    BY <1>1, <1>2, <1>12
  <2>2. ASSUME NEW n \in 0..(N - 1), n \in D PROVE n + 1 \in D
    <3>1. n + 1 \in 1..N /\ n + 1 \in 0..N /\ n + 1 - 1 = n
      BY <1>1
    <3>2. f[n + 1] = Grow(f[n], a[n + 1]) /\ a[n + 1] \in Mark
      BY <1>1, <1>13, <3>1
    <3> QED
      BY <2>2, <3>1, <3>2, GrowStays
  <2> HIDE DEF D
  <2>3. 0..N \subseteq D
    BY <1>1, <2>1, <2>2, InductionUpTo
  <2>4. \A n \in 0..N : f[n] \in Trees
    BY <2>3 DEF D
  <2>5. DOMAIN f = 0..N /\ f = [n \in 0..N |-> f[n]]
    BY <1>10
  <2> QED
    BY <2>4, <2>5
<1> QED
  BY <1>6, <1>12, <1>13, <1>14 DEF N

LEMMA GrownAppend ==
  ASSUME NEW a \in Seq(Mark), NEW m \in Mark
  PROVE  /\ \A n \in 0..Len(a) : Grown(Append(a, m))[n] = Grown(a)[n]
         /\ Grown(Append(a, m))[Len(a) + 1] = Grow(Grown(a)[Len(a)], m)
<1> DEFINE b == Append(a, m)
           N == Len(a)
           f == Grown(a)
           g == Grown(b)
<1>1. /\ b \in Seq(Mark) /\ N \in Nat /\ Len(b) = N + 1 /\ b[N + 1] = m
      /\ \A i \in 1..N : b[i] = a[i]
  BY AppendFacts
<1>2. f[0] = TreeStart /\ \A i \in 1..N : f[i] = Grow(f[i - 1], a[i])
  BY GrownUnfolds
<1> HIDE DEF b
<1>3. g[0] = TreeStart /\ \A i \in 1..(N + 1) : g[i] = Grow(g[i - 1], b[i])
  BY <1>1, GrownUnfolds
<1> DEFINE D == {n \in 0..N : g[n] = f[n]}
<1>4. 0 \in D
  BY <1>1, <1>2, <1>3
<1>5. ASSUME NEW n \in 0..(N - 1), n \in D PROVE n + 1 \in D
  <2>1. n + 1 \in 1..N /\ n + 1 \in 1..(N + 1) /\ n + 1 - 1 = n
    BY <1>1
  <2>2. f[n + 1] = Grow(f[n], a[n + 1])
    BY <1>2, <2>1
  <2>3. g[n + 1] = Grow(g[n], b[n + 1])
    BY <1>3, <2>1
  <2> QED
    BY <1>1, <1>5, <2>1, <2>2, <2>3
<1>6. 0..N \subseteq D
  <2> HIDE DEF D, N
  <2> QED
    BY <1>1, <1>4, <1>5, InductionUpTo
<1>7. \A n \in 0..N : g[n] = f[n]
  BY <1>6
<1>8. g[N + 1] = Grow(f[N], m)
  <2> DEFINE M == N + 1
  <2>1. M \in 1..(N + 1) /\ M - 1 = N /\ N \in 0..N
    BY <1>1
  <2> HIDE DEF N, M, f, g
  <2>2. g[M] = Grow(g[M - 1], b[M])
    BY <1>3, <2>1
  <2> QED
    BY <1>1, <1>7, <2>1, <2>2 DEF M
<1> QED
  BY <1>7, <1>8 DEF b

-----------------------------------------------------------------------------
(* The tokens of the open brackets count the children that the tree has. *)

\* The mark before stands for a name that has no value yet.
Named(a, n) == n > 0 /\ a[n] = "name"

Inmost(s) == s.tokens[s.open[Len(s.open)]].type

(* What may follow in a text: one value, in an object names and a value after
   each, in an array values. *)
Follow(s, named, m) ==
  /\ s.open # << >>
  /\ \/ Inmost(s) = "{" /\ named /\ m \in Value
     \/ Inmost(s) = "{" /\ ~named /\ m \in {"name", "}"}
     \/ Inmost(s) = "[" /\ ~named /\ m \in Value \cup {"]"}
Goes(s, named, m) == (s.open = << >> /\ ~named /\ m \in Value) \/ Follow(s, named, m)

OpenOk(s) ==
  /\ \A i \in 1..Len(s.open) :
       s.open[i] \in 1..Len(s.tokens) /\ s.tokens[s.open[i]].type \in Container
  /\ \A i, j \in 1..Len(s.open) : i < j => s.open[i] < s.open[j]

Counts(s, w, named) ==
  /\ Len(w.at) = Len(s.open)
  /\ \A i \in 1..Len(s.open) :
       w.at[i] = s.tokens[s.open[i]].size + IF i = Len(s.open) /\ ~named THEN 1 ELSE 0

Matches(s, w, named) ==
  s \in Scans /\ w \in Trees /\ OpenOk(s) /\ Counts(s, w, named)

LEMMA OpenFacts ==
  ASSUME NEW s \in Scans, OpenOk(s), NEW i \in 1..Len(s.open)
  PROVE  /\ s.open[i] \in 1..Len(s.tokens)
         /\ s.tokens[s.open[i]] \in TokenOf
         /\ s.tokens[s.open[i]].size \in Nat
         /\ s.tokens[s.open[i]].type \in Container
         /\ i # Len(s.open) => s.open[i] # s.open[Len(s.open)]
         /\ Len(s.open) \in 1..Len(s.open) /\ s.open # << >>
<1>1. s.tokens \in Seq(TokenOf) /\ s.open \in Seq(Nat) /\ Len(s.open) \in Nat
  BY ScanTyped
<1>2. s.open[i] \in 1..Len(s.tokens) /\ s.tokens[s.open[i]].type \in Container
  BY DEF OpenOk
<1>3. s.tokens[s.open[i]] \in TokenOf
  BY <1>1, <1>2
<1>4. s.tokens[s.open[i]].size \in Nat
  BY <1>3 DEF TokenOf
<1>5. Len(s.open) \in 1..Len(s.open)
  BY <1>1
<1>6. i # Len(s.open) => s.open[i] # s.open[Len(s.open)]
  <2> SUFFICES ASSUME i # Len(s.open) PROVE s.open[i] # s.open[Len(s.open)]
    OBVIOUS
  <2>1. i < Len(s.open)
    BY <1>1
  <2>2. s.open[i] < s.open[Len(s.open)]
    BY <1>5, <2>1 DEF OpenOk
  <2>3. s.open[i] \in Nat
    BY <1>1
  <2> QED
    BY <2>2, <2>3
<1>7. s.open # << >>
  BY <1>5
<1> QED
  BY <1>2, <1>3, <1>4, <1>5, <1>6, <1>7

\* What a new token adds to the count of the bracket it is in.
Adding1(s, m) == IF m = "name" \/ Inmost(s) = "[" THEN 1 ELSE 0

LEMMA CountedOpen ==
  ASSUME NEW s \in Scans, OpenOk(s), NEW m, NEW i \in 1..Len(s.open)
  PROVE  /\ Counted(s, m)[s.open[i]].type = s.tokens[s.open[i]].type
         /\ Counted(s, m)[s.open[i]].size
              = s.tokens[s.open[i]].size + IF i = Len(s.open) THEN Adding1(s, m) ELSE 0
<1> DEFINE inner == s.open[Len(s.open)]
           adds == s.open # << >> /\ (m = "name" \/ s.tokens[inner].type = "[")
           k == s.open[i]
<1>1. /\ k \in 1..Len(s.tokens) /\ s.tokens[k].size \in Nat
      /\ i # Len(s.open) => k # inner
      /\ s.open # << >>
  BY OpenFacts
<1>2. /\ ~adds => Counted(s, m) = s.tokens
      /\ adds => \A j \in 1..Len(s.tokens) : j # inner => Counted(s, m)[j] = s.tokens[j]
      /\ adds /\ inner \in 1..Len(s.tokens) =>
           Counted(s, m)[inner] = [type |-> s.tokens[inner].type, size |-> s.tokens[inner].size + 1]
  BY CountedFacts
<1>3. adds <=> Adding1(s, m) = 1
  BY <1>1 DEF Adding1, Inmost
<1>4. ~adds <=> Adding1(s, m) = 0
  BY <1>1 DEF Adding1, Inmost
<1> HIDE DEF adds
<1>5. CASE i # Len(s.open)
  <2>1. k # inner
    BY <1>1, <1>5
  <2> HIDE DEF k, inner
  <2>2. Counted(s, m)[k] = s.tokens[k]
    BY <1>1, <1>2, <2>1
  <2> QED
    BY <1>1, <1>5, <2>2 DEF k
<1>6. CASE i = Len(s.open) /\ adds
  <2>1. k = inner
    BY <1>6
  <2> HIDE DEF k, inner
  <2>2. Counted(s, m)[k] = [type |-> s.tokens[k].type, size |-> s.tokens[k].size + 1]
    BY <1>1, <1>2, <1>6, <2>1
  <2> QED
    BY <1>3, <1>6, <2>2 DEF k
<1>7. CASE i = Len(s.open) /\ ~adds
  <2>1. Counted(s, m) = s.tokens
    BY <1>2, <1>7
  <2>2. Adding1(s, m) = 0
    BY <1>4, <1>7
  <2> QED
    BY <1>1, <1>7, <2>1, <2>2
<1> QED
  BY <1>5, <1>6, <1>7

\* Other tokens stay as they are.
LEMMA CountedOther ==
  ASSUME NEW s \in Scans, OpenOk(s), NEW m, NEW k \in 1..Len(s.tokens),
         \A i \in 1..Len(s.open) : k # s.open[i]
  PROVE  Counted(s, m)[k] = s.tokens[k]
<1> DEFINE inner == s.open[Len(s.open)]
           adds == s.open # << >> /\ (m = "name" \/ s.tokens[inner].type = "[")
<1>1. /\ ~adds => Counted(s, m) = s.tokens
      /\ adds => \A j \in 1..Len(s.tokens) : j # inner => Counted(s, m)[j] = s.tokens[j]
  BY CountedFacts
<1>2. adds => k # inner
  <2> SUFFICES ASSUME s.open # << >> PROVE k # inner
    OBVIOUS
  <2>1. Len(s.open) \in 1..Len(s.open)
    BY ScanTyped
  <2> QED
    BY <2>1
<1> HIDE DEF adds, inner
<1> QED
  BY <1>1, <1>2

LEMMA MatchesFacts ==
  ASSUME NEW s, NEW w, NEW named, Matches(s, w, named)
  PROVE  /\ s \in Scans /\ w \in Trees /\ OpenOk(s)
         /\ w.at \in Path /\ w.at \in Seq(Nat) /\ Len(w.at) = Len(s.open)
         /\ Len(s.open) \in Nat /\ Len(s.tokens) \in Nat
         /\ s.open \in Seq(Nat) /\ s.tokens \in Seq(TokenOf)
         /\ \A i \in 1..Len(s.open) :
              w.at[i] = s.tokens[s.open[i]].size
                          + IF i = Len(s.open) /\ ~named THEN 1 ELSE 0
<1>1. s \in Scans /\ w \in Trees /\ OpenOk(s) /\ Counts(s, w, named)
  BY DEF Matches
<1>2. w.at \in Path
  BY <1>1 DEF Trees
<1> QED
  BY <1>1, <1>2, ScanTyped DEF Counts, Path

LEMMA MatchesClosed ==
  ASSUME NEW s, NEW w, Matches(s, w, FALSE), s.open # << >>, NEW m \in Close
  PROVE  Matches(Scan(s, m), Grow(w, m), FALSE)
<1> DEFINE n == Len(s.open) - 1
           p == Front(w.at)
           o == Front(s.open)
           r == Scan(s, m)
           x == Grow(w, m)
<1>1. /\ s \in Scans /\ w \in Trees /\ OpenOk(s)
      /\ w.at \in Path /\ w.at \in Seq(Nat) /\ Len(w.at) = Len(s.open)
      /\ Len(s.open) \in Nat /\ s.open \in Seq(Nat)
      /\ \A i \in 1..Len(s.open) :
           w.at[i] = s.tokens[s.open[i]].size + IF i = Len(s.open) /\ ~FALSE THEN 1 ELSE 0
  BY MatchesFacts
<1>2. r \in Scans /\ r = [tokens |-> s.tokens, open |-> o]
  BY <1>1, ScanClosed
<1>3. w.at # << >>
  BY <1>1
<1>4. /\ p \in Seq(Nat) /\ Len(p) = n /\ \A i \in 1..n : p[i] = w.at[i]
      /\ Len(o) = n /\ n \in Nat /\ \A i \in 1..n : o[i] = s.open[i]
  <2>1. /\ p \in Seq(Nat) /\ Len(p) = Len(w.at) - 1
        /\ \A i \in 1..(Len(w.at) - 1) : p[i] = w.at[i]
    BY <1>1, <1>3, FrontFacts
  <2>2. /\ Len(o) = Len(s.open) - 1 /\ Len(s.open) \in Nat \ {0}
        /\ \A i \in 1..(Len(s.open) - 1) : o[i] = s.open[i]
    BY <1>1, FrontFacts
  <2> HIDE DEF p, o
  <2> QED
    BY <1>1, <2>1, <2>2
<1>5. m \notin Value \cup {"name"}
  BY DEF Value, Container, Scalar, Close
<1>6. x \in Trees /\ x.at = Sibling(p)
  BY <1>1, <1>5, GrowStays, GrowIs
<1>7. /\ Len(x.at) = n
      /\ \A i \in 1..n : x.at[i] = IF i = n THEN p[i] + 1 ELSE p[i]
  <2>1. p \in Path /\ Len(p) = n
    BY <1>4 DEF Path
  <2> HIDE DEF p, n, x
  <2>2. /\ Len(Sibling(p)) = Len(p)
        /\ \A i \in 1..Len(p) : Sibling(p)[i] = IF i = Len(p) THEN p[i] + 1 ELSE p[i]
    BY <2>1, SiblingTyped
  <2> QED
    BY <1>6, <2>1, <2>2
<1>8. \A i \in 1..n : i \in 1..Len(s.open) /\ i # Len(s.open)
  BY <1>1
<1>9. r.open = o /\ r.tokens = s.tokens
  BY <1>2
<1> HIDE DEF r, x, o, p, n
<1>10. OpenOk(r)
  BY <1>1, <1>4, <1>8, <1>9 DEF OpenOk
<1>11. ASSUME NEW i \in 1..n
       PROVE  x.at[i] = r.tokens[r.open[i]].size + IF i = Len(r.open) /\ ~FALSE THEN 1 ELSE 0
  <2>1. w.at[i] = s.tokens[s.open[i]].size + 0
    BY <1>1, <1>8
  <2>2. r.tokens[r.open[i]].size = s.tokens[s.open[i]].size
    BY <1>4, <1>9
  <2>3. s.tokens[s.open[i]].size \in Nat
    BY <1>1, <1>8, OpenFacts
  <2>4. Len(r.open) = n
    BY <1>4, <1>9
  <2> QED
    BY <1>4, <1>7, <2>1, <2>2, <2>3, <2>4
<1>12. Counts(r, x, FALSE)
  BY <1>4, <1>7, <1>9, <1>11 DEF Counts
<1> QED
  BY <1>2, <1>6, <1>10, <1>12 DEF Matches, r, x

\* The tokens that were there when another comes.
LEMMA AddedOpen ==
  ASSUME NEW s \in Scans, OpenOk(s), NEW m \in Mark \ Close
  PROVE  \A i \in 1..Len(s.open) :
           LET t == Scan(s, m).tokens[s.open[i]]
           IN  /\ s.open[i] \in 1..Len(s.tokens)
               /\ s.tokens[s.open[i]].size \in Nat
               /\ t.type = s.tokens[s.open[i]].type
               /\ t.size = s.tokens[s.open[i]].size
                             + IF i = Len(s.open) THEN Adding1(s, m) ELSE 0
<1> TAKE i \in 1..Len(s.open)
<1>1. s.open[i] \in 1..Len(s.tokens) /\ s.tokens[s.open[i]].size \in Nat
  BY OpenFacts
<1>2. Scan(s, m).tokens[s.open[i]] = Counted(s, m)[s.open[i]]
  BY <1>1, ScanAdded
<1>3. /\ Counted(s, m)[s.open[i]].type = s.tokens[s.open[i]].type
      /\ Counted(s, m)[s.open[i]].size
           = s.tokens[s.open[i]].size + IF i = Len(s.open) THEN Adding1(s, m) ELSE 0
  BY CountedOpen
<1> QED
  BY <1>1, <1>2, <1>3

LEMMA MatchesSame ==
  ASSUME NEW s, NEW w, NEW named \in BOOLEAN, Matches(s, w, named), NEW m \in Scalar \cup {"name"},
         Goes(s, named, m)
  PROVE  Matches(Scan(s, m), Grow(w, m), m = "name")
<1> DEFINE n == Len(s.open)
           r == Scan(s, m)
           x == Grow(w, m)
<1>0. m \in Mark \ Close /\ m \notin Container /\ (m = "name" <=> m \notin Scalar)
  BY DEF Mark, Close, Container, Scalar
<1>1. /\ s \in Scans /\ w \in Trees /\ OpenOk(s)
      /\ w.at \in Path /\ w.at \in Seq(Nat) /\ Len(w.at) = n
      /\ n \in Nat /\ Len(s.tokens) \in Nat
      /\ \A i \in 1..Len(s.open) :
           w.at[i] = s.tokens[s.open[i]].size + IF i = Len(s.open) /\ ~named THEN 1 ELSE 0
  BY MatchesFacts
<1>2. r \in Scans /\ r.open = s.open /\ Len(r.tokens) = Len(s.tokens) + 1
  BY <1>0, <1>1, ScanAdded
<1>3. x \in Trees /\ x.at = Onto(w.at, m)
  BY <1>1, GrowStays
<1>4. /\ m = "name" => x.at = w.at
      /\ m # "name" => x.at = Sibling(w.at)
  BY <1>0, <1>3, GrowIs
<1>5. /\ Len(x.at) = n
      /\ \A i \in 1..n : x.at[i] = IF i = n /\ m # "name" THEN w.at[i] + 1 ELSE w.at[i]
  <2>1. Len(Sibling(w.at)) = n
        /\ \A i \in 1..n : Sibling(w.at)[i] = IF i = n THEN w.at[i] + 1 ELSE w.at[i]
    BY <1>1, SiblingTyped
  <2> QED
    BY <1>1, <1>4, <2>1
<1>6. \A i \in 1..n :
        /\ s.open[i] \in 1..Len(s.tokens)
        /\ s.tokens[s.open[i]].size \in Nat
        /\ r.tokens[s.open[i]].type = s.tokens[s.open[i]].type
        /\ r.tokens[s.open[i]].size
             = s.tokens[s.open[i]].size + IF i = n THEN Adding1(s, m) ELSE 0
  BY <1>0, <1>1, AddedOpen
<1>7. \A i \in 1..n : s.open[i] \in 1..(Len(s.tokens) + 1)
  <2>1. \A i \in 1..n : s.open[i] \in 1..Len(s.tokens)
    BY <1>6
  <2>2. \A k \in 1..Len(s.tokens) : k \in 1..(Len(s.tokens) + 1)
    BY <1>1
  <2> QED
    BY <2>1, <2>2
<1>8. n # 0 => /\ Adding1(s, m) \in {0, 1}
               /\ m = "name" => Adding1(s, m) = 1 /\ ~named
               /\ m # "name" => Adding1(s, m) = IF ~named THEN 1 ELSE 0
  <2> SUFFICES ASSUME n # 0
               PROVE  /\ Adding1(s, m) \in {0, 1}
                      /\ m = "name" => Adding1(s, m) = 1 /\ ~named
                      /\ m # "name" => Adding1(s, m) = IF ~named THEN 1 ELSE 0
    OBVIOUS
  <2>1. Follow(s, named, m)
    BY DEF Goes
  <2>2. \/ Inmost(s) = "{" /\ named /\ m # "name"
        \/ Inmost(s) = "{" /\ ~named /\ m = "name"
        \/ Inmost(s) = "[" /\ ~named /\ m # "name"
    BY <1>0, <2>1 DEF Follow, Value, Container, Scalar, Close
  <2> QED
    BY <2>2 DEF Adding1
<1> HIDE DEF r, x
<1>9. OpenOk(r)
  BY <1>1, <1>2, <1>6, <1>7 DEF OpenOk
<1>10. ASSUME NEW i \in 1..n
       PROVE  x.at[i] = r.tokens[r.open[i]].size
                          + IF i = Len(r.open) /\ ~(m = "name") THEN 1 ELSE 0
  <2>1. w.at[i] = s.tokens[s.open[i]].size + IF i = n /\ ~named THEN 1 ELSE 0
    BY <1>1
  <2>2. /\ s.tokens[s.open[i]].size \in Nat
        /\ r.tokens[r.open[i]].size
             = s.tokens[s.open[i]].size + IF i = n THEN Adding1(s, m) ELSE 0
        /\ Len(r.open) = n
    BY <1>2, <1>6
  <2>3. CASE i # n
    BY <1>5, <2>1, <2>2, <2>3
  <2>4. CASE i = n
    <3>1. /\ m = "name" => Adding1(s, m) = 1 /\ ~named
          /\ m # "name" => Adding1(s, m) = IF ~named THEN 1 ELSE 0
      BY <1>1, <1>8, <2>4
    <3>2. x.at[i] = IF m # "name" THEN w.at[i] + 1 ELSE w.at[i]
      BY <1>5, <2>4
    <3> QED
      BY <2>1, <2>2, <2>4, <3>1, <3>2
  <2> QED
    BY <2>3, <2>4
<1>11. Counts(r, x, m = "name")
  BY <1>2, <1>5, <1>10 DEF Counts
<1> QED
  BY <1>2, <1>3, <1>9, <1>11 DEF Matches, r, x

LEMMA MatchesOpened ==
  ASSUME NEW s, NEW w, NEW named \in BOOLEAN, Matches(s, w, named), NEW m \in Container,
         Goes(s, named, m)
  PROVE  Matches(Scan(s, m), Grow(w, m), FALSE)
<1> DEFINE n == Len(s.open)
           L == Len(s.tokens)
           r == Scan(s, m)
           x == Grow(w, m)
<1>0. m \in Mark \ Close /\ m # "name" /\ m \notin Scalar
  BY DEF Mark, Close, Container, Scalar
<1>1. /\ s \in Scans /\ w \in Trees /\ OpenOk(s)
      /\ w.at \in Path /\ w.at \in Seq(Nat) /\ Len(w.at) = n
      /\ n \in Nat /\ L \in Nat /\ s.open \in Seq(Nat)
      /\ \A i \in 1..Len(s.open) :
           w.at[i] = s.tokens[s.open[i]].size + IF i = Len(s.open) /\ ~named THEN 1 ELSE 0
  BY MatchesFacts
<1>2. /\ r \in Scans /\ r.open = Append(s.open, L + 1) /\ Len(r.tokens) = L + 1
      /\ r.tokens[L + 1] = Token(m)
  BY <1>0, <1>1, ScanAdded
<1>3. x \in Trees /\ x.at = Append(w.at, 1)
  BY <1>1, GrowStays, GrowIs
<1>4. Token(m) = [type |-> m, size |-> 0]
  BY <1>0 DEF Token
<1>5. /\ Len(x.at) = n + 1 /\ x.at[n + 1] = 1 /\ \A i \in 1..n : x.at[i] = w.at[i]
      /\ Len(r.open) = n + 1 /\ r.open[n + 1] = L + 1 /\ \A i \in 1..n : r.open[i] = s.open[i]
  BY <1>1, <1>2, <1>3
<1>6. \A i \in 1..n :
        /\ s.open[i] \in 1..L
        /\ s.tokens[s.open[i]].size \in Nat
        /\ r.tokens[s.open[i]].type = s.tokens[s.open[i]].type
        /\ r.tokens[s.open[i]].size
             = s.tokens[s.open[i]].size + IF i = n THEN Adding1(s, m) ELSE 0
  BY <1>0, <1>1, AddedOpen
<1>8. n # 0 => Adding1(s, m) = IF ~named THEN 1 ELSE 0
  <2> SUFFICES ASSUME n # 0 PROVE Adding1(s, m) = IF ~named THEN 1 ELSE 0
    OBVIOUS
  <2>1. Follow(s, named, m)
    BY DEF Goes
  <2>2. /\ Inmost(s) = "{" => named
        /\ Inmost(s) = "[" => ~named
        /\ Inmost(s) \in {"{", "["}
    BY <1>0, <2>1 DEF Follow, Value, Container, Scalar, Close
  <2> QED
    BY <1>0, <2>2 DEF Adding1
<1> HIDE DEF r, x, L
<1>9. OpenOk(r)
  <2>1. \A i \in 1..n : /\ r.open[i] \in 1..(L + 1)
                        /\ r.open[i] < L + 1
                        /\ r.tokens[r.open[i]].type \in Container
    <3> TAKE i \in 1..n
    <3>1. r.open[i] = s.open[i] /\ s.open[i] \in 1..L
          /\ r.tokens[s.open[i]].type = s.tokens[s.open[i]].type
      BY <1>5, <1>6
    <3>2. s.tokens[s.open[i]].type \in Container
      BY <1>1 DEF OpenOk
    <3> QED
      BY <1>1, <3>1, <3>2
  <2>2. r.open[n + 1] \in 1..(L + 1) /\ r.tokens[r.open[n + 1]].type \in Container
    BY <1>1, <1>2, <1>4, <1>5
  <2>3. \A i \in 1..(n + 1) : i \in 1..n \/ i = n + 1
    BY <1>1
  <2>4. \A i \in 1..Len(r.open) :
          r.open[i] \in 1..Len(r.tokens) /\ r.tokens[r.open[i]].type \in Container
    BY <1>2, <1>5, <2>1, <2>2, <2>3
  <2>5. ASSUME NEW i \in 1..Len(r.open), NEW j \in 1..Len(r.open), i < j
        PROVE  r.open[i] < r.open[j]
    <3>1. i \in 1..n
      BY <1>1, <1>5, <2>5
    <3>2. CASE j = n + 1
      BY <1>5, <2>1, <3>1, <3>2
    <3>3. CASE j \in 1..n
      BY <1>1, <1>5, <2>5, <3>1, <3>3 DEF OpenOk
    <3> QED
      BY <1>5, <2>3, <3>2, <3>3
  <2> QED
    BY <2>4, <2>5 DEF OpenOk
<1>10. ASSUME NEW i \in 1..(n + 1)
       PROVE  x.at[i] = r.tokens[r.open[i]].size + IF i = Len(r.open) /\ ~FALSE THEN 1 ELSE 0
  <2>1. CASE i = n + 1
    BY <1>2, <1>4, <1>5, <2>1
  <2>2. CASE i \in 1..n
    <3>1. w.at[i] = s.tokens[s.open[i]].size + IF i = n /\ ~named THEN 1 ELSE 0
      BY <1>1, <2>2
    <3>2. /\ s.tokens[s.open[i]].size \in Nat
          /\ r.tokens[r.open[i]].size
               = s.tokens[s.open[i]].size + IF i = n THEN Adding1(s, m) ELSE 0
          /\ Len(r.open) = n + 1 /\ i # n + 1
      <4>1. r.open[i] = s.open[i] /\ Len(r.open) = n + 1
        BY <1>5, <2>2
      <4>2. /\ s.tokens[s.open[i]].size \in Nat
            /\ r.tokens[s.open[i]].size
                 = s.tokens[s.open[i]].size + IF i = n THEN Adding1(s, m) ELSE 0
        BY <1>6, <2>2
      <4>3. i # n + 1
        BY <1>1, <2>2
      <4> QED
        BY <4>1, <4>2, <4>3
    <3>3. n # 0
      BY <1>1, <2>2
    <3> QED
      BY <1>5, <1>8, <2>2, <3>1, <3>2, <3>3
  <2> QED
    BY <1>1, <2>1, <2>2
<1>11. Counts(r, x, FALSE)
  BY <1>5, <1>10 DEF Counts
<1> QED
  BY <1>2, <1>3, <1>9, <1>11 DEF Matches, r, x

-----------------------------------------------------------------------------
(* Tokens once made keep their type; the count of one that is closed is final. *)

Persists(s, toks) ==
  /\ Len(s.tokens) <= Len(toks)
  /\ \A k \in 1..Len(s.tokens) :
       /\ toks[k].type = s.tokens[k].type
       /\ toks[k].size >= s.tokens[k].size
       /\ (\A i \in 1..Len(s.open) : k # s.open[i]) => toks[k].size = s.tokens[k].size

LEMMA PersistsBack ==
  ASSUME NEW s \in Scans, OpenOk(s), NEW m \in Mark, NEW toks \in Seq(TokenOf),
         Persists(Scan(s, m), toks)
  PROVE  Persists(s, toks)
<1> DEFINE r == Scan(s, m)
           L == Len(s.tokens)
           c == Counted(s, m)
<1>1. L \in Nat /\ Len(s.open) \in Nat /\ Len(toks) \in Nat /\ s.open \in Seq(Nat)
  BY ScanTyped
<1>2. \A k \in 1..L : s.tokens[k].size \in Nat
  <2>1. \A k \in 1..L : s.tokens[k] \in TokenOf
    BY ScanTyped
  <2> QED
    BY <2>1 DEF TokenOf
<1>3. CASE m \in Close
  <2>1. r.tokens = s.tokens /\ r.open = Front(s.open)
    BY <1>3, ScanClosed
  <2>2. \A j \in 1..Len(r.open) : \E i \in 1..Len(s.open) : r.open[j] = s.open[i]
    <3>1. CASE s.open = << >>
      <4>1. Front(s.open) = << >>
        <5>1. Len(s.open) - 1 = -1
          BY <3>1
        <5>2. SubSeq(s.open, 1, -1) = << >>
          BY <3>1
        <5> QED
          BY <5>1, <5>2 DEF Front
      <4> QED
        BY <2>1, <4>1
    <3>2. CASE s.open # << >>
      <4>1. /\ Len(r.open) = Len(s.open) - 1 /\ Len(s.open) \in Nat \ {0}
            /\ \A i \in 1..(Len(s.open) - 1) : r.open[i] = s.open[i]
        BY <1>1, <2>1, <3>2, FrontFacts
      <4>2. \A j \in 1..Len(r.open) : j \in 1..Len(s.open) /\ r.open[j] = s.open[j]
        <5> HIDE DEF r
        <5> QED
          BY <4>1
      <4> QED
        BY <4>2
    <3> QED
      BY <3>1, <3>2
  <2>3. Persists(r, toks)
    OBVIOUS
  <2> HIDE DEF r
  <2>4. \A k \in 1..L :
          (\A i \in 1..Len(s.open) : k # s.open[i]) => \A i \in 1..Len(r.open) : k # r.open[i]
    BY <2>2
  <2> QED
    BY <2>1, <2>3, <2>4 DEF Persists
<1>4. CASE m \notin Close
  <2>1. /\ Len(r.tokens) = L + 1
        /\ r.open = IF m \in Container THEN Append(s.open, L + 1) ELSE s.open
        /\ \A k \in 1..L : r.tokens[k] = c[k]
    BY <1>4, ScanAdded
  <2>2. \A k \in 1..L :
          (\A i \in 1..Len(s.open) : k # s.open[i]) => \A i \in 1..Len(r.open) : k # r.open[i]
    <3> HIDE DEF r
    <3>1. CASE m \in Container
      <4>1. /\ Len(r.open) = Len(s.open) + 1 /\ r.open[Len(s.open) + 1] = L + 1
            /\ \A i \in 1..Len(s.open) : r.open[i] = s.open[i]
        BY <1>1, <2>1, <3>1
      <4>2. \A i \in 1..Len(r.open) : i \in 1..Len(s.open) \/ i = Len(s.open) + 1
        BY <1>1, <4>1
      <4>3. \A k \in 1..L : k # L + 1
        BY <1>1
      <4> HIDE DEF L
      <4>4. \A i \in 1..Len(r.open) :
              r.open[i] = L + 1 \/ \E j \in 1..Len(s.open) : r.open[i] = s.open[j]
        BY <4>1, <4>2
      <4> QED
        BY <4>3, <4>4
    <3>2. CASE m \notin Container
      BY <2>1, <3>2
    <3> QED
      BY <3>1, <3>2
  <2>3. \A k \in 1..L : (\A i \in 1..Len(s.open) : k # s.open[i]) => c[k] = s.tokens[k]
    BY CountedOther
  <2>4. \A k \in 1..L : c[k].type = s.tokens[k].type /\ c[k].size >= s.tokens[k].size
    <3> TAKE k \in 1..L
    <3>1. CASE \A i \in 1..Len(s.open) : k # s.open[i]
      BY <1>2, <2>3, <3>1
    <3>2. ASSUME NEW i \in 1..Len(s.open), k = s.open[i]
          PROVE  c[k].type = s.tokens[k].type /\ c[k].size >= s.tokens[k].size
      <4>1. /\ c[s.open[i]].type = s.tokens[s.open[i]].type
            /\ c[s.open[i]].size
                 = s.tokens[s.open[i]].size + IF i = Len(s.open) THEN Adding1(s, m) ELSE 0
        BY CountedOpen
      <4>2. Adding1(s, m) \in {0, 1}
        BY DEF Adding1
      <4> HIDE DEF c
      <4> QED
        BY <1>2, <3>2, <4>1, <4>2
    <3> QED
      BY <3>1, <3>2
  <2>5. Persists(r, toks)
    OBVIOUS
  <2> HIDE DEF r, c, L
  <2>6. \A k \in 1..L :
          /\ k \in 1..Len(r.tokens)
          /\ toks[k].type = c[k].type /\ toks[k].size >= c[k].size
          /\ (\A i \in 1..Len(s.open) : k # s.open[i]) => toks[k].size = c[k].size
    <3> TAKE k \in 1..L
    <3>1. k \in 1..Len(r.tokens)
      BY <1>1, <2>1
    <3>2. /\ toks[k].type = r.tokens[k].type /\ toks[k].size >= r.tokens[k].size
          /\ (\A i \in 1..Len(r.open) : k # r.open[i]) => toks[k].size = r.tokens[k].size
      BY <2>5, <3>1 DEF Persists
    <3>3. r.tokens[k] = c[k]
      BY <2>1
    <3>4. (\A i \in 1..Len(s.open) : k # s.open[i]) => \A i \in 1..Len(r.open) : k # r.open[i]
      BY <2>2
    <3> QED
      BY <3>1, <3>2, <3>3, <3>4
  <2>7. \A k \in 1..Len(s.tokens) : toks[k].size \in Nat /\ c[k].size \in Nat
    <3> TAKE k \in 1..Len(s.tokens)
    <3>1. k \in 1..Len(toks)
      BY <1>1, <2>1, <2>5 DEF Persists, L
    <3>2. toks[k] \in TokenOf
      BY <3>1
    <3>3. c \in Seq(TokenOf) /\ Len(c) = Len(s.tokens)
      BY CountedFacts DEF c
    <3>4. c[k] \in TokenOf
      BY <3>3
    <3> QED
      BY <3>2, <3>4 DEF TokenOf
  <2>8. Len(s.tokens) <= Len(toks)
    BY <1>1, <2>1, <2>5 DEF Persists, L
  <2>9. ASSUME NEW k \in 1..Len(s.tokens)
        PROVE  /\ toks[k].type = s.tokens[k].type
               /\ toks[k].size >= s.tokens[k].size
               /\ (\A i \in 1..Len(s.open) : k # s.open[i]) => toks[k].size = s.tokens[k].size
    <3>1. /\ toks[k].type = c[k].type /\ toks[k].size >= c[k].size
          /\ (\A i \in 1..Len(s.open) : k # s.open[i]) => toks[k].size = c[k].size
      BY <2>6 DEF L
    <3>2. c[k].type = s.tokens[k].type /\ c[k].size >= s.tokens[k].size
      BY <2>4 DEF L
    <3>3. (\A i \in 1..Len(s.open) : k # s.open[i]) => c[k] = s.tokens[k]
      BY <2>3 DEF L
    <3>4. toks[k].size \in Nat /\ c[k].size \in Nat /\ s.tokens[k].size \in Nat
      BY <1>2, <2>7 DEF L
    <3> QED
      BY <3>1, <3>2, <3>3, <3>4
  <2> QED
    BY <2>8, <2>9 DEF Persists
<1> QED
  BY <1>3, <1>4

-----------------------------------------------------------------------------
(* Marks in the order of a text. *)

Sound(a) ==
  /\ a \in Seq(Bead)
  /\ \A n \in 0..(Len(a) - 1) :
       /\ Goes(Scanned(a)[n], Named(a, n), a[n + 1])
       /\ n > 0 => Scanned(a)[n].open # << >>

LEMMA BeadsAreMarks ==
  ASSUME NEW a \in Seq(Bead)
  PROVE  /\ a \in Seq(Mark) /\ Len(a) \in Nat
         /\ \A i \in 1..Len(a) : a[i] \in Bead /\ a[i] \in Mark
<1>1. Bead \subseteq Mark
  BY DEF Bead
<1> QED
  BY <1>1

LEMMA MatchesGrows ==
  ASSUME NEW s, NEW w, NEW named \in BOOLEAN, Matches(s, w, named), NEW m \in Bead,
         Goes(s, named, m)
  PROVE  Matches(Scan(s, m), Grow(w, m), m = "name")
<1>1. m \in Container \/ m \in Scalar \cup {"name"} \/ m \in Close
  BY BeadCases
<1>2. CASE m \in Container
  <2>1. (m = "name") = FALSE
    BY <1>2 DEF Container
  <2> QED
    BY <1>2, <2>1, MatchesOpened
<1>3. CASE m \in Scalar \cup {"name"}
  BY <1>3, MatchesSame
<1>4. CASE m \in Close
  <2>1. (m = "name") = FALSE
    BY <1>4 DEF Close
  <2>2. s.open # << >> /\ named = FALSE
    BY <1>4 DEF Goes, Follow, Value, Container, Scalar, Close
  <2> QED
    BY <1>4, <2>1, <2>2, MatchesClosed
<1> QED
  BY <1>1, <1>2, <1>3, <1>4

LEMMA MatchesStart == Matches(ScanStart, TreeStart, FALSE)
<1>1. /\ ScanStart.open = << >> /\ Len(ScanStart.open) = 0 /\ Len(TreeStart.at) = 0
      /\ ScanStart \in Scans /\ TreeStart \in Trees
  BY DEF ScanStart, TreeStart, Scans, Trees, Path
<1>2. 1..0 = {}
  OBVIOUS
<1> QED
  BY <1>1, <1>2 DEF Matches, OpenOk, Counts

LEMMA SoundMatches ==
  ASSUME NEW a, Sound(a)
  PROVE  \A n \in 0..Len(a) : Matches(Scanned(a)[n], Grown(a)[n], Named(a, n))
<1> DEFINE D == {n \in 0..Len(a) : Matches(Scanned(a)[n], Grown(a)[n], Named(a, n))}
<1>1. /\ a \in Seq(Mark) /\ Len(a) \in Nat
      /\ \A i \in 1..Len(a) : a[i] \in Bead
  BY BeadsAreMarks DEF Sound
<1>2. 0 \in D
  <2>1. Scanned(a)[0] = ScanStart /\ Grown(a)[0] = TreeStart
    BY <1>1, ScannedUnfolds, GrownUnfolds
  <2>2. Named(a, 0) = FALSE
    BY DEF Named
  <2> QED
    <3>1. Matches(Scanned(a)[0], Grown(a)[0], Named(a, 0))
      BY <2>1, <2>2, MatchesStart, Zenon
    <3>2. 0 \in 0..Len(a)
      BY <1>1
    <3> QED
      BY <3>1, <3>2
<1>3. ASSUME NEW n \in 0..(Len(a) - 1), n \in D PROVE n + 1 \in D
  <2>1. n + 1 \in 1..Len(a) /\ n + 1 - 1 = n /\ n + 1 \in 0..Len(a) /\ n + 1 > 0
    BY <1>1
  <2>2. a[n + 1] \in Bead
    BY <1>1, <2>1
  <2>3. Scanned(a)[n + 1] = Scan(Scanned(a)[n], a[n + 1])
    BY <1>1, <2>1, ScannedUnfolds
  <2>4. Grown(a)[n + 1] = Grow(Grown(a)[n], a[n + 1])
    BY <1>1, <2>1, GrownUnfolds
  <2>5. Named(a, n) \in BOOLEAN /\ Named(a, n + 1) = (a[n + 1] = "name")
    BY <2>1 DEF Named
  <2>6. Goes(Scanned(a)[n], Named(a, n), a[n + 1])
    BY DEF Sound
  <2>7. Matches(Scanned(a)[n], Grown(a)[n], Named(a, n))
    BY <1>3
  <2>8. Matches(Scan(Scanned(a)[n], a[n + 1]), Grow(Grown(a)[n], a[n + 1]), a[n + 1] = "name")
    BY <2>2, <2>5, <2>6, <2>7, MatchesGrows
  <2> QED
    BY <2>1, <2>3, <2>4, <2>5, <2>8
<1> HIDE DEF D
<1>4. 0..Len(a) \subseteq D
  BY <1>1, <1>2, <1>3, InductionUpTo
<1> QED
  BY <1>4 DEF D

LEMMA SoundPersists ==
  ASSUME NEW a, Sound(a)
  PROVE  \A n \in 0..Len(a) : Persists(Scanned(a)[n], Scanned(a)[Len(a)].tokens)
<1> DEFINE N == Len(a)
           toks == Scanned(a)[N].tokens
           D == {i \in 0..N : Persists(Scanned(a)[N - i], toks)}
<1>1. a \in Seq(Mark) /\ N \in Nat /\ \A i \in 1..N : a[i] \in Mark
  BY BeadsAreMarks DEF Sound
<1>2. \A n \in 0..N : Scanned(a)[n] \in Scans /\ OpenOk(Scanned(a)[n])
  BY SoundMatches DEF Matches
<1>3. toks \in Seq(TokenOf)
  BY <1>1, <1>2, ScanTyped
<1>4. 0 \in D
  <2>1. N - 0 = N /\ N \in 0..N
    BY <1>1
  <2>2. \A k \in 1..Len(toks) : toks[k] \in TokenOf
    BY <1>3
  <2>3. \A k \in 1..Len(toks) : toks[k].size \in Nat
    BY <2>2 DEF TokenOf
  <2>4. Len(toks) \in Nat
    BY <1>3
  <2>5. Persists(Scanned(a)[N], toks)
    BY <2>3, <2>4 DEF Persists
  <2> QED
    BY <1>1, <2>1, <2>5
<1>5. ASSUME NEW i \in 0..(N - 1), i \in D PROVE i + 1 \in D
  <2> DEFINE n == N - (i + 1)
  <2>1. n \in 0..N /\ n + 1 \in 1..N /\ n + 1 = N - i /\ n + 1 - 1 = n /\ i + 1 \in 0..N
    BY <1>1
  <2>2. Scanned(a)[n + 1] = Scan(Scanned(a)[n], a[n + 1])
    <3>1. \A j \in 1..Len(a) : Scanned(a)[j] = Scan(Scanned(a)[j - 1], a[j])
      BY <1>1, ScannedUnfolds
    <3> HIDE DEF n
    <3> QED
      BY <2>1, <3>1
  <2> HIDE DEF n, N
  <2>3. Persists(Scanned(a)[n + 1], toks)
    BY <1>5, <2>1
  <2> HIDE DEF toks
  <2>4. Persists(Scanned(a)[n], toks)
    BY <1>1, <1>2, <1>3, <2>1, <2>2, <2>3, PersistsBack
  <2> QED
    BY <2>1, <2>4 DEF n, toks
<1> HIDE DEF D
<1>6. 0..N \subseteq D
  <2> HIDE DEF N
  <2> QED
    BY <1>1, <1>4, <1>5, InductionUpTo
<1>7. ASSUME NEW n \in 0..N PROVE Persists(Scanned(a)[n], toks)
  <2>1. N - n \in 0..N /\ N - (N - n) = n
    BY <1>1
  <2>2. N - n \in D
    BY <1>6, <2>1
  <2> HIDE DEF toks, N
  <2> QED
    BY <2>1, <2>2 DEF D
<1> QED
  BY <1>7

-----------------------------------------------------------------------------
(* A text that parses: its marks come in the order of a text, and the grammar
   and jsmn have the same brackets open. *)

SameOpen(open, s) ==
  /\ open \in Seq(Container)
  /\ Len(open) = Len(s.open)
  /\ \A i \in 1..Len(open) : open[i] = s.tokens[s.open[i]].type

\* What the grammar wants, n marks on, with the brackets open and, or not, a name.
WantFits(p, n, named) ==
  /\ p.open = << >> => ~named
  /\ p.open = << >> => p.want \in {"value", "end"}
  /\ p.want = "value" /\ p.open = << >> => n = 0
  /\ p.want = "value" /\ p.open # << >> => (named <=> Inner(p) = "{")
  /\ p.want = "first" => Inner(p) = "[" /\ ~named
  /\ p.want \in {"firstname", "name"} => Inner(p) = "{" /\ ~named
  /\ p.want = "colon" => Inner(p) = "{" /\ named
  /\ p.want = "more" => ~named
  /\ p.want = "end" => p.open = << >>

Fits(p, a) ==
  /\ Sound(a)
  /\ SameOpen(p.open, Scanned(a)[Len(a)])
  /\ WantFits(p, Len(a), Named(a, Len(a)))

LEMMA AcceptCases ==
  ASSUME NEW p, NEW m, Accept(p, m).want # "nothing"
  PROVE  \/ p.want \in {"value", "first"} /\ m \in Scalar
         \/ p.want \in {"value", "first"} /\ m \in Container
         \/ p.want \in {"name", "firstname"} /\ m = "name"
         \/ p.want = "colon" /\ m = ":"
         \/ p.want = "more" /\ m = ","
         \/ /\ m = "}" /\ (p.want = "firstname" \/ (p.want = "more" /\ Inner(p) = "{"))
         \/ /\ m = "]" /\ (p.want = "first" \/ (p.want = "more" /\ Inner(p) = "["))
<1> SUFFICES ASSUME ~(\/ p.want \in {"value", "first"} /\ m \in Scalar
                      \/ p.want \in {"value", "first"} /\ m \in Container
                      \/ p.want \in {"name", "firstname"} /\ m = "name"
                      \/ p.want = "colon" /\ m = ":"
                      \/ p.want = "more" /\ m = ","
                      \/ /\ m = "}" /\ (p.want = "firstname" \/ (p.want = "more" /\ Inner(p) = "{"))
                      \/ /\ m = "]" /\ (p.want = "first" \/ (p.want = "more" /\ Inner(p) = "[")))
             PROVE FALSE
  OBVIOUS
<1>1. Accept(p, m) = Bad
  BY DEF Accept, Container
<1>2. Bad.want = "nothing"
  BY DEF Bad
<1> QED
  BY <1>1, <1>2

\* One mark more in a sound sequence.
LEMMA SoundGrows ==
  ASSUME NEW a, Sound(a), NEW m \in Bead,
         Goes(Scanned(a)[Len(a)], Named(a, Len(a)), m),
         Len(a) > 0 => Scanned(a)[Len(a)].open # << >>
  PROVE  /\ Sound(Append(a, m))
         /\ Len(Append(a, m)) = Len(a) + 1
         /\ Scanned(Append(a, m))[Len(a) + 1] = Scan(Scanned(a)[Len(a)], m)
         /\ Named(Append(a, m), Len(a) + 1) = (m = "name")
<1> DEFINE b == Append(a, m)
           N == Len(a)
<1>1. /\ a \in Seq(Bead) /\ a \in Seq(Mark) /\ N \in Nat /\ m \in Mark
  BY BeadsAreMarks, BeadCases DEF Sound
<1>2. /\ b \in Seq(Bead) /\ Len(b) = N + 1 /\ b[N + 1] = m
      /\ \A i \in 1..N : b[i] = a[i]
  BY <1>1, AppendFacts
<1>3. /\ \A n \in 0..N : Scanned(b)[n] = Scanned(a)[n]
      /\ Scanned(b)[N + 1] = Scan(Scanned(a)[N], m)
  BY <1>1, ScannedAppend
<1>4. N + 1 > 0
  BY <1>1
<1> HIDE DEF b
<1>5. Named(b, N + 1) = (m = "name")
  BY <1>2, <1>4 DEF Named
<1>6. \A n \in 0..N : Named(b, n) = Named(a, n)
  BY <1>1, <1>2 DEF Named
<1>7. ASSUME NEW n \in 0..N
      PROVE  /\ Goes(Scanned(b)[n], Named(b, n), b[n + 1])
             /\ n > 0 => Scanned(b)[n].open # << >>
  <2>1. CASE n = N
    BY <1>2, <1>3, <1>6, <2>1
  <2>2. CASE n # N
    <3>1. n \in 0..(N - 1) /\ n + 1 \in 1..N
      BY <1>1, <2>2
    <3>2. b[n + 1] = a[n + 1]
      BY <1>2, <3>1
    <3>3. /\ Goes(Scanned(a)[n], Named(a, n), a[n + 1])
          /\ n > 0 => Scanned(a)[n].open # << >>
      BY <3>1 DEF Sound
    <3> QED
      BY <1>3, <1>6, <3>2, <3>3
  <2> QED
    BY <2>1, <2>2
<1>8. Sound(b)
  <2>1. 0..(Len(b) - 1) = 0..N
    BY <1>1, <1>2
  <2> QED
    BY <1>2, <1>7, <2>1 DEF Sound
<1> QED
  BY <1>2, <1>3, <1>5, <1>8 DEF b

\* The brackets that are open after a mark.
OpenAfter(open, m) ==
  IF m \in Container THEN Append(open, m)
  ELSE IF m \in Close THEN SubSeq(open, 1, Len(open) - 1) ELSE open

LEMMA SameOpenGrows ==
  ASSUME NEW s \in Scans, OpenOk(s), NEW open, SameOpen(open, s), NEW m \in Bead,
         m \in Close => open # << >>
  PROVE  SameOpen(OpenAfter(open, m), Scan(s, m))
<1> DEFINE n == Len(open)
           L == Len(s.tokens)
           r == Scan(s, m)
           o == OpenAfter(open, m)
<1>1. /\ open \in Seq(Container) /\ n \in Nat /\ Len(s.open) = n
      /\ s.open \in Seq(Nat) /\ L \in Nat
      /\ \A i \in 1..n : open[i] = s.tokens[s.open[i]].type
  BY ScanTyped DEF SameOpen
<1>2. \A i \in 1..n : s.open[i] \in 1..L
  BY <1>1 DEF OpenOk
<1>3. CASE m \in Close
  <2>0. m \notin Container
    BY <1>3 DEF Container, Close
  <2>1. open # << >> /\ s.open # << >> /\ o = Front(open)
    <3>1. o = Front(open)
      BY <1>3, <2>0 DEF OpenAfter, Front
    <3>2. open # << >>
      BY <1>3
    <3> HIDE DEF o
    <3>3. n # 0
      BY <1>1, <3>2
    <3> QED
      BY <1>1, <3>1, <3>2, <3>3
  <2>2. /\ o \in Seq(Container) /\ Len(o) = n - 1 /\ \A i \in 1..(n - 1) : o[i] = open[i]
    BY <1>1, <2>1, FrontFacts
  <2>3. Len(Front(s.open)) = n - 1 /\ \A i \in 1..(n - 1) : Front(s.open)[i] = s.open[i]
    BY <1>1, <2>1, FrontFacts
  <2>4. r.tokens = s.tokens /\ r.open = Front(s.open)
    BY <1>3, ScanClosed
  <2> HIDE DEF o, r
  <2>5. \A i \in 1..(n - 1) : i \in 1..n
    BY <1>1
  <2>6. \A i \in 1..(n - 1) : o[i] = r.tokens[r.open[i]].type
    BY <1>1, <2>2, <2>3, <2>4, <2>5
  <2>7. Len(o) = n - 1 /\ Len(r.open) = n - 1
    BY <2>2, <2>3, <2>4
  <2>8. SameOpen(o, r)
    BY <2>2, <2>6, <2>7 DEF SameOpen
  <2> QED
    BY <2>8 DEF o, r
<1>4. CASE m \notin Close
  <2>1. m \in Mark \ Close
    BY <1>4, BeadCases
  <2>2. /\ r.open = IF m \in Container THEN Append(s.open, L + 1) ELSE s.open
        /\ r.tokens[L + 1] = Token(m)
    BY <2>1, ScanAdded
  <2>3. \A i \in 1..n : r.tokens[s.open[i]].type = open[i]
    BY <1>1, <2>1, AddedOpen
  <2>4. CASE m \in Container
    <3>1. Token(m).type = m
      <4>1. m # "name"
        BY <2>4 DEF Container
      <4> QED
        BY <4>1 DEF Token
    <3>2. o = Append(open, m)
      BY <2>4 DEF OpenAfter
    <3>3. /\ o \in Seq(Container) /\ Len(o) = n + 1 /\ o[n + 1] = m
          /\ \A i \in 1..n : o[i] = open[i]
      BY <1>1, <2>4, <3>2
    <3>4. /\ Len(r.open) = n + 1 /\ r.open[n + 1] = L + 1
          /\ \A i \in 1..n : r.open[i] = s.open[i]
      BY <1>1, <2>2, <2>4
    <3> HIDE DEF o, r
    <3>5. \A i \in 1..(n + 1) : i \in 1..n \/ i = n + 1
      BY <1>1
    <3>6. \A i \in 1..n : o[i] = r.tokens[r.open[i]].type
      BY <2>3, <3>3, <3>4
    <3>7. o[n + 1] = r.tokens[r.open[n + 1]].type
      BY <2>2, <3>1, <3>3, <3>4
    <3>8. SameOpen(o, r)
      BY <3>3, <3>4, <3>5, <3>6, <3>7 DEF SameOpen
    <3> QED
      BY <3>8 DEF o, r
  <2>5. CASE m \notin Container
    <3>1. o = open /\ r.open = s.open
      BY <1>4, <2>2, <2>5 DEF OpenAfter
    <3> HIDE DEF o, r
    <3>2. SameOpen(o, r)
      BY <1>1, <2>3, <3>1 DEF SameOpen
    <3> QED
      BY <3>2 DEF o, r
  <2> QED
    BY <2>4, <2>5
<1> QED
  BY <1>3, <1>4

LEMMA OpenAgrees ==
  ASSUME NEW s \in Scans, OpenOk(s), NEW p, SameOpen(p.open, s)
  PROVE  /\ p.open = << >> <=> s.open = << >>
         /\ p.open # << >> => Inner(p) = Inmost(s) /\ Inner(p) \in Container
<1>1. Len(p.open) = Len(s.open) /\ Len(s.open) \in Nat
      /\ p.open \in Seq(Container) /\ s.open \in Seq(Nat)
  BY ScanTyped DEF SameOpen
<1>2. p.open = << >> <=> s.open = << >>
  BY <1>1
<1>3. ASSUME p.open # << >> PROVE Inner(p) = Inmost(s) /\ Inner(p) \in Container
  <2>1. Len(p.open) \in 1..Len(p.open)
    BY <1>1, <1>3
  <2> QED
    BY <1>1, <2>1 DEF SameOpen, Inner, Inmost
<1> QED
  BY <1>2, <1>3

LEMMA FitsBead ==
  ASSUME NEW p, NEW a, Fits(p, a), NEW m \in Bead, NEW q,
         Goes(Scanned(a)[Len(a)], Named(a, Len(a)), m),
         Len(a) > 0 => Scanned(a)[Len(a)].open # << >>,
         m \in Close => p.open # << >>,
         q.open = OpenAfter(p.open, m),
         WantFits(q, Len(a) + 1, m = "name")
  PROVE  Fits(q, Append(a, m))
<1> DEFINE s == Scanned(a)[Len(a)]
<1>1. Sound(a) /\ SameOpen(p.open, s)
  BY DEF Fits
<1>2. s \in Scans /\ OpenOk(s)
  <2>1. Len(a) \in 0..Len(a)
    BY <1>1, BeadsAreMarks DEF Sound
  <2> QED
    BY <1>1, <2>1, SoundMatches DEF Matches
<1>3. /\ Sound(Append(a, m))
      /\ Len(Append(a, m)) = Len(a) + 1
      /\ Scanned(Append(a, m))[Len(a) + 1] = Scan(s, m)
      /\ Named(Append(a, m), Len(a) + 1) = (m = "name")
  BY <1>1, SoundGrows
<1>4. SameOpen(OpenAfter(p.open, m), Scan(s, m))
  <2> HIDE DEF s
  <2> QED
    BY <1>1, <1>2, SameOpenGrows
<1>5. SameOpen(q.open, Scan(s, m))
  BY <1>4
<1> HIDE DEF s
<1> QED
  BY <1>3, <1>5 DEF Fits

\* What the state of the grammar says of the tokens.
LEMMA FitsFacts ==
  ASSUME NEW p, NEW a, Fits(p, a)
  PROVE  LET s == Scanned(a)[Len(a)]
             named == Named(a, Len(a))
         IN  /\ Sound(a) /\ Len(a) \in Nat /\ named \in BOOLEAN
             /\ p.open \in Seq(Container)
             /\ p.open = << >> <=> s.open = << >>
             /\ p.open # << >> => Inner(p) = Inmost(s) /\ Inner(p) \in Container
             /\ WantFits(p, Len(a), named)
<1>1. Sound(a) /\ SameOpen(p.open, Scanned(a)[Len(a)]) /\ WantFits(p, Len(a), Named(a, Len(a)))
  BY DEF Fits
<1>2. Len(a) \in Nat
  BY <1>1, BeadsAreMarks DEF Sound
<1>3. Scanned(a)[Len(a)] \in Scans /\ OpenOk(Scanned(a)[Len(a)])
  BY <1>1, <1>2, SoundMatches DEF Matches
<1>4. Named(a, Len(a)) \in BOOLEAN
  BY DEF Named
<1>5. p.open \in Seq(Container)
  BY <1>1 DEF SameOpen
<1> QED
  BY <1>1, <1>2, <1>3, <1>4, <1>5, OpenAgrees

LEMMA ValueFits ==
  ASSUME NEW p, NEW a, Fits(p, a), p.want \in {"value", "first"}, NEW m \in Value
  PROVE  /\ Goes(Scanned(a)[Len(a)], Named(a, Len(a)), m)
         /\ Len(a) > 0 => Scanned(a)[Len(a)].open # << >>
<1> DEFINE s == Scanned(a)[Len(a)]
           named == Named(a, Len(a))
<1>1. /\ Len(a) \in Nat /\ named \in BOOLEAN
      /\ p.open = << >> <=> s.open = << >>
      /\ p.open # << >> => Inner(p) = Inmost(s) /\ Inner(p) \in Container
      /\ WantFits(p, Len(a), named)
  BY FitsFacts
<1> HIDE DEF s, named
<1>2. CASE p.open = << >>
  <2>1. p.want = "value" /\ Len(a) = 0 /\ ~named
    BY <1>1, <1>2 DEF WantFits
  <2>2. Goes(s, named, m) /\ ~(Len(a) > 0)
    BY <1>1, <1>2, <2>1 DEF Goes
  <2> QED
    BY <2>2 DEF s, named
<1>3. CASE p.open # << >>
  <2>1. \/ Inmost(s) = "{" /\ named
        \/ Inmost(s) = "[" /\ ~named
    BY <1>1, <1>3 DEF WantFits, Container
  <2>2. Follow(s, named, m)
    BY <1>1, <1>3, <2>1 DEF Follow
  <2>3. Goes(s, named, m) /\ s.open # << >>
    BY <1>1, <1>3, <2>2 DEF Goes
  <2> QED
    BY <2>3 DEF s, named
<1> QED
  BY <1>2, <1>3

LEMMA AfterValueFits ==
  ASSUME NEW open, NEW n \in Nat
  PROVE  /\ AfterValue(open).open = open
         /\ WantFits(AfterValue(open), n, FALSE)
<1> DEFINE q == AfterValue(open)
<1>1. q.open = open /\ q.want = IF open = << >> THEN "end" ELSE "more"
  BY DEF AfterValue
<1> HIDE DEF q
<1>2. q.want \in {"end", "more"} /\ (open = << >> => q.want = "end")
      /\ (q.want = "end" => open = << >>)
  BY <1>1
<1>3. WantFits(q, n, FALSE)
  BY <1>1, <1>2 DEF WantFits
<1> QED
  BY <1>1, <1>3 DEF q

LEMMA FitsGrows ==
  ASSUME NEW p, NEW a, Fits(p, a), NEW m \in Mark, Accept(p, m).want # "nothing"
  PROVE  Fits(Accept(p, m), IF m \in Bead THEN Append(a, m) ELSE a)
<1> DEFINE s == Scanned(a)[Len(a)]
           named == Named(a, Len(a))
           q == Accept(p, m)
<1>1. /\ Sound(a) /\ Len(a) \in Nat /\ named \in BOOLEAN
      /\ p.open \in Seq(Container)
      /\ p.open = << >> <=> s.open = << >>
      /\ p.open # << >> => Inner(p) = Inmost(s) /\ Inner(p) \in Container
      /\ WantFits(p, Len(a), named)
  BY FitsFacts
<1>2. Len(a) + 1 \in Nat
  BY <1>1
<1>3. p.open # << >> \/ p.want \in {"value", "end"}
  BY <1>1 DEF WantFits
<1>4. CASE p.want \in {"value", "first"} /\ m \in Scalar
  <2>1. q = AfterValue(p.open)
    BY <1>4, AcceptScalar
  <2>2. m \in Bead /\ m \in Value /\ m \notin Container /\ m \notin Close /\ (m = "name") = FALSE
    BY <1>4 DEF Bead, Mark, Separator, Value, Scalar, Container, Close
  <2>3. OpenAfter(p.open, m) = p.open
    BY <2>2 DEF OpenAfter
  <2>4. q.open = OpenAfter(p.open, m) /\ WantFits(q, Len(a) + 1, m = "name")
    BY <1>2, <2>1, <2>2, <2>3, AfterValueFits
  <2>5. Fits(q, Append(a, m))
    <3> HIDE DEF q
    <3> QED
      BY <1>4, <2>2, <2>4, ValueFits, FitsBead
  <2> QED
    BY <2>2, <2>5
<1>5. CASE p.want \in {"value", "first"} /\ m \in Container
  <2>1. q = [open |-> Append(p.open, m), want |-> FirstIn(m)]
    BY <1>5, AcceptContainer
  <2>2. m \in Bead /\ m \in Value /\ m \notin Close /\ (m = "name") = FALSE
    BY <1>5 DEF Bead, Mark, Separator, Value, Scalar, Container, Close
  <2>3. q.open = OpenAfter(p.open, m) /\ q.open = Append(p.open, m) /\ q.want = FirstIn(m)
    BY <1>5, <2>1 DEF OpenAfter
  <2>4. q.open # << >> /\ Inner(q) = m
    <3>1. /\ Len(Append(p.open, m)) = Len(p.open) + 1 /\ Len(p.open) \in Nat
          /\ Append(p.open, m)[Len(p.open) + 1] = m
      BY <1>1, <1>5, AppendFacts
    <3> DEFINE o == Append(p.open, m)
    <3> HIDE DEF q, o
    <3>2. q.open = o /\ Len(o) = Len(p.open) + 1 /\ o[Len(p.open) + 1] = m
      BY <2>3, <3>1 DEF o
    <3>3. Len(o) # 0 /\ o[Len(o)] = m
      BY <3>1, <3>2
    <3>4. o # << >>
      BY <3>3
    <3> QED
      BY <3>2, <3>3, <3>4 DEF Inner
  <2>5. WantFits(q, Len(a) + 1, FALSE)
    <3> HIDE DEF q
    <3>1. \/ q.want = "firstname" /\ Inner(q) = "{"
          \/ q.want = "first" /\ Inner(q) = "["
      BY <1>5, <2>3, <2>4 DEF FirstIn, Container
    <3> QED
      BY <2>4, <3>1 DEF WantFits
  <2>6. Fits(q, Append(a, m))
    <3> HIDE DEF q
    <3> QED
      BY <1>5, <2>2, <2>3, <2>5, ValueFits, FitsBead
  <2> QED
    BY <2>2, <2>6
<1>6. CASE p.want \in {"name", "firstname"} /\ m = "name"
  <2>1. q = [open |-> p.open, want |-> "colon"]
    BY <1>6, AcceptName
  <2>2. m \in Bead /\ m \notin Container /\ m \notin Close /\ (m = "name") = TRUE
    BY <1>6 DEF Bead, Mark, Separator, Container, Close
  <2>3. q.open = OpenAfter(p.open, m) /\ q.open = p.open /\ q.want = "colon"
    BY <2>1, <2>2 DEF OpenAfter
  <2>4. p.open # << >> /\ Inner(p) = "{" /\ ~named
    BY <1>1, <1>3, <1>6 DEF WantFits
  <2>5. Inner(q) = "{"
    BY <2>3, <2>4 DEF Inner
  <2>6. WantFits(q, Len(a) + 1, TRUE)
    <3> HIDE DEF q
    <3> QED
      BY <2>3, <2>4, <2>5 DEF WantFits
  <2>7. Follow(s, named, m) /\ s.open # << >>
    BY <1>1, <1>6, <2>4 DEF Follow
  <2>8. Goes(s, named, m) /\ s.open # << >>
    BY <2>7 DEF Goes
  <2>9. Fits(q, Append(a, m))
    <3> HIDE DEF q
    <3> QED
      BY <2>2, <2>3, <2>6, <2>8, FitsBead
  <2> QED
    BY <2>2, <2>9
<1>7. CASE p.want = "colon" /\ m = ":"
  <2>1. q = [open |-> p.open, want |-> "value"]
    BY <1>7, AcceptColon
  <2>2. m \notin Bead
    BY <1>7 DEF Bead, Separator
  <2>3. p.open # << >> /\ Inner(p) = "{" /\ named
    BY <1>1, <1>3, <1>7 DEF WantFits
  <2>4. q.open = p.open /\ q.want = "value" /\ Inner(q) = Inner(p)
    BY <2>1 DEF Inner
  <2>5. WantFits(q, Len(a), named)
    <3> HIDE DEF q, named
    <3> QED
      BY <1>1, <2>3, <2>4 DEF WantFits
  <2>6. Fits(q, a)
    <3> HIDE DEF q
    <3> QED
      BY <2>4, <2>5 DEF Fits
  <2> QED
    BY <2>2, <2>6
<1>8. CASE p.want = "more" /\ m = ","
  <2>1. q = [open |-> p.open, want |-> IF Inner(p) = "{" THEN "name" ELSE "value"]
    BY <1>8, AcceptComma
  <2>2. m \notin Bead
    BY <1>8 DEF Bead, Separator
  <2>3. p.open # << >> /\ ~named
    BY <1>1, <1>3, <1>8 DEF WantFits
  <2>4. /\ q.open = p.open /\ Inner(q) = Inner(p)
        /\ q.want = IF Inner(p) = "{" THEN "name" ELSE "value"
    <3> DEFINE w == IF Inner(p) = "{" THEN "name" ELSE "value"
    <3> HIDE DEF q, w
    <3>1. q.open = p.open /\ q.want = w
      BY <2>1, PointFields DEF w
    <3>2. Inner(q) = Inner(p)
      BY <3>1 DEF Inner
    <3> QED
      BY <3>1, <3>2 DEF w
  <2>5. WantFits(q, Len(a), named)
    <3> HIDE DEF q, named
    <3>1. \/ q.want = "name" /\ Inner(q) = "{"
          \/ q.want = "value" /\ Inner(q) # "{"
      BY <2>4
    <3> QED
      BY <1>1, <2>3, <2>4, <3>1 DEF WantFits
  <2>6. Fits(q, a)
    <3> HIDE DEF q
    <3> QED
      BY <2>4, <2>5 DEF Fits
  <2> QED
    BY <2>2, <2>6
<1>9. CASE \/ m = "}" /\ (p.want = "firstname" \/ (p.want = "more" /\ Inner(p) = "{"))
           \/ m = "]" /\ (p.want = "first" \/ (p.want = "more" /\ Inner(p) = "["))
  <2>1. q = Closed(p)
    BY <1>9, AcceptEnd
  <2>2. m \in Bead /\ m \in Close /\ m \notin Container /\ (m = "name") = FALSE
    BY <1>9 DEF Bead, Mark, Separator, Container, Close
  <2>3. p.open # << >> /\ ~named
    BY <1>1, <1>3, <1>9 DEF WantFits
  <2>4. q = AfterValue(OpenAfter(p.open, m))
    BY <2>1, <2>2 DEF Closed, OpenAfter
  <2>5. q.open = OpenAfter(p.open, m) /\ WantFits(q, Len(a) + 1, m = "name")
    BY <1>2, <2>2, <2>4, AfterValueFits
  <2>6. \/ m = "}" /\ Inner(p) = "{"
        \/ m = "]" /\ Inner(p) = "["
    BY <1>1, <1>9 DEF WantFits
  <2>7. Follow(s, named, m) /\ s.open # << >>
    BY <1>1, <2>3, <2>6 DEF Follow
  <2>8. Goes(s, named, m) /\ s.open # << >>
    BY <2>7 DEF Goes
  <2>9. Fits(q, Append(a, m))
    <3> HIDE DEF q
    <3> QED
      BY <2>2, <2>3, <2>5, <2>8, FitsBead
  <2> QED
    BY <2>2, <2>9
<1> QED
  BY <1>4, <1>5, <1>6, <1>7, <1>8, <1>9, AcceptCases

LEMMA PrefixGrows ==
  ASSUME NEW T, NEW t \in Seq(T), NEW n \in 0..(Len(t) - 1)
  PROVE  /\ SubSeq(t, 1, n) \in Seq(T)
         /\ t[n + 1] \in T
         /\ SubSeq(t, 1, n + 1) = Append(SubSeq(t, 1, n), t[n + 1])
<1>1. Len(t) \in Nat /\ n \in Nat /\ n + 1 \in 1..Len(t) /\ n \in 0..Len(t)
  OBVIOUS
<1>2. t[n + 1] \in T
  BY <1>1
<1> DEFINE u == SubSeq(t, 1, n)
           v == SubSeq(t, 1, n + 1)
<1>3. u \in Seq(T) /\ Len(u) = n /\ \A i \in 1..n : u[i] = t[i]
  <2>1. \A i \in 1..n : t[i] \in T
    BY <1>1
  <2>2. \A i \in 1..n : 1 + i - 1 = i
    BY <1>1
  <2>3. 1..(n - 1 + 1) = 1..n /\ (IF 1 <= n THEN n - 1 + 1 ELSE 0) = n
    BY <1>1
  <2>4. /\ u \in Seq(T) /\ Len(u) = IF 1 <= n THEN n - 1 + 1 ELSE 0
        /\ \A i \in 1..(n - 1 + 1) : u[i] = t[1 + i - 1]
    BY <1>1, <2>1, SubSeqProperties
  <2> QED
    BY <2>2, <2>3, <2>4
<1>4. v \in Seq(T) /\ Len(v) = n + 1 /\ \A i \in 1..(n + 1) : v[i] = t[i]
  <2> DEFINE m == n + 1
  <2>0. m \in Nat /\ m >= 1 /\ m <= Len(t)
    BY <1>1
  <2> HIDE DEF m
  <2>1. \A i \in 1..m : t[i] \in T
    BY <2>0
  <2>2. \A i \in 1..m : 1 + i - 1 = i
    BY <2>0
  <2>3. 1..(m - 1 + 1) = 1..m /\ (IF 1 <= m THEN m - 1 + 1 ELSE 0) = m
    BY <2>0
  <2>4. /\ SubSeq(t, 1, m) \in Seq(T) /\ Len(SubSeq(t, 1, m)) = IF 1 <= m THEN m - 1 + 1 ELSE 0
        /\ \A i \in 1..(m - 1 + 1) : SubSeq(t, 1, m)[i] = t[1 + i - 1]
    BY <2>0, <2>1, SubSeqProperties
  <2>5. SubSeq(t, 1, m) \in Seq(T) /\ Len(SubSeq(t, 1, m)) = m
        /\ \A i \in 1..m : SubSeq(t, 1, m)[i] = t[i]
    BY <2>2, <2>3, <2>4
  <2> QED
    BY <2>5 DEF m
<1> HIDE DEF u, v
<1>5. /\ Append(u, t[n + 1]) \in Seq(T) /\ Len(Append(u, t[n + 1])) = n + 1
      /\ Append(u, t[n + 1])[n + 1] = t[n + 1]
      /\ \A i \in 1..n : Append(u, t[n + 1])[i] = u[i]
  BY <1>2, <1>3, AppendFacts
<1>6. \A i \in 1..(n + 1) : i \in 1..n \/ i = n + 1
  BY <1>1
<1>7. \A i \in 1..(n + 1) : Append(u, t[n + 1])[i] = v[i]
  BY <1>3, <1>4, <1>5, <1>6
<1>8. v = Append(u, t[n + 1])
  <2> DEFINE x == Append(u, t[n + 1])
  <2>1. x \in Seq(T) /\ Len(x) = n + 1 /\ \A i \in 1..(n + 1) : x[i] = v[i]
    BY <1>5, <1>7
  <2> HIDE DEF x
  <2>2. v = x
    BY <1>4, <2>1
  <2> QED
    BY <2>2 DEF x
<1> QED
  BY <1>2, <1>3, <1>8 DEF u, v

LEMMA FitsStart == Fits(Start, << >>)
<1> DEFINE e == << >>
<1>1. e \in Seq(Bead) /\ e \in Seq(Mark) /\ Len(e) = 0 /\ 0..(0 - 1) = {}
  OBVIOUS
<1>2. Sound(e)
  BY <1>1 DEF Sound
<1>3. Scanned(e)[0] = ScanStart
  BY <1>1, ScannedUnfolds
<1>4. Start.open = << >> /\ Start.want = "value" /\ ScanStart.open = << >>
  BY DEF Start, ScanStart
<1>5. SameOpen(Start.open, ScanStart)
  <2>1. << >> \in Seq(Container) /\ Len(<< >>) = 0 /\ 1..0 = {}
    OBVIOUS
  <2> QED
    BY <1>4, <2>1 DEF SameOpen
<1>6. Named(e, 0) = FALSE
  BY DEF Named
<1>7. WantFits(Start, 0, FALSE)
  BY <1>4 DEF WantFits
<1> HIDE DEF e
<1>8. Fits(Start, e)
  BY <1>1, <1>2, <1>3, <1>5, <1>6, <1>7 DEF Fits
<1> QED
  BY <1>8 DEF e

LEMMA AcceptNothing ==
  ASSUME NEW p, p.want = "nothing", NEW m
  PROVE  Accept(p, m).want = "nothing"
<1>1. Accept(p, m) = Bad
  BY DEF Accept
<1>2. Bad.want = "nothing"
  BY DEF Bad
<1> QED
  BY <1>1, <1>2

LEMMA ParsedFits ==
  ASSUME NEW t \in Seq(Mark), Parsed(t).want # "nothing"
  PROVE  Fits(Parsed(t), Keep(t, Bead))
<1> DEFINE N == Len(t)
           u(n) == SubSeq(t, 1, n)
           D == {n \in 0..N : Parsed(u(n)).want # "nothing" => Fits(Parsed(u(n)), Keep(u(n), Bead))}
<1>1. N \in Nat
  OBVIOUS
<1>2. 0 \in D
  <2>1. u(0) = << >>
    BY SubSeqEmpty
  <2>2. Keep(<< >>, Bead) = << >> /\ Parsed(<< >>) = Start
    BY KeepOfNone, ParsedEmpty
  <2>3. 0 \in 0..N
    BY <1>1
  <2> HIDE DEF u, N
  <2> QED
    BY <2>1, <2>2, <2>3, FitsStart
<1>3. ASSUME NEW n \in 0..(N - 1), n \in D PROVE n + 1 \in D
  <2> DEFINE m == t[n + 1]
             v == u(n)
  <2>1. /\ v \in Seq(Mark) /\ m \in Mark /\ u(n + 1) = Append(v, m)
    BY PrefixGrows
  <2>2. n + 1 \in 0..N
    BY <1>1
  <2>3. Parsed(v).want # "nothing" => Fits(Parsed(v), Keep(v, Bead))
    BY <1>3
  <2> HIDE DEF u, v, m, N
  <2>4. /\ Parsed(Append(v, m)) = Accept(Parsed(v), m)
        /\ Keep(Append(v, m), Bead) = IF m \in Bead THEN Append(Keep(v, Bead), m) ELSE Keep(v, Bead)
    BY <2>1, ParsedAppend, KeepAppend
  <2>5. ASSUME Parsed(Append(v, m)).want # "nothing"
        PROVE  Fits(Parsed(Append(v, m)), Keep(Append(v, m), Bead))
    <3>1. Accept(Parsed(v), m).want # "nothing"
      BY <2>4, <2>5
    <3>2. Parsed(v).want # "nothing"
      BY <3>1, AcceptNothing
    <3>3. Fits(Accept(Parsed(v), m), IF m \in Bead THEN Append(Keep(v, Bead), m) ELSE Keep(v, Bead))
      BY <2>1, <2>3, <3>1, <3>2, FitsGrows
    <3> QED
      BY <2>4, <3>3
  <2> QED
    BY <2>1, <2>2, <2>5
<1> HIDE DEF D
<1>4. 0..N \subseteq D
  <2> HIDE DEF N
  <2> QED
    BY <1>1, <1>2, <1>3, InductionUpTo
<1>5. N \in 0..N
  BY <1>1
<1>6. u(N) = t
  OBVIOUS
<1>7. N \in D
  BY <1>4, <1>5
<1> HIDE DEF u, N
<1> QED
  BY <1>6, <1>7 DEF D

-----------------------------------------------------------------------------
(* The marks of a text that is given out: what a step from one to the next
   does to the tokens and the tree, and what the finished tokens show of it. *)

Complete(a) == Sound(a) /\ Scanned(a)[Len(a)].open = << >>

LEMMA ReadyComplete ==
  ASSUME StreamInv, Ready
  PROVE  Complete(asked) /\ Tokens(text) = Scanned(asked)[Len(asked)].tokens
<1>1. TextOK
  BY StreamGood
<1>2. /\ Parsed(text) = [open |-> << >>, want |-> "end"]
      /\ Keep(text, Bead) = asked
  BY <1>1 DEF TextOK, Bead
<1>3. text \in Seq(Mark)
  BY DEF StreamInv, Good, Ready
<1>4. Parsed(text).want = "end" /\ Parsed(text).open = << >>
  BY <1>2
<1>5. Fits(Parsed(text), asked)
  BY <1>2, <1>3, <1>4, ParsedFits
<1>6. /\ Sound(asked) /\ Len(asked) \in Nat
      /\ Scanned(asked)[Len(asked)].open = << >>
  BY <1>4, <1>5, FitsFacts
<1>7. Tokens(text) = Scanned(asked)[Len(asked)].tokens
  BY <1>2 DEF Tokens, Bead
<1> QED
  BY <1>6, <1>7 DEF Complete

AllTokens(a) == Scanned(a)[Len(a)].tokens

LEMMA PlaceFacts ==
  ASSUME NEW a, Complete(a), NEW n \in 0..Len(a)
  PROVE  LET s == Scanned(a)[n]
             w == Grown(a)[n]
         IN  /\ Matches(s, w, Named(a, n)) /\ Named(a, n) \in BOOLEAN
             /\ Persists(s, AllTokens(a)) /\ AllTokens(a) \in Seq(TokenOf)
             /\ Len(a) \in Nat
             /\ s.open # << >> => n < Len(a)
             /\ s.open = << >> => n = 0 \/ n = Len(a)
             /\ n < Len(a) => Goes(s, Named(a, n), a[n + 1]) /\ a[n + 1] \in Bead
<1>1. Sound(a) /\ Scanned(a)[Len(a)].open = << >>
  BY DEF Complete
<1>2. /\ Len(a) \in Nat /\ a \in Seq(Mark)
      /\ \A i \in 1..Len(a) : a[i] \in Bead
  BY <1>1, BeadsAreMarks DEF Sound
<1>3. Matches(Scanned(a)[n], Grown(a)[n], Named(a, n))
  BY <1>1, SoundMatches
<1>4. Persists(Scanned(a)[n], AllTokens(a))
  BY <1>1, SoundPersists DEF AllTokens
<1>5. AllTokens(a) \in Seq(TokenOf)
  <2>1. Len(a) \in 0..Len(a)
    BY <1>2
  <2>2. Scanned(a)[Len(a)] \in Scans
    BY <1>1, <2>1, SoundMatches DEF Matches
  <2> QED
    BY <2>2, ScanTyped DEF AllTokens
<1>6. n # Len(a) => n < Len(a) /\ n \in 0..(Len(a) - 1) /\ n + 1 \in 1..Len(a)
  BY <1>2
<1>7. n < Len(a) => Goes(Scanned(a)[n], Named(a, n), a[n + 1]) /\ a[n + 1] \in Bead
  BY <1>1, <1>2, <1>6 DEF Sound
<1>8. n # 0 /\ n # Len(a) => Scanned(a)[n].open # << >>
  <2> SUFFICES ASSUME n # 0, n # Len(a) PROVE Scanned(a)[n].open # << >>
    OBVIOUS
  <2>1. n > 0 /\ n \in 0..(Len(a) - 1)
    BY <1>2
  <2> QED
    BY <1>1, <2>1 DEF Sound
<1>9. Named(a, n) \in BOOLEAN
  BY DEF Named
<1> QED
  BY <1>1, <1>2, <1>3, <1>4, <1>5, <1>6, <1>7, <1>8, <1>9

\* The next mark.
LEMMA NextPlace ==
  ASSUME NEW a, Complete(a), NEW n \in 0..Len(a), n < Len(a)
  PROVE  /\ n + 1 \in 0..Len(a) /\ n + 1 > 0 /\ n + 1 - 1 = n
         /\ Scanned(a)[n + 1] = Scan(Scanned(a)[n], a[n + 1])
         /\ Grown(a)[n + 1] = Grow(Grown(a)[n], a[n + 1])
         /\ Named(a, n + 1) <=> a[n + 1] = "name"
         /\ a[n + 1] \in Bead /\ a[n + 1] \in Mark
<1>1. a \in Seq(Mark) /\ Len(a) \in Nat /\ \A i \in 1..Len(a) : a[i] \in Bead /\ a[i] \in Mark
  BY BeadsAreMarks DEF Complete, Sound
<1>2. n + 1 \in 1..Len(a) /\ n + 1 - 1 = n /\ n + 1 \in 0..Len(a) /\ n + 1 > 0
  BY <1>1
<1>3. Scanned(a)[n + 1] = Scan(Scanned(a)[n + 1 - 1], a[n + 1])
  BY <1>1, <1>2, ScannedUnfolds
<1>4. Grown(a)[n + 1] = Grow(Grown(a)[n + 1 - 1], a[n + 1])
  BY <1>1, <1>2, GrownUnfolds
<1>5. Named(a, n + 1) <=> a[n + 1] = "name"
  BY <1>2 DEF Named
<1> QED
  BY <1>1, <1>2, <1>3, <1>4, <1>5

\* A mark that makes a token: what the reader finds at its position.
LEMMA NextToken ==
  ASSUME NEW a, Complete(a), NEW n \in 0..Len(a), n < Len(a), a[n + 1] \notin Close
  PROVE  LET s  == Scanned(a)[n]
             s2 == Scanned(a)[n + 1]
             ps == Len(s.tokens) + 1
         IN  /\ ps \in 1..Len(AllTokens(a))
             /\ AllTokens(a)[ps].type = Token(a[n + 1]).type
             /\ Len(s2.tokens) = ps /\ s2.tokens[ps] = Token(a[n + 1])
             /\ s2.open = IF a[n + 1] \in Container THEN Append(s.open, ps) ELSE s.open
<1> DEFINE s == Scanned(a)[n]
           s2 == Scanned(a)[n + 1]
           ps == Len(s.tokens) + 1
           m == a[n + 1]
           toks == AllTokens(a)
<1>1. n + 1 \in 0..Len(a) /\ s2 = Scan(s, m) /\ m \in Mark \ Close
  BY NextPlace
<1>2. s \in Scans
  BY PlaceFacts DEF Matches
<1>3. /\ Len(s2.tokens) = ps /\ s2.tokens[ps] = Token(m)
      /\ s2.open = IF m \in Container THEN Append(s.open, ps) ELSE s.open
  <2> HIDE DEF s, s2, m
  <2> QED
    BY <1>1, <1>2, ScanAdded
<1>4. Persists(s2, toks) /\ toks \in Seq(TokenOf)
  BY <1>1, PlaceFacts
<1>5. Len(s.tokens) \in Nat
  <2> HIDE DEF s
  <2> QED
    BY <1>2, ScanTyped
<1>6. Len(toks) \in Nat
  BY <1>4
<1> HIDE DEF s, s2, m, toks
<1>7. ps \in 1..Len(toks) /\ ps \in 1..Len(s2.tokens)
  BY <1>3, <1>4, <1>5, <1>6 DEF Persists
<1>8. toks[ps].type = Token(m).type
  BY <1>3, <1>4, <1>7 DEF Persists
<1> QED
  BY <1>3, <1>7, <1>8 DEF s, s2, m, toks

\* The innermost bracket that is open: whether it ends here, and what is in it.
LEMMA InmostFacts ==
  ASSUME NEW a, Complete(a), NEW n \in 0..Len(a), Scanned(a)[n].open # << >>, ~Named(a, n)
  PROVE  LET s == Scanned(a)[n]
             w == Grown(a)[n]
             d == Len(s.open)
             t == AllTokens(a)[s.open[d]]
         IN  /\ n < Len(a) /\ d \in 1..d /\ Len(w.at) = d
             /\ t.type \in Container
             /\ a[n + 1] \in Close => w.at[d] = t.size + 1
             /\ a[n + 1] \notin Close => w.at[d] # t.size + 1
             /\ a[n + 1] \notin Close /\ t.type = "{" => a[n + 1] = "name"
             /\ a[n + 1] \notin Close /\ t.type = "[" => a[n + 1] \in Value
<1> DEFINE s == Scanned(a)[n]
           w == Grown(a)[n]
           s2 == Scanned(a)[n + 1]
           d == Len(s.open)
           k == s.open[d]
           m == a[n + 1]
           toks == AllTokens(a)
<1>1. /\ Matches(s, w, FALSE) /\ Persists(s, toks) /\ n < Len(a) /\ toks \in Seq(TokenOf)
      /\ Goes(s, FALSE, m)
  <2>1. Named(a, n) = FALSE
    BY PlaceFacts
  <2> QED
    BY <2>1, PlaceFacts
<1>2. /\ n + 1 \in 0..Len(a) /\ s2 = Scan(s, m) /\ m \in Mark
  BY <1>1, NextPlace
<1>3. Persists(s2, toks)
  BY <1>2, PlaceFacts
<1>4. s.open # << >>
  OBVIOUS
<1> HIDE DEF s, w, s2, m, toks
<1>5. /\ s \in Scans /\ OpenOk(s) /\ Len(w.at) = d /\ d \in Nat
      /\ s.open \in Seq(Nat) /\ Len(s.tokens) \in Nat
  BY <1>1, MatchesFacts
<1>6. d \in 1..d
  BY <1>4, <1>5
<1>7. /\ k \in 1..Len(s.tokens) /\ s.tokens[k].size \in Nat
      /\ s.tokens[k].type \in Container
  BY <1>5, <1>6, OpenFacts
<1>8. w.at[d] = s.tokens[k].size + 1
  <2>1. w.at[d] = s.tokens[s.open[d]].size + IF d = Len(s.open) /\ ~FALSE THEN 1 ELSE 0
    BY <1>1, <1>6, MatchesFacts
  <2> QED
    BY <2>1
<1>9. toks[k].type = s.tokens[k].type
  BY <1>1, <1>7 DEF Persists
<1>10. Follow(s, FALSE, m) /\ Inmost(s) = s.tokens[k].type
  BY <1>1, <1>4 DEF Goes, Inmost
<1>11. CASE m \in Close
  <2>1. s2.tokens = s.tokens /\ s2.open = Front(s.open)
    BY <1>2, <1>5, <1>11, ScanClosed
  <2>2. /\ Len(s2.open) = d - 1 /\ \A i \in 1..(d - 1) : s2.open[i] = s.open[i]
    BY <1>4, <1>5, <2>1, FrontFacts
  <2>3. \A i \in 1..Len(s2.open) : k # s2.open[i]
    <3> TAKE i \in 1..Len(s2.open)
    <3>1. i \in 1..Len(s.open) /\ i # Len(s.open) /\ s2.open[i] = s.open[i]
      BY <1>5, <2>2
    <3> QED
      BY <1>5, <3>1, OpenFacts
  <2>4. toks[k].size = s.tokens[k].size
    BY <1>3, <1>7, <2>1, <2>3 DEF Persists
  <2> QED
    BY <1>1, <1>5, <1>6, <1>7, <1>8, <1>9, <1>11, <2>4 DEF s, w, m, toks
<1>12. CASE m \notin Close
  <2>1. \/ s.tokens[k].type = "{" /\ m = "name"
        \/ s.tokens[k].type = "[" /\ m \in Value
    <3>1. "}" \in Close /\ "]" \in Close /\ {"{", "["} = Container
      BY DEF Close, Container
    <3> QED
      BY <1>10, <1>12, <3>1 DEF Follow
  <2>2. Adding1(s, m) = 1
    BY <1>10, <2>1 DEF Adding1
  <2>3. s2.tokens[k].size = s.tokens[k].size + 1
    <3>1. m \in Mark \ Close
      BY <1>2, <1>12
    <3>2. Scan(s, m).tokens[s.open[d]].size
            = s.tokens[s.open[d]].size + IF d = Len(s.open) THEN Adding1(s, m) ELSE 0
      BY <1>5, <1>6, <3>1, AddedOpen
    <3> QED
      BY <1>2, <2>2, <3>2
  <2>4. k \in 1..Len(s2.tokens)
    <3>1. Len(s2.tokens) = Len(s.tokens) + 1
      BY <1>2, <1>5, <1>12, ScanAdded
    <3> QED
      BY <1>5, <1>7, <3>1
  <2>5. toks[k].size >= s.tokens[k].size + 1 /\ toks[k].size \in Nat
    <3>1. toks[k].size >= s2.tokens[k].size
      BY <1>3, <2>4 DEF Persists
    <3>2. k \in 1..Len(toks)
      BY <1>1, <1>5, <1>7 DEF Persists
    <3>3. toks[k] \in TokenOf
      BY <1>1, <3>2
    <3> QED
      BY <2>3, <3>1, <3>3 DEF TokenOf
  <2>6. w.at[d] # toks[k].size + 1
    BY <1>7, <1>8, <2>5
  <2>7. toks[k].type \in Container
    BY <1>7, <1>9
  <2>8. /\ toks[k].type = "{" => m = "name"
        /\ toks[k].type = "[" => m \in Value
    BY <1>9, <2>1
  <2> QED
    BY <1>1, <1>5, <1>6, <1>12, <2>6, <2>7, <2>8 DEF s, w, m, toks
<1> QED
  BY <1>11, <1>12

-----------------------------------------------------------------------------
(* Where the reader is in the marks: after n of them. *)

\* The value that the nth mark makes whole.
Whole(a, n) == IF a[n] \in Close THEN Front(Grown(a)[n - 1].at) ELSE Grown(a)[n - 1].at

\* A frame of an object or an array: its bracket is open.
Holds(f, s, toks) ==
  LET d == Len(f.path) + 1
  IN  /\ d \in 1..Len(s.open)
      /\ f.size = toks[s.open[d]].size
      /\ f.fn = toks[s.open[d]].type

Steady(fr, s, toks) ==
  /\ \A i \in 1..Len(fr) : fr[i].fn \in Container /\ fr[i].begun => Holds(fr[i], s, toks)
  /\ \A i, j \in 1..Len(fr) :
       i < j /\ fr[i].fn \in Container => Len(fr[i].path) < Len(fr[j].path)

\* The function f that is called, or an object or array that goes on, is at n.
Ahead(a, n, f, hp) ==
  LET w == Grown(a)[n]
  IN  /\ f.fn \in {"val", "keyval"} =>
           /\ ~f.begun /\ f.path = w.at /\ hp = w.tree
           /\ n < Len(a)
           /\ IF f.fn = "val" THEN a[n + 1] \in Value ELSE a[n + 1] = "name"
      /\ f.fn \in Container /\ ~f.begun =>
           /\ f.path = w.at /\ hp = w.tree \cup {<<"val", f.path>>}
           /\ n < Len(a) /\ a[n + 1] = f.fn /\ f.done = 0
      /\ f.fn \in Container /\ f.begun =>
           NextChild(f) = w.at /\ hp = w.tree /\ ~Named(a, n)

\* The functions fr wait for the value at h.
Awaits(fr, h) ==
  /\ fr = << >> => h = << >>
  /\ fr # << >> =>
       IF fr[Len(fr)].fn \in Container THEN h = NextChild(fr[Len(fr)])
       ELSE h = fr[Len(fr)].path

\* A value is returned to the functions fr.
Behind(a, n, fr, hp) ==
  /\ n > 0 /\ a[n] \in Scalar \cup Close
  /\ hp \cup Item(Whole(a, n)) = Grown(a)[n].tree
  /\ Awaits(fr, Whole(a, n))

Follows(a, n, ps, fr, bk, hp) ==
  /\ n \in 0..Len(a)
  /\ ps = Len(Scanned(a)[n].tokens) + 1
  /\ Steady(fr, Scanned(a)[n], AllTokens(a))
  /\ bk = "none" => fr # << >> /\ Ahead(a, n, fr[Len(fr)], hp)
  /\ bk = "ok" => Behind(a, n, fr, hp)

\* What the caller of the last function waits for.
LEMMA CallerAwaits ==
  ASSUME NEW fr, NEW bk, Chained(fr, bk), fr # << >>
  PROVE  Awaits(Front(fr), fr[Len(fr)].path)
<1> DEFINE f == fr[Len(fr) - 1]
           g == fr[Len(fr)]
<1>1. CASE Len(fr) = 1
  <2>1. Front(fr) = << >> /\ g.path = << >>
    BY <1>1, ChainFacts
  <2> QED
    BY <2>1 DEF Awaits
<1>2. CASE Len(fr) # 1
  <2>1. Front(fr) # << >> /\ Front(fr)[Len(Front(fr))] = f /\ CalledBy(f, g)
    BY <1>2, ChainFacts
  <2>2. IF f.fn \in Container THEN g.path = NextChild(f) ELSE g.path = f.path
    BY <2>1 DEF CalledBy, Container
  <2> HIDE DEF f, g
  <2> QED
    BY <2>1, <2>2 DEF Awaits, g
<1> QED
  BY <1>1, <1>2

\* Frames over the same brackets.
LEMMA SteadySame ==
  ASSUME NEW fr, NEW s, NEW r, NEW toks, Steady(fr, s, toks), r.open = s.open
  PROVE  Steady(fr, r, toks)
BY DEF Steady, Holds

LEMMA SteadyPops ==
  ASSUME NEW fr, NEW s, NEW toks, Steady(fr, s, toks), NEW t, Popped(fr, t), Len(fr) \in Nat
  PROVE  Steady(t, s, toks)
<1>1. Len(t) = Len(fr) - 1 /\ \A i \in 1..Len(t) : t[i] = fr[i] /\ i \in 1..Len(fr)
  BY DEF Popped
<1> QED
  BY <1>1 DEF Steady

LEMMA SteadyStays ==
  ASSUME NEW fr, NEW s, NEW toks, Steady(fr, s, toks), Len(fr) \in Nat, Len(fr) > 0,
         NEW g, Onward(fr[Len(fr)], g), g.fn \in Container => Holds(g, s, toks),
         NEW t, Topped(fr, t, g)
  PROVE  Steady(t, s, toks)
<1> DEFINE n == Len(fr)
<1>1. /\ Len(t) = n /\ t[n] = g /\ \A i \in 1..(n - 1) : t[i] = fr[i]
      /\ g.fn = fr[n].fn /\ g.path = fr[n].path
  BY DEF Topped, Onward
<1>2. \A i \in 1..n : i = n \/ i \in 1..(n - 1)
  OBVIOUS
<1> HIDE DEF n
<1>3. \A i \in 1..n : t[i].fn = fr[i].fn /\ t[i].path = fr[i].path
  BY <1>1, <1>2
<1>4. ASSUME NEW i \in 1..n, t[i].fn \in Container, t[i].begun PROVE Holds(t[i], s, toks)
  <2>1. CASE i = n
    BY <1>1, <1>4, <2>1
  <2>2. CASE i \in 1..(n - 1)
    BY <1>1, <1>4, <2>2 DEF Steady, n
  <2> QED
    BY <1>2, <2>1, <2>2
<1>5. ASSUME NEW i \in 1..n, NEW j \in 1..n, i < j, t[i].fn \in Container
      PROVE  Len(t[i].path) < Len(t[j].path)
  BY <1>3, <1>5 DEF Steady, n
<1> QED
  BY <1>1, <1>4, <1>5 DEF Steady

LEMMA SteadyCalls ==
  ASSUME NEW fr, NEW s, NEW toks, Steady(fr, s, toks), Len(fr) \in Nat, Len(fr) > 0,
         NEW g, Onward(fr[Len(fr)], g), g.fn \in Container => Holds(g, s, toks),
         NEW h, CalledBy(g, h), IsFrame(g), ~h.begun,
         \A i \in 1..Len(fr) : IsFrame(fr[i]),
         NEW t, Pushed(fr, t, g, h)
  PROVE  Steady(t, s, toks)
<1> DEFINE n == Len(fr)
<1>1. /\ Len(t) = n + 1 /\ t[n] = g /\ t[n + 1] = h
      /\ \A i \in 1..(n - 1) : t[i] = fr[i]
      /\ g.fn = fr[n].fn /\ g.path = fr[n].path
  BY DEF Pushed, Onward
<1>2. /\ \A i \in 1..(n + 1) : i = n + 1 \/ i = n \/ i \in 1..(n - 1)
      /\ \A i \in 1..n : i = n \/ i \in 1..(n - 1)
      /\ n \in 1..n /\ n \in Nat
  OBVIOUS
<1>3. /\ \A i \in 1..n : fr[i].fn \in Container /\ fr[i].begun => Holds(fr[i], s, toks)
      /\ \A i, j \in 1..n : i < j /\ fr[i].fn \in Container => Len(fr[i].path) < Len(fr[j].path)
  BY DEF Steady
<1>4. /\ Len(h.path) \in Nat /\ Len(g.path) \in Nat /\ Len(h.path) >= Len(g.path)
      /\ g.fn \in Container => Len(h.path) > Len(g.path)
  <2>1. g.path \in Seq(Nat)
    BY DEF IsFrame, Path
  <2>2. Len(Append(g.path, g.done + 1)) = Len(g.path) + 1 /\ Len(g.path) \in Nat
    BY <2>1
  <2>3. \/ h.path = g.path /\ g.fn \notin Container
        \/ h.path = NextChild(g)
    BY DEF CalledBy, Container
  <2>4. Len(NextChild(g)) = Len(g.path) + 1
    BY <2>2 DEF NextChild
  <2>5. CASE h.path = g.path /\ g.fn \notin Container
    BY <2>2, <2>5
  <2>6. CASE h.path = NextChild(g)
    BY <2>2, <2>4, <2>6
  <2> QED
    BY <2>3, <2>5, <2>6
<1>5. \A i \in 1..n : Len(fr[i].path) \in Nat
  <2> TAKE i \in 1..n
  <2>1. fr[i].path \in Seq(Nat)
    BY DEF IsFrame, Path
  <2> QED
    BY <2>1
<1> HIDE DEF n
<1>6. \A i \in 1..n : t[i].fn = fr[i].fn /\ t[i].path = fr[i].path
  BY <1>1, <1>2
<1>7. ASSUME NEW i \in 1..(n + 1), t[i].fn \in Container, t[i].begun PROVE Holds(t[i], s, toks)
  <2>1. CASE i = n + 1
    BY <1>1, <1>7, <2>1
  <2>2. CASE i = n
    BY <1>1, <1>7, <2>2
  <2>3. CASE i \in 1..(n - 1)
    <3>1. i \in 1..n /\ t[i] = fr[i]
      BY <1>1, <1>2, <2>3
    <3> QED
      BY <1>3, <1>7, <3>1
  <2> QED
    BY <1>2, <2>1, <2>2, <2>3
<1>8. ASSUME NEW i \in 1..(n + 1), NEW j \in 1..(n + 1), i < j, t[i].fn \in Container
      PROVE  Len(t[i].path) < Len(t[j].path)
  <2>1. i \in 1..n
    BY <1>2, <1>8
  <2>2. CASE j \in 1..n
    BY <1>3, <1>6, <1>8, <2>1, <2>2
  <2>3. CASE j = n + 1
    <3>1. CASE i = n
      BY <1>1, <1>4, <1>8, <2>3, <3>1
    <3>2. CASE i # n
      <4>1. i < n
        BY <1>2, <2>1, <3>2
      <4>2. Len(fr[i].path) < Len(fr[n].path)
        BY <1>2, <1>3, <1>6, <1>8, <2>1, <4>1
      <4>3. t[i].path = fr[i].path /\ t[j].path = h.path
        BY <1>1, <1>6, <2>1, <2>3
      <4>4. Len(fr[i].path) \in Nat
        BY <1>5, <2>1
      <4>5. Len(fr[n].path) = Len(g.path)
        BY <1>1
      <4>6. \A x, y, z \in Nat : x < y /\ z >= y => x < z
        OBVIOUS
      <4>7. Len(fr[i].path) < Len(h.path)
        BY <1>4, <4>2, <4>4, <4>5, <4>6
      <4> QED
        BY <4>3, <4>7
    <3> QED
      BY <3>1, <3>2
  <2>4. j \in 1..n \/ j = n + 1
    BY <1>2
  <2> QED
    BY <2>2, <2>3, <2>4
<1> QED
  BY <1>1, <1>7, <1>8 DEF Steady

\* A bracket opens, and the innermost one closes.
LEMMA SteadyOpens ==
  ASSUME NEW fr, NEW s, NEW toks, Steady(fr, s, toks), s.open \in Seq(Nat),
         NEW r, NEW k \in Nat, r.open = Append(s.open, k)
  PROVE  Steady(fr, r, toks)
<1>1. /\ \A d \in 1..Len(s.open) : d \in 1..Len(r.open) /\ r.open[d] = s.open[d]
  BY AppendFacts
<1>2. \A f : Holds(f, s, toks) => Holds(f, r, toks)
  BY <1>1 DEF Holds
<1> QED
  BY <1>2 DEF Steady

LEMMA SteadyCloses ==
  ASSUME NEW fr, NEW s, NEW toks, Steady(fr, s, toks), Len(fr) \in Nat, Len(fr) > 0,
         \A i \in 1..Len(fr) : IsFrame(fr[i]),
         fr[Len(fr)].fn \in Container, Len(fr[Len(fr)].path) + 1 = Len(s.open),
         s.open \in Seq(Nat), NEW r, r.open = Front(s.open),
         NEW t, Popped(fr, t)
  PROVE  Steady(t, r, toks)
<1> DEFINE n == Len(fr)
           d == Len(s.open)
<1>1. Len(t) = n - 1 /\ \A i \in 1..(n - 1) : t[i] = fr[i] /\ i \in 1..n /\ i < n
  BY DEF Popped
<1>2. \A i \in 1..n : Len(fr[i].path) \in Nat
  <2> TAKE i \in 1..n
  <2>1. fr[i].path \in Seq(Nat)
    BY DEF IsFrame, Path
  <2> QED
    BY <2>1
<1>3. n \in 1..n
  OBVIOUS
<1>4. s.open # << >>
  BY <1>2, <1>3
<1>5. Len(r.open) = d - 1 /\ d \in Nat /\ \A i \in 1..(d - 1) : r.open[i] = s.open[i]
  BY <1>4, FrontFacts
<1>6. ASSUME NEW i \in 1..(n - 1), t[i].fn \in Container, t[i].begun PROVE Holds(t[i], r, toks)
  <2> DEFINE e == Len(fr[i].path) + 1
  <2>1. t[i] = fr[i] /\ i \in 1..n /\ i < n
    BY <1>1
  <2>2. Holds(fr[i], s, toks)
    BY <1>6, <2>1 DEF Steady
  <2>3. Len(fr[i].path) < Len(fr[n].path)
    BY <1>3, <1>6, <2>1 DEF Steady
  <2>4. e \in 1..(d - 1)
    <3> DEFINE x == Len(fr[i].path)
               y == Len(fr[n].path)
    <3>1. x \in Nat /\ y \in Nat /\ x < y /\ y + 1 = d
      BY <1>2, <1>3, <2>1, <2>3
    <3> HIDE DEF x, y, d
    <3>2. x + 1 \in 1..(d - 1)
      BY <3>1
    <3> QED
      BY <3>2 DEF x
  <2> QED
    BY <1>5, <2>1, <2>2, <2>4 DEF Holds
<1>7. \A i, j \in 1..(n - 1) : i < j /\ t[i].fn \in Container => Len(t[i].path) < Len(t[j].path)
  BY <1>1 DEF Steady
<1> QED
  BY <1>1, <1>6, <1>7 DEF Steady

-----------------------------------------------------------------------------
(* What each kind of mark does to the place. *)
LEMMA ScalarPlace ==
  ASSUME NEW a, Complete(a), NEW n \in 0..Len(a), n < Len(a), a[n + 1] \in Scalar
  PROVE  LET p == Grown(a)[n].at
         IN  /\ Len(Scanned(a)[n + 1].tokens) = Len(Scanned(a)[n].tokens) + 1
             /\ Scanned(a)[n + 1].open = Scanned(a)[n].open
             /\ Grown(a)[n + 1].tree
                  = Grown(a)[n].tree \cup {<<"val", p>>, <<a[n + 1], p>>} \cup Item(p)
             /\ Whole(a, n + 1) = p
<1> DEFINE m == a[n + 1]
           w == Grown(a)[n]
<1>1. m \notin Close /\ m \notin Container
  BY DEF Close, Scalar, Container
<1>2. Grown(a)[n + 1] = Grow(w, m) /\ n + 1 - 1 = n
  BY NextPlace
<1>3. w \in Trees
  BY PlaceFacts DEF Matches
<1>4. Adds(w.at, m) = {<<"val", w.at>>, <<m, w.at>>} \cup Item(w.at)
  BY GrowIs
<1>5. Grow(w, m).tree = w.tree \cup Adds(w.at, m)
  BY <1>3, GrowStays
<1>6. Whole(a, n + 1) = w.at
  BY <1>1, <1>2 DEF Whole
<1> QED
  BY <1>1, <1>2, <1>4, <1>5, <1>6, NextToken

LEMMA NamePlace ==
  ASSUME NEW a, Complete(a), NEW n \in 0..Len(a), n < Len(a), a[n + 1] = "name"
  PROVE  LET p == Grown(a)[n].at
         IN  /\ Len(Scanned(a)[n + 1].tokens) = Len(Scanned(a)[n].tokens) + 1
             /\ Scanned(a)[n + 1].open = Scanned(a)[n].open
             /\ Grown(a)[n + 1].at = p
             /\ Grown(a)[n + 1].tree = Grown(a)[n].tree \cup {<<"keyval", p>>, <<"name", p>>}
             /\ n + 1 < Len(a) /\ a[n + 1 + 1] \in Value
<1> DEFINE m == a[n + 1]
           w == Grown(a)[n]
           r == Scanned(a)[n + 1]
<1>1. m \notin Close /\ m \notin Container
  BY DEF Close, Scalar, Container
<1>2. Grown(a)[n + 1] = Grow(w, m) /\ n + 1 \in 0..Len(a) /\ (Named(a, n + 1) <=> m = "name")
  BY NextPlace
<1>3. w \in Trees
  BY PlaceFacts DEF Matches
<1>4. Adds(w.at, m) = {<<"keyval", w.at>>, <<"name", w.at>>} /\ Onto(w.at, m) = w.at
  BY GrowIs
<1>5. Grow(w, m).tree = w.tree \cup Adds(w.at, m) /\ Grow(w, m).at = Onto(w.at, m)
  BY <1>3, GrowStays
<1>6. Named(a, n + 1) = TRUE
  BY <1>2, PlaceFacts
<1>7. n + 1 < Len(a)
  <2>1. "name" \notin Value
    BY DEF Value, Container, Scalar
  <2>2. Goes(Scanned(a)[n], Named(a, n), m)
    BY PlaceFacts
  <2>3. Scanned(a)[n].open # << >>
    BY <2>1, <2>2 DEF Goes, Follow
  <2>4. r.open # << >>
    BY <1>1, <2>3, NextToken
  <2> QED
    BY <1>2, <2>4, PlaceFacts
<1>8. Goes(r, TRUE, a[n + 1 + 1])
  <2>1. Goes(r, Named(a, n + 1), a[n + 1 + 1])
    BY <1>2, <1>7, PlaceFacts
  <2> QED
    BY <1>6, <2>1
<1>9. a[n + 1 + 1] \in Value
  BY <1>8 DEF Goes, Follow
<1> QED
  BY <1>1, <1>2, <1>4, <1>5, <1>7, <1>9, NextToken

LEMMA OpenPlace ==
  ASSUME NEW a, Complete(a), NEW n \in 0..Len(a), n < Len(a), a[n + 1] \in Container
  PROVE  LET p == Grown(a)[n].at
             s == Scanned(a)[n]
             r == Scanned(a)[n + 1]
         IN  /\ Len(r.tokens) = Len(s.tokens) + 1
             /\ r.open = Append(s.open, Len(s.tokens) + 1)
             /\ Grown(a)[n + 1].at = Append(p, 1)
             /\ Grown(a)[n + 1].tree
                  = Grown(a)[n].tree \cup {<<"val", p>>, <<a[n + 1], p>>, <<"list", p>>}
             /\ ~Named(a, n + 1)
             /\ Len(r.open) = Len(p) + 1 /\ Len(p) \in Nat
             /\ r.open[Len(p) + 1] = Len(s.tokens) + 1
             /\ s.open \in Seq(Nat) /\ Len(s.tokens) + 1 \in Nat
             /\ p \in Path
<1> DEFINE m == a[n + 1]
           w == Grown(a)[n]
           s == Scanned(a)[n]
           r == Scanned(a)[n + 1]
<1>1. m \notin Close /\ m # "name"
  BY DEF Close, Scalar, Container
<1>2. Grown(a)[n + 1] = Grow(w, m) /\ (Named(a, n + 1) <=> m = "name")
  BY NextPlace
<1>3. Matches(s, w, Named(a, n))
  BY PlaceFacts
<1>4. /\ Adds(w.at, m) = {<<"val", w.at>>, <<m, w.at>>, <<"list", w.at>>}
      /\ Onto(w.at, m) = Append(w.at, 1)
  BY GrowIs
<1>5. Len(r.tokens) = Len(s.tokens) + 1 /\ r.open = Append(s.open, Len(s.tokens) + 1)
  BY <1>1, NextToken
<1> HIDE DEF w, s, r, m
<1>6. /\ w \in Trees /\ w.at \in Path /\ Len(w.at) = Len(s.open) /\ Len(s.open) \in Nat
      /\ s.open \in Seq(Nat) /\ Len(s.tokens) \in Nat
  BY <1>3, MatchesFacts
<1>7. Grow(w, m).tree = w.tree \cup Adds(w.at, m) /\ Grow(w, m).at = Onto(w.at, m)
  BY <1>6, GrowStays
<1>8. Len(s.tokens) + 1 \in Nat
  BY <1>6
<1>9. Len(r.open) = Len(s.open) + 1 /\ r.open[Len(s.open) + 1] = Len(s.tokens) + 1
  BY <1>5, <1>6, <1>8, AppendFacts
<1>10. Len(w.at) \in Nat /\ Len(r.open) = Len(w.at) + 1 /\ r.open[Len(w.at) + 1] = Len(s.tokens) + 1
  BY <1>6, <1>9
<1>11. Grown(a)[n + 1].tree = w.tree \cup {<<"val", w.at>>, <<m, w.at>>, <<"list", w.at>>}
  BY <1>2, <1>4, <1>7
<1>12. Grown(a)[n + 1].at = Append(w.at, 1)
  BY <1>2, <1>4, <1>7
<1> QED
  BY <1>1, <1>2, <1>5, <1>6, <1>8, <1>10, <1>11, <1>12 DEF w, s, r, m

LEMMA ClosePlace ==
  ASSUME NEW a, Complete(a), NEW n \in 0..Len(a), n < Len(a), a[n + 1] \in Close
  PROVE  LET p == Grown(a)[n].at
             s == Scanned(a)[n]
             r == Scanned(a)[n + 1]
         IN  /\ r.tokens = s.tokens
             /\ r.open = Front(s.open)
             /\ Grown(a)[n + 1].tree = Grown(a)[n].tree \cup Item(Front(p))
             /\ Whole(a, n + 1) = Front(p)
<1> DEFINE m == a[n + 1]
           w == Grown(a)[n]
           s == Scanned(a)[n]
<1>1. m \notin Value \cup {"name"}
  BY DEF Close, Scalar, Container, Value
<1>2. Grown(a)[n + 1] = Grow(w, m) /\ n + 1 - 1 = n /\ Scanned(a)[n + 1] = Scan(s, m)
  BY NextPlace
<1>3. s \in Scans /\ w \in Trees
  BY PlaceFacts DEF Matches
<1>4. Adds(w.at, m) = Item(Front(w.at))
  BY <1>1, GrowIs
<1>5. Whole(a, n + 1) = Front(w.at)
  BY <1>2 DEF Whole
<1> HIDE DEF w, s
<1>6. Grow(w, m).tree = w.tree \cup Adds(w.at, m)
  BY <1>3, GrowStays
<1>7. Scan(s, m) = [tokens |-> s.tokens, open |-> Front(s.open)]
  BY <1>3, ScanClosed
<1>8. Scan(s, m).tokens = s.tokens /\ Scan(s, m).open = Front(s.open)
  BY <1>7
<1>9. Grown(a)[n + 1].tree = w.tree \cup Item(Front(w.at))
  BY <1>2, <1>4, <1>6
<1> QED
  BY <1>2, <1>5, <1>8, <1>9 DEF w, s

\* The value after the one that the nth mark makes whole.
LEMMA WholePlace ==
  ASSUME NEW a, Complete(a), NEW n \in 0..Len(a), n > 0, a[n] \in Scalar \cup Close
  PROVE  /\ Grown(a)[n].at = Sibling(Whole(a, n))
         /\ ~Named(a, n)
<1> DEFINE m == a[n]
           k == n - 1
           w == Grown(a)[k]
<1>1. Len(a) \in Nat
  BY PlaceFacts
<1>2. k \in 0..Len(a) /\ k < Len(a) /\ k + 1 = n
  BY <1>1
<1> HIDE DEF k
<1>3. Grown(a)[k + 1] = Grow(Grown(a)[k], a[k + 1])
  BY <1>2, NextPlace
<1>4. Grown(a)[k] \in Trees
  BY <1>2, PlaceFacts DEF Matches
<1>5. Grown(a)[n] = Grow(w, m)
  BY <1>2, <1>3
<1> HIDE DEF w, m
<1>6. Grow(w, m).at = Onto(w.at, m)
  BY <1>4, GrowStays DEF w
<1>7. IF m \in Close THEN Onto(w.at, m) = Sibling(Front(w.at)) ELSE Onto(w.at, m) = Sibling(w.at)
  <2>1. m \in Close => m \notin Value \cup {"name"}
    BY DEF Close, Scalar, Container, Value
  <2>2. m \in Close \/ m \in Scalar
    BY DEF m
  <2> QED
    BY <2>1, <2>2, GrowIs
<1>8. Whole(a, n) = IF m \in Close THEN Front(w.at) ELSE w.at
  BY DEF Whole, m, w, k
<1>9. m # "name"
  BY DEF m, Scalar, Close
<1>10. ~Named(a, n)
  BY <1>9 DEF Named, m
<1> QED
  BY <1>5, <1>6, <1>7, <1>8, <1>10

-----------------------------------------------------------------------------
(* A return, a call, and a step within a function, at a place in the marks. *)
LEMMA FollowsReturns ==
  ASSUME NEW fr, NEW bk, Chained(fr, bk), fr # << >>, NEW a, NEW k \in 0..Len(a), k > 0,
         Steady(Front(fr), Scanned(a)[k], AllTokens(a)), a[k] \in Scalar \cup Close,
         Whole(a, k) = fr[Len(fr)].path,
         NEW hp, hp \cup Item(Whole(a, k)) = Grown(a)[k].tree,
         NEW ps, ps = Len(Scanned(a)[k].tokens) + 1
  PROVE  Follows(a, k, ps, Front(fr), "ok", hp)
<1>1. Awaits(Front(fr), Whole(a, k))
  <2>1. Awaits(Front(fr), fr[Len(fr)].path)
    BY CallerAwaits
  <2> QED
    BY <2>1
<1>2. Behind(a, k, Front(fr), hp)
  BY <1>1 DEF Behind
<1> QED
  BY <1>2 DEF Follows

LEMMA FollowsCalls ==
  ASSUME NEW fr, NEW bk, Chained(fr, bk), fr # << >>, NEW a, NEW k \in 0..Len(a),
         Steady(fr, Scanned(a)[k], AllTokens(a)),
         NEW g, Onward(fr[Len(fr)], g),
         g.fn \in Container => Holds(g, Scanned(a)[k], AllTokens(a)),
         NEW h, IsFrame(h), ~h.begun, CalledBy(g, h),
         NEW hp, Ahead(a, k, h, hp),
         NEW ps, ps = Len(Scanned(a)[k].tokens) + 1
  PROVE  Follows(a, k, ps, Front(fr) \o <<g, h>>, "none", hp)
<1> DEFINE t == Front(fr) \o <<g, h>>
<1>1. Pushed(fr, t, g, h) /\ t # << >>
  BY ChainCalls
<1>2. Len(fr) \in Nat /\ Len(fr) > 0 /\ \A i \in 1..Len(fr) : IsFrame(fr[i])
  BY ChainFacts DEF Chained
<1>3. IsFrame(g)
  BY DEF Onward
<1> HIDE DEF t
<1>4. Steady(t, Scanned(a)[k], AllTokens(a))
  BY <1>1, <1>2, <1>3, SteadyCalls
<1>5. t[Len(t)] = h
  BY <1>1 DEF Pushed
<1> QED
  BY <1>1, <1>4, <1>5 DEF Follows, t

LEMMA FollowsStays ==
  ASSUME NEW fr, NEW bk, Chained(fr, bk), fr # << >>, NEW a, NEW k \in 0..Len(a),
         Steady(fr, Scanned(a)[k], AllTokens(a)),
         NEW g, Onward(fr[Len(fr)], g),
         g.fn \in Container => Holds(g, Scanned(a)[k], AllTokens(a)),
         NEW hp, Ahead(a, k, g, hp),
         NEW ps, ps = Len(Scanned(a)[k].tokens) + 1
  PROVE  Follows(a, k, ps, Append(Front(fr), g), "none", hp)
<1> DEFINE t == Append(Front(fr), g)
<1>1. Topped(fr, t, g) /\ t # << >>
  BY ChainStays
<1>2. Len(fr) \in Nat /\ Len(fr) > 0
  BY ChainFacts
<1> HIDE DEF t
<1>4. Steady(t, Scanned(a)[k], AllTokens(a))
  BY <1>1, <1>2, SteadyStays
<1>5. t[Len(t)] = g
  BY <1>1 DEF Topped
<1> QED
  BY <1>1, <1>4, <1>5 DEF Follows, t

\* The frames of a function that has been called, and of one that goes on.
LEMMA EnteredFrames ==
  ASSUME ReaderInv, NEW fns, Enters(fns)
  PROVE  /\ frames # << >> /\ Top = frames[Len(frames)] /\ Top.fn \in fns
         /\ ~Top.begun /\ IsFrame(Top) /\ Callers = Front(frames) /\ back = "none"
         /\ Chained(frames, "none") /\ Top.path \in Path
<1>1. In(fns) /\ ~Top.begun
  BY DEF Enters
<1>2. /\ frames # << >> /\ Top = frames[Len(frames)]
      /\ Top.fn \in fns /\ IsFrame(Top) /\ Top.path \in Path /\ Callers = Front(frames)
  BY <1>1, Reads, Zenon
<1>3. back = "none" /\ Reading(frames, "none", heap \ Parser)
  BY EntersReads, Zenon
<1> QED
  BY <1>1, <1>2, <1>3 DEF Reading

LEMMA ResumedFrames ==
  ASSUME ReaderInv, NEW fns, Resumes(fns)
  PROVE  /\ frames # << >> /\ Top = frames[Len(frames)] /\ Top.fn \in fns
         /\ Top.begun /\ IsFrame(Top) /\ Callers = Front(frames) /\ back \in {"ok", "null"}
         /\ Chained(frames, back) /\ Top.path \in Path
<1>1. In(fns)
  BY DEF Resumes
<1>2. /\ frames # << >> /\ Top = frames[Len(frames)] /\ Reading(frames, back, heap \ Parser)
      /\ Top.fn \in fns /\ IsFrame(Top) /\ Top.path \in Path /\ Callers = Front(frames)
  BY <1>1, Reads, Zenon
<1>3. Top.begun /\ back \in {"ok", "null"}
  BY ResumesReads, Zenon
<1> QED
  BY <1>2, <1>3 DEF Reading

LEMMA PopsFrames ==
  ASSUME NEW fr, NEW bk, Chained(fr, bk), fr # << >>, NEW s, NEW toks, Steady(fr, s, toks),
         NEW r, r.open = s.open
  PROVE  Steady(Front(fr), r, toks)
<1>1. Popped(fr, Front(fr)) /\ Len(fr) \in Nat
  BY ChainFacts
<1>2. Steady(Front(fr), s, toks)
  BY <1>1, SteadyPops
<1> QED
  BY <1>2, SteadySame

\* The token of a mark has the type of the mark.
LEMMA TypeOfToken ==
  ASSUME NEW m
  PROVE  /\ m = "name" => Token(m).type = "string"
         /\ m # "name" => Token(m).type = m
         /\ m \in Value => m # "name"
         /\ m \in Scalar => m \in {"string", "primitive"}
BY DEF Token, Value, Container, Scalar

-----------------------------------------------------------------------------
(* The steps of the reader, each at a place in the marks. *)
LEMMA ValEnterFollows ==
  ASSUME ReaderInv, ValEnter, back' # "null", NEW a, Complete(a), tokens = AllTokens(a),
         NEW n, Follows(a, n, pos, frames, back, heap \ Parser)
  PROVE  \E k \in 0..Len(a) : Follows(a, k, pos', frames', back', heap' \ Parser)
<1> DEFINE hp == heap \ Parser
           hq == heap' \ Parser
           p == Top.path
           type == tokens[pos].type
           m == a[n + 1]
           w == Grown(a)[n]
           s == Scanned(a)[n]
           toks == AllTokens(a)
<1>1. /\ frames # << >> /\ Top = frames[Len(frames)] /\ Top.fn = "val"
      /\ ~Top.begun /\ IsFrame(Top) /\ Callers = Front(frames) /\ back = "none"
      /\ Chained(frames, "none") /\ p \in Path
  <2>1. Enters({"val"})
    BY DEF ValEnter
  <2>2. /\ frames # << >> /\ Top = frames[Len(frames)] /\ Top.fn \in {"val"}
        /\ ~Top.begun /\ IsFrame(Top) /\ Callers = Front(frames) /\ back = "none"
        /\ Chained(frames, "none") /\ Top.path \in Path
    BY <2>1, EnteredFrames, Zenon
  <2> QED
    BY <2>2
<1>2. \/ /\ type \in Container
         /\ heap' = heap \cup {<<"val", p>>}
         /\ Calls(Started(Top), type, p)
         /\ pos' = pos
      \/ /\ type \in {"string", "primitive"}
         /\ heap' = heap \cup {<<"val", p>>, <<type, p>>}
         /\ pos' = pos + 1
         /\ Returns("ok")
  <2>1. ~Returns("null")
    BY DEF Returns
  <2> QED
    BY <2>1, Zenon DEF ValEnter, TokenIs, Container
<1>3. /\ n \in 0..Len(a) /\ pos = Len(s.tokens) + 1 /\ Steady(frames, s, toks)
      /\ Ahead(a, n, Top, hp)
  BY <1>1 DEF Follows
<1>4. p = w.at /\ hp = w.tree /\ n < Len(a) /\ m \in Value
  BY <1>1, <1>3 DEF Ahead
<1>5. type = m
  <2>1. m # "name" /\ m \notin Close /\ Token(m).type = m
    <3>1. m # "name"
      BY <1>4, TypeOfToken
    <3>2. m \notin Close
      BY <1>4 DEF Value, Container, Scalar, Close
    <3> QED
      BY <3>1, <3>2, TypeOfToken
  <2>2. toks[pos].type = Token(m).type
    BY <1>3, <1>4, <2>1, NextToken
  <2> QED
    BY <2>1, <2>2
<1> HIDE DEF hp, hq, p, type, m, w, s, toks
<1>6. CASE /\ type \in Container
           /\ heap' = heap \cup {<<"val", p>>}
           /\ Calls(Started(Top), type, p)
           /\ pos' = pos
  <2> DEFINE g == Started(Top)
             h == Frame(type, p)
  <2>1. /\ frames' = Front(frames) \o <<g, h>> /\ back' = "none"
    BY <1>1, <1>6 DEF Calls
  <2>2. Onward(Top, g)
    BY <1>1, FrameChanges
  <2>3. IsFrame(h) /\ ~h.begun /\ h.fn = type /\ h.path = p
    BY <1>1, <1>6, FrameIs DEF Fn
  <2> HIDE DEF g, h
  <2>4. g.begun /\ g.fn = "val" /\ g.path = p
    BY <1>1, <2>2 DEF Onward, p
  <2>5. CalledBy(g, h)
    BY <1>6, <2>3, <2>4 DEF CalledBy
  <2>6. hq = hp \cup {<<"val", p>>}
    <3>1. {<<"val", p>>} \subseteq Alloc
      BY <1>1 DEF Alloc, Kind
    <3> QED
      BY <1>6, <3>1, GrownHeap DEF hp, hq
  <2>7. Ahead(a, n, h, hq)
    <3>1. h.fn \notin {"val", "keyval"} /\ h.fn \in Container
      BY <1>6, <2>3 DEF Container
    <3>2. h.done = 0
      BY DEF h, Frame
    <3> QED
      BY <1>4, <1>5, <2>3, <2>6, <3>1, <3>2 DEF Ahead, w, m
  <2>8. g.fn \notin Container
    BY <2>4 DEF Container
  <2>9. Follows(a, n, pos, Front(frames) \o <<g, h>>, "none", hq)
    BY <1>1, <1>3, <2>2, <2>3, <2>5, <2>7, <2>8, FollowsCalls DEF s, toks
  <2> QED
    BY <1>3, <1>6, <2>1, <2>9 DEF hq
<1>7. CASE /\ type \in {"string", "primitive"}
           /\ heap' = heap \cup {<<"val", p>>, <<type, p>>}
           /\ pos' = pos + 1
           /\ Returns("ok")
  <2>1. /\ frames' = Front(frames) /\ back' = "ok"
    BY <1>1, <1>7 DEF Returns
  <2>2. m \in Scalar
    BY <1>5, <1>7 DEF Scalar
  <2>3. /\ Len(Scanned(a)[n + 1].tokens) = Len(s.tokens) + 1
        /\ Scanned(a)[n + 1].open = s.open
        /\ Grown(a)[n + 1].tree = w.tree \cup {<<"val", p>>, <<m, p>>} \cup Item(p)
        /\ Whole(a, n + 1) = p
    BY <1>3, <1>4, <2>2, ScalarPlace DEF m, s, w
  <2>4. n + 1 \in 0..Len(a) /\ n + 1 > 0
    BY <1>3, <1>4, NextPlace
  <2>5. hq = hp \cup {<<"val", p>>, <<type, p>>}
    <3>1. {<<"val", p>>, <<type, p>>} \subseteq Alloc
      BY <1>1, <1>7 DEF Alloc, Kind
    <3> QED
      BY <1>7, <3>1, GrownHeap DEF hp, hq
  <2>6. hq \cup Item(Whole(a, n + 1)) = Grown(a)[n + 1].tree
    BY <1>4, <1>5, <2>3, <2>5
  <2>7. Steady(Front(frames), Scanned(a)[n + 1], AllTokens(a))
    BY <1>1, <1>3, <2>3, PopsFrames DEF toks
  <2>8. pos' = Len(Scanned(a)[n + 1].tokens) + 1
    BY <1>3, <1>7, <2>3
  <2>9. Follows(a, n + 1, pos', Front(frames), "ok", hq)
    BY <1>1, <2>2, <2>3, <2>4, <2>6, <2>7, <2>8, FollowsReturns DEF p, m
  <2> QED
    BY <2>1, <2>4, <2>9 DEF hq
<1> QED
  BY <1>2, <1>6, <1>7

LEMMA ValResumeFollows ==
  ASSUME ReaderInv, ValResume, back' # "null", NEW a, Complete(a), tokens = AllTokens(a),
         NEW n, Follows(a, n, pos, frames, back, heap \ Parser)
  PROVE  \E k \in 0..Len(a) : Follows(a, k, pos', frames', back', heap' \ Parser)
<1> DEFINE hp == heap \ Parser
<1>1. /\ frames # << >> /\ Top = frames[Len(frames)] /\ Top.fn = "val"
      /\ Callers = Front(frames) /\ Chained(frames, back)
  <2>1. Resumes({"val"})
    BY DEF ValResume
  <2>2. /\ frames # << >> /\ Top = frames[Len(frames)] /\ Top.fn \in {"val"}
        /\ Top.begun /\ IsFrame(Top) /\ Callers = Front(frames) /\ back \in {"ok", "null"}
        /\ Chained(frames, back) /\ Top.path \in Path
    BY <2>1, ResumedFrames, Zenon
  <2> QED
    BY <2>2
<1>2. back' = back /\ back # "none" /\ frames' = Front(frames) /\ pos' = pos
  BY <1>1 DEF ValResume, Returns, Resumes
<1>3. back = "ok"
  <2>1. back \in {"ok", "null"}
    <3>1. Resumes({"val"})
      BY DEF ValResume
    <3> QED
      BY <3>1, ResumesReads, Zenon
  <2> QED
    BY <1>2, <2>1
<1>4. heap' = heap
  BY <1>3 DEF ValResume
<1>5. /\ n \in 0..Len(a) /\ pos = Len(Scanned(a)[n].tokens) + 1
      /\ Steady(frames, Scanned(a)[n], AllTokens(a)) /\ Behind(a, n, frames, hp)
  BY <1>3 DEF Follows
<1> HIDE DEF hp
<1>6. Top.fn \notin Container
  BY <1>1 DEF Container
<1>7. /\ n > 0 /\ a[n] \in Scalar \cup Close
      /\ hp \cup Item(Whole(a, n)) = Grown(a)[n].tree
      /\ Whole(a, n) = frames[Len(frames)].path
  BY <1>1, <1>5, <1>6 DEF Behind, Awaits
<1>8. Steady(Front(frames), Scanned(a)[n], AllTokens(a))
  BY <1>1, <1>5, PopsFrames
<1>9. Follows(a, n, pos, Front(frames), "ok", hp)
  BY <1>1, <1>5, <1>7, <1>8, FollowsReturns
<1> QED
  BY <1>2, <1>3, <1>4, <1>5, <1>9 DEF hp

LEMMA KeyvalEnterFollows ==
  ASSUME ReaderInv, KeyvalEnter, back' # "null", NEW a, Complete(a), tokens = AllTokens(a),
         NEW n, Follows(a, n, pos, frames, back, heap \ Parser)
  PROVE  \E k \in 0..Len(a) : Follows(a, k, pos', frames', back', heap' \ Parser)
<1> DEFINE hp == heap \ Parser
           hq == heap' \ Parser
           p == Top.path
           g == Started(Top)
           h == Frame("val", p)
           new == {<<"keyval", p>>, <<"name", p>>}
<1>1. /\ frames # << >> /\ Top = frames[Len(frames)] /\ Top.fn = "keyval"
      /\ ~Top.begun /\ IsFrame(Top) /\ Callers = Front(frames) /\ back = "none"
      /\ Chained(frames, "none") /\ p \in Path
  <2>1. Enters({"keyval"})
    BY DEF KeyvalEnter
  <2>2. /\ frames # << >> /\ Top = frames[Len(frames)] /\ Top.fn \in {"keyval"}
        /\ ~Top.begun /\ IsFrame(Top) /\ Callers = Front(frames) /\ back = "none"
        /\ Chained(frames, "none") /\ Top.path \in Path
    BY <2>1, EnteredFrames, Zenon
  <2> QED
    BY <2>2
<1>2. /\ heap' = heap \cup new
      /\ pos' = pos + 1
      /\ Calls(g, "val", p)
  <2>1. ~Returns("null")
    BY DEF Returns
  <2> QED
    BY <2>1, Zenon DEF KeyvalEnter
<1>3. /\ n \in 0..Len(a) /\ pos = Len(Scanned(a)[n].tokens) + 1
      /\ Steady(frames, Scanned(a)[n], AllTokens(a)) /\ Ahead(a, n, Top, hp)
  BY <1>1 DEF Follows
<1>4. p = Grown(a)[n].at /\ hp = Grown(a)[n].tree /\ n < Len(a) /\ a[n + 1] = "name"
  BY <1>1, <1>3 DEF Ahead
<1>5. /\ frames' = Front(frames) \o <<g, h>> /\ back' = "none"
  BY <1>1, <1>2 DEF Calls
<1>6. Onward(Top, g)
  BY <1>1, FrameChanges
<1>7. IsFrame(h) /\ ~h.begun /\ h.fn = "val" /\ h.path = p
  BY <1>1, FrameIs DEF Fn
<1> HIDE DEF hp, hq, p, g, h
<1>8. g.begun /\ g.fn = "keyval" /\ g.path = p
  BY <1>1, <1>6 DEF Onward, p
<1>9. CalledBy(g, h) /\ g.fn \notin Container
  BY <1>7, <1>8 DEF CalledBy, Container
<1>10. hq = hp \cup new
  <2>1. new \subseteq Alloc
    BY <1>1 DEF Alloc, Kind
  <2> QED
    BY <1>2, <2>1, GrownHeap DEF hp, hq
<1>11. /\ Len(Scanned(a)[n + 1].tokens) = Len(Scanned(a)[n].tokens) + 1
       /\ Scanned(a)[n + 1].open = Scanned(a)[n].open
       /\ Grown(a)[n + 1].at = p
       /\ Grown(a)[n + 1].tree = hp \cup new
       /\ n + 1 < Len(a) /\ a[n + 1 + 1] \in Value
  BY <1>3, <1>4, NamePlace
<1>12. n + 1 \in 0..Len(a)
  BY <1>3, <1>4, NextPlace
<1>13. Ahead(a, n + 1, h, hq)
  <2>1. h.fn \notin Container
    BY <1>7 DEF Container
  <2> QED
    BY <1>7, <1>10, <1>11, <2>1 DEF Ahead
<1>14. Steady(frames, Scanned(a)[n + 1], AllTokens(a))
  BY <1>3, <1>11, SteadySame
<1>15. pos' = Len(Scanned(a)[n + 1].tokens) + 1
  BY <1>2, <1>3, <1>11
<1>16. Follows(a, n + 1, pos', Front(frames) \o <<g, h>>, "none", hq)
  BY <1>1, <1>6, <1>7, <1>9, <1>12, <1>13, <1>14, <1>15, FollowsCalls
<1> QED
  BY <1>5, <1>12, <1>16 DEF hq

LEMMA KeyvalResumeFollows ==
  ASSUME ReaderInv, KeyvalResume, back' # "null", NEW a, Complete(a), tokens = AllTokens(a),
         NEW n, Follows(a, n, pos, frames, back, heap \ Parser)
  PROVE  \E k \in 0..Len(a) : Follows(a, k, pos', frames', back', heap' \ Parser)
<1> DEFINE hp == heap \ Parser
<1>1. /\ frames # << >> /\ Top = frames[Len(frames)] /\ Top.fn = "keyval"
      /\ Callers = Front(frames) /\ Chained(frames, back)
  <2>1. Resumes({"keyval"})
    BY DEF KeyvalResume
  <2>2. /\ frames # << >> /\ Top = frames[Len(frames)] /\ Top.fn \in {"keyval"}
        /\ Top.begun /\ IsFrame(Top) /\ Callers = Front(frames) /\ back \in {"ok", "null"}
        /\ Chained(frames, back) /\ Top.path \in Path
    BY <2>1, ResumedFrames, Zenon
  <2> QED
    BY <2>2
<1>2. back' = back /\ back # "none" /\ frames' = Front(frames) /\ pos' = pos
  BY <1>1 DEF KeyvalResume, Returns, Resumes
<1>3. back = "ok"
  <2>1. back \in {"ok", "null"}
    <3>1. Resumes({"keyval"})
      BY DEF KeyvalResume
    <3> QED
      BY <3>1, ResumesReads, Zenon
  <2> QED
    BY <1>2, <2>1
<1>4. heap' = heap
  BY <1>3 DEF KeyvalResume
<1>5. /\ n \in 0..Len(a) /\ pos = Len(Scanned(a)[n].tokens) + 1
      /\ Steady(frames, Scanned(a)[n], AllTokens(a)) /\ Behind(a, n, frames, hp)
  BY <1>3 DEF Follows
<1> HIDE DEF hp
<1>6. Top.fn \notin Container
  BY <1>1 DEF Container
<1>7. /\ n > 0 /\ a[n] \in Scalar \cup Close
      /\ hp \cup Item(Whole(a, n)) = Grown(a)[n].tree
      /\ Whole(a, n) = frames[Len(frames)].path
  BY <1>1, <1>5, <1>6 DEF Behind, Awaits
<1>8. Steady(Front(frames), Scanned(a)[n], AllTokens(a))
  BY <1>1, <1>5, PopsFrames
<1>9. Follows(a, n, pos, Front(frames), "ok", hp)
  BY <1>1, <1>5, <1>7, <1>8, FollowsReturns
<1> QED
  BY <1>2, <1>3, <1>4, <1>5, <1>9 DEF hp

LEMMA SizedFrame ==
  ASSUME NEW f, IsFrame(f), NEW z
  PROVE  LET g == [Started(f) EXCEPT !.size = z] IN g.size = z /\ g.done = f.done
<1> DEFINE S == {f.size, z}
<1>1. f \in FrameOf(S) /\ z \in S
  BY DEF FrameOf, IsFrame
<1> HIDE DEF S
<1>2. Started(f) \in FrameOf(S) /\ Started(f).done = f.done
  BY <1>1 DEF FrameOf, Started
<1> QED
  BY <1>2 DEF FrameOf

LEMMA ContainerEnterFollows ==
  ASSUME ReaderInv, ContainerEnter, back' # "null", NEW a, Complete(a), tokens = AllTokens(a),
         NEW n, Follows(a, n, pos, frames, back, heap \ Parser)
  PROVE  \E k \in 0..Len(a) : Follows(a, k, pos', frames', back', heap' \ Parser)
<1> DEFINE hp == heap \ Parser
           hq == heap' \ Parser
           p == Top.path
           fn == Top.fn
           z == tokens[pos].size
           g == [Started(Top) EXCEPT !.size = z]
           new == {<<fn, p>>, <<"list", p>>}
           s == Scanned(a)[n]
           r == Scanned(a)[n + 1]
           w == Grown(a)[n]
           toks == AllTokens(a)
<1>1. /\ frames # << >> /\ Top = frames[Len(frames)] /\ fn \in Container
      /\ ~Top.begun /\ IsFrame(Top) /\ Callers = Front(frames) /\ back = "none"
      /\ Chained(frames, "none") /\ p \in Path
  BY ContainerEntered DEF Reading
<1>2. /\ heap' = heap \cup new
      /\ pos' = pos + 1
      /\ Stays(g)
  <2>1. ~Returns("null")
    BY DEF Returns
  <2> QED
    BY <2>1, Zenon DEF ContainerEnter
<1>3. /\ n \in 0..Len(a) /\ pos = Len(s.tokens) + 1
      /\ Steady(frames, s, toks) /\ Ahead(a, n, Top, hp)
  BY <1>1 DEF Follows
<1>4. p = w.at /\ hp = w.tree \cup {<<"val", p>>} /\ n < Len(a) /\ a[n + 1] = fn /\ Top.done = 0
  BY <1>1, <1>3 DEF Ahead
<1>5. /\ frames' = Append(Front(frames), g) /\ back' = "none"
  BY <1>1, <1>2 DEF Stays
<1>6. Onward(Top, g)
  BY <1>1, FrameChanges, Zenon
<1>7. g.size = z /\ g.done = Top.done
  BY <1>1, SizedFrame
<1> HIDE DEF g
<1>8. g.begun /\ g.fn = fn /\ g.path = p
  BY <1>6 DEF Onward
<1>9. /\ Len(r.tokens) = Len(s.tokens) + 1
      /\ r.open = Append(s.open, pos)
      /\ Grown(a)[n + 1].at = Append(p, 1)
      /\ Grown(a)[n + 1].tree = w.tree \cup {<<"val", p>>, <<fn, p>>, <<"list", p>>}
      /\ ~Named(a, n + 1)
      /\ Len(r.open) = Len(p) + 1 /\ Len(p) \in Nat
      /\ r.open[Len(p) + 1] = pos
      /\ s.open \in Seq(Nat) /\ pos \in Nat
  <2>1. a[n + 1] \in Container
    BY <1>1, <1>4
  <2>2. /\ Len(r.tokens) = Len(s.tokens) + 1
        /\ r.open = Append(s.open, Len(s.tokens) + 1)
        /\ Grown(a)[n + 1].at = Append(w.at, 1)
        /\ Grown(a)[n + 1].tree
             = w.tree \cup {<<"val", w.at>>, <<a[n + 1], w.at>>, <<"list", w.at>>}
        /\ ~Named(a, n + 1)
        /\ Len(r.open) = Len(w.at) + 1 /\ Len(w.at) \in Nat
        /\ r.open[Len(w.at) + 1] = Len(s.tokens) + 1
        /\ s.open \in Seq(Nat) /\ Len(s.tokens) + 1 \in Nat
    <3>1. n \in 0..Len(a) /\ n < Len(a)
      BY <1>3, <1>4
    <3> QED
      BY <2>1, <3>1, OpenPlace, Zenon
  <2> HIDE DEF s, r, w, p, fn
  <2> QED
    BY <1>3, <1>4, <2>2
<1>10. toks[pos].type = fn
  <2>1. fn \notin Close /\ fn # "name"
    BY <1>1 DEF Container, Close
  <2>2. toks[pos].type = Token(a[n + 1]).type
    BY <1>3, <1>4, <2>1, NextToken
  <2> QED
    BY <1>4, <2>1, <2>2, TypeOfToken
<1>11. z = toks[pos].size
  OBVIOUS
<1>12. n + 1 \in 0..Len(a)
  BY <1>3, <1>4, NextPlace
<1> HIDE DEF hp, hq, p, fn, z, s, r, w, toks
<1>13. hq = hp \cup new
  <2>1. new \subseteq Alloc
    BY <1>1 DEF Alloc, Kind
  <2> QED
    BY <1>2, <2>1, GrownHeap DEF hp, hq
<1>14. Ahead(a, n + 1, g, hq)
  <2>1. g.fn \notin {"val", "keyval"}
    BY <1>1, <1>8 DEF Container
  <2>2. NextChild(g) = Grown(a)[n + 1].at
    BY <1>4, <1>7, <1>8, <1>9 DEF NextChild
  <2>3. hq = Grown(a)[n + 1].tree
    BY <1>4, <1>9, <1>13
  <2> QED
    BY <1>8, <1>9, <2>1, <2>2, <2>3 DEF Ahead
<1>15. Steady(frames, r, toks)
  BY <1>3, <1>9, SteadyOpens
<1>16. Holds(g, r, toks)
  <2>1. Len(p) + 1 \in 1..Len(r.open)
    BY <1>9
  <2> QED
    BY <1>7, <1>8, <1>9, <1>10, <1>11, <2>1 DEF Holds
<1>17. pos' = Len(r.tokens) + 1
  BY <1>2, <1>3, <1>9
<1>18. Follows(a, n + 1, pos', Append(Front(frames), g), "none", hq)
  BY <1>1, <1>6, <1>12, <1>14, <1>15, <1>16, <1>17, FollowsStays DEF r, toks
<1> QED
  BY <1>5, <1>12, <1>18 DEF hq

\* An object or array that goes on is the innermost one that is open.
LEMMA InnermostFrame ==
  ASSUME NEW fr, NEW bk, Chained(fr, bk), fr # << >>, fr[Len(fr)].fn \in Container,
         fr[Len(fr)].begun, NEW a, Complete(a), NEW n \in 0..Len(a),
         Steady(fr, Scanned(a)[n], AllTokens(a)), NextChild(fr[Len(fr)]) = Grown(a)[n].at,
         ~Named(a, n)
  PROVE  LET f == fr[Len(fr)]
             s == Scanned(a)[n]
         IN  /\ n < Len(a) /\ s.open # << >> /\ s.open \in Seq(Nat)
             /\ Len(f.path) + 1 = Len(s.open)
             /\ Holds(f, s, AllTokens(a))
             /\ f.done = f.size => a[n + 1] \in Close
             /\ f.done # f.size => /\ f.fn = "{" => a[n + 1] = "name"
                                   /\ f.fn = "[" => a[n + 1] \in Value
<1> DEFINE f == fr[Len(fr)]
           s == Scanned(a)[n]
           w == Grown(a)[n]
           d == Len(s.open)
           toks == AllTokens(a)
           m == a[n + 1]
<1>1. IsFrame(f) /\ Len(fr) \in 1..Len(fr)
  BY ChainFacts
<1>2. f.path \in Seq(Nat) /\ f.done \in Nat
  BY <1>1 DEF IsFrame, Path
<1>3. Len(f.path) \in Nat /\ Len(NextChild(f)) = Len(f.path) + 1
      /\ NextChild(f)[Len(f.path) + 1] = f.done + 1
  BY <1>2 DEF NextChild
<1>4. Matches(s, w, Named(a, n))
  BY PlaceFacts
<1>5. Holds(f, s, toks)
  BY <1>1 DEF Steady
<1> HIDE DEF f, s, w, toks, m
<1>6. Len(w.at) = d /\ d \in Nat /\ s.open \in Seq(Nat)
  BY <1>4, MatchesFacts
<1>7. NextChild(f) = w.at
  BY DEF f, w
<1>8. Len(f.path) + 1 = d
  BY <1>3, <1>6, <1>7
<1>9. s.open # << >>
  BY <1>3, <1>6, <1>8
<1>10. w.at[d] = f.done + 1
  BY <1>3, <1>7, <1>8
<1>11. f.size = toks[s.open[d]].size /\ f.fn = toks[s.open[d]].type
  BY <1>5, <1>8 DEF Holds
<1>12. /\ n < Len(a)
       /\ m \in Close => w.at[d] = f.size + 1
       /\ m \notin Close => w.at[d] # f.size + 1
       /\ m \notin Close /\ f.fn = "{" => m = "name"
       /\ m \notin Close /\ f.fn = "[" => m \in Value
  <2>1. LET t == toks[s.open[d]]
        IN  /\ n < Len(a)
            /\ m \in Close => w.at[d] = t.size + 1
            /\ m \notin Close => w.at[d] # t.size + 1
            /\ m \notin Close /\ t.type = "{" => m = "name"
            /\ m \notin Close /\ t.type = "[" => m \in Value
    BY <1>9, InmostFacts DEF s, w, toks, m
  <2> QED
    BY <1>11, <2>1
<1>13. f.done = f.size => m \in Close
  BY <1>10, <1>12
<1>14. f.done # f.size => m \notin Close
  <2>1. toks \in Seq(TokenOf) /\ s.open[d] \in 1..Len(toks)
    <3>1. Persists(s, toks) /\ toks \in Seq(TokenOf)
      BY PlaceFacts DEF s, toks
    <3>2. s \in Scans /\ OpenOk(s) /\ Len(s.tokens) \in Nat
      BY <1>4, MatchesFacts
    <3>3. d \in 1..d
      BY <1>3, <1>6, <1>8
    <3>4. s.open[d] \in 1..Len(s.tokens)
      BY <3>2, <3>3, OpenFacts
    <3> QED
      BY <3>1, <3>2, <3>4 DEF Persists
  <2>2. toks[s.open[d]] \in TokenOf
    BY <2>1
  <2>3. f.size \in Nat
    BY <1>11, <2>2 DEF TokenOf
  <2> SUFFICES ASSUME f.done # f.size, m \in Close PROVE FALSE
    OBVIOUS
  <2>4. w.at[d] = f.size + 1
    BY <1>12
  <2>5. f.done + 1 = f.size + 1
    BY <1>10, <2>4
  <2> QED
    BY <1>2, <2>3, <2>5
<1>15. f.fn = "{" \/ f.fn = "["
  BY DEF f, Container
<1> QED
  BY <1>5, <1>6, <1>8, <1>9, <1>12, <1>13, <1>14, <1>15 DEF f, s, toks, m

LEMMA ContainerLoopFollows ==
  ASSUME ReaderInv, ContainerLoop, back' # "null", NEW a, Complete(a), tokens = AllTokens(a),
         NEW n, Follows(a, n, pos, frames, back, heap \ Parser)
  PROVE  \E k \in 0..Len(a) : Follows(a, k, pos', frames', back', heap' \ Parser)
<1> DEFINE hp == heap \ Parser
           kind == IF Top.fn = "{" THEN "keyval" ELSE "val"
           s == Scanned(a)[n]
           r == Scanned(a)[n + 1]
           w == Grown(a)[n]
           toks == AllTokens(a)
<1>1. /\ frames # << >> /\ Top = frames[Len(frames)] /\ Top.fn \in Container
      /\ Top.begun /\ IsFrame(Top) /\ Callers = Front(frames) /\ back = "none"
      /\ Chained(frames, "none") /\ Child = NextChild(Top) /\ Child \in Path
      /\ Front(Child) = Top.path
  <2>1. In({"{", "["}) /\ Top.begun /\ back = "none"
    BY DEF ContainerLoop
  <2> QED
    BY <2>1, ContainerRuns DEF Reading
<1>2. /\ heap' = heap /\ pos' = pos
      /\ \/ Top.done = Top.size /\ Returns("ok")
         \/ Top.done # Top.size /\ Calls(Top, kind, Child)
  BY Zenon DEF ContainerLoop
<1>3. /\ n \in 0..Len(a) /\ pos = Len(s.tokens) + 1
      /\ Steady(frames, s, toks) /\ Ahead(a, n, Top, hp)
  BY <1>1 DEF Follows
<1>4. NextChild(Top) = w.at /\ hp = w.tree /\ ~Named(a, n)
  BY <1>1, <1>3 DEF Ahead
<1>5. /\ n < Len(a) /\ s.open # << >> /\ s.open \in Seq(Nat)
      /\ Len(Top.path) + 1 = Len(s.open)
      /\ Holds(Top, s, toks)
      /\ Top.done = Top.size => a[n + 1] \in Close
      /\ Top.done # Top.size => /\ Top.fn = "{" => a[n + 1] = "name"
                                /\ Top.fn = "[" => a[n + 1] \in Value
  <2> DEFINE f == frames[Len(frames)]
  <2>1. f.fn \in Container /\ f.begun /\ NextChild(f) = w.at /\ ~Named(a, n)
    BY <1>1, <1>4
  <2>2. /\ n < Len(a) /\ s.open # << >> /\ s.open \in Seq(Nat)
        /\ Len(f.path) + 1 = Len(s.open)
        /\ Holds(f, s, AllTokens(a))
        /\ f.done = f.size => a[n + 1] \in Close
        /\ f.done # f.size => /\ f.fn = "{" => a[n + 1] = "name"
                              /\ f.fn = "[" => a[n + 1] \in Value
    <3>1. n \in 0..Len(a) /\ Steady(frames, Scanned(a)[n], AllTokens(a))
      BY <1>3
    <3> QED
      BY <1>1, <2>1, <3>1, InnermostFrame, Zenon
  <2> HIDE DEF f, s, w
  <2>3. f = Top
    BY <1>1 DEF f
  <2> QED
    BY <2>2, <2>3
<1> HIDE DEF hp, kind, s, r, w, toks
<1>6. CASE Top.done = Top.size /\ Returns("ok")
  <2>1. /\ frames' = Front(frames) /\ back' = "ok"
    BY <1>1, <1>6 DEF Returns
  <2>2. a[n + 1] \in Close
    BY <1>5, <1>6
  <2>3. /\ r.tokens = s.tokens
        /\ r.open = Front(s.open)
        /\ Grown(a)[n + 1].tree = w.tree \cup Item(Front(w.at))
        /\ Whole(a, n + 1) = Front(w.at)
    BY <1>3, <1>5, <2>2, ClosePlace DEF r, s, w
  <2>4. n + 1 \in 0..Len(a) /\ n + 1 > 0
    BY <1>3, <1>5, NextPlace
  <2>5. Whole(a, n + 1) = frames[Len(frames)].path
    BY <1>1, <1>4, <2>3
  <2>6. hp \cup Item(Whole(a, n + 1)) = Grown(a)[n + 1].tree
    BY <1>4, <2>3
  <2>7. /\ Len(frames) \in Nat /\ Len(frames) > 0 /\ Popped(frames, Front(frames))
        /\ \A i \in 1..Len(frames) : IsFrame(frames[i])
    BY <1>1, ChainFacts DEF Chained
  <2>8. Steady(Front(frames), r, toks)
    BY <1>1, <1>3, <1>5, <2>3, <2>7, SteadyCloses
  <2>9. pos' = Len(r.tokens) + 1
    BY <1>2, <1>3, <2>3
  <2>10. Follows(a, n + 1, pos', Front(frames), "ok", hp)
    BY <1>1, <2>2, <2>4, <2>5, <2>6, <2>8, <2>9, FollowsReturns DEF r, toks
  <2> QED
    BY <1>2, <2>1, <2>4, <2>10 DEF hp
<1>7. CASE Top.done # Top.size /\ Calls(Top, kind, Child)
  <2> DEFINE h == Frame(kind, Child)
  <2>1. /\ frames' = Front(frames) \o <<Top, h>> /\ back' = "none"
    BY <1>1, <1>7 DEF Calls
  <2>2. Onward(Top, Top)
    BY <1>1, FrameChanges
  <2>3. /\ kind \in Fn /\ kind \in {"val", "keyval"}
        /\ Top.fn = "{" => kind = "keyval"
        /\ Top.fn = "[" => kind = "val"
    BY DEF kind, Fn
  <2>4. IsFrame(h) /\ ~h.begun /\ h.fn = kind /\ h.path = Child
    BY <1>1, <2>3, FrameIs
  <2> HIDE DEF h
  <2>5. CalledBy(Top, h)
    BY <1>1, <2>3, <2>4 DEF CalledBy, Container
  <2>6. IF h.fn = "val" THEN a[n + 1] \in Value ELSE a[n + 1] = "name"
    BY <1>1, <1>5, <1>7, <2>3, <2>4 DEF Container
  <2>7. Ahead(a, n, h, hp)
    <3>1. h.fn \notin Container
      BY <2>3, <2>4 DEF Container
    <3>2. ~h.begun /\ h.path = Grown(a)[n].at /\ hp = Grown(a)[n].tree /\ n < Len(a)
      BY <1>1, <1>4, <1>5, <2>4 DEF w
    <3> QED
      BY <2>6, <3>1, <3>2 DEF Ahead
  <2>8. Follows(a, n, pos, Front(frames) \o <<Top, h>>, "none", hp)
    BY <1>1, <1>3, <1>5, <2>2, <2>4, <2>5, <2>7, FollowsCalls DEF s, toks
  <2> QED
    BY <1>2, <1>3, <2>1, <2>8 DEF hp
<1> QED
  BY <1>2, <1>6, <1>7

\* The next child of a frame that has one child more.
LEMMA NextSibling ==
  ASSUME NEW f, IsFrame(f)
  PROVE  LET g == [f EXCEPT !.done = @ + 1]
         IN  /\ NextChild(g) = Sibling(NextChild(f)) /\ g.size = f.size
             /\ Item(NextChild(f)) = {<<"item", NextChild(f)>>}
<1> DEFINE g == [f EXCEPT !.done = @ + 1]
           S == {f.size}
           c == NextChild(f)
           q == Append(f.path, f.done + 1 + 1)
           n == Len(f.path)
<1>1. f \in FrameOf(S)
  BY DEF FrameOf, IsFrame
<1>2. f.path \in Seq(Nat) /\ n \in Nat /\ f.done + 1 \in Nat /\ f.done + 1 + 1 \in Nat
  BY DEF IsFrame, Path
<1> HIDE DEF S
<1>3. g.done = f.done + 1 /\ g.path = f.path /\ g.size = f.size
  BY <1>1 DEF FrameOf
<1>4. NextChild(g) = q
  BY <1>3 DEF NextChild
<1>5. /\ c \in Seq(Nat) /\ Len(c) = n + 1 /\ c[n + 1] = f.done + 1
      /\ \A i \in 1..n : c[i] = f.path[i]
  BY <1>2 DEF NextChild
<1>6. /\ q \in Seq(Nat) /\ Len(q) = n + 1 /\ q[n + 1] = f.done + 1 + 1
      /\ \A i \in 1..n : q[i] = f.path[i]
  BY <1>2
<1> HIDE DEF c, q, n
<1>7. /\ Sibling(c) \in Seq(Nat) /\ Len(Sibling(c)) = n + 1
      /\ \A i \in 1..(n + 1) : Sibling(c)[i] = IF i = n + 1 THEN c[i] + 1 ELSE c[i]
  BY <1>5, SiblingTyped DEF Path
<1>8. \A i \in 1..(n + 1) : i = n + 1 \/ (i \in 1..n /\ i # n + 1)
  BY <1>2
<1>9. \A i \in 1..(n + 1) : q[i] = Sibling(c)[i]
  BY <1>5, <1>6, <1>7, <1>8
<1>10. q = Sibling(c)
  BY <1>6, <1>7, <1>9, SeqEqual
<1>11. c # << >>
  BY <1>2, <1>5
<1>12. Item(c) = {<<"item", c>>}
  BY <1>11 DEF Item
<1> HIDE DEF g
<1> QED
  BY <1>3, <1>4, <1>10, <1>12 DEF g, c

LEMMA ContainerResumeFollows ==
  ASSUME ReaderInv, ContainerResume, back' # "null", NEW a, Complete(a), tokens = AllTokens(a),
         NEW n, Follows(a, n, pos, frames, back, heap \ Parser)
  PROVE  \E k \in 0..Len(a) : Follows(a, k, pos', frames', back', heap' \ Parser)
<1> DEFINE hp == heap \ Parser
           hq == heap' \ Parser
           c == Child
           new == {<<"item", c>>}
           g == [Top EXCEPT !.done = @ + 1]
           s == Scanned(a)[n]
           w == Grown(a)[n]
           toks == AllTokens(a)
<1>1. /\ back = "ok" /\ heap' = heap \cup new /\ Stays(g) /\ pos' = pos
  <2>1. ~Returns("null")
    BY DEF Returns
  <2> QED
    BY <2>1, Zenon DEF ContainerResume
<1>2. /\ frames # << >> /\ Top = frames[Len(frames)] /\ Top.fn \in Container
      /\ Top.begun /\ IsFrame(Top) /\ Callers = Front(frames)
      /\ Chained(frames, back) /\ c = NextChild(Top) /\ c \in Path
  <2>1. Resumes({"{", "["})
    BY DEF ContainerResume
  <2>2. Top.begun
    BY <2>1, ResumesReads, Zenon
  <2>3. In({"{", "["})
    BY <2>1 DEF Resumes
  <2> QED
    BY <2>2, <2>3, ContainerRuns DEF Reading
<1>3. /\ frames' = Append(Front(frames), g) /\ back' = "none"
  BY <1>1, <1>2 DEF Stays
<1>4. Onward(Top, g)
  BY <1>2, FrameChanges
<1>5. /\ NextChild(g) = Sibling(NextChild(Top)) /\ g.size = Top.size
      /\ Item(NextChild(Top)) = {<<"item", NextChild(Top)>>}
  BY <1>2, NextSibling
<1> HIDE DEF g, hp, hq, c, s, w, toks
<1>6. g.begun /\ g.fn = Top.fn /\ g.path = Top.path
  BY <1>4 DEF Onward
<1>7. /\ n \in 0..Len(a) /\ pos = Len(s.tokens) + 1
      /\ Steady(frames, s, toks) /\ Behind(a, n, frames, hp)
  BY <1>1 DEF Follows, s, toks, hp
<1>8. /\ n > 0 /\ a[n] \in Scalar \cup Close
      /\ hp \cup Item(Whole(a, n)) = w.tree
      /\ Whole(a, n) = NextChild(Top)
  BY <1>2, <1>7 DEF Behind, Awaits, w
<1>9. w.at = Sibling(Whole(a, n)) /\ ~Named(a, n)
  BY <1>7, <1>8, WholePlace DEF w
<1>10. hq = hp \cup new
  <2>1. new \subseteq Alloc
    BY <1>2 DEF Alloc, Kind
  <2> QED
    BY <1>1, <2>1, GrownHeap DEF hp, hq
<1>11. hq = w.tree
  BY <1>2, <1>5, <1>8, <1>10
<1>12. NextChild(g) = w.at
  BY <1>5, <1>8, <1>9
<1>13. Ahead(a, n, g, hq)
  <2>1. g.fn \notin {"val", "keyval"}
    BY <1>2, <1>6 DEF Container
  <2> QED
    BY <1>6, <1>9, <1>11, <1>12, <2>1 DEF Ahead, w
<1>14. Holds(g, s, toks)
  <2>1. Len(frames) \in 1..Len(frames)
    BY <1>2, ChainFacts
  <2>2. Holds(Top, s, toks)
    BY <1>2, <1>7, <2>1 DEF Steady
  <2> QED
    BY <1>5, <1>6, <2>2 DEF Holds
<1>15. Follows(a, n, pos, Append(Front(frames), g), "none", hq)
  BY <1>2, <1>4, <1>7, <1>13, <1>14, FollowsStays DEF s, toks
<1> QED
  BY <1>1, <1>3, <1>7, <1>15 DEF hq

\* The reader begins before the first mark, and ends after the last.
LEMMA FollowsRoot ==
  ASSUME NEW a, Complete(a), AllTokens(a) # << >>, NEW h, h = Frame("val", << >>)
  PROVE  Follows(a, 0, 1, <<h>>, "none", {})
<1> DEFINE fr == <<h>>
<1>1. Len(a) \in Nat /\ a \in Seq(Mark)
  <2>1. a \in Seq(Mark)
    BY BeadsAreMarks DEF Complete, Sound
  <2> QED
    BY <2>1
<1>2. Scanned(a)[0] = ScanStart /\ Grown(a)[0] = TreeStart /\ 0 \in 0..Len(a)
  BY <1>1, ScannedUnfolds, GrownUnfolds
<1>3. Scanned(a)[0].tokens = << >> /\ Scanned(a)[0].open = << >>
      /\ Grown(a)[0].at = << >> /\ Grown(a)[0].tree = {}
  BY <1>2 DEF ScanStart, TreeStart
<1>4. Len(a) # 0
  BY <1>3 DEF AllTokens
<1>5. 0 < Len(a)
  BY <1>1, <1>4
<1>6. Goes(Scanned(a)[0], Named(a, 0), a[0 + 1])
  BY <1>2, <1>5, PlaceFacts
<1>7. a[0 + 1] \in Value
  BY <1>3, <1>6 DEF Goes, Follow
<1>8. h.fn = "val" /\ ~h.begun /\ h.path = << >>
  BY DEF Frame
<1>9. Ahead(a, 0, h, {})
  <2>1. h.fn \notin Container
    BY <1>8 DEF Container
  <2> QED
    BY <1>3, <1>5, <1>7, <1>8, <2>1 DEF Ahead
<1>10. fr # << >> /\ Len(fr) = 1 /\ fr[1] = h
  OBVIOUS
<1> HIDE DEF fr
<1>11. \A i \in 1..Len(fr) : i = 1
  BY <1>10
<1>12. \A i, j \in 1..Len(fr) : ~(i < j)
  BY <1>10
<1>13. Steady(fr, Scanned(a)[0], AllTokens(a))
  BY <1>8, <1>10, <1>11, <1>12 DEF Steady
<1>14. 1 = Len(Scanned(a)[0].tokens) + 1
  BY <1>3
<1>15. Ahead(a, 0, fr[Len(fr)], {})
  BY <1>9, <1>10
<1> QED
  BY <1>2, <1>10, <1>13, <1>14, <1>15 DEF Follows, fr

LEMMA FollowsEnds ==
  ASSUME NEW a, Complete(a), NEW n, NEW ps, NEW hp, Follows(a, n, ps, << >>, "ok", hp)
  PROVE  hp = TreeOf(a)
<1>1. /\ n \in 0..Len(a) /\ Behind(a, n, << >>, hp)
  BY DEF Follows
<1>2. /\ n > 0 /\ a[n] \in Scalar \cup Close
      /\ hp \cup Item(Whole(a, n)) = Grown(a)[n].tree
      /\ Whole(a, n) = << >>
  BY <1>1 DEF Behind, Awaits
<1>3. hp = Grown(a)[n].tree
  BY <1>2 DEF Item
<1>4. Grown(a)[n].at = << >>
  BY <1>1, <1>2, WholePlace DEF Sibling
<1>5. Scanned(a)[n].open = << >>
  <2> DEFINE s == Scanned(a)[n]
             w == Grown(a)[n]
  <2>1. Matches(s, w, Named(a, n))
    BY <1>1, PlaceFacts
  <2>2. w.at = << >>
    BY <1>4
  <2> HIDE DEF s, w
  <2>3. Len(w.at) = Len(s.open) /\ s.open \in Seq(Nat)
    BY <2>1, MatchesFacts
  <2>4. s.open = << >>
    BY <2>2, <2>3
  <2> QED
    BY <2>4 DEF s
<1>6. n = Len(a)
  <2>1. n = 0 \/ n = Len(a)
    BY <1>1, <1>5, PlaceFacts
  <2> QED
    BY <1>2, <2>1
<1> QED
  BY <1>3, <1>6 DEF TreeOf

-----------------------------------------------------------------------------
(* The reader of a text that the stream gave out: it is at a place in the marks
   of the calls, and its heap is what they mean so far. *)
FromStream == Ready /\ tokens = Tokens(text)

RoundInv ==
  /\ outcome = "none" => pos = 1
  /\ FromStream /\ back # "null" =>
       /\ outcome = "reading" =>
            \E n \in 0..Len(asked) : Follows(asked, n, pos, frames, back, heap \ Parser)
       /\ outcome = "tree" => heap = TreeOf(asked)

\* The functions that read tokens.
FrameStep ==
  \/ ValEnter \/ ValResume
  \/ KeyvalEnter \/ KeyvalResume
  \/ ContainerEnter \/ ContainerLoop \/ ContainerResume

LEMMA FrameStepReads ==
  ASSUME ReaderInv, FrameStep
  PROVE  outcome = "reading" /\ outcome' = "reading" /\ tokens' = tokens
         /\ (back' # "null" => back # "null")
<1>1. ASSUME NEW fns, Enters(fns) PROVE outcome = "reading" /\ back = "none"
  BY <1>1, EntersReads DEF Enters, In
<1>2. ASSUME NEW fns, Resumes(fns) PROVE outcome = "reading"
  BY <1>2 DEF Resumes, In
<1>3. CASE ValEnter
  BY <1>1, <1>3 DEF ValEnter
<1>4. CASE ValResume
  BY <1>2, <1>4 DEF ValResume, Returns
<1>5. CASE KeyvalEnter
  BY <1>1, <1>5 DEF KeyvalEnter
<1>6. CASE KeyvalResume
  BY <1>2, <1>6 DEF KeyvalResume, Returns
<1>7. CASE ContainerEnter
  BY <1>1, <1>7 DEF ContainerEnter
<1>8. CASE ContainerLoop
  BY <1>8 DEF ContainerLoop, In
<1>9. CASE ContainerResume
  BY <1>2, <1>9 DEF ContainerResume, Returns
<1> QED
  BY <1>3, <1>4, <1>5, <1>6, <1>7, <1>8, <1>9 DEF FrameStep

LEMMA FrameStepFollows ==
  ASSUME ReaderInv, FrameStep, back' # "null", NEW a, Complete(a), tokens = AllTokens(a),
         NEW n, Follows(a, n, pos, frames, back, heap \ Parser)
  PROVE  \E k \in 0..Len(a) : Follows(a, k, pos', frames', back', heap' \ Parser)
BY ValEnterFollows, ValResumeFollows, KeyvalEnterFollows, KeyvalResumeFollows,
   ContainerEnterFollows, ContainerLoopFollows, ContainerResumeFollows DEF FrameStep

LEMMA FromStreamComplete ==
  ASSUME StreamInv, FromStream
  PROVE  Complete(asked) /\ tokens = AllTokens(asked)
BY ReadyComplete DEF FromStream, AllTokens

LEMMA FrameStepRounds ==
  ASSUME StreamInv, ReaderInv, RoundInv, FrameStep, UNCHANGED stream
  PROVE  RoundInv'
<1>1. outcome = "reading" /\ outcome' = "reading" /\ tokens' = tokens
      /\ (back' # "null" => back # "null")
  BY FrameStepReads
<1>2. (FromStream' <=> FromStream) /\ asked' = asked
  BY <1>1 DEF FromStream, Ready, stream
<1>3. ASSUME FromStream', back' # "null"
      PROVE  \E k \in 0..Len(asked) : Follows(asked, k, pos', frames', back', heap' \ Parser)
  <2>1. FromStream /\ back # "null"
    BY <1>1, <1>2, <1>3
  <2>2. Complete(asked) /\ tokens = AllTokens(asked)
    BY <2>1, FromStreamComplete
  <2>3. PICK n \in 0..Len(asked) : Follows(asked, n, pos, frames, back, heap \ Parser)
    BY <1>1, <2>1 DEF RoundInv
  <2> QED
    BY <1>3, <2>2, <2>3, FrameStepFollows
<1> QED
  BY <1>1, <1>2, <1>3 DEF RoundInv

LEMMA ImportRounds ==
  ASSUME StreamInv, ReaderInv, RoundInv, NEW t, Import(t), UNCHANGED stream
  PROVE  RoundInv'
<1> DEFINE h == Frame("val", << >>)
<1>1. heap = {} /\ outcome = "none" /\ back = "none" /\ pos = 1
  BY DEF Import, ReaderInv, RoundInv
<1>2. /\ tokens' = t /\ pos' = 1 /\ back' = "none"
      /\ \/ t # << >> /\ heap' = heap \cup Parser /\ frames' = <<h>> /\ outcome' = "reading"
         \/ outcome' = "null"
  BY <1>1, Zenon DEF Import
<1>3. CASE outcome' = "null"
  BY <1>3 DEF RoundInv
<1>4. CASE t # << >> /\ heap' = heap \cup Parser /\ frames' = <<h>> /\ outcome' = "reading"
  <2>1. heap' \ Parser = {}
    BY <1>1, <1>4
  <2>2. ASSUME FromStream'
        PROVE  \E n \in 0..Len(asked') : Follows(asked', n, pos', frames', back', heap' \ Parser)
    <3>1. /\ Ready /\ tokens' = Tokens(text) /\ asked' = asked
      BY <2>2 DEF FromStream, Ready, stream
    <3>2. Complete(asked) /\ Tokens(text) = AllTokens(asked)
      BY <3>1, ReadyComplete DEF AllTokens
    <3>3. AllTokens(asked) # << >>
      BY <1>2, <1>4, <3>1, <3>2
    <3> HIDE DEF h
    <3>4. Follows(asked, 0, 1, <<h>>, "none", {})
      BY <3>2, <3>3, FollowsRoot DEF h
    <3>5. 0 \in 0..Len(asked)
      BY <3>4 DEF Follows
    <3> QED
      BY <1>2, <1>4, <2>1, <3>1, <3>4, <3>5
  <2> QED
    BY <1>4, <2>2 DEF RoundInv
<1> QED
  BY <1>2, <1>3, <1>4

LEMMA ImportedRounds ==
  ASSUME StreamInv, ReaderInv, RoundInv, Imported, UNCHANGED stream
  PROVE  RoundInv'
<1>1. /\ outcome = "reading" /\ frames = << >> /\ heap' = heap \ Parser
      /\ outcome' = IF back = "ok" THEN "tree" ELSE "null"
      /\ back' = back /\ tokens' = tokens
  BY DEF Imported
<1>2. (FromStream' <=> FromStream) /\ asked' = asked
  BY <1>1 DEF FromStream, Ready, stream
<1>3. ASSUME FromStream', outcome' = "tree"
      PROVE  heap' = TreeOf(asked')
  <2>1. FromStream /\ back = "ok"
    BY <1>1, <1>2, <1>3
  <2>2. Complete(asked)
    BY <2>1, FromStreamComplete
  <2>3. PICK n \in 0..Len(asked) : Follows(asked, n, pos, frames, back, heap \ Parser)
    BY <1>1, <2>1 DEF RoundInv
  <2>4. Follows(asked, n, pos, << >>, "ok", heap \ Parser)
    BY <1>1, <2>1, <2>3
  <2>5. heap \ Parser = TreeOf(asked)
    BY <2>2, <2>4, FollowsEnds
  <2> QED
    BY <1>1, <1>2, <2>5
<1>4. outcome' # "none" /\ outcome' # "reading"
  BY <1>1
<1> QED
  BY <1>3, <1>4 DEF RoundInv

LEMMA RoundStep ==
  ASSUME StreamInv, ReaderInv, RoundInv, [Next]_vars
  PROVE  RoundInv'
<1>1. CASE outcome = "none" /\ UNCHANGED reader
  <2>1. outcome' = "none" /\ pos' = pos
    BY <1>1 DEF reader
  <2> QED
    BY <1>1, <2>1 DEF RoundInv
<1>2. CASE \E t : Import(t) /\ UNCHANGED stream
  BY <1>2, ImportRounds
<1>3. CASE ReaderNext /\ UNCHANGED stream
  <2>1. CASE FrameStep
    BY <1>3, <2>1, FrameStepRounds
  <2>2. CASE Imported
    BY <1>3, <2>2, ImportedRounds
  <2>3. CASE Discard
    <3>1. outcome' = "none" /\ pos' = 1
      BY <2>3 DEF Discard
    <3> QED
      BY <3>1 DEF RoundInv
  <2> QED
    BY <1>3, <2>1, <2>2, <2>3 DEF ReaderNext, FrameStep
<1>4. CASE UNCHANGED vars
  <2>1. UNCHANGED <<tokens, pos, frames, back, heap, outcome, text, asked>>
        /\ (Ready' <=> Ready)
    BY <1>4 DEF vars, reader, stream, Ready
  <2> QED
    BY <2>1 DEF RoundInv, FromStream
<1> QED
  BY <1>1, <1>2, <1>3, <1>4 DEF Next, WriteStep, Read, ReadForeign, ReadStep, Renew

(* While a text that the stream gave out is read, the reader stands at a place
   in the marks of the calls that wrote it: its next token is that of the next
   mark, the objects and arrays it is in are the brackets still open there, with
   all their children counted, and its heap is the tree of the marks so far; over
   calls in any order and at any depth (cc_jsmnWrapper.c:220, :318, :413). *)
THEOREM JsonFollows == Spec => []RoundInv
<1>1. Init => RoundInv
  BY DEF Init, ReaderInit, RoundInv
<1>2. StreamInv /\ ReaderInv /\ RoundInv /\ [Next]_vars => RoundInv'
  BY RoundStep
<1> QED
  BY <1>1, <1>2, JsonStreamInvariant, JsonTreeInvariant, PTL DEF Spec

(* The tree that is read from what the stream gives out has the objects, arrays,
   names and values of the calls, in their order and as they were nested, and
   nothing else, for any calls (cc_jsmnStream.c:167, cc_jsmnWrapper.c:220). *)
THEOREM JsonRoundTrip == Spec => []RoundTrip
<1>1. ReaderInv /\ RoundInv => RoundTrip
  <2> SUFFICES ASSUME ReaderInv, RoundInv, outcome = "tree", Ready, tokens = Tokens(text)
               PROVE  heap = TreeOf(asked)
    BY DEF RoundTrip
  <2>1. back = "ok"
    BY DEF ReaderInv
  <2> QED
    BY <2>1 DEF RoundInv, FromStream
<1> QED
  BY <1>1, JsonTreeInvariant, JsonFollows, PTL

=============================================================================
