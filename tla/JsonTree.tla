------------------------------ MODULE JsonTree ------------------------------
(***************************************************************************)
(* cc_jsmnWrapper: the tree of values that cc_jsmnVal_new builds from the  *)
(* tokens of the parser jsmn, and its unwinding when an allocation fails.  *)
(* The functions that call each other are frames of a stack, and an action *)
(* is the code of one of them between two calls.                           *)
(*                                                                         *)
(* An allocation is a kind and the path of the value it belongs to: the    *)
(* numbers of the children that lead there from the root.  The structures  *)
(* of an object and an array, and the data of a value, have its type for a *)
(* kind.                                                                   *)
(***************************************************************************)
EXTENDS Integers, Sequences, SequencesExt

VARIABLES
  tokens,   \* self->tokens: the type of each and its number of children
  pos,      \* self->pos, the next token
  frames,   \* the functions called, the current one last
  back,     \* what a function that was called returned: "ok", "null" or "none"
  heap,     \* what is allocated
  outcome   \* of an import: "none", "reading", "tree" or "null"

reader == <<tokens, pos, frames, back, heap, outcome>>

ReaderInit ==
  /\ tokens = << >>
  /\ pos = 1
  /\ frames = << >>
  /\ back = "none"
  /\ heap = {}
  /\ outcome = "none"

Frame(fn, path) == [fn |-> fn, path |-> path, begun |-> FALSE, size |-> 0, done |-> 0]
Top == frames[Len(frames)]
Callers == Front(frames)
Started(frame) == [frame EXCEPT !.begun = TRUE]

\* A frame goes on, calls, or returns.
Stays(frame) == frames' = Append(Callers, frame) /\ back' = "none"
Calls(frame, fn, path) ==
  frames' = Callers \o <<frame, Frame(fn, path)>> /\ back' = "none"
Returns(r) == frames' = Callers /\ back' = r

In(fns) == outcome = "reading" /\ frames # << >> /\ Top.fn \in fns
Enters(fns) == In(fns) /\ ~Top.begun
Resumes(fns) == In(fns) /\ back # "none"

\* The next token, if there is one.
TokenIs(type) == pos <= Len(tokens) /\ tokens[pos].type \in type

\* The value at a path with all that it holds, as the deletes free it.
Tree(p) == {a \in heap : IsPrefix(p, a[2])} \ {<<"item", p>>}

-----------------------------------------------------------------------------
(* cc_jsmnVal_new with cc_jsmnWrapper_new.  No tokens stand for a text that
   jsmn does not take. *)
Parser == {<<"wrapper", << >>>>, <<"tokens", << >>>>}

Import(t) ==
  /\ outcome = "none"
  /\ tokens' = t
  /\ \/ /\ t # << >>
        /\ heap' = heap \cup Parser
        /\ frames' = <<Frame("val", << >>)>>
        /\ outcome' = "reading"
     \/ /\ outcome' = "null"
        /\ UNCHANGED <<heap, frames>>
  /\ UNCHANGED <<pos, back>>

Imported ==
  /\ outcome = "reading" /\ frames = << >>
  /\ heap' = heap \ Parser
  /\ outcome' = IF back = "ok" THEN "tree" ELSE "null"
  /\ UNCHANGED <<tokens, pos, frames, back>>

\* The client deletes its tree, or has none.
Discard ==
  /\ outcome \in {"tree", "null"}
  /\ heap' = IF outcome = "tree" THEN heap \ Tree(<< >>) ELSE heap
  /\ outcome' = "none"
  /\ tokens' = << >> /\ pos' = 1 /\ back' = "none"
  /\ UNCHANGED frames

-----------------------------------------------------------------------------
(* cc_jsmnVal_wrap.  The first disjunct of each Enter is the function that
   returns NULL before it calls another, having freed what it allocated. *)
ValEnter ==
  LET p == Top.path
  IN  /\ Enters({"val"})
      /\ \/ UNCHANGED <<heap, pos>> /\ Returns("null")
         \/ /\ TokenIs({"{", "["})
            /\ heap' = heap \cup {<<"val", p>>}
            /\ Calls(Started(Top), tokens[pos].type, p)
            /\ UNCHANGED pos
         \/ /\ TokenIs({"string", "primitive"})
            /\ heap' = heap \cup {<<"val", p>>, <<tokens[pos].type, p>>}
            /\ pos' = pos + 1
            /\ Returns("ok")
      /\ UNCHANGED <<tokens, outcome>>

ValResume ==
  /\ Resumes({"val"})
  /\ heap' = IF back = "ok" THEN heap ELSE heap \ {<<"val", Top.path>>}
  /\ Returns(back)
  /\ UNCHANGED <<tokens, pos, outcome>>

(* cc_jsmnKeyval_wrap.  A name that is no string is an error of its own. *)
KeyvalEnter ==
  LET p == Top.path
  IN  /\ Enters({"keyval"})
      /\ \/ UNCHANGED <<heap, pos>> /\ Returns("null")
         \/ /\ TokenIs({"{", "[", "primitive"})
            /\ pos' = pos + 1
            /\ Returns("null")
            /\ UNCHANGED heap
         \/ /\ TokenIs({"string"})
            /\ heap' = heap \cup {<<"keyval", p>>, <<"name", p>>}
            /\ pos' = pos + 1
            /\ Calls(Started(Top), "val", p)
      /\ UNCHANGED <<tokens, outcome>>

KeyvalResume ==
  LET p == Top.path
  IN  /\ Resumes({"keyval"})
      /\ heap' = IF back = "ok" THEN heap
                 ELSE heap \ {<<"keyval", p>>, <<"name", p>>}
      /\ Returns(back)
      /\ UNCHANGED <<tokens, pos, outcome>>

-----------------------------------------------------------------------------
(* cc_jsmnObject_wrap and cc_jsmnArray_wrap. *)
ContainerEnter ==
  LET p == Top.path
  IN  /\ Enters({"{", "["})
      /\ \/ UNCHANGED <<heap, pos>> /\ Returns("null")
         \/ /\ heap' = heap \cup {<<Top.fn, p>>, <<"list", p>>}
            /\ pos' = pos + 1
            /\ Stays([Started(Top) EXCEPT !.size = tokens[pos].size])
      /\ UNCHANGED <<tokens, outcome>>

\* The next child.  Mutant: it goes to the head of the list.
MutantChild == Append(Top.path, Top.size - Top.done)
Child == Append(Top.path, Top.done + 1)

ContainerLoop ==
  /\ In({"{", "["}) /\ Top.begun /\ back = "none"
  /\ IF Top.done = Top.size THEN Returns("ok")
     ELSE Calls(Top, IF Top.fn = "{" THEN "keyval" ELSE "val", Child)
  /\ UNCHANGED <<tokens, pos, heap, outcome>>

(* What a failure frees: the children in the list, the list and the structure;
   and before them, at fail_append, the child that is in no list yet.
   Mutant: the child is passed by. *)
Listed == UNION {Tree(Append(Top.path, i)) \cup {<<"item", Append(Top.path, i)>>} :
                 i \in 1..Top.done}
Undone == Listed \cup {<<"list", Top.path>>, <<Top.fn, Top.path>>}

MutantUnlisted == {}
Unlisted == Tree(Child)

ContainerResume ==
  /\ Resumes({"{", "["})
  /\ \/ /\ back = "ok"
        /\ heap' = heap \cup {<<"item", Child>>}
        /\ Stays([Top EXCEPT !.done = @ + 1])
     \/ /\ back = "ok"
        /\ heap' = heap \ (Unlisted \cup Undone)
        /\ Returns("null")
     \/ /\ back = "null"
        /\ heap' = heap \ Undone
        /\ Returns("null")
  /\ UNCHANGED <<tokens, pos, outcome>>

ReaderNext ==
  \/ ValEnter \/ ValResume
  \/ KeyvalEnter \/ KeyvalResume
  \/ ContainerEnter \/ ContainerLoop \/ ContainerResume
  \/ Imported \/ Discard

-----------------------------------------------------------------------------
\* What points to an allocation.
Holder(a) ==
  LET p == a[2]
  IN  CASE a[1] = "val" -> IF <<"keyval", p>> \in heap THEN <<"keyval", p>> ELSE <<"item", p>>
        [] a[1] = "keyval" -> <<"item", p>>
        [] a[1] = "name" -> <<"keyval", p>>
        [] a[1] = "item" -> <<"list", Front(p)>>
        [] a[1] = "list" -> IF <<"{", p>> \in heap THEN <<"{", p>> ELSE <<"[", p>>
        [] OTHER -> <<"val", p>>

(* An import that fails, at whatever depth and allocation, leaves nothing; one
   that succeeds leaves the tree, in which each part hangs on another; and
   deleting the tree frees all of it (cc_jsmnWrapper.c:230, :328, :680). *)
TreeOwned ==
  /\ outcome \in {"none", "null"} => heap = {}
  /\ outcome = "tree" =>
       /\ <<"val", << >>>> \in heap
       /\ \A a \in heap \ {<<"val", << >>>>} : Holder(a) \in heap

=============================================================================
