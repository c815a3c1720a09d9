------------------------------- MODULE LuaJson -------------------------------
(***************************************************************************)
(* push_json and pop_json of core/luafunction/luafunction.cpp: a JSON      *)
(* value is put on the stack of a Lua state, and read back from it.        *)
(*                                                                         *)
(* The Lua state is a stack of values and a heap of tables; a table on the *)
(* stack is a reference, and lua_rawseti and lua_setfield change the table *)
(* below the top, whichever that is.  lua_next is modelled from its use:   *)
(* it visits the numbers of a table in ascending order.                    *)
(***************************************************************************)
EXTENDS Naturals, Integers, Sequences, FiniteSets, FiniteSetsExt, SequencesExt

CONSTANTS MaxDepth   \* bound on the nesting of values

ASSUME LuaAssumption == MaxDepth \in Nat

VARIABLES doc   \* a JSON value, and its depth

-----------------------------------------------------------------------------
(* Values of both sides: scalars are the same records; JSON has arrays and   *)
(* objects, Lua has references to tables.                                    *)

Null == [t |-> "null"]
Bool(b) == [t |-> "bool", b |-> b]
Num(n) == [t |-> "num", n |-> n]
Str(s) == [t |-> "str", s |-> s]
Arr(e) == [t |-> "arr", e |-> e]
Obj(m) == [t |-> "obj", m |-> m]
Ref(r) == [t |-> "ref", r |-> r]

Index(i) == <<"number", i>>
Field(k) == <<"string", k>>

-----------------------------------------------------------------------------
(* The Lua interface, on a state L. *)

LuaPush(L, v) == [L EXCEPT !.stack = Append(@, v)]

LuaCreateTable(L) == [stack |-> Append(L.stack, Ref(Len(L.heap) + 1)), heap |-> Append(L.heap, << >>)]

\* lua_rawseti(L, -2, i) and lua_setfield(L, -2, k) pop the top into the table below
\* it; nil removes the entry.
LuaSet(L, key) ==
  LET value == Last(L.stack)
      r == L.stack[Len(L.stack) - 1].r
      keys == IF value = Null THEN DOMAIN L.heap[r] \ {key} ELSE DOMAIN L.heap[r] \cup {key}
  IN  [stack |-> Front(L.stack),
       heap |-> [L.heap EXCEPT ![r] = [k \in keys |-> IF k = key THEN value ELSE L.heap[r][k]]]]

-----------------------------------------------------------------------------
(* push_json returns the state and the count. *)

RECURSIVE PushJson(_, _)

\* An element that was pushed is set in the table; one that was not is skipped.
PushInto(S, v, key) ==
  LET P == PushJson(S.L, v)
  IN  IF P.count > 0 THEN [L |-> LuaSet(P.L, key), count |-> S.count + 1] ELSE [S EXCEPT !.L = P.L]

\* An object counts itself.
PushObject(L, obj) ==
  FoldLeft(LAMBDA S, k : PushInto(S, obj.m[k], Field(k)),
           [L |-> LuaCreateTable(L), count |-> 1], SetToSeq(DOMAIN obj.m))

\* Mutant: the table of an array is created before its size is known.
PushArray_Always(L, obj) ==
  FoldLeft(LAMBDA S, i : PushInto(S, obj.e[i], Index(i)),
           [L |-> LuaCreateTable(L), count |-> 0], [i \in DOMAIN obj.e |-> i])

\* An array counts its elements only, and has no table if it is empty.
PushArray(L, obj) ==
  FoldLeft(LAMBDA S, i : PushInto(S, obj.e[i], Index(i)),
           [L |-> IF Len(obj.e) > 0 THEN LuaCreateTable(L) ELSE L, count |-> 0],
           [i \in DOMAIN obj.e |-> i])

PushJson(L, obj) ==
  CASE obj.t = "arr" -> PushArray(L, obj)
    [] obj.t = "obj" -> PushObject(L, obj)
    [] OTHER -> [L |-> LuaPush(L, obj), count |-> 1]

-----------------------------------------------------------------------------
(* pop_json of the value v.  lua_toboolean returns an int, and an empty table *)
(* leaves the result null.  The first key of a table tells an array from an   *)
(* object.                                                                    *)

RECURSIVE PopJson(_, _)

PopJson(L, v) ==
  CASE v.t = "bool" -> Num(IF v.b THEN 1 ELSE 0)
    [] v.t = "ref" ->
         LET table == L.heap[v.r]
             keys == DOMAIN table
             numbers == SetToSortSeq({k[2] : k \in keys}, <)
         IN  IF keys = {} THEN Null
             ELSE IF \A k \in keys : k[1] = "number"
               THEN Arr([i \in DOMAIN numbers |-> PopJson(L, table[Index(numbers[i])])])
             ELSE Obj([k \in {k[2] : k \in keys} |-> PopJson(L, table[Field(k)])])
    [] OTHER -> v

-----------------------------------------------------------------------------
(* JSON values, nested in each other. *)

\* A number passes as a string does, and is what a boolean comes back as.
Scalars == {Null, Bool(TRUE), Str("s")}
Empties == {Arr(<< >>), Obj(<< >>)}

LuaInit == doc \in [value : Scalars \cup Empties, depth : {0}]

\* The value becomes an element or a member, alone or with another value.
Nest(v) == doc.depth < MaxDepth /\ doc' = [value |-> v, depth |-> doc.depth + 1]

LuaNext == \/ Nest(Arr(<<doc.value>>))
           \/ \E v \in Scalars \cup Empties : \/ Nest(Arr(<<doc.value, v>>))
                                              \/ Nest(Arr(<<v, doc.value>>))
                                              \/ Nest(Obj([x |-> doc.value, y |-> v]))
           \/ Nest(Obj([x |-> doc.value]))

LuaSpec == LuaInit /\ [][LuaNext]_doc

-----------------------------------------------------------------------------
(* Correctness. *)

RECURSIVE Parts(_)
\* A value and all values in it.
Parts(v) == {v} \cup (CASE v.t = "arr" -> UNION {Parts(v.e[i]) : i \in DOMAIN v.e}
                        [] v.t = "obj" -> UNION {Parts(v.m[k]) : k \in DOMAIN v.m}
                        [] OTHER -> {})

\* An array that has elements, all of them empty arrays: push_json counts 0 and leaves
\* its table on the stack.
Hollow(v) == v.t = "arr" /\ v.e # << >> /\ \A i \in DOMAIN v.e : v.e[i] = Arr(<< >>)

Pushed == PushJson([stack |-> << >>, heap |-> << >>], doc.value)
NoHollow == \A v \in Parts(doc.value) : ~Hollow(v)

\* Without such an array, push_json leaves the stack one higher if it returns more
\* than 0 and as it was otherwise, so that every element is set in the table it
\* belongs to (luafunction.cpp:28-59).
LuaStackIsBalanced ==
  NoHollow => Len(Pushed.L.stack) = IF Pushed.count > 0 THEN 1 ELSE 0

\* What comes back of a value: nulls and empty arrays vanish from their containers, a
\* container that has nothing left is null, a boolean is a number.
RECURSIVE Survives(_)
Survives(v) ==
  LET stays(w) == w # Null /\ w # Arr(<< >>)
  IN  CASE v.t = "bool" -> Num(IF v.b THEN 1 ELSE 0)
        [] v.t = "arr" -> LET kept == SelectSeq(v.e, stays)
                          IN  IF kept = << >> THEN Null
                              ELSE Arr([i \in DOMAIN kept |-> Survives(kept[i])])
        [] v.t = "obj" -> LET kept == {k \in DOMAIN v.m : stays(v.m[k])}
                          IN  IF kept = {} THEN Null ELSE Obj([k \in kept |-> Survives(v.m[k])])
        [] OTHER -> v

\* The stack is balanced, and pop_json reads back what push_json has pushed
\* (luafunction.cpp:5-128).
LuaRoundTrip ==
  /\ LuaStackIsBalanced
  /\ NoHollow /\ Pushed.count > 0 =>
       PopJson(Pushed.L, Last(Pushed.L.stack)) = Survives(doc.value)
=============================================================================
