------------------------------- MODULE ScriptValues -------------------------------
(***********************************************************************************)
(* thread:get(name) and thread:set(name, value): script_copy_value copies a value  *)
(* from the stack of one Lua state to the stack of another (script.c).  A stack is *)
(* a sequence whose last element is its top; a table is a name in the heap, where  *)
(* its pairs stand in the order in which lua_next returns them.                    *)
(***********************************************************************************)
EXTENDS Integers, Sequences, SequencesExt

CONSTANTS
    Globals,   \* the values that a script transfers
    Tables,    \* the tables among them and within them: from names to sequences of pairs
    Fresh      \* bound: names for the tables that are made

VARIABLES
    op, value, \* the call: get or set, and what it transfers
    src, dst,  \* the stacks
    heap,      \* the tables of both states
    calls,     \* the calls of script_copy_value under way: their index and where they are
    outcome    \* "copying", "done", or "undefined": the stack was used outside its bounds

vars == <<op, value, src, dst, heap, calls, outcome>>

Nil == "nil"
Pair(k, v) == [k |-> k, v |-> v]

\* What a C function finds below the value: nothing, or its other arguments.
Below == [get |-> <<>>, set |-> <<"thread", "name">>]
Ops   == DOMAIN Below

\* A stack without its n topmost elements, and the element at a negative index.
Popped(stack, n) == SubSeq(stack, 1, Len(stack) - n)
Has(stack, i)    == Len(stack) + i + 1 > 0
At(stack, i)     == stack[Len(stack) + i + 1]
Call(i)          == [index |-> i, at |-> "entry"]
Goto(cs, place)  == Append(Front(cs), [Last(cs) EXCEPT !.at = place])

-----------------------------------------------------------------------------------
(* script_copy_value.                                                                *)

Running(place) == outcome = "copying" /\ calls # <<>> /\ Last(calls).at = place
Index == Last(calls).index

CopyScalar ==
    /\ Running("entry") /\ Has(src, Index) /\ At(src, Index) \notin DOMAIN heap
    /\ dst' = Append(dst, At(src, Index)) /\ calls' = Front(calls)
    /\ UNCHANGED <<op, value, src, heap, outcome>>

NewTable == /\ Running("entry") /\ Has(src, Index) /\ At(src, Index) \in DOMAIN heap
            /\ LET t == CHOOSE t \in Fresh \ DOMAIN heap : TRUE IN
               /\ heap' = [u \in DOMAIN heap \cup {t} |-> IF u = t THEN <<>> ELSE heap[u]]
               /\ dst' = Append(dst, t)
            /\ src' = Append(src, Nil) /\ calls' = Goto(calls, "next")
            /\ UNCHANGED <<op, value, outcome>>

\* lua_next(src, index - 1): the key on top is replaced by the next pair.
Table == heap[At(src, Index - 1)]
Rest  == IF Last(src) = Nil THEN Table
         ELSE SubSeq(Table, 1 + CHOOSE i \in DOMAIN Table : Table[i].k = Last(src), Len(Table))
IsTable == Has(src, Index - 1) /\ At(src, Index - 1) \in DOMAIN heap

\* script_copy_value(src, dst, -1), of the value.
NextPair ==
    /\ Running("next") /\ IsTable /\ Rest # <<>>
    /\ src' = Popped(src, 1) \o <<Head(Rest).k, Head(Rest).v>>
    /\ calls' = Append(Goto(calls, "key"), Call(-1))
    /\ UNCHANGED <<op, value, dst, heap, outcome>>

\* script_copy_value(src, dst, -2), of what is below the top now.
Key == /\ Running("key") /\ calls' = Append(Goto(calls, "set"), Call(-2))
       /\ UNCHANGED <<op, value, src, dst, heap, outcome>>

\* lua_settable(dst, -3): what is on top is the value, what is below it the key.
SetTable ==
    /\ Running("set")
    /\ LET t == At(dst, -3)
           others == SelectSeq(heap[t], LAMBDA p : p.k # At(dst, -2)) IN
       heap' = [heap EXCEPT ![t] = Append(others, Pair(At(dst, -2), At(dst, -1)))]
    /\ dst' = Popped(dst, 2) /\ src' = Popped(src, 1) /\ calls' = Goto(calls, "next")
    /\ UNCHANGED <<op, value, outcome>>

\* lua_next has popped the last key; lua_pop(src, 1).
EndOfTable ==
    /\ Running("next") /\ IsTable /\ Rest = <<>>
    /\ src' = Popped(src, 2) /\ calls' = Front(calls)
    /\ UNCHANGED <<op, value, dst, heap, outcome>>

\* An index below the stack, lua_next of what is no table, or a value popped twice.
Undefined ==
    /\ \/ Running("entry") /\ ~Has(src, Index)
       \/ Running("next") /\ ~IsTable
       \/ outcome = "copying" /\ calls = <<>> /\ op = "get" /\ src = <<>>
    /\ outcome' = "undefined" /\ UNCHANGED <<op, value, src, dst, heap, calls>>

-----------------------------------------------------------------------------------
\* script_thread_get and script_thread_set.
Init ==
    /\ value \in Globals /\ heap = Tables
    /\ op \in Ops /\ src = Append(Below[op], value)
    /\ dst = <<>> /\ calls = <<Call(-1)>> /\ outcome = "copying"

\* script_thread_get pops the value from the stack of the thread.
Return ==
    /\ outcome = "copying" /\ calls = <<>> /\ outcome' = "done"
    /\ op = "get" => src # <<>>
    /\ src' = IF op = "get" THEN Popped(src, 1) ELSE src
    /\ UNCHANGED <<op, value, dst, heap, calls>>

Ended == outcome # "copying" /\ UNCHANGED vars

Next == CopyScalar \/ NewTable \/ NextPair \/ Key \/ SetTable \/ EndOfTable
        \/ Undefined \/ Return \/ Ended

Spec == Init /\ [][Next]_vars

-----------------------------------------------------------------------------------
RECURSIVE Same(_, _)
Same(v, w) ==
    IF v \notin DOMAIN heap THEN w = v
    ELSE /\ w \in DOMAIN heap /\ Len(heap[w]) = Len(heap[v])
         /\ \A p \in Range(heap[v]) : \E q \in Range(heap[w]) : Same(p.k, q.k) /\ Same(p.v, q.v)

\* A value or a table of values arrives as it was (SCRIPTING: "boolean, nil, number, and
\* string values or tables of the same may be transfered via get()/set()").
Transferred ==
    /\ outcome # "undefined"
    /\ outcome = "done" => Len(dst) = 1 /\ Same(value, Last(dst))
===================================================================================
