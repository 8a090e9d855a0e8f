------------------------------ MODULE GlobalMap ------------------------------
(***************************************************************************)
(* What the table of globals of core/runtime.c promises: each call of      *)
(* rt_set_global, rt_get_global, rt_check_global and rt_mark_global_const  *)
(* takes effect at once, at some moment between its beginning and its end, *)
(* on one map from names to values.  A constant keeps its value, and what  *)
(* was assigned once can always be read.                                   *)
(*                                                                         *)
(* GlobalTable.tla is shown to implement this module.                      *)
(***************************************************************************)

CONSTANTS
  Threads,
  Names,
  Lets,        \* The names that programs declare constant.
  Values,
  Undefined    \* What a name that was never assigned has.

VARIABLES
  globals,     \* globals[n]: the value of n and whether it is constant.
  call,        \* call[t]: what t has called,
  reply        \* and what it was answered, or "pending".

Calls == [op : {"set"}, name : Names, val : Values]
           \cup [op : {"get", "check"}, name : Names] \cup [op : {"mark"}, name : Lets]
NoCall == [op |-> "none"]

Absent == [val |-> Undefined, const |-> FALSE]

Init ==
  /\ globals = [n \in Names |-> Absent]
  /\ call = [t \in Threads |-> NoCall]
  /\ reply = [t \in Threads |-> "none"]

Request(t) ==
  /\ call[t] = NoCall
  /\ \E c \in Calls : call' = [call EXCEPT ![t] = c]
  /\ reply' = [reply EXCEPT ![t] = "pending"]
  /\ UNCHANGED globals

Answer(t, op, r) ==
  /\ call[t].op = op /\ reply[t] = "pending"
  /\ reply' = [reply EXCEPT ![t] = r]
  /\ UNCHANGED call

Defined(n) == globals[n].val # Undefined

Set(t) ==
  LET n == call[t].name IN
  \/ /\ ~globals[n].const
     /\ Answer(t, "set", "ok")
     /\ globals' = [globals EXCEPT ![n].val = call[t].val]
  \/ /\ globals[n].const
     /\ Answer(t, "set", "constant")
     /\ UNCHANGED globals
  \/ /\ Answer(t, "set", "out of memory")
     /\ UNCHANGED globals

Get(t) ==
  LET n == call[t].name IN
  /\ Answer(t, "get", IF Defined(n) THEN globals[n].val ELSE "not found")
  /\ UNCHANGED globals

Check(t) ==
  /\ Answer(t, "check", IF Defined(call[t].name) THEN "yes" ELSE "no")
  /\ UNCHANGED globals

Mark(t) ==
  LET n == call[t].name IN
  \/ /\ Defined(n)
     /\ Answer(t, "mark", "ok")
     /\ globals' = [globals EXCEPT ![n].const = TRUE]
  \/ /\ ~Defined(n)
     /\ Answer(t, "mark", "not found")
     /\ UNCHANGED globals

Return(t) ==
  /\ call[t] # NoCall /\ reply[t] # "pending"
  /\ call' = [call EXCEPT ![t] = NoCall]
  /\ reply' = [reply EXCEPT ![t] = "none"]
  /\ UNCHANGED globals

Serve(t) == call[t] # NoCall /\ (Set(t) \/ Get(t) \/ Check(t) \/ Mark(t))

Next == \E t \in Threads : Request(t) \/ Serve(t) \/ Return(t)

Spec == Init /\ [][Next]_<<globals, call, reply>>

=============================================================================
