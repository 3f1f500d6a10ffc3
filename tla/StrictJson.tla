----------------------------- MODULE StrictJson -----------------------------
(***************************************************************************)
(* The JSON of the metadata: Node and parse() of src/strict_json.rs, as    *)
(* the calls that serde_json (external, it knows the grammar) makes while  *)
(* it reads a text.  Two programs read the same metadata, cryptsetup and   *)
(* winluks; a key that occurs twice is where they could read it apart.     *)
(***************************************************************************)
EXTENDS Naturals, Sequences, SequencesExt

CONSTANTS
  Keys,
  MaxDepth,   \* 32 in the source
  MaxValues   \* bound: values in a text

ASSUME JsonAssumption == MaxDepth \in Nat /\ MaxValues \in Nat

VARIABLES
  stack,   \* the open containers: kind, keys so far, where the next value goes
  pc,      \* what comes next: a "value", "more" of a container, the "end", or a verdict
  paths    \* history: the place of every value, in the order of the text

vars == <<stack, pc, paths>>

Place == Keys \cup 0..MaxValues
Open  == [kind : {"map", "seq"}, keys : SUBSET Keys, at : Place]

(* Among the types: no more containers are open than one beyond the limit, *)
(* which bounds the recursion wherever a value stands.                     *)
TypeOK ==
  /\ stack \in Seq(Open) /\ Len(stack) <= MaxDepth + 1
  /\ pc \in {"value", "more", "end", "accepted", "refused"}
  /\ paths \in Seq(Seq(Place))

Init == stack = <<>> /\ pc = "value" /\ paths = <<>>

Top == stack[Len(stack)]
Here == [i \in DOMAIN stack |-> stack[i].at]

After(s) == IF s = <<>> THEN "end" ELSE "more"

----------------------------------------------------------------------------
\* MUTANT off by one: a container at the limit may hold values
Deep_OneMore == Len(stack) > MaxDepth + 1
(* deserialize: Node(0) is the whole text, Node(n) lies in n containers. *)
Deep == Len(stack) > MaxDepth

Refuse == pc' = "refused" /\ UNCHANGED stack

Value == pc = "value" /\ Len(paths) < MaxValues /\ paths' = Append(paths, Here)

TooDeep == Value /\ Deep /\ Refuse

(* visit_bool, visit_unit, visit_i64, visit_u64, visit_str; visit_f64. *)
Scalar     == Value /\ ~Deep /\ pc' = After(stack) /\ UNCHANGED stack
NonInteger == Value /\ ~Deep /\ Refuse

(* visit_seq and visit_map begin. *)
Begin(kind) ==
  /\ Value /\ ~Deep
  /\ stack' = Append(stack, [kind |-> kind, keys |-> {}, at |-> 0])
  /\ pc' = "more"

(* next_element_seed. *)
NextElement ==
  /\ pc = "more" /\ Top.kind = "seq"
  /\ stack' = [stack EXCEPT ![Len(stack)].at = @ + 1]
  /\ pc' = "value"
  /\ UNCHANGED paths

\* MUTANT the keys are compared with the last one only
NextKey_LastOnly(k) ==
  /\ pc = "more" /\ Top.kind = "map"
  /\ IF k = Top.at THEN Refuse
     ELSE /\ stack' = [stack EXCEPT ![Len(stack)] =
                         [kind |-> "map", keys |-> Top.keys \cup {k}, at |-> k]]
          /\ pc' = "value"
  /\ UNCHANGED paths
(* next_key: no key of this map again. *)
NextKey(k) ==
  /\ pc = "more" /\ Top.kind = "map"
  /\ IF k \in Top.keys THEN Refuse
     ELSE /\ stack' = [stack EXCEPT ![Len(stack)] =
                         [kind |-> "map", keys |-> Top.keys \cup {k}, at |-> k]]
          /\ pc' = "value"
  /\ UNCHANGED paths

Close ==
  /\ pc = "more" /\ stack' = Front(stack) /\ pc' = After(Front(stack))
  /\ UNCHANGED paths

(* d.end(): nothing may follow.  The grammar may be broken anywhere. *)
End      == pc = "end" /\ pc' = "accepted" /\ UNCHANGED <<stack, paths>>
Trailing == pc \in {"value", "more", "end"} /\ Refuse /\ UNCHANGED paths

Next == \/ TooDeep \/ Scalar \/ NonInteger \/ \E kind \in {"map", "seq"} : Begin(kind)
        \/ NextElement \/ \E k \in Keys : NextKey(k)
        \/ Close \/ End \/ Trailing

Spec == Init /\ [][Next]_vars

----------------------------------------------------------------------------
(* Every value of an accepted text has a place of its own: a reader that   *)
(* takes the first of equal keys and one that takes the last read the same *)
(* metadata, at every depth.                                               *)
Unambiguous ==
  pc = "accepted" => \A i, j \in DOMAIN paths : paths[i] = paths[j] => i = j
=============================================================================
