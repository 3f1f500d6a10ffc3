-------------------------- MODULE StrictJsonProofs --------------------------
(***************************************************************************)
(* Proofs about StrictJson: an accepted text has one reading and the       *)
(* recursion is bounded, for any set of keys, any depth and texts of any   *)
(* length.                                                                 *)
(***************************************************************************)
EXTENDS StrictJson, SequenceTheorems, TLAPS

(* The places a container has given to its values. *)
Used(c) == IF c.kind = "map" THEN c.keys ELSE 1..c.at

(* The value at p lies in the i-th open container, at any depth. *)
Under(p, i) == i <= Len(p) /\ \A m \in 1..(i - 1) : p[m] = stack[m].at

(* A container is open where more of it is expected; only the text itself  *)
(* has no container around it.                                             *)
Shape ==
  /\ pc = "more" => stack # <<>>
  /\ pc = "value" /\ stack = <<>> => paths = <<>>
  /\ Len(paths) <= MaxValues

(* An array has counted no further than there are values.                  *)
Counted ==
  \A i \in DOMAIN stack : stack[i].kind = "seq" =>
    /\ stack[i].at \in Nat /\ stack[i].at <= Len(paths)
    /\ i < Len(stack) \/ pc = "more" => stack[i].at < Len(paths)

(* Where the next value goes, its container knows it. *)
Placed == \A i \in DOMAIN stack : i < Len(stack) \/ pc = "value" =>
            stack[i].at \in Used(stack[i])

(* The values read so far, those of an open container included, are at     *)
(* places that the container has given away.                               *)
Taken == \A j \in DOMAIN paths, i \in DOMAIN stack :
           Under(paths[j], i) => paths[j][i] \in Used(stack[i])

(* At the place of the next value there is none yet, nor under it. *)
Fresh == pc = "value" =>
           \A j \in DOMAIN paths :
             ~(\A m \in DOMAIN stack : m <= Len(paths[j]) /\ paths[j][m] = stack[m].at)

Distinct == \A i, j \in DOMAIN paths : paths[i] = paths[j] => i = j

JInv == TypeOK /\ Shape /\ Counted /\ Placed /\ Taken /\ Fresh /\ Distinct

----------------------------------------------------------------------------
LEMMA InitJ == Init => JInv
<1> SUFFICES ASSUME Init PROVE JInv
  OBVIOUS
<1>1. stack = <<>> /\ paths = <<>> /\ pc = "value"
  BY DEF Init
<1>2. Len(stack) = 0 /\ DOMAIN stack = {} /\ Len(paths) = 0 /\ DOMAIN paths = {}
  BY <1>1
<1>3. stack \in Seq(Open) /\ paths \in Seq(Seq(Place))
  BY <1>1
<1>4. TypeOK
  BY <1>1, <1>2, <1>3, JsonAssumption DEF TypeOK
<1>5. Shape
  BY <1>1, <1>2, JsonAssumption DEF Shape
<1> QED
  BY <1>2, <1>4, <1>5 DEF JInv, Counted, Placed, Taken, Fresh, Distinct

(* A refusal keeps what was read. *)
LEMMA RefusedJ ==
  ASSUME JInv, stack' = stack, paths' = paths, pc' \in {"accepted", "refused"}
  PROVE  JInv'
<1>1. TypeOK' /\ Shape'
  BY DEF JInv, TypeOK, Shape
<1>2. Counted' /\ Placed'
  BY DEF JInv, Counted, Placed, Used
<1>3. Taken' /\ Fresh' /\ Distinct'
  BY DEF JInv, Taken, Under, Used, Fresh, Distinct
<1> QED
  BY <1>1, <1>2, <1>3 DEF JInv

----------------------------------------------------------------------------
(* Values. *)

LEMMA HereType ==
  ASSUME TypeOK
  PROVE  /\ Here \in Seq(Place) /\ Len(Here) = Len(stack) /\ DOMAIN Here = DOMAIN stack
         /\ \A m \in DOMAIN stack : Here[m] = stack[m].at
<1>1. stack \in Seq(Open) /\ Len(stack) \in Nat /\ DOMAIN stack = 1..Len(stack)
  BY DEF TypeOK
<1>2. \A m \in 1..Len(stack) : stack[m] \in Open
  BY <1>1, ElementOfSeq
<1>3. \A m \in 1..Len(stack) : stack[m].at \in Place
  BY <1>2 DEF Open
<1>4. Here = [m \in 1..Len(stack) |-> stack[m].at]
  BY <1>1 DEF Here
<1> QED
  BY <1>1, <1>3, <1>4

(* A value is read at a place where none was, which its containers know. *)
LEMMA ValueRead ==
  ASSUME JInv, Value
  PROVE  /\ paths' \in Seq(Seq(Place)) /\ Len(paths') = Len(paths) + 1
         /\ Len(paths') <= MaxValues /\ Len(paths) \in Nat
         /\ \A j \in DOMAIN paths' :
              \/ j \in DOMAIN paths /\ paths'[j] = paths[j]
              \/ j = Len(paths) + 1 /\ paths'[j] = Here
         /\ Distinct'
         /\ \A j \in DOMAIN paths', i \in DOMAIN stack :
              Under(paths'[j], i) => paths'[j][i] \in Used(stack[i])
<1>1. TypeOK /\ pc = "value" /\ paths' = Append(paths, Here) /\ Len(paths) < MaxValues
      /\ paths \in Seq(Seq(Place)) /\ Len(paths) \in Nat
  BY DEF JInv, Value, TypeOK
<1>2. Here \in Seq(Place) /\ Len(Here) = Len(stack) /\ DOMAIN Here = DOMAIN stack
      /\ \A m \in DOMAIN stack : Here[m] = stack[m].at
  BY <1>1, HereType
<1>3. /\ paths' \in Seq(Seq(Place)) /\ Len(paths') = Len(paths) + 1
      /\ \A j \in 1..Len(paths) : paths'[j] = paths[j]
      /\ paths'[Len(paths) + 1] = Here
  BY <1>1, <1>2, AppendProperties
<1>4. DOMAIN paths = 1..Len(paths) /\ DOMAIN paths' = 1..(Len(paths) + 1)
  BY <1>1, <1>3
<1>5. Len(paths') <= MaxValues
  BY <1>1, <1>3, JsonAssumption
<1>6. \A j \in DOMAIN paths' : \/ j \in DOMAIN paths /\ paths'[j] = paths[j]
                               \/ j = Len(paths) + 1 /\ paths'[j] = Here
  BY <1>1, <1>3, <1>4
<1>7. \A j \in DOMAIN paths : paths[j] # Here
  <2>1. SUFFICES ASSUME NEW j \in DOMAIN paths, paths[j] = Here PROVE FALSE
    OBVIOUS
  <2>2. \A m \in DOMAIN stack : m <= Len(paths[j]) /\ paths[j][m] = stack[m].at
    <3>1. DOMAIN stack = 1..Len(stack) /\ Len(stack) \in Nat
      BY <1>1 DEF TypeOK
    <3> QED
      BY <1>2, <2>1, <3>1
  <2> QED
    BY <1>1, <2>1, <2>2 DEF JInv, Fresh
<1>8. Distinct'
  BY <1>6, <1>7 DEF JInv, Distinct
<1>9. ASSUME NEW j \in DOMAIN paths', NEW i \in DOMAIN stack, Under(paths'[j], i)
      PROVE  paths'[j][i] \in Used(stack[i])
  <2>1. CASE j \in DOMAIN paths /\ paths'[j] = paths[j]
    BY <1>9, <2>1 DEF JInv, Taken, Under
  <2>2. CASE paths'[j] = Here
    BY <1>1, <1>2, <2>2 DEF JInv, Placed
  <2> QED
    BY <1>6, <2>1, <2>2
<1> QED
  BY <1>1, <1>3, <1>5, <1>6, <1>8, <1>9

(* A value that opens no container: refused, or a scalar. *)
LEMMA LeafJ ==
  ASSUME JInv, Value, stack' = stack,
         pc' = "refused" \/ pc' = After(stack)
  PROVE  JInv'
<1>1. TypeOK /\ pc = "value" /\ Len(stack) \in Nat /\ DOMAIN stack = 1..Len(stack)
  BY DEF JInv, Value, TypeOK
<1>2. pc' \in {"refused", "more", "end"} /\ (pc' = "more" => stack # <<>>)
  BY DEF After
<1>3. TypeOK'
  BY <1>1, <1>2, ValueRead DEF TypeOK
<1>4. Shape'
  BY <1>2, ValueRead DEF Shape
<1>5. Counted'
  BY <1>1, ValueRead DEF JInv, Counted
<1>6. Placed' /\ Fresh'
  BY <1>1, <1>2 DEF JInv, Placed, Fresh, Used
<1>7. Taken' /\ Distinct'
  BY ValueRead DEF Taken, Under, Used
<1> QED
  BY <1>3, <1>4, <1>5, <1>6, <1>7 DEF JInv

LEMMA BeginJ ==
  ASSUME JInv, NEW kind \in {"map", "seq"}, Begin(kind)
  PROVE  JInv'
<1> DEFINE new == [kind |-> kind, keys |-> {}, at |-> 0]
           n == Len(stack)
<1>1. /\ TypeOK /\ pc = "value" /\ Value /\ ~Deep /\ pc' = "more"
      /\ stack' = Append(stack, new)
      /\ stack \in Seq(Open) /\ n \in Nat /\ DOMAIN stack = 1..n
  BY DEF JInv, Begin, Value, TypeOK
<1>2. new \in Open
  BY JsonAssumption DEF Open, Place
<1> HIDE DEF new
<1>3. /\ stack' \in Seq(Open) /\ Len(stack') = n + 1 /\ DOMAIN stack' = 1..(n + 1)
      /\ \A i \in 1..n : stack'[i] = stack[i]
      /\ stack'[n + 1] = new
  BY <1>1, <1>2, AppendProperties
<1> HIDE DEF n
<1>4. TypeOK'
  <2>1. Len(stack') <= MaxDepth + 1
    BY <1>1, <1>3, JsonAssumption DEF Deep, n
  <2> QED
    BY <1>1, <1>3, <2>1, ValueRead DEF TypeOK
<1>5. Shape'
  <2>1. stack' # <<>>
    BY <1>1, <1>3
  <2> QED
    BY <1>1, <2>1, ValueRead DEF Shape
<1>6. Counted'
  <2>1. SUFFICES ASSUME NEW i \in 1..(n + 1), stack'[i].kind = "seq"
                 PROVE  stack'[i].at \in Nat /\ stack'[i].at < Len(paths')
    BY <1>3, ValueRead, <1>1 DEF Counted
  <2>2. CASE i = n + 1
    BY <1>1, <1>3, <2>2, ValueRead DEF new
  <2>3. CASE i \in 1..n
    <3>1. stack'[i] = stack[i] /\ i \in DOMAIN stack
      BY <1>1, <1>3, <2>3
    <3>2. stack[i].at \in Nat /\ stack[i].at <= Len(paths)
      BY <2>1, <3>1 DEF JInv, Counted
    <3>3. Len(paths') = Len(paths) + 1 /\ Len(paths) \in Nat
      BY <1>1, ValueRead
    <3> QED
      BY <3>1, <3>2, <3>3
  <2> QED
    BY <1>1, <2>2, <2>3
<1>7. Placed'
  <2>1. SUFFICES ASSUME NEW i \in 1..n PROVE stack[i].at \in Used(stack[i])
    BY <1>1, <1>3 DEF Placed, Used
  <2> QED
    BY <1>1 DEF JInv, Placed
<1>8. Taken'
  <2>1. SUFFICES ASSUME NEW j \in DOMAIN paths', NEW i \in 1..(n + 1), Under(paths[j], i)'
                 PROVE  paths'[j][i] \in Used(stack'[i])
    BY <1>3 DEF Taken, Used
  <2>2. CASE i \in 1..n
    <3>1. Under(paths'[j], i)
      BY <1>1, <1>3, <2>1, <2>2 DEF Under
    <3> QED
      BY <1>1, <1>3, <2>2, <3>1, ValueRead
  <2>3. CASE i = n + 1
    <3>1. n + 1 <= Len(paths'[j]) /\ \A m \in 1..n : paths'[j][m] = stack[m].at
      BY <1>1, <1>3, <2>1, <2>3 DEF Under
    <3>2. Len(Here) = n
      BY <1>1, HereType DEF n
    <3>3. j \in DOMAIN paths /\ paths'[j] = paths[j]
      BY <1>1, <3>1, <3>2, ValueRead
    <3>4. Len(paths[j]) \in Nat
      BY <1>1, <3>3 DEF TypeOK
    <3>5. \A m \in DOMAIN stack : m <= Len(paths[j]) /\ paths[j][m] = stack[m].at
      BY <1>1, <3>1, <3>3, <3>4
    <3> QED
      BY <1>1, <3>3, <3>5 DEF JInv, Fresh
  <2> QED
    BY <1>1, <2>2, <2>3
<1>9. Fresh'
  BY <1>1 DEF Fresh
<1> QED
  BY <1>1, <1>4, <1>5, <1>6, <1>7, <1>8, <1>9, ValueRead DEF JInv

----------------------------------------------------------------------------
(* The next place in a container. *)

(* The container on top of the others gives away a place it had not.       *)
LEMMA NextPlaceJ ==
  ASSUME JInv, pc = "more", pc' = "value", paths' = paths, NEW c \in Open,
         stack' = [stack EXCEPT ![Len(stack)] = c],
         c.at \in Used(c), c.at \notin Used(Top), Used(Top) \subseteq Used(c),
         c.kind = "seq" => c.at \in Nat /\ c.at <= Len(paths)
  PROVE  JInv'
<1> DEFINE n == Len(stack)
<1>1. /\ TypeOK /\ stack \in Seq(Open) /\ n \in Nat /\ DOMAIN stack = 1..n /\ n \in 1..n
      /\ Len(paths) \in Nat
  <2>1. TypeOK /\ stack \in Seq(Open) /\ stack # <<>> /\ Len(paths) \in Nat
    BY DEF JInv, Shape, TypeOK
  <2> QED
    BY <2>1
<1>2. /\ stack' \in Seq(Open) /\ Len(stack') = n /\ DOMAIN stack' = 1..n
      /\ \A i \in 1..n : i # n => stack'[i] = stack[i]
      /\ stack'[n] = c
  BY <1>1, ExceptSeq
<1>3. Top = stack[n]
  BY DEF Top
<1> HIDE DEF n
<1>4. TypeOK'
  BY <1>1, <1>2 DEF TypeOK, n
<1>5. Shape'
  <2>1. stack' # <<>>
    BY <1>1, <1>2
  <2> QED
    BY <2>1 DEF JInv, Shape
<1>6. Counted'
  <2>1. SUFFICES ASSUME NEW i \in 1..n, stack'[i].kind = "seq"
                 PROVE  /\ stack'[i].at \in Nat /\ stack'[i].at <= Len(paths)
                        /\ i < n => stack'[i].at < Len(paths)
    BY <1>2 DEF Counted
  <2>2. CASE i = n
    BY <1>1, <1>2, <2>1, <2>2
  <2>3. CASE i # n
    <3>1. stack'[i] = stack[i] /\ i \in DOMAIN stack
      BY <1>1, <1>2, <2>3
    <3> QED
      BY <2>1, <3>1 DEF JInv, Counted
  <2> QED
    BY <2>2, <2>3
<1>7. Placed'
  <2>1. \A i \in 1..n : i # n => i < n
    BY <1>1
  <2>2. \A i \in 1..n : i # n => stack[i].at \in Used(stack[i])
    BY <1>1, <2>1 DEF JInv, Placed, n
  <2> QED
    BY <1>2, <2>2 DEF Placed, Used
<1>8. ASSUME NEW j \in DOMAIN paths, NEW i \in 1..n,
             i <= Len(paths[j]), \A m \in 1..(i - 1) : paths[j][m] = stack'[m].at
      PROVE  paths[j][i] \in Used(stack[i])
  <2>1. \A m \in 1..(i - 1) : m \in 1..n /\ m # n
    BY <1>1
  <2>2. Under(paths[j], i)
    BY <1>2, <1>8, <2>1 DEF Under
  <2> QED
    BY <1>1, <2>2 DEF JInv, Taken
<1>9. Taken'
  <2>1. SUFFICES ASSUME NEW j \in DOMAIN paths, NEW i \in 1..n, Under(paths[j], i)'
                 PROVE  paths[j][i] \in Used(stack'[i])
    BY <1>2 DEF Taken, Used
  <2>2. paths[j][i] \in Used(stack[i])
    BY <1>8, <2>1 DEF Under
  <2> QED
    BY <1>2, <1>3, <2>2
<1>10. Fresh'
  <2>1. SUFFICES ASSUME NEW j \in DOMAIN paths,
                        \A m \in 1..n : m <= Len(paths[j]) /\ paths[j][m] = stack'[m].at
                 PROVE  FALSE
    BY <1>2 DEF Fresh
  <2>2. \A m \in 1..(n - 1) : m \in 1..n
    BY <1>1
  <2>3. paths[j][n] \in Used(stack[n])
    BY <1>1, <1>8, <2>1, <2>2
  <2>4. paths[j][n] = c.at
    BY <1>1, <1>2, <2>1
  <2> QED
    BY <1>3, <2>3, <2>4
<1>11. Distinct'
  BY DEF JInv, Distinct
<1> QED
  BY <1>4, <1>5, <1>6, <1>7, <1>9, <1>10, <1>11 DEF JInv

LEMMA TopType ==
  ASSUME JInv, pc = "more"
  PROVE  /\ stack \in Seq(Open) /\ Len(stack) \in Nat /\ Len(stack) \in DOMAIN stack
         /\ Top \in Open /\ Top = stack[Len(stack)]
         /\ stack # <<>>
<1>1. stack \in Seq(Open) /\ stack # <<>>
  BY DEF JInv, TypeOK, Shape
<1>2. Len(stack) \in Nat /\ Len(stack) \in 1..Len(stack) /\ DOMAIN stack = 1..Len(stack)
  BY <1>1
<1> QED
  BY <1>1, <1>2, ElementOfSeq DEF Top

LEMMA NextElementJ ==
  ASSUME JInv, NextElement
  PROVE  JInv'
<1> DEFINE c == [Top EXCEPT !.at = @ + 1]
<1>1. pc = "more" /\ Top.kind = "seq" /\ pc' = "value" /\ paths' = paths
      /\ stack' = [stack EXCEPT ![Len(stack)] = c]
  BY DEF NextElement, Top
<1>2. Top.at \in Nat /\ Top.at < Len(paths) /\ Len(paths) \in Nat /\ Len(paths) <= MaxValues
  BY <1>1, TopType DEF JInv, Counted, Shape, TypeOK
<1>3. /\ c.kind = "seq" /\ c.at = Top.at + 1 /\ c.keys = Top.keys
      /\ c = [kind |-> c.kind, keys |-> c.keys, at |-> c.at]
      /\ Top.keys \in SUBSET Keys
  BY <1>1, TopType DEF Open
<1>4. c.at \in Nat /\ c.at <= Len(paths) /\ c.at \in Place
  BY <1>2, <1>3, JsonAssumption DEF Place
<1>5. c \in Open
  BY <1>3, <1>4 DEF Open
<1> HIDE DEF c
<1>6. Used(c) = 1..c.at /\ Used(Top) = 1..Top.at
  BY <1>1, <1>3 DEF Used
<1>7. c.at \in Used(c) /\ c.at \notin Used(Top) /\ Used(Top) \subseteq Used(c)
  BY <1>2, <1>3, <1>6
<1> QED
  BY <1>1, <1>4, <1>5, <1>7, NextPlaceJ

LEMMA NextKeyJ ==
  ASSUME JInv, NEW k \in Keys, NextKey(k)
  PROVE  JInv'
<1>1. CASE k \in Top.keys
  BY <1>1, RefusedJ DEF NextKey, Refuse
<1>2. CASE k \notin Top.keys
  <2> DEFINE c == [kind |-> "map", keys |-> Top.keys \cup {k}, at |-> k]
  <2>1. pc = "more" /\ Top.kind = "map" /\ pc' = "value" /\ paths' = paths
        /\ stack' = [stack EXCEPT ![Len(stack)] = c]
    BY <1>2 DEF NextKey
  <2>2. /\ c.kind = "map" /\ c.at = k /\ c.keys = Top.keys \cup {k}
        /\ c = [kind |-> c.kind, keys |-> c.keys, at |-> c.at]
        /\ Top.keys \in SUBSET Keys
    BY <2>1, TopType DEF Open
  <2>3. c \in Open
    BY <2>2 DEF Open, Place
  <2> HIDE DEF c
  <2>4. Used(c) = c.keys /\ Used(Top) = Top.keys
    BY <2>1, <2>2 DEF Used
  <2>5. c.at \in Used(c) /\ c.at \notin Used(Top) /\ Used(Top) \subseteq Used(c)
    BY <1>2, <2>2, <2>4
  <2> QED
    BY <2>1, <2>2, <2>3, <2>5, NextPlaceJ
<1> QED
  BY <1>1, <1>2

(* A container that is closed takes nothing back. *)
LEMMA CloseJ ==
  ASSUME JInv, Close
  PROVE  JInv'
<1> DEFINE n == Len(stack)
<1>1. /\ pc = "more" /\ stack' = Front(stack) /\ pc' = After(Front(stack)) /\ paths' = paths
      /\ stack \in Seq(Open) /\ stack # <<>> /\ n \in Nat /\ n > 0 /\ DOMAIN stack = 1..n
  BY TopType DEF Close
<1>2. stack' = SubSeq(stack, 1, n - 1)
  BY <1>1 DEF Front
<1>3. /\ stack' \in Seq(Open) /\ Len(stack') = n - 1 /\ DOMAIN stack' = 1..(n - 1)
      /\ \A i \in 1..(n - 1) : stack'[i] = stack[i] /\ i \in DOMAIN stack /\ i < n
  BY <1>1, <1>2
<1>4. pc' \in {"more", "end"} /\ (pc' = "more" => stack' # <<>>)
  BY <1>1 DEF After
<1>5. TypeOK'
  BY <1>1, <1>3, <1>4, JsonAssumption DEF JInv, TypeOK
<1>6. Shape'
  BY <1>1, <1>4 DEF JInv, Shape
<1>7. Counted'
  BY <1>1, <1>3 DEF JInv, Counted
<1>8. Placed' /\ Fresh'
  BY <1>1, <1>3, <1>4 DEF JInv, Placed, Fresh, Used
<1>9. Taken'
  <2>1. SUFFICES ASSUME NEW j \in DOMAIN paths, NEW i \in 1..(n - 1), Under(paths[j], i)'
                 PROVE  paths[j][i] \in Used(stack[i])
    BY <1>1, <1>3 DEF Taken, Used, Under
  <2>2. Under(paths[j], i)
    BY <1>1, <1>3, <2>1 DEF Under
  <2> QED
    BY <1>3, <2>2 DEF JInv, Taken
<1>10. Distinct'
  BY <1>1 DEF JInv, Distinct
<1> QED
  BY <1>5, <1>6, <1>7, <1>8, <1>9, <1>10 DEF JInv

----------------------------------------------------------------------------
LEMMA NextJ == JInv /\ [Next]_vars => JInv'
<1> SUFFICES ASSUME JInv, [Next]_vars PROVE JInv'
  OBVIOUS
<1>1. CASE TooDeep \/ NonInteger \/ Scalar
  BY <1>1, LeafJ DEF TooDeep, NonInteger, Scalar, Refuse
<1>2. ASSUME NEW kind \in {"map", "seq"}, Begin(kind) PROVE JInv'
  BY <1>2, BeginJ
<1>3. CASE NextElement
  BY <1>3, NextElementJ
<1>4. ASSUME NEW k \in Keys, NextKey(k) PROVE JInv'
  BY <1>4, NextKeyJ
<1>5. CASE Close
  BY <1>5, CloseJ
<1>6. CASE End \/ Trailing
  BY <1>6, RefusedJ DEF End, Trailing, Refuse
<1>7. CASE UNCHANGED vars
  <2>1. stack' = stack /\ pc' = pc /\ paths' = paths
    BY <1>7 DEF vars
  <2>2. TypeOK' /\ Shape' /\ Counted' /\ Placed'
    BY <2>1 DEF JInv, TypeOK, Shape, Counted, Placed, Used
  <2>3. Taken' /\ Fresh' /\ Distinct'
    BY <2>1 DEF JInv, Taken, Under, Used, Fresh, Distinct
  <2> QED
    BY <2>2, <2>3 DEF JInv
<1> QED
  BY <1>1, <1>2, <1>3, <1>4, <1>5, <1>6, <1>7 DEF Next

(* Whatever the visitor has read so far, every value has a place of its    *)
(* own, and an open container knows the places it has given away.          *)
THEOREM JsonInvariant == Spec => []JInv
BY InitJ, NextJ, PTL DEF Spec

(* Every variable keeps its type, and the recursion of the visitor is      *)
(* bounded by the depth alone, however long the text.                      *)
THEOREM DepthBounded == Spec => []TypeOK
<1>1. JInv => TypeOK
  BY DEF JInv
<1> QED
  BY <1>1, JsonInvariant, PTL

(* An accepted text has one reading, whatever keys, arrays and maps lie    *)
(* between two values.                                                     *)
THEOREM OneReading == Spec => []Unambiguous
<1>1. JInv => Unambiguous
  BY DEF JInv, Distinct, Unambiguous
<1> QED
  BY <1>1, JsonInvariant, PTL
=============================================================================
