------------------------------ MODULE LuaTablib ------------------------------
(***************************************************************************)
(* table.sort, table.insert, table.remove and table.concat (ltablib.c).     *)
(*                                                                         *)
(* Sorting: call.a holds the elements 1 .. n of the table and the fields    *)
(* 0 and n + 1 around them.  Each comparison is a step, because it may call *)
(* a Lua function: the order is either a real one, by the first component   *)
(* of a value, or "any", a function that answers as it likes.  An error it  *)
(* raises leaves the table as it is between two comparisons.                *)
(*                                                                         *)
(* Lists: a program inserts and removes at positions of the list, and       *)
(* call.list is the list that it has in mind.  A function that changes the  *)
(* table that is being sorted is not modelled.                             *)
(***************************************************************************)
EXTENDS Integers, Sequences, SequencesExt

CONSTANTS SortRequests,      (* [a, n, order]: tables to be sorted           *)
          ListValues,        (* the values of a list                         *)
          MaxList            (* bound: the length of a list                  *)
VARIABLE call                (* the call in progress                         *)

NIL == <<>>
Sorting(pc) == call.fn = "sort" /\ call.pc = pc
Swapped(a, i, j) == [a EXCEPT ![i] = a[j], ![j] = a[i]]

(* The answers that a comparison of x with y may give.                     *)
sort_comp(x, y) == IF call.order = "any" THEN BOOLEAN ELSE {x[1] < y[1]}
Counted(c) == IF c.order = "any" THEN c ELSE [c EXCEPT !.comparisons = @ + 1]

sort(request) ==
  [fn |-> "sort", pc |-> "loop", a |-> request.a, initially |-> request.a, n |-> request.n, order |-> request.order,
   l |-> 1, u |-> request.n, i |-> 0, j |-> 0, pivot |-> NIL, calls |-> <<>>, comparisons |-> 0]

(* The loop of auxsort ends, or it goes on with the ends of the range.      *)
Return(c) ==
  IF c.calls = <<>> THEN [c EXCEPT !.pc = "done"]
  ELSE [c EXCEPT !.pc = "loop", !.l = Last(c.calls)[1], !.u = Last(c.calls)[2], !.calls = Front(@)]
auxsort ==
  /\ Sorting("loop")
  /\ call' = IF call.l < call.u THEN [call EXCEPT !.pc = "ends"] ELSE Return(call)

Middle(c) == IF c.u - c.l = 1 THEN Return(c) ELSE [c EXCEPT !.pc = "low", !.i = (c.l + c.u) \div 2]
CompareEnds ==
  /\ Sorting("ends")
  /\ \E less \in sort_comp(call.a[call.u], call.a[call.l]) :
       call' = Middle(Counted([call EXCEPT !.a = IF less THEN Swapped(@, call.l, call.u) ELSE @]))

Partition(c) ==
  IF c.u - c.l = 2 THEN Return(c)
  ELSE [c EXCEPT !.pc = "up", !.pivot = c.a[c.i], !.a = Swapped(@, c.i, c.u - 1), !.i = c.l + 1, !.j = c.u - 1]
CompareLow ==
  /\ Sorting("low")
  /\ \E less \in sort_comp(call.a[call.i], call.a[call.l]) :
       call' = IF less THEN Partition(Counted([call EXCEPT !.a = Swapped(@, call.i, call.l)]))
               ELSE Counted([call EXCEPT !.pc = "high"])
CompareHigh ==
  /\ Sorting("high")
  /\ \E less \in sort_comp(call.a[call.u], call.a[call.i]) :
       call' = Partition(Counted([call EXCEPT !.a = IF less THEN Swapped(@, call.i, call.u) ELSE @]))

InvalidOrder(c) == [c EXCEPT !.pc = "error"]
ScanUp ==
  /\ Sorting("up")
  /\ \E less \in sort_comp(call.a[call.i], call.pivot) :
       call' = CASE ~ less -> Counted([call EXCEPT !.pc = "down", !.j = @ - 1])
                 [] less /\ call.i > call.u -> InvalidOrder(call)
                 [] OTHER -> Counted([call EXCEPT !.i = @ + 1])

(* The smaller part is sorted by a call, the larger one by the loop.        *)
(* Mutant: the larger part is sorted by the call.                          *)
LargerByCall(c) ==
  IF c.i - c.l >= c.u - c.i
  THEN [c EXCEPT !.pc = "loop", !.l = c.l, !.u = c.i - 1, !.calls = Append(@, <<c.i + 1, c.u>>)]
  ELSE [c EXCEPT !.pc = "loop", !.l = c.i + 1, !.u = c.u, !.calls = Append(@, <<c.l, c.i - 1>>)]
Halves(c) ==
  IF c.i - c.l < c.u - c.i
  THEN [c EXCEPT !.pc = "loop", !.l = c.l, !.u = c.i - 1, !.calls = Append(@, <<c.i + 1, c.u>>)]
  ELSE [c EXCEPT !.pc = "loop", !.l = c.i + 1, !.u = c.u, !.calls = Append(@, <<c.l, c.i - 1>>)]
Partitioned(c) == Halves([c EXCEPT !.a = Swapped(@, c.u - 1, c.i)])
ScanDown ==
  /\ Sorting("down")
  /\ \E less \in sort_comp(call.pivot, call.a[call.j]) :
       call' = CASE less /\ call.j < call.l -> InvalidOrder(call)
                 [] less /\ call.j >= call.l -> Counted([call EXCEPT !.j = @ - 1])
                 [] ~ less /\ call.j < call.i -> Partitioned(Counted(call))
                 [] OTHER -> Counted([call EXCEPT !.pc = "up", !.a = Swapped(@, call.i, call.j), !.i = @ + 1])

(***************************************************************************)
(* Lists: t maps the indices to values, NIL where there is none.           *)
(***************************************************************************)
Indices == 0 .. MaxList + 1
getn(t) == CHOOSE k \in 0 .. MaxList + 1 : (k = 0 \/ t[k] # NIL) /\ \A m \in k + 1 .. MaxList + 1 : t[m] = NIL
NewList == [fn |-> "list", t |-> [k \in Indices |-> NIL], list |-> <<>>, result |-> NIL, expected |-> NIL]

tinsert(pos, v) ==
  LET e == getn(call.t) + 1
  IN  /\ call.fn = "list" /\ e <= MaxList
      /\ call' = [call EXCEPT !.t = [k \in Indices |-> CASE k = pos -> v
                                                         [] pos < k /\ k <= e -> call.t[k - 1]
                                                         [] OTHER -> call.t[k]],
                              !.list = InsertAt(@, pos, v), !.result = NIL, !.expected = NIL]
RemovedAt(pos, e) ==
  [call EXCEPT !.t = [k \in Indices |-> CASE k = e -> NIL
                                          [] pos <= k /\ k < e -> call.t[k + 1]
                                          [] OTHER -> call.t[k]],
               !.result = call.t[pos]]
tremove(pos) ==
  /\ call.fn = "list"
  /\ call' = IF pos \in DOMAIN call.list
             THEN [RemovedAt(pos, getn(call.t)) EXCEPT !.list = RemoveAt(@, pos), !.expected = call.list[pos]]
             ELSE [call EXCEPT !.result = NIL, !.expected = NIL]
(* The fields from first to last, in order; one that is nil is an error.    *)
tconcat(first, last) ==
  /\ call.fn = "list"
  /\ call' = [call EXCEPT !.result = IF NIL \in {call.t[k] : k \in first .. last} THEN <<"error">>
                                     ELSE FlattenSeq([k \in 1 .. last - first + 1 |-> call.t[first + k - 1]]),
                          !.expected = IF first <= last /\ ~ (first >= 1 /\ last <= Len(call.list)) THEN <<"error">>
                                       ELSE FlattenSeq(SubSeq(call.list, first, last))]

Init == call = NewList \/ \E request \in SortRequests : call = sort(request)
Sort == auxsort \/ CompareEnds \/ CompareLow \/ CompareHigh \/ ScanUp \/ ScanDown
Lists ==
  \/ \E v \in ListValues, pos \in 1 .. MaxList : pos <= getn(call.t) + 1 /\ tinsert(pos, v)
  \/ \E pos \in Indices : tremove(pos)
  \/ \E first, last \in Indices : tconcat(first, last)
Next == Sort \/ (call.fn = "list" /\ Lists)

(***************************************************************************)
(* Properties.                                                             *)
(***************************************************************************)
Values(a) == {a[k] : k \in DOMAIN a} \ {NIL}
(* Whatever the order answers: no element is lost or doubled, even when an  *)
(* error ends the sort, no index leaves the fields around the range, and    *)
(* the calls nest no deeper than the logarithm of the number of elements.   *)
SortContained(c) ==
  /\ \A v \in Values(c.initially) : \E k \in DOMAIN c.a : c.a[k] = v /\ \A m \in DOMAIN c.a \ {k} : c.a[m] # v
  /\ c.pc \in {"up", "down"} => c.i \in c.l + 1 .. c.u + 1 /\ c.j \in c.l - 1 .. c.u - 1
  /\ c.pc # "done" => (c.u - c.l + 1) * 2 ^ Len(c.calls) <= c.n
(* A real order: no error, nothing outside the array is compared or moved,  *)
(* the sort ends, and it ends with the elements in order.                  *)
SortRight(c) ==
  c.order # "any" =>
    /\ c.pc # "error" /\ c.comparisons <= c.n * c.n
    /\ c.a[0] = c.initially[0] /\ c.a[c.n + 1] = NIL
    /\ c.pc \in {"up", "down"} => c.i <= c.u - 1 /\ c.j >= c.l
    /\ c.pc = "done" => \A k \in 1 .. c.n - 1 : c.a[k][1] <= c.a[k + 1][1]
ListRight(c) ==
  /\ \A k \in Indices : c.t[k] = IF k \in DOMAIN c.list THEN c.list[k] ELSE NIL
  /\ c.result = c.expected
TablesRight ==
  CASE call.fn = "sort" -> SortContained(call) /\ SortRight(call)
    [] call.fn = "list" -> ListRight(call)
=============================================================================
