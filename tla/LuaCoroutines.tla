--------------------------- MODULE LuaCoroutines ---------------------------
(***************************************************************************)
(* What the manual says of coroutines (section 2.11 and the functions      *)
(* create, resume, status and yield in lbaselib.c): each one is suspended, *)
(* running, normal (it has resumed another one) or dead, and control goes  *)
(* down and up the resumes that wait for one another.                      *)
(***************************************************************************)
CONSTANTS Coroutines, MainThread

VARIABLES
  status,    (* of each coroutine, "none" before it is created             *)
  progress,  (* of its body: "new", "inside" or "over"                     *)
  running,   (* the main thread or the coroutine that runs                 *)
  waits,     (* the pairs of a thread and the coroutine it has resumed     *)
  ended      (* whether the program has ended                              *)

vars == <<status, progress, running, waits, ended>>

(* The status st of a thread th; the main thread has none.                  *)
Gets(f, th, st) == IF th \in Coroutines THEN [f EXCEPT ![th] = st] ELSE f
Set(f, co, x) == [f EXCEPT ![co] = x]

Init ==
  /\ status = [co \in Coroutines |-> "none"]
  /\ progress = [co \in Coroutines |-> "new"]
  /\ running = MainThread /\ waits = {} /\ ended = FALSE

Create(co) ==
  /\ ~ ended /\ status[co] = "none"
  /\ status' = Set(status, co, "suspended")
  /\ UNCHANGED <<progress, running, waits, ended>>

Resume(co) ==
  /\ ~ ended /\ status[co] = "suspended"
  /\ status' = Set(Gets(status, running, "normal"), co, "running")
  /\ running' = co /\ waits' = waits \cup {<<running, co>>}
  /\ UNCHANGED <<progress, ended>>

(* The body of the coroutine that runs is called, and its last function     *)
(* returns.                                                                *)
Body(from, to) ==
  /\ ~ ended /\ running \in Coroutines /\ progress[running] = from
  /\ progress' = Set(progress, running, to)
  /\ UNCHANGED <<status, running, waits, ended>>
Call == Body("new", "inside")
Return == Body("inside", "over")

(* The coroutine that runs leaves control to the thread that resumed it.    *)
Leave(from, st) ==
  /\ ~ ended /\ running \in Coroutines /\ progress[running] \in from
  /\ \E th \in Coroutines \cup {MainThread} :
       /\ <<th, running>> \in waits /\ waits' = waits \ {<<th, running>>}
       /\ running' = th /\ status' = Gets(Set(status, running, st), th, "running")
  /\ UNCHANGED ended
Yield == Leave({"inside"}, "suspended") /\ UNCHANGED progress
(* It ends with its results or an error.                                   *)
End == Leave({"inside", "over"}, "dead") /\ UNCHANGED progress
(* Its results are too many for the stack of the other one.  It keeps them, *)
(* and the last of them is called if it is resumed again, or cannot be       *)
(* called, which the manual does not say.                                  *)
Overflow == Leave({"over"}, "suspended") /\ progress' = Set(progress, running, "new")
NotCalled == Body("new", "over")

(* There is no C stack for a resume.  A coroutine that had not started loses *)
(* its body (resume_error in ldo.c): the manual does not say so.            *)
Refuse(co) ==
  /\ ~ ended /\ status[co] = "suspended" /\ progress[co] # "inside"
  /\ status' = Set(status, co, "dead")
  /\ UNCHANGED <<progress, running, waits, ended>>

(* An error that nobody catches ends the program.                           *)
Panic ==
  /\ ~ ended /\ running = MainThread
  /\ ended' = TRUE /\ status' = [co \in Coroutines |-> "dead"] /\ waits' = {}
  /\ UNCHANGED <<progress, running>>

Next ==
  \/ \E co \in Coroutines : Create(co) \/ Resume(co) \/ Refuse(co)
  \/ Call \/ NotCalled \/ Return \/ Yield \/ End \/ Overflow \/ Panic

Spec == Init /\ [][Next]_vars
=============================================================================
