----------------------------- MODULE MCLuaTable -----------------------------
(* A small instance of LuaTable for TLC: the hash of an integer is itself,  *)
(* those of the other keys collide.                                        *)
EXTENDS LuaTable
CONSTANTS Even, Odd     (* keys that are not integers, by their hash       *)
MCHash == [k \in Keys |-> IF k \in IntKeys THEN k ELSE IF k \in Odd THEN 1 ELSE 2]
=============================================================================
