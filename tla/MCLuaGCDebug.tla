---------------------------- MODULE MCLuaGCDebug ----------------------------
(* A small instance of LuaGCDebug for TLC.                                 *)
EXTENDS LuaGCDebug, MCLuaGC
=============================================================================
