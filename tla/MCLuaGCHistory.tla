--------------------------- MODULE MCLuaGCHistory ---------------------------
(* Small instances of LuaGCHistory for TLC.                                *)
EXTENDS LuaGCHistory, MCLuaGC
=============================================================================
