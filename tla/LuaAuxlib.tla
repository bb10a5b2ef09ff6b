------------------------------ MODULE LuaAuxlib ------------------------------
(***************************************************************************)
(* Three services of lauxlib.c, each used by a C function of its own:       *)
(*   - a luaL_Buffer, which keeps the beginning of a string as pieces on    *)
(*     the Lua stack and its end in an array of the C stack;                *)
(*   - references: a table with a free list threaded through it;            *)
(*   - luaL_loadfile, which skips a first line that starts with #, opens a  *)
(*     precompiled chunk again in binary mode and feeds lua_load.           *)
(***************************************************************************)
EXTENDS Integers, Sequences, SequencesExt, FiniteSetsExt

CONSTANTS LUAL_BUFFERSIZE,   (* bytes of the array of a luaL_Buffer          *)
          LUA_MINSTACK,      (* stack slots that a C function has            *)
          MaxBytes,          (* bound: bytes added to a buffer               *)
          MaxRef,            (* bound: references                            *)
          Referred,          (* values to refer to                           *)
          FileRequests       (* [text, named]: files to be loaded            *)
VARIABLE call                (* the C function in progress                   *)

(***************************************************************************)
(* luaL_Buffer.  The bytes added are 1, 2, ... n.                          *)
(***************************************************************************)
LIMIT == LUA_MINSTACK \div 2
luaL_buffinit == [fn |-> "buffer", pieces |-> <<>>, buffer |-> <<>>, n |-> 0, peak |-> 0, done |-> FALSE]
lvl(B) == Len(B.pieces)
bufffree(B) == LUAL_BUFFERSIZE - Len(B.buffer)
(* B with at least `extra` more slots in use than those of its pieces.      *)
Peak(B, extra) == [B EXCEPT !.peak = Max({@, lvl(B) + extra})]

Pushed(B, piece) == [B EXCEPT !.pieces = Append(@, piece)]
emptybuffer(B) == IF B.buffer = <<>> THEN B ELSE [Pushed(B, B.buffer) EXCEPT !.buffer = <<>>]
TopPieces(B, k) == FlattenSeq(SubSeq(B.pieces, lvl(B) - k + 1, lvl(B)))
(* Mutant: the number of pieces is not limited.                            *)
NoLimit(B) == Min({k \in 1 .. lvl(B) : k = lvl(B) \/ Len(TopPieces(B, k)) <= Len(B.pieces[lvl(B) - k])})
toget(B) ==
  Min({k \in 1 .. lvl(B) : k = lvl(B) \/ (lvl(B) - k + 1 < LIMIT /\ Len(TopPieces(B, k)) <= Len(B.pieces[lvl(B) - k]))})
lua_concat(B, k) == [B EXCEPT !.pieces = Append(SubSeq(@, 1, lvl(B) - k), TopPieces(B, k))]
adjuststack(B) == IF lvl(B) > 1 THEN lua_concat(B, toget(B)) ELSE B
luaL_prepbuffer(B) == IF B.buffer = <<>> THEN B ELSE adjuststack(Peak(emptybuffer(B), 0))

NewBytes(B, k) == [i \in 1 .. k |-> B.n + i]
InArray(B, k) == [B EXCEPT !.buffer = @ \o NewBytes(B, k), !.n = @ + k]
luaL_addchar(B) == InArray(IF bufffree(B) > 0 THEN B ELSE luaL_prepbuffer(B), 1)
luaL_addsize(B, k) == InArray(luaL_prepbuffer(B), k)
AsPiece(B, value) == adjuststack(Peak([Pushed(emptybuffer(B), value) EXCEPT !.n = @ + Len(value)], 0))
luaL_addvalue(B, k) == IF k <= bufffree(B) THEN Peak(InArray(B, k), 1) ELSE AsPiece(B, NewBytes(B, k))
luaL_pushresult(B) ==
  [B EXCEPT !.pieces = <<FlattenSeq(@) \o B.buffer>>, !.buffer = <<>>, !.peak = Max({@, lvl(emptybuffer(B)), 1}), !.done = TRUE]

BufferStep ==
  /\ call.fn = "buffer" /\ ~ call.done
  /\ \/ call.n < MaxBytes /\ call' = luaL_addchar(call)
     \/ \E k \in 0 .. LUAL_BUFFERSIZE : call.n + k <= MaxBytes /\ call' = luaL_addsize(call, k)
     \/ \E k \in 0 .. 2 * LUAL_BUFFERSIZE + 1 : call.n + k <= MaxBytes /\ call' = luaL_addvalue(call, k)
     \/ call' = luaL_pushresult(call)

(***************************************************************************)
(* References into the table t: t[0] is the head of the free list, refs     *)
(* what the program refers to.                                             *)
(***************************************************************************)
NIL == <<"nil">>
Link(ref) == <<"number", ref>>
NewTable == [fn |-> "ref", t |-> [k \in 0 .. MaxRef + 1 |-> NIL], refs |-> <<>>]
FREELIST_REF == 0
tointeger(v) == IF v[1] = "number" THEN v[2] ELSE 0
(* Any border of the table may be its length.                              *)
objlen(t) == {k \in 0 .. MaxRef : (k = 0 \/ t[k] # NIL) /\ t[k + 1] = NIL}
Referring(t, ref, v) == [call EXCEPT !.t = [t EXCEPT ![ref] = v], !.refs = (ref :> v) @@ @]
luaL_ref(v) ==
  /\ call.fn = "ref"
  /\ LET free == tointeger(call.t[FREELIST_REF])
     IN  IF free # 0
         THEN call' = Referring([call.t EXCEPT ![FREELIST_REF] = call.t[free]], free, v)
         ELSE \E n \in objlen(call.t) : n < MaxRef /\ call' = Referring(call.t, n + 1, v)
luaL_unref(ref) ==
  /\ call.fn = "ref"
  /\ call' = [call EXCEPT !.t = [@ EXCEPT ![ref] = call.t[FREELIST_REF], ![FREELIST_REF] = Link(ref)],
                          !.refs = [r \in DOMAIN @ \ {ref} |-> @[r]]]
RefStep == \/ \E v \in Referred : luaL_ref(v)
           \/ call.fn = "ref" /\ \E ref \in DOMAIN call.refs : luaL_unref(ref)

(***************************************************************************)
(* luaL_loadfile: pos is where the C stream reads next, eof and err are the *)
(* stream's flags, delivered is what getF has given to lua_load.           *)
(***************************************************************************)
ESC == "ESC"
EOF == "EOF"
loadfile(request) ==
  [fn |-> "loadfile", pc |-> "open", text |-> request.text, named |-> request.named, mode |-> "r", pos |-> 1,
   eof |-> FALSE, err |-> FALSE, extraline |-> FALSE, delivered |-> <<>>, ended |-> FALSE, closed |-> 0, status |-> ""]
Loading(pc) == call.fn = "loadfile" /\ call.pc = pc
LoadResult(c, status) == [c EXCEPT !.pc = "done", !.status = status]

fopen ==
  /\ Loading("open")
  /\ \/ call' = [call EXCEPT !.pc = "first"]
     \/ call.named /\ call' = LoadResult(call, "LUA_ERRFILE")

(* The stream at the first of the positions P, or at the end of the file.   *)
SeekIn(c, P) == IF P = {} THEN [c EXCEPT !.pos = Len(c.text) + 1, !.eof = TRUE] ELSE [c EXCEPT !.pos = Min(P)]
NextChar(c) == IF c.pos > Len(c.text) THEN EOF ELSE c.text[c.pos]
AfterLine(text) == {k \in 2 .. Len(text) + 1 : text[k - 1] = "\n"}
NoteEnd(c) == IF NextChar(c) = EOF THEN [c EXCEPT !.eof = TRUE] ELSE c
SkipComment(c) ==
  IF NextChar(c) = "#" THEN [NoteEnd(SeekIn(c, AfterLine(c.text))) EXCEPT !.extraline = TRUE] ELSE NoteEnd(c)
Binary(c) == NextChar(c) = ESC /\ c.named
FirstLine ==
  /\ Loading("first")
  /\ \/ call' = [SkipComment(call) EXCEPT !.pc = IF Binary(SkipComment(call)) THEN "reopen" ELSE "load"]
     \/ call' = [call EXCEPT !.pc = "load", !.err = TRUE, !.extraline = NextChar(call) = "#"]
freopen ==
  /\ Loading("reopen")
  /\ \/ call' = [SeekIn(call, {k \in DOMAIN call.text : call.text[k] = ESC}) EXCEPT !.pc = "load", !.mode = "rb", !.extraline = FALSE]
     \/ call' = [LoadResult(call, "LUA_ERRFILE") EXCEPT !.closed = @ + 1]

Delivered(c, bytes) == [c EXCEPT !.delivered = @ \o bytes]
fread(c) ==
  LET upto == Min({c.pos + LUAL_BUFFERSIZE - 1, Len(c.text)})
  IN  [Delivered(c, SubSeq(c.text, c.pos, upto)) EXCEPT !.pos = upto + 1, !.eof = upto < c.pos + LUAL_BUFFERSIZE - 1,
                                                        !.ended = upto < c.pos]
getF ==
  /\ Loading("load") /\ ~ call.ended
  /\ \/ call.extraline /\ call' = Delivered([call EXCEPT !.extraline = FALSE], <<"\n">>)
     \/ ~ call.extraline /\ (call.eof \/ call.err) /\ call' = [call EXCEPT !.ended = TRUE]
     \/ ~ call.extraline /\ ~ call.eof /\ ~ call.err /\ call' = fread(call)
     \/ ~ call.extraline /\ ~ call.eof /\ ~ call.err /\ call' = [call EXCEPT !.err = TRUE, !.ended = TRUE]
(* lua_load ends, at the end of the chunk or at an error in it.             *)
AfterLoad ==
  /\ Loading("load")
  /\ \E status \in IF call.ended THEN {"ok", "LUA_ERRSYNTAX"} ELSE {"LUA_ERRSYNTAX"} :
       call' = [LoadResult(call, IF call.err THEN "LUA_ERRFILE" ELSE status) EXCEPT !.closed = IF call.named THEN @ + 1 ELSE @]

Init == \/ call \in {luaL_buffinit, NewTable}
        \/ \E request \in FileRequests : call = loadfile(request)
Next == BufferStep \/ RefStep \/ fopen \/ FirstLine \/ freopen \/ getF \/ AfterLoad

(***************************************************************************)
(* Properties.                                                             *)
(***************************************************************************)
(* No byte is lost or moved, and however it grows, the buffer takes fewer    *)
(* than LIMIT slots of the stack between two calls, and two more in one.    *)
BufferHolds(B) ==
  /\ FlattenSeq(B.pieces) \o B.buffer = NewBytes([n |-> 0], B.n)
  /\ bufffree(B) >= 0 /\ lvl(B) <= LIMIT - 1 /\ B.peak <= LIMIT + 1
(* A reference in use keeps its value, and is not given out again.          *)
FreeList(t) == {k \in 1 .. MaxRef : t[k][1] = "number"}
RefsKept(c) ==
  /\ \A ref \in DOMAIN c.refs : ref # 0 /\ c.t[ref] = c.refs[ref]
  /\ Cardinality(DOMAIN c.refs \cup FreeList(c.t)) = Cardinality(DOMAIN c.refs) + Cardinality(FreeList(c.t))
  /\ tointeger(c.t[0]) \notin DOMAIN c.refs
(* The chunk of a file: a first line that starts with # reads as an empty   *)
(* one, and is not there at all before a precompiled chunk.                *)
Chunk(text, named) ==
  LET rest == IF AfterLine(text) = {} THEN <<>> ELSE SubSeq(text, Min(AfterLine(text)), Len(text))
  IN  CASE text = <<>> \/ text[1] # "#" -> text
        [] rest # <<>> /\ rest[1] = ESC /\ named -> rest
        [] OTHER -> <<"\n">> \o rest
FileLoaded(c) ==
  /\ c.err \/ IsPrefix(c.delivered, Chunk(c.text, c.named))
  /\ c.ended /\ ~ c.err => c.delivered = Chunk(c.text, c.named)
  /\ c.named /\ c.delivered # <<>> /\ c.delivered[1] = ESC => c.mode = "rb"
  /\ c.pc # "done" => c.closed = 0
  /\ c.status = "ok" => c.ended /\ ~ c.err
  /\ c.closed > 0 => c.named /\ c.closed = 1
  /\ c.pc = "done" /\ c.status # "LUA_ERRFILE" => (c.closed = 1) = c.named
AuxlibRight ==
  CASE call.fn = "buffer" -> BufferHolds(call)
    [] call.fn = "ref" -> RefsKept(call)
    [] call.fn = "loadfile" -> FileLoaded(call)
=============================================================================
