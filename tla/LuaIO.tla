-------------------------------- MODULE LuaIO --------------------------------
(***************************************************************************)
(* The I/O library (liolib.c): the life of file handles, and reading.       *)
(*                                                                         *)
(* Files: handle h is a userdata with a pointer to a C stream; handles 1 to *)
(* 3 are those of stdin, stdout and stderr.  The C library is external:     *)
(* streams[h] is what it has done with the stream that was opened for h.    *)
(* A handle is collected when neither the program, nor a generator of lines *)
(* nor a default file refers to it, and by lua_close.                       *)
(*                                                                         *)
(* Reading: g_read with its formats, over a buffer of LUAL_BUFFERSIZE       *)
(* bytes; one call of the C library is a step.                             *)
(***************************************************************************)
EXTENDS Integers, Sequences, SequencesExt, FiniteSetsExt

CONSTANTS MaxHandles,        (* bound: file handles, the standard ones too   *)
          IO_BUFFERSIZE,     (* LUAL_BUFFERSIZE                              *)
          ReadRequests       (* [text, formats]: files and what is read      *)
VARIABLE call                (* the program, or the read in progress         *)

Handles == 1 .. MaxHandles
IO_INPUT == 1
IO_OUTPUT == 2
Std == 1 .. 3
CloseOf == [std |-> "io_noclose", file |-> "io_fclose", pipe |-> "io_pclose"]
(* The userdata: pf, the pointer, is NULL when it is FALSE; close comes from *)
(* the environment of the function that has made it.                       *)
NoHandle == [pf |-> FALSE, close |-> "none", held |-> FALSE]
NewHandle(kind) == [pf |-> TRUE, close |-> CloseOf[kind], held |-> TRUE]
luaopen_io ==
  [fn |-> "files", handles |-> [h \in Handles |-> IF h \in Std THEN NewHandle("std") ELSE NoHandle],
   streams |-> [h \in Handles |-> IF h \in Std THEN "std" ELSE "none"],
   env |-> [i \in {IO_INPUT, IO_OUTPUT} |-> i], generators |-> {}, wrong |-> FALSE, open |-> TRUE]

(* The C library: a stream that is not open any more must not be used.      *)
IsOpen(c, h) == c.streams[h] \in {"std", "file", "pipe"}
Use(c, h) == [c EXCEPT !.wrong = @ \/ ~ IsOpen(c, h)]
CloseStream(c, h, kind) == [c EXCEPT !.wrong = @ \/ c.streams[h] # kind, !.streams[h] = "closed"]

(* Mutant: a closed handle keeps its pointer.                              *)
KeepPointer(c, h) ==
  CASE c.handles[h].close = "io_noclose" -> c
    [] c.handles[h].close = "io_fclose" -> CloseStream(c, h, "file")
    [] c.handles[h].close = "io_pclose" -> CloseStream(c, h, "pipe")
aux_close(c, h) ==
  CASE c.handles[h].close = "io_noclose" -> c
    [] c.handles[h].close = "io_fclose" -> [CloseStream(c, h, "file") EXCEPT !.handles[h].pf = FALSE]
    [] c.handles[h].close = "io_pclose" -> [CloseStream(c, h, "pipe") EXCEPT !.handles[h].pf = FALSE]
(* tofile and getiofile refuse a closed handle: the call ends in an error.  *)
tofile(c, h) == c.handles[h].pf

Programming == call.fn = "files" /\ call.open
Held == {h \in Handles : call.handles[h].held}
Fresh == {h \in Handles : call.handles[h].close = "none" /\ call.streams[h] = "none"}

(* newfile comes first: a memory error there leaves nothing open.           *)
newfile(c, h, kind) == [c EXCEPT !.handles[h] = [NewHandle(kind) EXCEPT !.pf = FALSE]]
Opening(c, h, kind) == [newfile(c, h, kind) EXCEPT !.handles[h].pf = TRUE, !.streams[h] = kind]
Dropped(c, h) == [c EXCEPT !.handles[h].held = FALSE]
Newest(h) == h = Min(Fresh)
io_open ==      \* io.open and io.tmpfile
  /\ Programming
  /\ \E h \in Fresh : Newest(h) /\ call' \in {Opening(call, h, "file"), Dropped(newfile(call, h, "file"), h)}
io_popen ==
  /\ Programming
  /\ \E h \in Fresh : Newest(h) /\ call' \in {Opening(call, h, "pipe"), Dropped(newfile(call, h, "pipe"), h)}

(* io.input and io.output with the name of a file, or with a handle.        *)
g_iofile(f) ==
  /\ Programming
  /\ \/ \E h \in Fresh : /\ Newest(h)
                         /\ call' \in {[Dropped(Opening(call, h, "file"), h) EXCEPT !.env[f] = h], Dropped(newfile(call, h, "file"), h)}
     \/ \E h \in Held : tofile(call, h) /\ call' = [call EXCEPT !.env[f] = h]
     \/ call' = [call EXCEPT !.handles[call.env[f]].held = TRUE]   \* no argument: the result is the file

io_close ==     \* io.close(), which closes the default output, and f:close()
  /\ Programming
  /\ \E h \in Held \cup {call.env[IO_OUTPUT]} : tofile(call, h) /\ call' = aux_close(call, h)
ReadOrWrite ==  \* io.read, io.write, f:read, f:write, f:seek, f:flush, ...
  /\ Programming
  /\ \E h \in Held \cup Range(call.env) : tofile(call, h) /\ call' = Use(call, h)

aux_lines(c, h, toclose) == [c EXCEPT !.generators = @ \cup {<<h, toclose>>}]
f_lines ==      \* f:lines() and io.lines()
  /\ Programming
  /\ \E h \in Held \cup {call.env[IO_INPUT]} : tofile(call, h) /\ call' = aux_lines(call, h, FALSE)
io_lines ==     \* io.lines(filename)
  /\ Programming
  /\ \E h \in Fresh : /\ Newest(h)
                      /\ call' \in {aux_lines(Dropped(Opening(call, h, "file"), h), h, TRUE), Dropped(newfile(call, h, "file"), h)}
io_readline ==
  /\ Programming
  /\ \E g \in call.generators :
       /\ tofile(call, g[1])
       /\ \/ call' = Use(call, g[1])                                                       \* a line, or an error
          \/ call' = IF g[2] THEN aux_close(Use(call, g[1]), g[1]) ELSE Use(call, g[1])     \* the end of the file

(* The program forgets a handle or a generator (the table io keeps the       *)
(* standard ones); the collector, and lua_close.                           *)
Forget ==
  /\ Programming
  /\ \/ \E h \in Held \ Std : call' = Dropped(call, h)
     \/ \E g \in call.generators : call' = [call EXCEPT !.generators = @ \ {g}]
Reachable == Held \cup Range(call.env) \cup {g[1] : g \in call.generators}
io_gc(c, h) == IF c.handles[h].pf THEN aux_close(c, h) ELSE c
Collect ==
  /\ Programming
  /\ \E h \in Handles \ (Reachable \cup Fresh) :
       /\ call.handles[h].close # "none"
       /\ call' = [io_gc(call, h) EXCEPT !.handles[h] = [NoHandle EXCEPT !.pf = io_gc(call, h).handles[h].pf]]
lua_close ==
  /\ Programming
  /\ LET alive == {h \in Handles : call.handles[h].close # "none"}
     IN  call' = [FoldLeft(LAMBDA c, h : io_gc(c, h), call, SetToSeq(alive)) EXCEPT !.open = FALSE]

Files ==
  \/ io_open \/ io_popen \/ g_iofile(IO_INPUT) \/ g_iofile(IO_OUTPUT) \/ io_close \/ ReadOrWrite
  \/ f_lines \/ io_lines \/ io_readline \/ Forget \/ Collect \/ lua_close

(***************************************************************************)
(* Reading: todo are the formats that are left, each <<"n">>, <<"l">>,      *)
(* <<"a">> or <<"c", count>>; a result is TRUE and a text, or FALSE (nil).  *)
(***************************************************************************)
Unbounded == 999999          (* ~((size_t)0)                                 *)
g_read(request) ==
  [fn |-> "read", text |-> request.text, formats |-> request.formats, todo |-> request.formats, pos |-> 1, buffer |-> <<>>,
   left |-> 0, begun |-> FALSE, starts |-> <<>>, results |-> <<>>]
Reading(format) == call.fn = "read" /\ call.todo # <<>> /\ call.todo[1][1] = format
Ahead(c) == SubSeq(c.text, c.pos, Len(c.text))
Consume(c, n) == [c EXCEPT !.buffer = @ \o SubSeq(c.text, c.pos, c.pos + n - 1), !.pos = @ + n]
(* One result, and whether it counts as read; after a failure none follows. *)
Pushed(c, begin, value, success) ==
  [c EXCEPT !.results = Append(@, <<success, IF success THEN value ELSE <<>>>>), !.starts = Append(@, begin),
            !.todo = IF success THEN Tail(@) ELSE <<>>, !.buffer = <<>>, !.begun = FALSE]
Begin(c) == c.pos - Len(c.buffer)

(* fgets takes at most IO_BUFFERSIZE - 1 bytes, up to a newline.            *)
fgets(c) == Min({n \in 1 .. Len(Ahead(c)) : n = IO_BUFFERSIZE - 1 \/ c.pos + n - 1 = Len(c.text) \/ c.text[c.pos + n - 1] = "\n"})
AddLine(c) == IF Last(c.buffer) = "\n" THEN Pushed(c, Begin(c), Front(c.buffer), TRUE) ELSE c
read_line ==
  /\ Reading("l")
  /\ call' = IF call.pos > Len(call.text) THEN Pushed(call, Begin(call), call.buffer, call.buffer # <<>>)
             ELSE AddLine(Consume(call, fgets(call)))

Counts(format) == IF format[1] = "a" THEN Unbounded ELSE format[2]
Left(c) == IF c.begun THEN c.left ELSE Counts(c.todo[1])
EndOfCount(c, n, nr, rlen) ==
  IF n > 0 /\ nr = rlen THEN [c EXCEPT !.left = n, !.begun = TRUE]
  ELSE Pushed(c, Begin(c), c.buffer, n = 0 \/ c.buffer # <<>> \/ c.todo[1][1] = "a")
read_chars ==
  /\ Reading("a") \/ Reading("c")
  /\ call.todo[1][1] = "c" => Counts(call.todo[1]) > 0
  /\ LET rlen == Min({IO_BUFFERSIZE, Left(call)})
         nr == Min({rlen, Len(Ahead(call))})
     IN  call' = EndOfCount(Consume(call, nr), Left(call) - nr, nr, rlen)
test_eof ==
  /\ Reading("c") /\ Counts(call.todo[1]) = 0
  /\ call' = Pushed(call, call.pos, <<>>, call.pos <= Len(call.text))

(* fscanf skips white space and then reads digits, here without an exponent. *)
Skipped(c) == Max({n \in 0 .. Len(Ahead(c)) : \A i \in 1 .. n : Ahead(c)[i] = "\n"})
Numeral(c, from) == Max({n \in 0 .. Len(c.text) - from + 1 : \A i \in from .. from + n - 1 : c.text[i] = "1"})
read_number ==
  /\ Reading("n")
  /\ LET from == call.pos + Skipped(call)
         n == Numeral(call, from)
     IN  call' = Pushed([call EXCEPT !.pos = from + n], call.pos, SubSeq(call.text, from, from + n - 1), n > 0)
Read == read_line \/ read_chars \/ test_eof \/ read_number

Init == call = luaopen_io \/ \E request \in ReadRequests : call = g_read(request)
Next == Files \/ Read

(***************************************************************************)
(* Properties.                                                             *)
(***************************************************************************)
(* Every stream is closed once, by the function for its kind, and not used  *)
(* after that; the standard ones are never closed; none is left open when   *)
(* nothing can close it any more, in particular after lua_close.            *)
FilesClosed(c) ==
  /\ ~ c.wrong
  /\ \A h \in Std : c.streams[h] = "std"
  /\ \A h \in Handles \ Std : c.streams[h] \in {"file", "pipe"} => c.open /\ c.handles[h].pf /\ c.handles[h].close # "none"
  /\ \A h \in Handles : c.handles[h].pf => IsOpen(c, h)
(* What a format reads, from the text after it has been begun at b: its     *)
(* value and where the next begins.                                        *)
LineAt(text, b) ==
  LET ends == {e \in b .. Len(text) : text[e] = "\n"}
  IN  CASE b > Len(text) -> <<FALSE, <<>>, b>>
        [] b <= Len(text) /\ ends = {} -> <<TRUE, SubSeq(text, b, Len(text)), Len(text) + 1>>
        [] OTHER -> <<TRUE, SubSeq(text, b, Min(ends) - 1), Min(ends) + 1>>
CharsAt(text, b, n) ==
  LET e == Min({b + n - 1, Len(text)}) IN <<(n = 0 /\ b <= Len(text)) \/ e >= b, SubSeq(text, b, e), e + 1>>
Expected(c, k) ==
  LET b == c.starts[k]
  IN  CASE c.formats[k][1] = "l" -> LineAt(c.text, b)
        [] c.formats[k][1] = "c" -> CharsAt(c.text, b, c.formats[k][2])
        [] c.formats[k][1] = "a" -> <<TRUE, SubSeq(c.text, b, Len(c.text)), Len(c.text) + 1>>
        [] c.formats[k][1] = "n" -> <<c.results[k][1], c.results[k][2], b + Skipped([c EXCEPT !.pos = b]) + Len(c.results[k][2])>>
(* Whatever the size of the buffer, each format reads what the manual says, *)
(* and the next one goes on after it.                                      *)
ReadRight(c) ==
  \A k \in DOMAIN c.results :
    /\ c.results[k] = SubSeq(Expected(c, k), 1, 2)
    /\ IF k < Len(c.results) THEN c.starts[k + 1] = Expected(c, k)[3]
       ELSE c.buffer = <<>> => c.pos = Expected(c, k)[3]
FilesRight ==
  CASE call.fn = "files" -> FilesClosed(call)
    [] call.fn = "read" -> ReadRight(call)
=============================================================================
