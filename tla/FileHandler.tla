----------------------------- MODULE FileHandler -----------------------------
(***************************************************************************)
(* class InFileHandler (src/file_handler.cpp) over AsyncInFile/AsyncInput  *)
(* (src/async/in_file.cpp, src/async/input.cpp): a bounded read buffer     *)
(* filled by the poll loop and emptied by the connection that sends the    *)
(* file.  A handler is a record:                                           *)
(*   src, len    the file opened and its length in units                   *)
(*   pos         units read from the file so far (the kernel's offset)     *)
(*   buf         _readbuffer.length(): the last buf of those units         *)
(*   eof         _eof, both of the handler and of its AsyncInFile          *)
(*   bad, denied _bad, and whether _badCode is EACCES                      *)
(*   fd          _fd holds a descriptor                                    *)
(*   polled      the descriptor was in the list when the running iteration *)
(*               of the loop called ::poll                                 *)
(* len is what the file system gives; pos is not a field of the code.      *)
(***************************************************************************)
EXTENDS HttpResponse

CONSTANT BufferSize                      \* DEFAULT_LOCAL_FILE_READBUFFER

ASSUME BufferSizeAssumption == BufferSize \in Nat \ {0}

Handlers ==
  [src : Sources, len : Nat, pos : Nat, buf : Nat, eof : BOOLEAN,
   bad : BOOLEAN, denied : BOOLEAN, fd : BOOLEAN, polled : BOOLEAN]

\* What the file system answers to open(2), and the file's length; a file the
\* configuration does not name, or that does not exist, is absent.
FileStates == [open : {"ok", "denied", "fails", "absent"}, len : Nat]

\* The constructor: a failed open leaves a bad handler without descriptor.
Open(src, f) ==
  [src |-> src, len |-> f.len, pos |-> 0, buf |-> 0, eof |-> FALSE,
   bad |-> f.open # "ok", denied |-> f.open = "denied",
   fd |-> f.open = "ok", polled |-> FALSE]

\* Mutant: the test misses the buffer that is exactly full.
ReadBufferOverfull(h) == h.buf > BufferSize

ReadBufferFull(h) == h.buf >= BufferSize

\* read(): at most BufferSize units, from the front of the buffer.
Taken(h)      == IF h.buf > BufferSize THEN BufferSize ELSE h.buf
ReadUnits(h)  == [i \in 1..Taken(h) |-> Unit(h.src, h.pos - h.buf + i)]
AfterRead(h)  == [h EXCEPT !.buf = @ - Taken(h)]

\* Mutant: the file is asked for a whole buffer, not for the space left.
GotWholeBuffer(h) == IF BufferSize < h.len - h.pos THEN BufferSize ELSE h.len - h.pos

\* AsyncInput::read(want) of a regular file: what it returns, in units.
Got(h) ==
  LET want == BufferSize - h.buf
      left == h.len - h.pos
  IN  IF want < left THEN want ELSE left

\* _readCb: a read that returns nothing counts as the end of the file and
\* drops the descriptor.
ReadCb(h) ==
  [h EXCEPT !.pos = @ + Got(h), !.buf = @ + Got(h),
            !.eof = Got(h) = 0, !.fd = Got(h) # 0]

\* _readCb when ::read fails: bad, with _badCode as it was.
ReadCbFails(h) == [h EXCEPT !.bad = TRUE]
=============================================================================
